------------------------------- MODULE MCRingSim -------------------------------
(***************************************************************************)
(* RingSim for TLC; the constants have their values in the .cfg files: a    *)
(* ring of three slots of two bytes, sent every second round.               *)
(***************************************************************************)
EXTENDS RingSim
================================================================================
