----------------------------- MODULE MCSpeedMeter ------------------------------
(***************************************************************************)
(* Values for the constants of SpeedMeter: two ticks per window, four       *)
(* samples as in the code, and a packet shorter than the assumed header.    *)
(***************************************************************************)
EXTENDS SpeedMeter

\* Sorted is the sort of the TLC module.
ASSUME \A n \in 0..4 : \A s \in [1..n -> -1..3] : Sorted(s) = SortSeq(s, <)

MCPayload == {-1, 2}
MCTickBytes == -1..2
================================================================================
