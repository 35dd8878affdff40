------------------------------ MODULE MCTsfPaced ------------------------------
(***************************************************************************)
(* TsfPaced with the constants of MCTsf.                                     *)
(***************************************************************************)
EXTENDS MCTsf, TsfPaced

\* slept serves SleepingRingWakes alone and passed speaks of the step just taken:
\* states that differ in them are one here.
MCView == <<ring, bucket, watchdog, run, inner, test, job, status, pacing>>
================================================================================
