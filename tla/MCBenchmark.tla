------------------------------ MODULE MCBenchmark ------------------------------
(***************************************************************************)
(* Values for the constants of Benchmark: two runs, of TCP or of UDP over   *)
(* two streams, with results in the same directory or in another.           *)
(***************************************************************************)
EXTENDS Benchmark

MCTests == {[proto |-> "TCP", streams |-> 2, dir |-> "T2S10Mbps"],
            [proto |-> "UDP", streams |-> 2, dir |-> "U2S10Mbps"]}
================================================================================
