--------------------------------- MODULE MCTsf ---------------------------------
(***************************************************************************)
(* Values for the constants of Tsf.  A second is two milliseconds and a byte *)
(* takes one tick: a millisecond is two ticks and the rate 4 bytes per       *)
(* second, or one tick and 2 bytes per second.  HZ makes the bucket two      *)
(* ticks deep.                                                               *)
(***************************************************************************)
EXTENDS Tsf

MCUnit == 2
MCMsec == 2
MCLen == [half |-> 1, unit |-> 2, long |-> 3]
MCPktLen == [s \in Skb |-> MCLen[s]]
MCL2T == [r \in Rates |-> [s \in Skb |-> (MCLen[s] * UNIT_TIME * MCMsec) \div r]]
MCMaxTime == 2

\* The first segment takes the tokens of the bucket, the last one may wait.
MCSegments == [g \in Gso |-> <<IF "unit" \in Skb THEN "unit" ELSE "half", "half">>]
MCFailures == {TRUE, FALSE}
MCNoFailures == {FALSE}
================================================================================
