------------------------------ MODULE MCKfifoHeap ------------------------------
(***************************************************************************)
(* Values for the constants of KfifoHeap, and so of Kfifo.  A millisecond is *)
(* four ticks, a second two milliseconds; a packet's time is its length over *)
(* the rate.                                                                 *)
(***************************************************************************)
EXTENDS KfifoHeap

MCUnit == 4
MCMsec == 2

\* At 4 bytes per second: half a unit, exactly one, two and a half, which jumps over
\* two nodes.
MCLen == [half |-> 1, unit |-> 2, jumbo |-> 5]
MCPktLen == [s \in Skb |-> MCLen[s]]
MCL2T == [r \in Rates |-> [s \in Skb |-> (MCLen[s] * MCUnit * MCMsec) \div r]]
MCMaxTime == 10
================================================================================
