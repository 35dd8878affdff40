------------------------------ MODULE StreamMeter ------------------------------
(***************************************************************************)
(* The meter of many streams, MeasureRate/nstream.cpp.  The main thread     *)
(* runs handle_IP for each captured packet and gives each pair of ports a   *)
(* stream number; SIGPROF interrupts it, between any two of its steps, and  *)
(* test_func takes a sample of every stream and zeroes its byte count.      *)
(* Nothing masks the signal.  The handler itself is not interrupted.        *)
(*                                                                          *)
(* tot_ippkt_len[now_id] += n is a plain int updated on both sides: the     *)
(* build may do it in one instruction (AddInPlace) or load it, add and      *)
(* store it back (Load, Store).                                             *)
(***************************************************************************)
EXTENDS Integers, Sequences, FiniteSets

CONSTANTS Ports,        \* pairs of source and destination port
          qn,           \* entries of the arrays indexed by stream number
          Payload,      \* values of len-PACKET_HEADER, of packets no shorter than that
          MaxReceived   \* bound on the bytes received per stream

\* qn is to be set to the number of streams (readme.md); numbers start at 1.
ASSUME StreamAssumption == /\ IsFiniteSet(Ports)
                           /\ qn \in Nat /\ Cardinality(Ports) < qn
                           /\ Payload \subseteq Nat
                           /\ MaxReceived \in Nat

VARIABLES
  mp,           \* stream number per pair of ports, 0 when it has none
  stream_id,    \* the last number given
  tot_ippkt_len,
  packet,       \* the handle_IP in progress
  \* History variables: no other variable depends on them.
  received,     \* per stream: bytes added by handle_IP
  reported      \* per stream: bytes in the samples taken

vars == <<mp, stream_id, tot_ippkt_len, packet, received, reported>>

Stream == 1..qn-1
Idle == [pc |-> "idle"]
--------------------------------------------------------------------------------
(***************************************************************************)
(* handle_IP                                                                *)
(***************************************************************************)
\* Plausible bug: each packet is given a new number.
MutLookup(k, n) ==
  /\ packet = Idle
  /\ (IF mp[k] = 0 THEN 0 ELSE received[mp[k]]) + n <= MaxReceived
  /\ packet' = [pc |-> "assign", ports |-> k, len |-> n]
  /\ stream_id' = stream_id + 1
  /\ UNCHANGED <<mp, tot_ippkt_len, received, reported>>

\* A known stream, or a new one: stream_id is incremented before mp is assigned.
Lookup(k, n) ==
  /\ packet = Idle
  /\ (IF mp[k] = 0 THEN 0 ELSE received[mp[k]]) + n <= MaxReceived
  /\ packet' = IF mp[k] = 0 THEN [pc |-> "assign", ports |-> k, len |-> n]
               ELSE [pc |-> "add", id |-> mp[k], len |-> n]
  /\ stream_id' = IF mp[k] = 0 THEN stream_id + 1 ELSE stream_id
  /\ UNCHANGED <<mp, tot_ippkt_len, received, reported>>

\* Plausible bug: the number is the one found before the increment.
MutAssign ==
  /\ packet.pc = "assign"
  /\ mp' = [mp EXCEPT ![packet.ports] = IF stream_id > 1 THEN stream_id - 1 ELSE 1]
  /\ packet' = [pc |-> "add", id |-> mp'[packet.ports], len |-> packet.len]
  /\ UNCHANGED <<stream_id, tot_ippkt_len, received, reported>>

Assign ==
  /\ packet.pc = "assign"
  /\ mp' = [mp EXCEPT ![packet.ports] = stream_id]
  /\ packet' = [pc |-> "add", id |-> stream_id, len |-> packet.len]
  /\ UNCHANGED <<stream_id, tot_ippkt_len, received, reported>>

Received(id, n) == received' = [received EXCEPT ![id] = @ + n]

AddInPlace ==
  /\ packet.pc = "add"
  /\ tot_ippkt_len' = [tot_ippkt_len EXCEPT ![packet.id] = @ + packet.len]
  /\ Received(packet.id, packet.len)
  /\ packet' = Idle
  /\ UNCHANGED <<mp, stream_id, reported>>

\* Plausible bug: the count is set, not added to.
MutLoad ==
  /\ packet.pc = "add"
  /\ packet' = [pc |-> "store", id |-> packet.id, len |-> packet.len, sum |-> packet.len]
  /\ UNCHANGED <<mp, stream_id, tot_ippkt_len, received, reported>>

Load ==
  /\ packet.pc = "add"
  /\ packet' = [pc |-> "store", id |-> packet.id, len |-> packet.len,
                sum |-> tot_ippkt_len[packet.id] + packet.len]
  /\ UNCHANGED <<mp, stream_id, tot_ippkt_len, received, reported>>

Store ==
  /\ packet.pc = "store"
  /\ tot_ippkt_len' = [tot_ippkt_len EXCEPT ![packet.id] = packet.sum]
  /\ Received(packet.id, packet.len)
  /\ packet' = Idle
  /\ UNCHANGED <<mp, stream_id, reported>>
--------------------------------------------------------------------------------
(***************************************************************************)
(* test_func                                                                *)
(***************************************************************************)
\* The sample of each stream is pushed to its queue of four, of which only the
\* bytes that went through it are kept, up to a bound.
Report(i) == IF reported[i] + tot_ippkt_len[i] > 2 * MaxReceived THEN 2 * MaxReceived
             ELSE reported[i] + tot_ippkt_len[i]

TestFunc ==
  /\ reported' = [i \in Stream |-> IF i <= stream_id THEN Report(i) ELSE reported[i]]
  /\ tot_ippkt_len' = [i \in Stream |-> IF i <= stream_id THEN 0 ELSE tot_ippkt_len[i]]
  /\ UNCHANGED <<mp, stream_id, packet, received>>
--------------------------------------------------------------------------------
Init ==
  /\ mp = [k \in Ports |-> 0] /\ stream_id = 0
  /\ tot_ippkt_len = [i \in Stream |-> 0]
  /\ packet = Idle
  /\ received = [i \in Stream |-> 0] /\ reported = [i \in Stream |-> 0]

HandleIP == Assign \/ AddInPlace \/ Load \/ Store

Next == \/ \E k \in Ports, n \in Payload : Lookup(k, n)
        \/ HandleIP
        \/ TestFunc

Spec == Init /\ [][Next]_vars
--------------------------------------------------------------------------------
(***************************************************************************)
(* Properties                                                               *)
(***************************************************************************)
\* Every variable has its type; stream numbers stay within the arrays.
TypeOK ==
  /\ mp \in [Ports -> 0..qn-1] /\ stream_id \in 0..qn-1
  /\ tot_ippkt_len \in [Stream -> Nat]
  /\ received \in [Stream -> Nat] /\ reported \in [Stream -> Nat]
  /\ \/ packet = Idle
     \/ packet \in [pc : {"assign"}, ports : Ports, len : Payload]
     \/ packet \in [pc : {"add"}, id : Stream, len : Payload]
     \/ packet \in [pc : {"store"}, id : Stream, len : Payload, sum : Nat]

Assigning == packet.pc = "assign"
InUse == 1 .. (IF Assigning THEN stream_id - 1 ELSE stream_id)

\* Whenever the signal comes, the numbers in use are those up to stream_id, each
\* of one pair of ports, but for one being assigned, whose count is still zero.
StreamsDistinct ==
  /\ {mp[k] : k \in Ports} \ {0} = InUse
  /\ \A j, k \in Ports : mp[j] = mp[k] /\ mp[j] # 0 => j = k
  /\ \A i \in Stream \ InUse : tot_ippkt_len[i] = 0

\* No byte is lost to the signal: what handle_IP has added is in a sample or in
\* the count, whatever instructions the addition is made of.
NoByteLost == \A i \in Stream : received[i] <= reported[i] + tot_ippkt_len[i]
================================================================================
