------------------------------ MODULE ToolProofs -------------------------------
(***************************************************************************)
(* The programs that are judged by the lines they print.  The meter of many*)
(* streams (StreamMeter, BurstMeter), for every set of streams and packets.*)
(* The benchmark script and its parsers (Benchmark, ResultParsers), for    *)
(* every set of tests, number of runs and choice of times: its directories *)
(* of results hold the whole output of one run, and the figures parsed from*)
(* that output.                                                            *)
(***************************************************************************)
EXTENDS BurstMeter, Benchmark, SumTheorems

\* A stream being numbered has no number in mp yet.
NumberPending == Assigning => mp[packet.ports] = 0 /\ stream_id >= 1

\* Nothing has been counted for a number not in use.
Unstarted == \A i \in Stream \ InUse : received[i] = 0

\* The guard of Lookup bounds what a packet in progress will have received.
PacketFits ==
  /\ \A i \in Stream : received[i] <= MaxReceived
  /\ Assigning => packet.len <= MaxReceived
  /\ packet.pc \in {"add", "store"} => /\ packet.id \in InUse
                                       /\ received[packet.id] + packet.len <= MaxReceived

\* The sum to be stored covers the packet's stream, whatever the signal reported
\* after the count was loaded.
SumCovers ==
  packet.pc = "store" =>
    received[packet.id] + packet.len <= reported[packet.id] + packet.sum

\* The inductive invariant.
IInv == /\ TypeOK
        /\ StreamsDistinct
        /\ NoByteLost
        /\ NumberPending
        /\ Unstarted
        /\ PacketFits
        /\ SumCovers
--------------------------------------------------------------------------------
\* The bounds and the payloads are numbers.
LEMMA ConstantsLemma ==
  /\ qn \in Nat /\ MaxReceived \in Nat
  /\ Payload \subseteq Nat
  /\ IsFiniteSet(Ports)
  /\ Cardinality(Ports) \in Nat
  /\ Cardinality(Ports) < qn
BY StreamAssumption, FS_CardinalityType

\* While a pair of ports has no number, the numbers given are fewer than the
\* pairs: one more fits the arrays.
LEMMA RoomLemma ==
  ASSUME IInv, packet = Idle, NEW k \in Ports, mp[k] = 0
  PROVE  stream_id + 1 \in 1..qn-1
<1> DEFINE others == Ports \ {k}
           pairOf == [i \in 1..stream_id |-> CHOOSE j \in Ports : mp[j] = i]
<1>1. stream_id \in Nat /\ stream_id <= qn-1
  BY ConstantsLemma DEF IInv, TypeOK
<1>2. InUse = 1..stream_id
  BY DEF InUse, Assigning, Idle
<1>3. \A i \in 1..stream_id : pairOf[i] \in Ports /\ mp[pairOf[i]] = i
  <2>1. \A i \in 1..stream_id : \E j \in Ports : mp[j] = i
    BY <1>2 DEF IInv, StreamsDistinct
  <2> QED
    BY <2>1
<1>4. \A i \in 1..stream_id : pairOf[i] \in others
  BY <1>1, <1>3
<1>5. pairOf \in Injection(1..stream_id, others)
  <2>1. pairOf \in [1..stream_id -> others]
    BY <1>4
  <2>2. \A i, j \in 1..stream_id : pairOf[i] = pairOf[j] => i = j
    BY <1>3
  <2> HIDE DEF pairOf
  <2> QED
    BY <2>1, <2>2 DEF Injection, IsInjective
<1>6. IsFiniteSet(others) /\ Cardinality(others) = Cardinality(Ports) - 1
  BY ConstantsLemma, FS_RemoveElement
<1>7. Cardinality(1..stream_id) <= Cardinality(others)
  BY <1>5, <1>6, FS_Injection
<1>8. Cardinality(1..stream_id) = stream_id
  BY <1>1, FS_Interval
<1> QED
  BY <1>1, <1>6, <1>7, <1>8, ConstantsLemma

\* The fields a packet in progress has at each step of handle_IP.
LEMMA PacketLemma ==
  ASSUME IInv
  PROVE  /\ packet.pc = "assign" => packet.ports \in Ports /\ packet.len \in Payload
         /\ packet.pc = "add" => packet.id \in Stream /\ packet.len \in Payload
         /\ packet.pc = "store" => /\ packet.id \in Stream /\ packet.len \in Payload
                                   /\ packet.sum \in Nat
<1>1. \/ packet = Idle
      \/ packet \in [pc : {"assign"}, ports : Ports, len : Payload]
      \/ packet \in [pc : {"add"}, id : Stream, len : Payload]
      \/ packet \in [pc : {"store"}, id : Stream, len : Payload, sum : Nat]
  BY DEF IInv, TypeOK
<1>2. CASE packet = Idle
  BY <1>2 DEF Idle
<1>3. CASE packet \in [pc : {"assign"}, ports : Ports, len : Payload]
  BY <1>3
<1>4. CASE packet \in [pc : {"add"}, id : Stream, len : Payload]
  BY <1>4
<1>5. CASE packet \in [pc : {"store"}, id : Stream, len : Payload, sum : Nat]
  BY <1>5
<1> QED
  BY <1>1, <1>2, <1>3, <1>4, <1>5
--------------------------------------------------------------------------------
\* Nothing has been received when the program starts.
LEMMA InitCorrect == Init => IInv
<1> SUFFICES ASSUME Init PROVE IInv
  OBVIOUS
<1>1. packet.pc = "idle"
  BY DEF Init, Idle
<1>2. TypeOK
  BY ConstantsLemma DEF Init, TypeOK, Stream
<1>3. StreamsDistinct
  BY <1>1, ConstantsLemma DEF Init, StreamsDistinct, InUse, Assigning, Stream
<1>4. NoByteLost /\ NumberPending /\ Unstarted /\ PacketFits /\ SumCovers
  BY <1>1, ConstantsLemma
     DEF Init, NoByteLost, NumberPending, Unstarted, PacketFits, SumCovers, Assigning
<1> QED
  BY <1>2, <1>3, <1>4 DEF IInv

\* A packet of a known stream.
LEMMA KnownStreamLemma ==
  ASSUME IInv, NEW k \in Ports, NEW n \in Payload, Lookup(k, n), mp[k] # 0
  PROVE  IInv'
<1>1. /\ packet.pc = "idle" /\ packet' = [pc |-> "add", id |-> mp[k], len |-> n]
      /\ stream_id' = stream_id
      /\ UNCHANGED <<mp, tot_ippkt_len, received, reported>>
      /\ received[mp[k]] + n <= MaxReceived
  BY DEF Lookup, Idle
<1>2. InUse' = InUse /\ ~Assigning /\ ~Assigning'
  BY <1>1 DEF InUse, Assigning
<1>3. mp[k] \in InUse /\ mp[k] \in Stream
  BY ConstantsLemma DEF IInv, StreamsDistinct, TypeOK, Stream
<1>4. TypeOK'
  BY <1>1, <1>3 DEF IInv, TypeOK
<1>5. StreamsDistinct' /\ NoByteLost' /\ Unstarted'
  BY <1>1, <1>2 DEF IInv, StreamsDistinct, NoByteLost, Unstarted
<1>6. NumberPending' /\ PacketFits' /\ SumCovers'
  BY <1>1, <1>2, <1>3 DEF IInv, NumberPending, PacketFits, SumCovers
<1> QED
  BY <1>4, <1>5, <1>6 DEF IInv

\* The first packet of a stream: stream_id is incremented, mp not yet assigned.
LEMMA NewStreamLemma ==
  ASSUME IInv, NEW k \in Ports, NEW n \in Payload, Lookup(k, n), mp[k] = 0
  PROVE  IInv'
<1>1. /\ packet = Idle /\ packet' = [pc |-> "assign", ports |-> k, len |-> n]
      /\ stream_id' = stream_id + 1
      /\ UNCHANGED <<mp, tot_ippkt_len, received, reported>>
      /\ 0 + n <= MaxReceived
  BY DEF Lookup
<1>2. stream_id' \in 1..qn-1
  BY <1>1, RoomLemma
<1>3. InUse = 1..stream_id /\ InUse' = InUse /\ Assigning'
  BY <1>1, ConstantsLemma DEF InUse, Assigning, Idle, IInv, TypeOK
<1>4. TypeOK'
  BY <1>1, <1>2 DEF IInv, TypeOK
<1>5. StreamsDistinct' /\ NoByteLost' /\ Unstarted'
  BY <1>1, <1>3 DEF IInv, StreamsDistinct, NoByteLost, Unstarted
<1>6. n \in Nat
  BY ConstantsLemma
<1>7. NumberPending' /\ PacketFits' /\ SumCovers'
  BY <1>1, <1>2, <1>3, <1>6 DEF IInv, NumberPending, PacketFits, SumCovers
<1> QED
  BY <1>4, <1>5, <1>7 DEF IInv

\* The number is stored in mp and comes into use.
LEMMA AssignLemma ==
  ASSUME IInv, Assign
  PROVE  IInv'
<1>1. /\ packet.pc = "assign"
      /\ mp' = [mp EXCEPT ![packet.ports] = stream_id]
      /\ packet' = [pc |-> "add", id |-> stream_id, len |-> packet.len]
      /\ UNCHANGED <<stream_id, tot_ippkt_len, received, reported>>
  BY DEF Assign
<1>2. /\ packet.ports \in Ports /\ packet.len \in Payload /\ packet.len \in Nat
      /\ packet.len <= MaxReceived
  BY <1>1, PacketLemma, ConstantsLemma DEF IInv, PacketFits, Assigning
<1>3. mp[packet.ports] = 0 /\ stream_id \in Stream
  BY <1>1, ConstantsLemma DEF IInv, NumberPending, Assigning, TypeOK, Stream
<1>4. stream_id \in Nat \ {0}
  BY <1>3, ConstantsLemma DEF Stream
<1>5. InUse = 1..stream_id-1 /\ InUse' = 1..stream_id /\ ~Assigning'
  BY <1>1 DEF InUse, Assigning
<1>6. stream_id \notin InUse /\ InUse' = InUse \cup {stream_id} /\ 0 \notin InUse
  BY <1>4, <1>5
<1>7. TypeOK'
  <2>1. mp' \in [Ports -> 0..qn-1]
    BY <1>1, <1>3 DEF IInv, TypeOK, Stream
  <2> QED
    BY <1>1, <1>2, <1>3, <2>1 DEF IInv, TypeOK
<1>8. StreamsDistinct'
  <2>1. \A j \in Ports : mp'[j] = IF j = packet.ports THEN stream_id ELSE mp[j]
    BY <1>1 DEF IInv, TypeOK
  <2>2. {mp[j] : j \in Ports} \ {0} = InUse
    BY DEF IInv, StreamsDistinct
  <2>3. {mp'[j] : j \in Ports} \ {0} = InUse \cup {stream_id}
    BY <1>2, <1>3, <1>4, <2>1, <2>2
  <2>4. \A j \in Ports : mp[j] # stream_id
    BY <1>4, <1>6, <2>2
  <2>5. \A i, j \in Ports : mp'[i] = mp'[j] /\ mp'[i] # 0 => i = j
    BY <2>1, <2>4 DEF IInv, StreamsDistinct
  <2>6. \A i \in Stream \ InUse' : tot_ippkt_len'[i] = 0
    BY <1>1, <1>6 DEF IInv, StreamsDistinct
  <2> QED
    BY <1>6, <2>3, <2>5, <2>6 DEF StreamsDistinct
<1>9. NoByteLost' /\ Unstarted' /\ NumberPending' /\ SumCovers'
  BY <1>1, <1>5, <1>6 DEF IInv, NoByteLost, Unstarted, NumberPending, SumCovers
<1>10. PacketFits'
  <2>1. received[stream_id] = 0
    BY <1>3, <1>6 DEF IInv, Unstarted
  <2> QED
    BY <1>1, <1>2, <1>5, <1>6, <2>1 DEF IInv, PacketFits
<1> QED
  BY <1>7, <1>8, <1>9, <1>10 DEF IInv
--------------------------------------------------------------------------------
\* What holds of the packet of an addition in progress.
LEMMA AddingLemma ==
  ASSUME IInv, packet.pc \in {"add", "store"}
  PROVE  /\ packet.id \in InUse /\ packet.id \in Stream
         /\ packet.len \in Payload /\ packet.len \in Nat
         /\ received[packet.id] + packet.len <= MaxReceived
         /\ ~Assigning /\ InUse = 1..stream_id
         /\ packet.pc = "store" => packet.sum \in Nat
BY PacketLemma, ConstantsLemma DEF IInv, PacketFits, Assigning, InUse

\* The packet's bytes reach its count, by an addition in place or by storing a
\* sum: the count then covers what its stream has received.
LEMMA CountedLemma ==
  ASSUME IInv, packet.pc \in {"add", "store"}, NEW total \in Nat,
         received[packet.id] + packet.len <= reported[packet.id] + total,
         tot_ippkt_len' = [tot_ippkt_len EXCEPT ![packet.id] = total],
         Received(packet.id, packet.len), packet' = Idle,
         UNCHANGED <<mp, stream_id, reported>>
  PROVE  IInv'
<1> DEFINE id == packet.id
<1>1. /\ id \in InUse /\ id \in Stream /\ packet.len \in Nat
      /\ received[id] + packet.len <= MaxReceived
      /\ InUse' = InUse /\ ~Assigning' /\ packet'.pc = "idle"
  BY AddingLemma DEF InUse, Assigning, Idle
<1>2. /\ \A i \in Stream : received[i] \in Nat /\ reported[i] \in Nat /\ tot_ippkt_len[i] \in Nat
      /\ \A i \in Stream : received'[i] = IF i = id THEN received[i] + packet.len ELSE received[i]
      /\ \A i \in Stream : tot_ippkt_len'[i] = IF i = id THEN total ELSE tot_ippkt_len[i]
  BY <1>1 DEF IInv, TypeOK, Received
<1>3. TypeOK'
  <2>1. received' \in [Stream -> Nat]
    BY <1>1, <1>2 DEF IInv, TypeOK, Received
  <2>2. tot_ippkt_len' \in [Stream -> Nat]
    BY <1>1 DEF IInv, TypeOK
  <2> QED
    BY <2>1, <2>2 DEF IInv, TypeOK
<1>4. StreamsDistinct'
  BY <1>1, <1>2 DEF IInv, StreamsDistinct
<1>5. NoByteLost'
  BY <1>1, <1>2 DEF IInv, NoByteLost
<1>6. NumberPending' /\ Unstarted' /\ SumCovers'
  BY <1>1, <1>2 DEF IInv, NumberPending, Unstarted, SumCovers
<1>7. PacketFits'
  BY <1>1, <1>2 DEF IInv, PacketFits
<1> QED
  BY <1>3, <1>4, <1>5, <1>6, <1>7 DEF IInv

LEMMA AddInPlaceLemma ==
  ASSUME IInv, AddInPlace
  PROVE  IInv'
<1>1. packet.pc = "add"
  BY DEF AddInPlace
<1>2. /\ packet.id \in Stream /\ packet.len \in Nat
      /\ received[packet.id] \in Nat /\ reported[packet.id] \in Nat
      /\ tot_ippkt_len[packet.id] \in Nat
  BY <1>1, AddingLemma DEF IInv, TypeOK
<1>3. received[packet.id] <= reported[packet.id] + tot_ippkt_len[packet.id]
  BY <1>2 DEF IInv, NoByteLost
<1>4. received[packet.id] + packet.len
        <= reported[packet.id] + (tot_ippkt_len[packet.id] + packet.len)
  BY <1>2, <1>3
<1>5. tot_ippkt_len' = [tot_ippkt_len EXCEPT ![packet.id] =
                          tot_ippkt_len[packet.id] + packet.len]
  BY DEF AddInPlace
<1>6. tot_ippkt_len[packet.id] + packet.len \in Nat
  BY <1>2
<1>7. /\ Received(packet.id, packet.len) /\ packet' = Idle
      /\ UNCHANGED <<mp, stream_id, reported>>
  BY DEF AddInPlace
<1> QED
  BY <1>1, <1>4, <1>5, <1>6, <1>7, CountedLemma

LEMMA StoreLemma ==
  ASSUME IInv, Store
  PROVE  IInv'
<1>1. packet.pc = "store" /\ packet.sum \in Nat
  BY AddingLemma DEF Store
<1>2. received[packet.id] + packet.len <= reported[packet.id] + packet.sum
  BY <1>1 DEF IInv, SumCovers
<1> QED
  BY <1>1, <1>2, CountedLemma DEF Store

\* The count is loaded; the signal may now come before the sum is stored.
LEMMA LoadLemma ==
  ASSUME IInv, Load
  PROVE  IInv'
<1>1. /\ packet.pc = "add"
      /\ packet' = [pc |-> "store", id |-> packet.id, len |-> packet.len,
                    sum |-> tot_ippkt_len[packet.id] + packet.len]
      /\ UNCHANGED <<mp, stream_id, tot_ippkt_len, received, reported>>
  BY DEF Load
<1>2. /\ packet.id \in InUse /\ packet.id \in Stream
      /\ packet.len \in Payload /\ packet.len \in Nat
      /\ received[packet.id] + packet.len <= MaxReceived
      /\ InUse' = InUse /\ ~Assigning'
  BY <1>1, AddingLemma DEF InUse, Assigning
<1>3. /\ received[packet.id] \in Nat /\ reported[packet.id] \in Nat
      /\ tot_ippkt_len[packet.id] \in Nat
      /\ received[packet.id] <= reported[packet.id] + tot_ippkt_len[packet.id]
  BY <1>2 DEF IInv, TypeOK, NoByteLost
<1>4. TypeOK'
  BY <1>1, <1>2, <1>3 DEF IInv, TypeOK
<1>5. StreamsDistinct' /\ NoByteLost' /\ NumberPending' /\ Unstarted'
  BY <1>1, <1>2 DEF IInv, StreamsDistinct, NoByteLost, NumberPending, Unstarted
<1>6. PacketFits'
  BY <1>1, <1>2 DEF IInv, PacketFits
<1>7. SumCovers'
  BY <1>1, <1>2, <1>3 DEF SumCovers
<1> QED
  BY <1>4, <1>5, <1>6, <1>7 DEF IInv

\* The signal, between any two steps of handle_IP.
LEMMA TestFuncLemma ==
  ASSUME IInv, TestFunc
  PROVE  IInv'
<1>1. /\ reported' = [i \in Stream |-> IF i <= stream_id THEN Report(i) ELSE reported[i]]
      /\ tot_ippkt_len' = [i \in Stream |-> IF i <= stream_id THEN 0 ELSE tot_ippkt_len[i]]
      /\ UNCHANGED <<mp, stream_id, packet, received>>
  BY DEF TestFunc
<1>2. InUse' = InUse /\ (Assigning' <=> Assigning)
  BY <1>1 DEF InUse, Assigning
<1>3. \A i \in Stream : /\ received[i] \in Nat /\ reported[i] \in Nat
                        /\ tot_ippkt_len[i] \in Nat
                        /\ received[i] <= MaxReceived
                        /\ received[i] <= reported[i] + tot_ippkt_len[i]
  BY DEF IInv, TypeOK, PacketFits, NoByteLost
<1>4. \A i \in Stream : Report(i) \in Nat /\ received[i] <= Report(i)
  BY <1>3, ConstantsLemma DEF Report
<1>5. TypeOK'
  <2>1. reported' \in [Stream -> Nat] /\ tot_ippkt_len' \in [Stream -> Nat]
    BY <1>1, <1>3, <1>4
  <2> QED
    BY <1>1, <2>1, ConstantsLemma DEF IInv, TypeOK
<1>6. StreamsDistinct'
  BY <1>1, <1>2 DEF IInv, StreamsDistinct
<1>7. NoByteLost'
  BY <1>1, <1>3, <1>4 DEF NoByteLost
<1>8. NumberPending' /\ Unstarted' /\ PacketFits'
  BY <1>1, <1>2 DEF IInv, NumberPending, Unstarted, PacketFits
<1>9. SumCovers'
  <2> SUFFICES ASSUME packet.pc = "store"
               PROVE  received[packet.id] + packet.len <= reported'[packet.id] + packet.sum
    BY <1>1 DEF SumCovers
  <2>1. /\ packet.id \in Stream /\ packet.len \in Nat /\ packet.sum \in Nat
        /\ received[packet.id] + packet.len <= MaxReceived
    BY AddingLemma
  <2>2. received[packet.id] + packet.len <= reported[packet.id] + packet.sum
    BY DEF IInv, SumCovers
  <2>3. \/ reported'[packet.id] = reported[packet.id]
        \/ reported'[packet.id] = reported[packet.id] + tot_ippkt_len[packet.id]
        \/ reported'[packet.id] = 2 * MaxReceived
    BY <1>1, <2>1 DEF Report
  <2> QED
    BY <1>3, <2>1, <2>2, <2>3, ConstantsLemma
<1> QED
  BY <1>5, <1>6, <1>7, <1>8, <1>9 DEF IInv
--------------------------------------------------------------------------------
\* Every step of the meter preserves the invariant.
LEMMA NextCorrect == IInv /\ [Next]_vars => IInv'
<1> SUFFICES ASSUME IInv, [Next]_vars PROVE IInv'
  OBVIOUS
<1>1. ASSUME NEW k \in Ports, NEW n \in Payload, Lookup(k, n) PROVE IInv'
  BY <1>1, KnownStreamLemma, NewStreamLemma
<1>2. CASE HandleIP
  BY <1>2, AssignLemma, AddInPlaceLemma, LoadLemma, StoreLemma DEF HandleIP
<1>3. CASE TestFunc
  BY <1>3, TestFuncLemma
<1>4. CASE UNCHANGED vars
  BY <1>4 DEF IInv, TypeOK, vars, StreamsDistinct, NoByteLost, NumberPending,
              Unstarted, PacketFits, SumCovers, InUse, Assigning
<1> QED
  BY <1>1, <1>2, <1>3, <1>4 DEF Next

\* The invariant of the meter of streams.
THEOREM StreamInvariance == Spec => []IInv
<1>1. Init => IInv
  BY InitCorrect
<1>2. IInv /\ [Next]_vars => IInv'
  BY NextCorrect
<1> QED
  BY <1>1, <1>2, PTL DEF Spec

\* Stream numbers stay within the arrays of nstream.cpp, for every set of streams
\* smaller than qn: handle_IP never indexes beyond them.
THEOREM StreamTypeCorrect == Spec => []TypeOK
<1>1. IInv => TypeOK
  BY DEF IInv
<1> QED
  BY <1>1, StreamInvariance, PTL

\* Wherever the signal interrupts handle_IP, each number in use is of one pair of
\* ports, and test_func visits the numbers in use.
THEOREM StreamsDistinctCorrect == Spec => []StreamsDistinct
<1>1. IInv => StreamsDistinct
  BY DEF IInv
<1> QED
  BY <1>1, StreamInvariance, PTL

\* Wherever the signal interrupts handle_IP's addition, no byte is lost.
THEOREM NoByteLostCorrect == Spec => []NoByteLost
<1>1. IInv => NoByteLost
  BY DEF IInv
<1> QED
  BY <1>1, StreamInvariance, PTL
--------------------------------------------------------------------------------
(***************************************************************************)
(* The burst meter                                                         *)
(***************************************************************************)
\* The bursts and the counts are numbers.
ParserType == [now : CInt, tot : CInt, byte : Int]
ParserOK ==
  /\ parser \in ParserType
  /\ noise \in BOOLEAN /\ over \in BOOLEAN
  /\ since \in Nat /\ dup \in Int /\ again \in Int /\ lost \in Int

\* What has come since the last signal is still in the counts, for the sum about to
\* be stored is of a count that the signal has at most cleared.
SinceInCounts ==
  /\ since <= InCounts
  /\ packet.pc = "store" => tot_ippkt_len[packet.id] + packet.len <= packet.sum

\* The inductive invariant of the burst meter, on top of that of the streams.
BurstInv == ParserOK /\ EveryByteAccounted /\ SinceInCounts

\* The meter with a parser behind it is the meter of many streams.
LEMMA BurstIsStream == BurstSpec => Spec
<1>1. BurstInit => Init
  BY DEF BurstInit
<1>2. [BurstNext]_burstVars => [Next]_vars
  BY DEF BurstNext, burstVars, Counted, CountedBadHlen, CountedTruncated, BurstAssign, BurstAdd,
         BurstLoad, BurstStore, NotIp, NotCounted, Signal, Next, HandleIP, vars
<1> QED
  BY <1>1, <1>2, PTL DEF BurstSpec, Spec

\* The sums over the streams.
LEMMA CountsLemma ==
  ASSUME IInv
  PROVE  /\ IsFiniteSet(Stream) /\ stream_id \in Nat
         /\ \A i \in Stream : tot_ippkt_len[i] \in Nat /\ received[i] \in Nat
         /\ InCounts = SumFunctionOnSet(tot_ippkt_len, Stream) /\ InCounts \in Nat
         /\ ReceivedInAll = SumFunctionOnSet(received, Stream) /\ ReceivedInAll \in Nat
         /\ InCounts' = SumFunctionOnSet(tot_ippkt_len', Stream)
         /\ ReceivedInAll' = SumFunctionOnSet(received', Stream)
<1>1. /\ IsFiniteSet(Stream) /\ stream_id \in Nat
      /\ \A i \in Stream : tot_ippkt_len[i] \in Nat /\ received[i] \in Nat
  <2>1. qn \in Nat /\ IsFiniteSet(Stream)
    BY ConstantsLemma, FS_Interval DEF Stream
  <2>2. /\ stream_id \in 0..qn-1
        /\ tot_ippkt_len \in [Stream -> Nat] /\ received \in [Stream -> Nat]
    BY DEF IInv, TypeOK
  <2> QED
    BY <2>1, <2>2
<1>2. /\ InCounts = SumFunctionOnSet(tot_ippkt_len, Stream)
      /\ ReceivedInAll = SumFunctionOnSet(received, Stream)
      /\ InCounts' = SumFunctionOnSet(tot_ippkt_len', Stream)
      /\ ReceivedInAll' = SumFunctionOnSet(received', Stream)
  BY DEF InCounts, ReceivedInAll, MapThenSumSet, SumFunctionOnSet, FoldFunctionOnSet, MapThenFoldSet, Stream
<1>3. SumFunctionOnSet(tot_ippkt_len, Stream) \in Nat /\ SumFunctionOnSet(received, Stream) \in Nat
  BY <1>1, SumOfNat
<1> QED
  BY <1>1, <1>2, <1>3

\* An int has a range of numbers around 0.
LEMMA IntLemma == INT_MAX \in Nat /\ CInt \subseteq Int /\ 0 \in CInt /\ 0..INT_MAX \subseteq CInt
<1>1. INT_MAX \in Nat
  BY IntAssumption
<1> QED
  BY <1>1 DEF CInt

\* A number read is 0, the one before, or the line.
LEMMA ReadLemma ==
  ASSUME NEW p \in ParserType, NEW line \in 0..INT_MAX \cup {Text, Blank}
  PROVE  /\ Read(p, line) \in CInt
         /\ line = Text => Read(p, line) = 0
         /\ line = Blank => Read(p, line) = p.now
         /\ line \in 0..INT_MAX => Read(p, line) = line
<1>1. Text = -1 /\ Blank = -2 /\ p.now \in CInt /\ INT_MAX \in Nat
  BY IntLemma DEF Text, Blank, ParserType
<1>2. /\ line = Text => Read(p, line) = 0
      /\ line = Blank => Read(p, line) = p.now
      /\ line \in 0..INT_MAX => Read(p, line) = line
  BY <1>1 DEF Read
<1> QED
  BY <1>1, <1>2, IntLemma

\* countTotContinuousByte keeps what it reads, in the burst or in the sum of bursts,
\* unless the burst grows beyond an int; the sum of bursts grows only on a line without
\* bytes.
LEMMA ParseLemma ==
  ASSUME NEW p \in ParserType, NEW line \in 0..INT_MAX \cup {Text, Blank}
  PROVE  /\ Parse(p, line) \in ParserType
         /\ ~Overflows(p, line)
              => Parse(p, line).byte + Parse(p, line).tot = p.byte + p.tot + Read(p, line)
         /\ Parse(p, line).byte # p.byte => Read(p, line) = 0
         /\ line = Text => Read(p, line) = 0 /\ ~Overflows(p, line)
         /\ line = Blank => Read(p, line) = p.now
         /\ line \in 0..INT_MAX => Read(p, line) = line
<1>1. PICK n \in CInt : n = Read(p, line)
  BY ReadLemma
<1>2. /\ INT_MAX \in Nat /\ CInt = -INT_MAX-1..INT_MAX
      /\ p.now \in CInt /\ p.tot \in CInt /\ p.byte \in Int
  BY IntLemma DEF ParserType, CInt
<1>3. Wrap(p.tot + n) \in CInt /\ (p.tot + n \in CInt => Wrap(p.tot + n) = p.tot + n)
  BY <1>1, <1>2 DEF Wrap
<1>4. Parse(p, line) \in ParserType
  <2>1. 0 \in CInt /\ p.byte + p.tot \in Int
    BY <1>2, IntLemma
  <2> QED
    BY <1>1, <1>2, <1>3, <2>1 DEF Parse, ParserType
<1>5. ~Overflows(p, line)
        => Parse(p, line).byte + Parse(p, line).tot = p.byte + p.tot + Read(p, line)
  BY <1>1, <1>2, <1>3 DEF Parse, Overflows
<1>6. Parse(p, line).byte # p.byte => Read(p, line) = 0
  BY <1>1 DEF Parse
<1>7. line = Text => ~Overflows(p, line)
  BY <1>2, ReadLemma DEF Overflows
<1> QED
  BY <1>4, <1>5, <1>6, <1>7, ReadLemma

\* The signal prints every byte in the counts, which are those of the streams up to
\* stream_id.
LEMMA TotalLemma ==
  ASSUME IInv
  PROVE  Total = InCounts
<1> DEFINE T == {i \in Stream : i <= stream_id}
<1>1. /\ IsFiniteSet(Stream) /\ T \in SUBSET Stream
      /\ \A i \in Stream : tot_ippkt_len[i] \in Int
      /\ InCounts = SumFunctionOnSet(tot_ippkt_len, Stream)
  BY CountsLemma
<1>2. \A i \in Stream \ T : tot_ippkt_len[i] = 0
  BY CountsLemma DEF IInv, StreamsDistinct, InUse, Stream
<1>3. Total = SumFunctionOnSet(tot_ippkt_len, T)
  BY DEF Total, MapThenSumSet, SumFunctionOnSet, FoldFunctionOnSet, MapThenFoldSet
<1> HIDE DEF T
<1> QED
  BY <1>1, <1>2, <1>3, SumSubset

LEMMA SignalLemma ==
  ASSUME IInv, BurstInv, Signal
  PROVE  BurstInv' /\ (~noise /\ parser'.byte # parser.byte => since = 0)
<1>1. /\ parser' = Parse(parser, EndLine(Total)) /\ noise' = FALSE /\ since' = 0
      /\ over' = (over \/ Overflows(parser, EndLine(Total))) /\ Total <= INT_MAX
      /\ lost' = IF noise THEN lost + Total ELSE lost
      /\ dup' = dup /\ again' = again /\ received' = received /\ packet' = packet
      /\ tot_ippkt_len' = [i \in Stream |-> IF i <= stream_id THEN 0 ELSE tot_ippkt_len[i]]
  BY DEF Signal, TestFunc
<1>2. PICK n \in Nat : n = Total /\ n = InCounts
  BY TotalLemma, CountsLemma
<1>3. /\ IsFiniteSet(Stream) /\ stream_id \in Nat /\ ReceivedInAll \in Nat
      /\ \A i \in Stream : tot_ippkt_len[i] \in Nat
      /\ InCounts' = SumFunctionOnSet(tot_ippkt_len', Stream)
      /\ ReceivedInAll' = ReceivedInAll
  BY <1>1, CountsLemma
<1>4. \A i \in Stream : tot_ippkt_len'[i] = 0
  BY <1>1, <1>3 DEF IInv, StreamsDistinct, InUse, Stream
<1>5. InCounts' = 0
  BY <1>3, <1>4, SumZero
<1>6. parser \in ParserType /\ noise \in BOOLEAN /\ over \in BOOLEAN
  BY DEF BurstInv, ParserOK
<1> DEFINE line == EndLine(Total)
<1>7. line \in 0..INT_MAX \cup {Text, Blank} /\ line = IF noise THEN Text ELSE n
  <2>1. n \in 0..INT_MAX
    BY <1>1, <1>2, IntLemma
  <2> QED
    BY <1>2, <2>1 DEF EndLine
<1>a. n \in 0..INT_MAX
  BY <1>1, <1>2, IntLemma
<1> HIDE DEF line
<1>8. /\ parser' \in ParserType
      /\ ~Overflows(parser, line)
           => parser'.byte + parser'.tot = parser.byte + parser.tot + Read(parser, line)
      /\ parser'.byte # parser.byte => Read(parser, line) = 0
      /\ Read(parser, line) = IF noise THEN 0 ELSE n
  BY <1>1, <1>6, <1>7, <1>a, ParseLemma DEF line
<1>b. over' \in BOOLEAN /\ (~over' => ~over /\ ~Overflows(parser, line))
  BY <1>1 DEF line
<1>9. ParserOK'
  <2>1. lost \in Int /\ dup \in Int /\ again \in Int
    BY DEF BurstInv, ParserOK
  <2>2. lost' \in Int
    <3>1. lost' = lost \/ lost' = lost + n
      BY <1>1, <1>2
    <3> QED
      BY <2>1, <3>1
  <2> QED
    BY <1>1, <1>8, <1>b, <2>1, <2>2 DEF ParserOK
<1>10. EveryByteAccounted'
  <2> SUFFICES ASSUME ~over'
               PROVE  ReceivedInAll' + dup' + again'
                        = parser'.byte + parser'.tot + InCounts' + lost'
    BY DEF EveryByteAccounted
  <2>1. ReceivedInAll + dup + again = parser.byte + parser.tot + n + lost
    BY <1>2, <1>b DEF BurstInv, EveryByteAccounted
  <2>2. /\ parser.byte \in Int /\ parser.tot \in Int /\ parser'.byte \in Int /\ parser'.tot \in Int
        /\ lost \in Int /\ dup \in Int /\ again \in Int
    BY <1>6, <1>8, IntLemma DEF BurstInv, ParserOK, ParserType
  <2>3. parser'.byte + parser'.tot + lost' = parser.byte + parser.tot + n + lost
    BY <1>1, <1>2, <1>6, <1>8, <1>b, <2>2
  <2>4. ReceivedInAll + dup + again = parser'.byte + parser'.tot + 0 + lost'
    BY <1>1, <1>2, <1>3, <2>1, <2>2, <2>3
  <2> QED
    BY <1>1, <1>3, <1>5, <2>4
<1>11. SinceInCounts'
  <2>1. packet.pc = "store" => packet.id \in Stream /\ packet.len \in Nat /\ packet.sum \in Nat
    BY PacketLemma, ConstantsLemma
  <2>2. packet.pc = "store" => 0 + packet.len <= packet.sum
    BY <1>3, <2>1 DEF BurstInv, SinceInCounts
  <2> QED
    BY <1>1, <1>4, <1>5, <2>1, <2>2 DEF SinceInCounts
<1>12. ~noise /\ parser'.byte # parser.byte => since = 0
  BY <1>2, <1>6, <1>8 DEF BurstInv, ParserOK, SinceInCounts
<1> QED
  BY <1>9, <1>10, <1>11, <1>12 DEF BurstInv

\* An addition, in one instruction or as it is stored: x is what it makes of the
\* packet's count.
LEMMA AdditionLemma ==
  ASSUME IInv, BurstInv, packet.pc \in {"add", "store"}, NEW x \in Nat,
         tot_ippkt_len[packet.id] + packet.len <= x,
         tot_ippkt_len' = [tot_ippkt_len EXCEPT ![packet.id] = x],
         Received(packet.id, packet.len), packet' = Idle,
         since' = since + packet.len,
         dup' = dup + (x - packet.len) - tot_ippkt_len[packet.id],
         UNCHANGED <<output, again, lost, over>>
  PROVE  BurstInv'
<1>1. packet.id \in Stream /\ packet.len \in Nat
  BY AddingLemma
<1>0. PICK id \in Stream : id = packet.id
  BY <1>1
<1>2. /\ IsFiniteSet(Stream)
      /\ \A i \in Stream : tot_ippkt_len[i] \in Nat /\ received[i] \in Nat
      /\ InCounts = SumFunctionOnSet(tot_ippkt_len, Stream) /\ InCounts \in Nat
      /\ ReceivedInAll = SumFunctionOnSet(received, Stream) /\ ReceivedInAll \in Nat
      /\ InCounts' = SumFunctionOnSet(tot_ippkt_len', Stream)
      /\ ReceivedInAll' = SumFunctionOnSet(received', Stream)
  BY CountsLemma
<1>3. tot_ippkt_len \in [Stream -> Nat] /\ received \in [Stream -> Nat]
  BY DEF IInv, TypeOK
<1>4. received' = [received EXCEPT ![packet.id] = @ + packet.len]
  BY DEF Received
<1>5. PICK t \in Nat : t = tot_ippkt_len[packet.id]
  BY <1>1, <1>2
<1>6. InCounts' = InCounts - t + x
  <2>0. id \in Stream /\ IsFiniteSet(Stream)
    BY <1>2
  <2>1. /\ \A i \in Stream : tot_ippkt_len[i] \in Int /\ tot_ippkt_len'[i] \in Int
        /\ \A i \in Stream \ {id} : tot_ippkt_len'[i] = tot_ippkt_len[i]
        /\ tot_ippkt_len'[id] = x
    BY <1>0, <1>2, <1>3
  <2>2. SumFunctionOnSet(tot_ippkt_len', Stream)
          = SumFunctionOnSet(tot_ippkt_len, Stream) - tot_ippkt_len[id] + tot_ippkt_len'[id]
    BY ONLY <2>0, <2>1, SumExcept
  <2> QED
    BY <1>0, <1>2, <1>5, <2>1, <2>2
<1>7. ReceivedInAll' = ReceivedInAll + packet.len
  <2>1. /\ \A i \in Stream : received[i] \in Int /\ received'[i] \in Int
        /\ \A i \in Stream \ {id} : received'[i] = received[i]
        /\ received'[id] = received[id] + packet.len
    BY <1>0, <1>1, <1>2, <1>3, <1>4
  <2>2. SumFunctionOnSet(received', Stream)
          = SumFunctionOnSet(received, Stream) - received[id] + received'[id]
    BY <1>2, <2>1, SumExcept
  <2> QED
    BY <1>1, <1>2, <2>1, <2>2
<1>8. /\ parser' = parser /\ noise' = noise /\ again' = again /\ lost' = lost /\ over' = over
      /\ parser.byte \in Int /\ parser.tot \in Int
      /\ since \in Nat /\ dup \in Int /\ again \in Int /\ lost \in Int
  BY IntLemma DEF BurstInv, ParserOK, ParserType, output
<1>9. ParserOK'
  BY <1>1, <1>5, <1>8 DEF BurstInv, ParserOK
<1>10. ASSUME ~over' PROVE EveryByteAccounted'
  <2>1. ReceivedInAll + dup + again = parser.byte + parser.tot + InCounts + lost
    BY <1>8, <1>10 DEF BurstInv, EveryByteAccounted
  <2>2. (ReceivedInAll + packet.len) + (dup + (x - packet.len) - t) + again
          = parser.byte + parser.tot + (InCounts - t + x) + lost
    BY <1>1, <1>2, <1>8, <2>1
  <2> QED
    BY <1>5, <1>6, <1>7, <1>8, <2>2 DEF EveryByteAccounted
<1>11. SinceInCounts'
  <2>1. since <= InCounts /\ t + packet.len <= x
    BY <1>5 DEF BurstInv, SinceInCounts
  <2>2. since \in Nat /\ packet.len \in Nat /\ InCounts \in Nat
    BY <1>1, <1>2, <1>8
  <2>3. since + packet.len <= InCounts - t + x
    BY <1>5, <2>1, <2>2
  <2>4. since' <= InCounts'
    BY <1>6, <2>3
  <2> QED
    BY <2>4 DEF SinceInCounts, Idle
<1> QED
  BY <1>9, <1>10, <1>11 DEF BurstInv, EveryByteAccounted

\* The steps that count nothing: n is read again from a line without a number.
LEMMA TextLemma ==
  ASSUME IInv, BurstInv, NEW n \in Int,
         UNCHANGED <<tot_ippkt_len, received, since, dup, lost>>,
         packet' = packet \/ packet'.pc # "store",
         noise' \in BOOLEAN, over' \in BOOLEAN, ~over' => ~over,
         parser' \in ParserType,
         ~over' => parser'.byte + parser'.tot = parser.byte + parser.tot + n,
         again' = again + n
  PROVE  BurstInv'
<1>1. InCounts' = InCounts /\ ReceivedInAll' = ReceivedInAll
  BY CountsLemma
<1>2. /\ InCounts \in Nat /\ ReceivedInAll \in Nat
      /\ parser.byte \in Int /\ parser.tot \in Int /\ parser'.byte \in Int /\ parser'.tot \in Int
      /\ dup \in Int /\ again \in Int /\ lost \in Int
  BY CountsLemma, IntLemma DEF BurstInv, ParserOK, ParserType
<1>3. ParserOK'
  BY <1>2 DEF BurstInv, ParserOK
<1>4. ASSUME ~over' PROVE EveryByteAccounted'
  <2>1. ReceivedInAll + dup + again = parser.byte + parser.tot + InCounts + lost
    BY <1>4 DEF BurstInv, EveryByteAccounted
  <2>2. ReceivedInAll + dup + (again + n) = parser'.byte + parser'.tot + InCounts + lost
    BY <1>2, <1>4, <2>1
  <2> QED
    BY <1>1, <2>2 DEF EveryByteAccounted
<1>5. SinceInCounts'
  BY <1>1 DEF BurstInv, SinceInCounts
<1> QED
  BY <1>3, <1>4, <1>5 DEF BurstInv, EveryByteAccounted

\* Every step of the burst meter preserves its invariant.
LEMMA BurstStep ==
  ASSUME IInv, BurstInv, [BurstNext]_burstVars
  PROVE  BurstInv'
<1>1. /\ parser \in ParserType /\ noise \in BOOLEAN /\ over \in BOOLEAN
      /\ parser.byte + parser.tot \in Int /\ parser.now \in CInt /\ again \in Int
      /\ parser.byte \in Int /\ parser.tot \in Int /\ parser.now \in Int
  <2>1. parser \in ParserType /\ noise \in BOOLEAN /\ over \in BOOLEAN /\ again \in Int
    BY DEF BurstInv, ParserOK
  <2>2. parser.now \in CInt /\ parser.tot \in CInt /\ parser.byte \in Int
    BY <2>1 DEF ParserType
  <2>3. parser.now \in Int /\ parser.tot \in Int
    BY <2>2, IntLemma
  <2> QED
    BY <2>1, <2>2, <2>3
<1>2. /\ Parse(parser, Text) \in ParserType
      /\ Parse(parser, Text).byte + Parse(parser, Text).tot = parser.byte + parser.tot
  <2>1. Text \in 0..INT_MAX \cup {Text, Blank}
    OBVIOUS
  <2>2. /\ Read(parser, Text) = 0
        /\ Parse(parser, Text) \in ParserType
        /\ Parse(parser, Text).byte + Parse(parser, Text).tot
             = parser.byte + parser.tot + Read(parser, Text)
    BY <1>1, <2>1, ParseLemma
  <2> QED
    BY <1>1, <2>2
<1>3. ASSUME UNCHANGED <<tot_ippkt_len, received, accounts>>, parser' = parser,
             packet' = packet \/ packet'.pc # "store", noise' \in BOOLEAN
      PROVE  BurstInv'
  <2>1. again' = again + 0 /\ parser'.byte + parser'.tot = parser.byte + parser.tot + 0
    BY <1>1, <1>3 DEF accounts
  <2> QED
    BY <1>1, <1>3, <2>1, TextLemma DEF accounts
<1>4. ASSUME UNCHANGED <<tot_ippkt_len, received, accounts>>, parser' = Parse(parser, Text),
             packet' = packet \/ packet'.pc # "store", noise' \in BOOLEAN
      PROVE  BurstInv'
  <2>1. again' = again + 0 /\ parser'.byte + parser'.tot = parser.byte + parser.tot + 0
    BY <1>1, <1>2, <1>4 DEF accounts
  <2>2. over' \in BOOLEAN /\ (~over' => ~over)
    BY <1>1, <1>4 DEF accounts
  <2>3. 0 \in Int
    OBVIOUS
  <2> QED
    BY <1>2, <1>4, <2>1, <2>2, <2>3, TextLemma DEF accounts
<1>5. ASSUME NEW k \in Ports, NEW n \in Payload, Lookup(k, n)
      PROVE  UNCHANGED <<tot_ippkt_len, received>> /\ packet'.pc # "store"
  BY <1>5 DEF Lookup
<1>6. CASE \E k \in Ports, n \in Payload : Counted(k, n)
  BY <1>1, <1>3, <1>5, <1>6 DEF Counted, output
<1>7. CASE \E k \in Ports, n \in Payload : CountedBadHlen(k, n)
  BY <1>4, <1>5, <1>7 DEF CountedBadHlen
<1>8. CASE \E k \in Ports, n \in Payload : CountedTruncated(k, n)
  <2>1. PICK k \in Ports, n \in Payload : CountedTruncated(k, n)
    BY <1>8
  <2>2. /\ UNCHANGED <<tot_ippkt_len, received>> /\ packet'.pc # "store"
        /\ parser' = Parse(Parse(parser, EndLine(Blank)), Text)
        /\ again' = IF noise THEN again ELSE again + parser.now
        /\ over' = (over \/ Overflows(parser, EndLine(Blank)))
        /\ noise' = FALSE /\ UNCHANGED <<since, dup, lost>>
    BY <1>5, <2>1 DEF CountedTruncated
  <2> DEFINE line == EndLine(Blank)
             p == Parse(parser, line)
  <2>3. line \in 0..INT_MAX \cup {Text, Blank} /\ line = IF noise THEN Text ELSE Blank
    BY DEF EndLine
  <2>a. over' \in BOOLEAN /\ (~over' => ~over /\ ~Overflows(parser, line))
    BY <2>2
  <2> HIDE DEF line
  <2>4. PICK m \in Int : /\ m = IF noise THEN 0 ELSE parser.now
                         /\ ~Overflows(parser, line) => p.byte + p.tot = parser.byte + parser.tot + m
                         /\ p \in ParserType
    BY <1>1, <2>3, ParseLemma
  <2> HIDE DEF p
  <2>b. Text \in 0..INT_MAX \cup {Text, Blank}
    OBVIOUS
  <2>c. parser' = Parse(p, Text)
    BY <2>2 DEF p, line
  <2>d. p.byte \in Int /\ p.tot \in Int
    BY <2>4, IntLemma DEF ParserType
  <2>5. parser' \in ParserType /\ parser'.byte + parser'.tot = p.byte + p.tot
    <3>1. /\ Parse(p, Text) \in ParserType /\ Read(p, Text) = 0
          /\ Parse(p, Text).byte + Parse(p, Text).tot = p.byte + p.tot + Read(p, Text)
      BY <2>4, <2>b, ParseLemma
    <3> QED
      BY <2>c, <2>d, <3>1
  <2>6. ~over' => parser'.byte + parser'.tot = parser.byte + parser.tot + m
    BY <2>a, <2>4, <2>5
  <2>7. again' = again + m
    BY <1>1, <2>2, <2>4
  <2> QED
    BY <2>2, <2>a, <2>5, <2>6, <2>7, TextLemma
<1>9. CASE BurstAssign
  BY <1>1, <1>3, <1>9 DEF BurstAssign, Assign, output
<1>10. CASE BurstLoad
  <2>1. /\ packet.pc = "add" /\ packet.id \in Stream
        /\ packet' = [pc |-> "store", id |-> packet.id, len |-> packet.len,
                      sum |-> tot_ippkt_len[packet.id] + packet.len]
        /\ UNCHANGED <<tot_ippkt_len, received, output, accounts>>
    BY <1>10, AddingLemma DEF BurstLoad, Load
  <2>2. InCounts' = InCounts /\ ReceivedInAll' = ReceivedInAll
    BY <2>1, CountsLemma
  <2>3. tot_ippkt_len[packet.id] + packet.len \in Nat
    BY <2>1, AddingLemma, CountsLemma
  <2>4. SinceInCounts'
    BY <2>1, <2>2, <2>3 DEF BurstInv, SinceInCounts, accounts
  <2> QED
    BY <2>1, <2>2, <2>4 DEF BurstInv, ParserOK, EveryByteAccounted, accounts, output
<1>11. CASE BurstAdd
  <2>1. /\ packet.pc = "add"
        /\ tot_ippkt_len' = [tot_ippkt_len EXCEPT ![packet.id] = @ + packet.len]
        /\ Received(packet.id, packet.len) /\ packet' = Idle
        /\ since' = since + packet.len /\ UNCHANGED <<output, again, lost, over>> /\ dup' = dup
    BY <1>11 DEF BurstAdd, AddInPlace
  <2>2. PICK x \in Nat : x = tot_ippkt_len[packet.id] + packet.len
    BY <2>1, AddingLemma, CountsLemma
  <2>3. dup' = dup + (x - packet.len) - tot_ippkt_len[packet.id]
    <3>1. packet.len \in Nat /\ tot_ippkt_len[packet.id] \in Nat /\ dup \in Int
      BY <2>1, AddingLemma, CountsLemma DEF BurstInv, ParserOK
    <3> QED
      BY <2>1, <2>2, <3>1
  <2>4. packet.pc \in {"add", "store"} /\ tot_ippkt_len[packet.id] + packet.len <= x
    BY <2>1, <2>2
  <2>5. tot_ippkt_len' = [tot_ippkt_len EXCEPT ![packet.id] = x]
    BY <2>1, <2>2
  <2> QED
    BY <2>1, <2>3, <2>4, <2>5, AdditionLemma
<1>12. CASE BurstStore
  <2>1. /\ packet.pc = "store"
        /\ tot_ippkt_len' = [tot_ippkt_len EXCEPT ![packet.id] = packet.sum]
        /\ Received(packet.id, packet.len) /\ packet' = Idle
        /\ since' = since + packet.len /\ UNCHANGED <<output, again, lost, over>>
        /\ dup' = dup + (packet.sum - packet.len) - tot_ippkt_len[packet.id]
    BY <1>12 DEF BurstStore, Store
  <2>2. packet.sum \in Nat /\ tot_ippkt_len[packet.id] + packet.len <= packet.sum
    BY <2>1, PacketLemma DEF BurstInv, SinceInCounts
  <2>3. packet.pc \in {"add", "store"}
    BY <2>1
  <2> QED
    BY <2>1, <2>2, <2>3, AdditionLemma
<1>13. CASE NotIp
  BY <1>3, <1>13 DEF NotIp, vars, accounts
<1>14. CASE NotCounted
  BY <1>4, <1>14 DEF NotCounted, vars, accounts
<1>15. CASE Signal
  BY <1>15, SignalLemma
<1>16. CASE UNCHANGED burstVars
  BY <1>1, <1>3, <1>16 DEF burstVars, vars, output
<1> QED
  BY <1>6, <1>7, <1>8, <1>9, <1>10, <1>11, <1>12, <1>13, <1>14, <1>15, <1>16 DEF BurstNext

\* Nothing has been printed when the program starts.
LEMMA BurstInitCorrect == BurstInit => BurstInv
<1> SUFFICES ASSUME BurstInit PROVE BurstInv
  OBVIOUS
<1>1. IInv /\ packet.pc = "idle"
  BY InitCorrect DEF BurstInit, Init, Idle
<1>2. InCounts = 0 /\ ReceivedInAll = 0
  <2>1. /\ IsFiniteSet(Stream)
        /\ InCounts = SumFunctionOnSet(tot_ippkt_len, Stream)
        /\ ReceivedInAll = SumFunctionOnSet(received, Stream)
    BY <1>1, CountsLemma
  <2>2. \A i \in Stream : tot_ippkt_len[i] = 0 /\ received[i] = 0
    BY DEF BurstInit, Init
  <2> QED
    BY <2>1, <2>2, SumZero
<1>3. ParserOK
  <2>1. parser \in ParserType
    <3>1. Unset \subseteq CInt /\ 0 \in CInt
      BY IntLemma, IntAssumption
    <3> QED
      BY <3>1 DEF BurstInit, ParserType
  <2>2. since \in Nat /\ dup \in Int /\ again \in Int /\ lost \in Int
    BY DEF BurstInit
  <2>3. noise \in BOOLEAN /\ over \in BOOLEAN
    BY DEF BurstInit
  <2> QED
    BY <2>1, <2>2, <2>3 DEF ParserOK
<1>4. parser.byte = 0 /\ parser.tot = 0 /\ dup = 0 /\ again = 0 /\ lost = 0 /\ since = 0
  BY DEF BurstInit
<1>5. EveryByteAccounted
  BY <1>2, <1>4 DEF EveryByteAccounted
<1>6. SinceInCounts
  BY <1>1, <1>2, <1>4 DEF SinceInCounts
<1> QED
  BY <1>3, <1>5, <1>6 DEF BurstInv

\* Wherever the signals come and whatever the parser's now holds at first, as long as
\* no burst overflows an int every byte handle_IP has counted is in a burst, in the burst
\* being added up or in a count, unless its number is printed behind text, and nothing
\* else is there but what is counted twice or added by a blank line.
THEOREM BytesCorrect == BurstSpec => []EveryByteAccounted
<1>1. BurstInv => EveryByteAccounted
  BY DEF BurstInv
<1>2. IInv /\ BurstInv /\ [BurstNext]_burstVars => BurstInv'
  BY BurstStep
<1>3. BurstSpec => []IInv
  BY BurstIsStream, StreamInvariance, PTL
<1> QED
  BY <1>1, <1>2, <1>3, BurstInitCorrect, PTL DEF BurstSpec

\* A burst ends on a readable number only after an interval without a packet.
THEOREM BurstsCorrect == BurstSpec => BurstEndsWhenQuiet
<1>1. IInv /\ BurstInv /\ [BurstNext]_burstVars => BurstInv'
  BY BurstStep
<1>2. IInv /\ BurstInv /\ [BurstNext]_burstVars
        => [Signal /\ ~noise /\ parser'.byte # parser.byte => since = 0]_burstVars
  BY SignalLemma
<1>3. BurstSpec => []IInv
  BY BurstIsStream, StreamInvariance, PTL
<1> QED
  BY <1>1, <1>2, <1>3, BurstInitCorrect, PTL DEF BurstSpec, BurstEndsWhenQuiet
--------------------------------------------------------------------------------
(***************************************************************************)
(* The benchmark: the inductive invariant                                  *)
(***************************************************************************)
\* The states of a tool, and of the script.
States == {"off", "starting", "running", "hung", "done", "failed", "killed"}
Dead == {"done", "failed", "killed"}
Commands == {"idle", "tshark", "parse", "replace", "move", "move_parsed", "clean"}

\* Lines of the tools' files, and figures of the parsers' files.
Lines == [kind : {"text", "local", "head", "row", "wide", "sum", "dash", "data"}, val : Int, run : Run]
Files == [made : BOOLEAN, data : Seq(Lines) \cup Seq(Int)]
OfTools == {"iperf_send", "speed_data", "send_pcap", "latency"}

\* A directory of files: a file that was not made is empty, and tools write lines.
Sane(f) ==
  /\ f \in [Names -> Files]
  /\ \A n \in Names : f[n].made \/ f[n].data = << >>
  /\ \A n \in OfTools : f[n].data \in Seq(Lines)

Typed ==
  /\ calls \in Seq(Tests) /\ run <= MaxRuns
  /\ script \in [pc : Commands, left : 0..SleepTime]
  /\ script.pc # "tshark" => script.left = 0
  /\ script.pc # "idle" => run >= 1
  /\ proc \in [Run -> [Tool -> [st : States, left : 0..SleepTime]]]
  /\ Sane(file)
  /\ results \in [Dirs -> [by : 0..run, file : [Names -> Files]]]
  /\ \A d \in Dirs : Sane(results[d].file)
  /\ alone \subseteq 1..run

\* The time a tool has at most.
Deadline(t, p) ==
  IF p.st = "starting" THEN p.left + ToolLimit
  ELSE IF p.st = "running" /\ t = "iperf" THEN p.left + (IperfLimit - TestTime)
  ELSE p.left

\* The sleep outlasts the tools of every run, and the script works on files of tools
\* that have ended.
InTime ==
  \A r \in Run, t \in Tool :
    /\ r > run => proc[r][t].st = "off"
    /\ r <= run => proc[r][t].st # "off"
    /\ proc[r][t].st \in {"hung", "done"} => t = "iperf"
    /\ proc[r][t].st = "running" => proc[r][t].left <= ToolLimit
    /\ Alive(proc[r][t]) =>
         /\ script.pc \in {"idle", "tshark"}
         /\ Deadline(t, proc[r][t]) <= MaxDelay + ToolLimit
         /\ script.pc = "tshark" => Deadline(t, proc[r][t]) < script.left

\* A tool that writes has a file.
OpenMade ==
  \A r \in Run, t \in Tool :
    proc[r][t].st \in {"running", "hung"} => file[Output(t)].made

\* The run under way began when no tool of another was alive.
Undisturbed == script.pc # "idle" /\ run \in alone

NoOthers ==
  Undisturbed => \A r \in Run \ {run}, t \in Tool : ~Alive(proc[r][t])
--------------------------------------------------------------------------------
\* What iperf3 prints over n streams: the lines that open it, intervals, and the summary.
Opened(d, n) ==
  /\ Len(d) >= n + 2
  /\ d[1].kind = "text" /\ \A i \in 2..n+1 : d[i].kind = "local"
  /\ d[n+2].kind = "head"
BodyFrom(d, a, b) == \A i \in a..b : d[i].kind \in {"row", "wide", "sum", "dash"}
Cut(d, n) == Opened(d, n) /\ BodyFrom(d, n + 3, Len(d))
Summed(d, n) ==
  /\ Opened(d, n)
  /\ \E m \in n+2..Len(d)-2 :
       /\ BodyFrom(d, n + 3, m)
       /\ d[m+1].kind = "dash" /\ d[m+2].kind = "head"
       /\ BodyFrom(d, m + 3, Len(d))

\* The text f of tool t in state p, of run r over n streams.
OwnText(t, n, r, p, f) ==
  /\ p.st = "failed" /\ t # "tcpdump" => f.made /\ f.data = << >>
  /\ p.st \notin {"off", "starting", "failed"} =>
       /\ f.made /\ \A i \in 1..Len(f.data) : f.data[i].run = r
       /\ t # "iperf" => Len(f.data) = ToolLimit - (IF p.st = "running" THEN p.left ELSE 0)
       /\ t = "iperf" => \/ p.st # "done" /\ Cut(f.data, n)
                         \/ p.st \notin {"running", "hung"} /\ Summed(f.data, n)

Figures(c, lines) == IF c.proto = "TCP" THEN Retr(lines) ELSE Jitter(lines)

\* The working directory of an undisturbed run, up to the command under way.
OwnFiles ==
  Undisturbed =>
    /\ script.pc \in {"tshark", "parse", "replace", "move"} =>
         \A t \in Tool : OwnText(t, test.streams, run, proc[run][t], file[Output(t)])
    /\ script.pc \in {"parse", "replace", "move"} =>
         file["latency"] = File(file["send_pcap"].data)
    /\ script.pc \in {"replace", "move"} =>
         file[Parsed(test)] = File(Figures(test, file["iperf_send"].data))
    /\ script.pc = "move_parsed" =>
         file[Parsed(test)] = File(Figures(test, Kept(test.dir, "iperf_send")))

\* The directory of results that is being filled.
Filling ==
  /\ script.pc \in {"move", "move_parsed"} =>
       /\ results[test.dir].by = run
       /\ \A n \in {"retr", "jitter"} : results[test.dir].file[n] = NoFile
  /\ script.pc = "move" => results[test.dir].file = [n \in Names |-> NoFile]

\* What is kept in directory d of a run b.
KeptFile(d, b, t, n) ==
  results[d].file[n].made =>
    OwnText(t, calls[b].streams, b, proc[b][t], results[d].file[n])

KeptText(d, b) ==
  /\ \A t \in Tool : proc[b][t].st \in Dead
  /\ KeptFile(d, b, "iperf", "iperf_send")
  /\ KeptFile(d, b, "speed", "speed_data")
  /\ KeptFile(d, b, "tcpdump", "latency")
  /\ results[d].file["retr"].made => Kept(d, "retr") = Retr(Kept(d, "iperf_send"))
  /\ results[d].file["jitter"].made => Kept(d, "jitter") = Jitter(Kept(d, "iperf_send"))

KeptOwn == \A d \in Sound : KeptText(d, results[d].by)

\* The inductive invariant of the benchmark.
BenchInv == Typed /\ InTime /\ OpenMade /\ NoOthers /\ OwnFiles /\ Filling /\ KeptOwn
--------------------------------------------------------------------------------
(***************************************************************************)
(* The parsers                                                             *)
(***************************************************************************)
RetrState == [id : BOOLEAN, out : Seq(Int)]
JitterState == [id : Nat, out : Seq(Int)]

\* The columns are integers, and a row's is its own figure.
LEMMA NinthFacts ==
  ASSUME NEW l \in Lines
  PROVE  /\ NinthInt(l) \in Int /\ NinthDouble(l) \in Int
         /\ l.kind = "row" => NinthInt(l) = l.val /\ NinthDouble(l) = l.val
<1>1. l.val \in Int
  BY DEF Lines
<1>2. CASE l.kind = "sum"
  BY <1>2 DEF NinthInt, NinthDouble, Garbage
<1>3. CASE l.kind = "wide"
  BY <1>3 DEF NinthInt, NinthDouble, Cwnd
<1>4. CASE l.kind # "sum" /\ l.kind # "wide"
  BY <1>1, <1>4 DEF NinthInt, NinthDouble
<1> QED
  BY <1>2, <1>3, <1>4

\* A line leaves the parsers in a state of theirs.
LEMMA RetrLineType ==
  ASSUME NEW p \in RetrState, NEW l \in Lines
  PROVE  RetrLine(p, l) \in RetrState
<1>1. p.id \in BOOLEAN /\ p.out \in Seq(Int)
  BY DEF RetrState
<1>2. NinthInt(l) \in Int
  BY NinthFacts
<1>3. Append(p.out, NinthInt(l)) \in Seq(Int)
  BY <1>1, <1>2
<1>4. CASE l.kind = "head"
  <2>1. RetrLine(p, l) = [p EXCEPT !.id = ~@]
    BY <1>4 DEF RetrLine, Long
  <2> QED
    BY <1>1, <2>1 DEF RetrState
<1>5. CASE l.kind # "head" /\ l.kind \in Long /\ p.id
  <2>1. RetrLine(p, l) = [p EXCEPT !.out = Append(@, NinthInt(l))]
    BY <1>5 DEF RetrLine
  <2> QED
    BY <1>1, <1>3, <2>1 DEF RetrState
<1>6. CASE l.kind # "head" /\ ~(l.kind \in Long /\ p.id)
  BY <1>6 DEF RetrLine
<1> QED
  BY <1>4, <1>5, <1>6

LEMMA JitterLineType ==
  ASSUME NEW p \in JitterState, NEW l \in Lines
  PROVE  JitterLine(p, l) \in JitterState
<1>1. p.id \in Nat /\ p.out \in Seq(Int)
  BY DEF JitterState
<1>2. NinthDouble(l) \in Int
  BY NinthFacts
<1>3. Append(p.out, NinthDouble(l)) \in Seq(Int)
  BY <1>1, <1>2
<1>4. CASE l.kind = "head"
  <2>1. JitterLine(p, l) = [p EXCEPT !.id = @ + 1]
    BY <1>4 DEF JitterLine, Long
  <2> QED
    BY <1>1, <2>1 DEF JitterState
<1>5. CASE l.kind # "head" /\ l.kind \in Long /\ p.id = 2
  <2>1. JitterLine(p, l) = [p EXCEPT !.out = Append(@, NinthDouble(l))]
    BY <1>5 DEF JitterLine
  <2> QED
    BY <1>1, <1>3, <2>1 DEF JitterState
<1>6. CASE l.kind # "head" /\ ~(l.kind \in Long /\ p.id = 2)
  BY <1>6 DEF JitterLine
<1> QED
  BY <1>4, <1>5, <1>6

\* tcp_Retr line by line.
LEMMA RetrRuns ==
  ASSUME NEW s \in Seq(Lines)
  PROVE  \E h \in [0..Len(s) -> RetrState] :
            /\ h[0] = [id |-> FALSE, out |-> << >>]
            /\ \A j \in 0..Len(s)-1 : h[j+1] = RetrLine(h[j], s[j+1])
            /\ Retr(s) = h[Len(s)].out
<1> DEFINE n == Len(s)
           F(g) == g = [t \in SUBSET (DOMAIN s) |-> IF t = {} THEN [id |-> FALSE, out |-> << >>]
                           ELSE RetrLine(g[t \ {Max(t)}], s[Max(t)])]
           T == [x \in RetrState \X (1..n) |-> RetrLine(x[1], s[x[2]])]
<1>1. n \in Nat /\ DOMAIN s = 1..n /\ \A j \in 1..n : s[j] \in Lines
  OBVIOUS
<1>2. Retr(s) = (CHOOSE g : F(g))[DOMAIN s].out
  BY DEF Retr, FoldLeft, MapThenFoldSet, Max
<1>3. T \in [RetrState \X (1..n) -> RetrState]
  <2>1. ASSUME NEW x \in RetrState \X (1..n) PROVE RetrLine(x[1], s[x[2]]) \in RetrState
    BY <1>1, RetrLineType
  <2> QED
    BY <2>1
<1>4. [id |-> FALSE, out |-> << >>] \in RetrState
  BY DEF RetrState
<1>5. \A v \in RetrState, j \in 1..n : T[<<v, j>>] = RetrLine(v, s[j])
  OBVIOUS
<1> HIDE DEF T
<1>6. PICK g \in [SUBSET (1..n) -> RetrState] : RunEq(g, T, [id |-> FALSE, out |-> << >>], n)
  BY ONLY <1>1, <1>3, <1>4, FoldRuns
<1>7. F(g)
  <2>1. ASSUME NEW t \in SUBSET (1..n), t # {}
        PROVE  T[<<g[t \ {Max(t)}], Max(t)>>] = RetrLine(g[t \ {Max(t)}], s[Max(t)])
    <3>1. Max(t) \in t
      BY ONLY <1>1, <2>1, MaxPicks
    <3>2. Max(t) \in 1..n /\ t \ {Max(t)} \in SUBSET (1..n)
      BY <3>1
    <3>3. g[t \ {Max(t)}] \in RetrState
      BY <3>2
    <3> QED
      BY <1>5, <3>2, <3>3
  <2> HIDE DEF n
  <2>2. [t \in SUBSET (1..n) |-> IF t = {} THEN [id |-> FALSE, out |-> << >>]
                                  ELSE T[<<g[t \ {Max(t)}], Max(t)>>]]
          = [t \in SUBSET (1..n) |-> IF t = {} THEN [id |-> FALSE, out |-> << >>]
                                     ELSE RetrLine(g[t \ {Max(t)}], s[Max(t)])]
    BY <2>1
  <2> QED
    BY <1>1, <1>6, <2>2 DEF RunEq
<1>8. PICK f : f = (CHOOSE g1 : F(g1))
  OBVIOUS
<1>9. F(f)
  BY <1>7, <1>8
<1>10. PICK h : h = [j \in 0..n |-> f[1..j]]
  OBVIOUS
<1>11. h[0] = [id |-> FALSE, out |-> << >>]
  <2>1. 1..0 = {} /\ {} \in SUBSET (DOMAIN s) /\ 0 \in 0..n
    BY <1>1
  <2> QED
    BY <1>9, <1>10, <2>1
<1>12. ASSUME NEW j \in 0..n-1 PROVE h[j+1] = RetrLine(h[j], s[j+1])
  <2>1. j \in Nat /\ 1..j+1 \in SUBSET (DOMAIN s) /\ j+1 \in 1..j+1 /\ j \in 0..n /\ j+1 \in 0..n
    BY <1>1
  <2>2. Max(1..j+1) = j+1 /\ (1..j+1) \ {j+1} = 1..j
    BY <2>1, MaxOfInterval
  <2>3. PICK t : t = 1..j+1
    OBVIOUS
  <2>4. f[t] = RetrLine(f[t \ {Max(t)}], s[Max(t)])
    BY <1>9, <2>1, <2>3
  <2> QED
    BY ONLY <1>10, <2>1, <2>2, <2>3, <2>4
<1> DEFINE P == {j \in Nat : j <= n => h[j] \in RetrState}
<1>13. \A j \in Nat : j \in P => j+1 \in P
  <2> SUFFICES ASSUME NEW j \in Nat, j \in P, j+1 <= n PROVE h[j+1] \in RetrState
    OBVIOUS
  <2>1. j \in 0..n-1 /\ j+1 \in 1..n /\ h[j] \in RetrState
    BY <1>1
  <2>2. s[j+1] \in Lines
    BY <1>1, <2>1
  <2> QED
    BY ONLY <1>12, <2>1, <2>2, RetrLineType
<1>14. 0 \in P
  BY <1>4, <1>11
<1> HIDE DEF P
<1>15. Nat \subseteq P
  BY ONLY <1>13, <1>14, NatSetInduction
<1>16. h \in [0..n -> RetrState]
  BY <1>1, <1>10, <1>15 DEF P
<1>17. Retr(s) = h[n].out
  <2>1. Retr(s) = f[1..n].out
    BY ONLY <1>1, <1>2, <1>8
  <2>2. n \in 0..n
    BY <1>1
  <2> QED
    BY ONLY <1>10, <2>1, <2>2
<1> QED
  BY <1>11, <1>12, <1>16, <1>17

\* jitter line by line.
LEMMA JitterRuns ==
  ASSUME NEW s \in Seq(Lines)
  PROVE  \E h \in [0..Len(s) -> JitterState] :
            /\ h[0] = [id |-> 0, out |-> << >>]
            /\ \A j \in 0..Len(s)-1 : h[j+1] = JitterLine(h[j], s[j+1])
            /\ Jitter(s) = h[Len(s)].out
<1> DEFINE n == Len(s)
           F(g) == g = [t \in SUBSET (DOMAIN s) |-> IF t = {} THEN [id |-> 0, out |-> << >>]
                           ELSE JitterLine(g[t \ {Max(t)}], s[Max(t)])]
           T == [x \in JitterState \X (1..n) |-> JitterLine(x[1], s[x[2]])]
<1>1. n \in Nat /\ DOMAIN s = 1..n /\ \A j \in 1..n : s[j] \in Lines
  OBVIOUS
<1>2. Jitter(s) = (CHOOSE g : F(g))[DOMAIN s].out
  BY DEF Jitter, FoldLeft, MapThenFoldSet, Max
<1>3. T \in [JitterState \X (1..n) -> JitterState]
  <2>1. ASSUME NEW x \in JitterState \X (1..n) PROVE JitterLine(x[1], s[x[2]]) \in JitterState
    BY <1>1, JitterLineType
  <2> QED
    BY <2>1
<1>4. [id |-> 0, out |-> << >>] \in JitterState
  BY DEF JitterState
<1>5. \A v \in JitterState, j \in 1..n : T[<<v, j>>] = JitterLine(v, s[j])
  OBVIOUS
<1> HIDE DEF T
<1>6. PICK g \in [SUBSET (1..n) -> JitterState] : RunEq(g, T, [id |-> 0, out |-> << >>], n)
  BY ONLY <1>1, <1>3, <1>4, FoldRuns
<1>7. F(g)
  <2>1. ASSUME NEW t \in SUBSET (1..n), t # {}
        PROVE  T[<<g[t \ {Max(t)}], Max(t)>>] = JitterLine(g[t \ {Max(t)}], s[Max(t)])
    <3>1. Max(t) \in t
      BY ONLY <1>1, <2>1, MaxPicks
    <3>2. Max(t) \in 1..n /\ t \ {Max(t)} \in SUBSET (1..n)
      BY <3>1
    <3>3. g[t \ {Max(t)}] \in JitterState
      BY <3>2
    <3> QED
      BY <1>5, <3>2, <3>3
  <2> HIDE DEF n
  <2>2. [t \in SUBSET (1..n) |-> IF t = {} THEN [id |-> 0, out |-> << >>]
                                  ELSE T[<<g[t \ {Max(t)}], Max(t)>>]]
          = [t \in SUBSET (1..n) |-> IF t = {} THEN [id |-> 0, out |-> << >>]
                                     ELSE JitterLine(g[t \ {Max(t)}], s[Max(t)])]
    BY <2>1
  <2> QED
    BY <1>1, <1>6, <2>2 DEF RunEq
<1>8. PICK f : f = (CHOOSE g1 : F(g1))
  OBVIOUS
<1>9. F(f)
  BY <1>7, <1>8
<1>10. PICK h : h = [j \in 0..n |-> f[1..j]]
  OBVIOUS
<1>11. h[0] = [id |-> 0, out |-> << >>]
  <2>1. 1..0 = {} /\ {} \in SUBSET (DOMAIN s) /\ 0 \in 0..n
    BY <1>1
  <2> QED
    BY <1>9, <1>10, <2>1
<1>12. ASSUME NEW j \in 0..n-1 PROVE h[j+1] = JitterLine(h[j], s[j+1])
  <2>1. j \in Nat /\ 1..j+1 \in SUBSET (DOMAIN s) /\ j+1 \in 1..j+1 /\ j \in 0..n /\ j+1 \in 0..n
    BY <1>1
  <2>2. Max(1..j+1) = j+1 /\ (1..j+1) \ {j+1} = 1..j
    BY <2>1, MaxOfInterval
  <2>3. PICK t : t = 1..j+1
    OBVIOUS
  <2>4. f[t] = JitterLine(f[t \ {Max(t)}], s[Max(t)])
    BY <1>9, <2>1, <2>3
  <2> QED
    BY ONLY <1>10, <2>1, <2>2, <2>3, <2>4
<1> DEFINE P == {j \in Nat : j <= n => h[j] \in JitterState}
<1>13. \A j \in Nat : j \in P => j+1 \in P
  <2> SUFFICES ASSUME NEW j \in Nat, j \in P, j+1 <= n PROVE h[j+1] \in JitterState
    OBVIOUS
  <2>1. j \in 0..n-1 /\ j+1 \in 1..n /\ h[j] \in JitterState
    BY <1>1
  <2>2. s[j+1] \in Lines
    BY <1>1, <2>1
  <2> QED
    BY ONLY <1>12, <2>1, <2>2, JitterLineType
<1>14. 0 \in P
  BY <1>4, <1>11
<1> HIDE DEF P
<1>15. Nat \subseteq P
  BY ONLY <1>13, <1>14, NatSetInduction
<1>16. h \in [0..n -> JitterState]
  BY <1>1, <1>10, <1>15 DEF P
<1>17. Jitter(s) = h[n].out
  <2>1. Jitter(s) = f[1..n].out
    BY ONLY <1>1, <1>2, <1>8
  <2>2. n \in 0..n
    BY <1>1
  <2> QED
    BY ONLY <1>10, <2>1, <2>2
<1> QED
  BY <1>11, <1>12, <1>16, <1>17

\* What tcp_Retr does with one line.
LEMMA RetrLineFacts ==
  ASSUME NEW p \in RetrState, NEW l \in Lines
  PROVE  /\ l.kind = "head" => RetrLine(p, l).id = ~p.id
         /\ l.kind # "head" => RetrLine(p, l).id = p.id
         /\ p.id /\ l.kind \in Long => RetrLine(p, l).out = Append(p.out, NinthInt(l))
         /\ ~(p.id /\ l.kind \in Long) => RetrLine(p, l).out = p.out
<1>1. p.id \in BOOLEAN /\ p.out \in Seq(Int) /\ DOMAIN p = {"id", "out"}
  BY DEF RetrState
<1>2. CASE l.kind = "head"
  <2>1. RetrLine(p, l) = [p EXCEPT !.id = ~@] /\ l.kind \notin Long
    BY <1>2 DEF RetrLine, Long
  <2> QED
    BY <1>1, <1>2, <2>1
<1>3. CASE l.kind # "head" /\ l.kind \in Long /\ p.id
  <2>1. RetrLine(p, l) = [p EXCEPT !.out = Append(@, NinthInt(l))]
    BY <1>3 DEF RetrLine
  <2> QED
    BY <1>1, <1>3, <2>1
<1>4. CASE l.kind # "head" /\ ~(l.kind \in Long /\ p.id)
  BY <1>4 DEF RetrLine
<1> QED
  BY <1>2, <1>3, <1>4

\* What jitter does with one line.
LEMMA JitterLineFacts ==
  ASSUME NEW p \in JitterState, NEW l \in Lines
  PROVE  /\ l.kind = "head" => JitterLine(p, l).id = p.id + 1
         /\ l.kind # "head" => JitterLine(p, l).id = p.id
         /\ p.id = 2 /\ l.kind \in Long => JitterLine(p, l).out = Append(p.out, NinthDouble(l))
         /\ ~(p.id = 2 /\ l.kind \in Long) => JitterLine(p, l).out = p.out
<1>1. p.id \in Nat /\ p.out \in Seq(Int) /\ DOMAIN p = {"id", "out"}
  BY DEF JitterState
<1>2. CASE l.kind = "head"
  <2>1. JitterLine(p, l) = [p EXCEPT !.id = @ + 1] /\ l.kind \notin Long
    BY <1>2 DEF JitterLine, Long
  <2> QED
    BY <1>1, <1>2, <2>1
<1>3. CASE l.kind # "head" /\ l.kind \in Long /\ p.id = 2
  <2>1. JitterLine(p, l) = [p EXCEPT !.out = Append(@, NinthDouble(l))]
    BY <1>3 DEF JitterLine
  <2> QED
    BY <1>1, <1>3, <2>1
<1>4. CASE l.kind # "head" /\ ~(l.kind \in Long /\ p.id = 2)
  BY <1>4 DEF JitterLine
<1> QED
  BY <1>2, <1>3, <1>4

\* The headers, line by line.
LEMMA HeadersStep ==
  ASSUME NEW s \in Seq(Lines)
  PROVE  /\ Headers(s, 0) = 0
         /\ \A k \in 0..Len(s) : Headers(s, k) \in Nat
         /\ \A k \in 0..Len(s)-1 :
              Headers(s, k+1) = Headers(s, k) + (IF s[k+1].kind = "head" THEN 1 ELSE 0)
<1> DEFINE H(k) == {j \in 1..k : s[j].kind = "head"}
<1>1. Headers(s, 0) = 0
  <2>1. H(0) = {}
    OBVIOUS
  <2> QED
    BY <2>1, FS_EmptySet DEF Headers
<1>2. ASSUME NEW k \in 0..Len(s)
      PROVE  IsFiniteSet(H(k)) /\ Headers(s, k) \in Nat
  <2>1. k \in Int /\ H(k) \subseteq 1..k
    OBVIOUS
  <2>2. IsFiniteSet(1..k)
    BY ONLY <2>1, 1 \in Int, FS_Interval
  <2> HIDE DEF H
  <2>3. IsFiniteSet(H(k))
    BY ONLY <2>1, <2>2, FS_Subset
  <2>4. Headers(s, k) = Cardinality(H(k))
    BY ONLY DEF Headers, H
  <2> QED
    BY ONLY <2>3, <2>4, FS_CardinalityType
<1>3. ASSUME NEW k \in 0..Len(s)-1
      PROVE  Headers(s, k+1) = Headers(s, k) + (IF s[k+1].kind = "head" THEN 1 ELSE 0)
  <2>1. k \in 0..Len(s)
    OBVIOUS
  <2>2. IsFiniteSet(H(k)) /\ Headers(s, k) = Cardinality(H(k)) /\ Headers(s, k) \in Nat
        /\ Headers(s, k+1) = Cardinality(H(k+1))
    BY <1>2, <2>1 DEF Headers
  <2>3. CASE s[k+1].kind = "head"
    <3>1. H(k+1) = H(k) \cup {k+1} /\ k+1 \notin H(k)
      BY <2>3
    <3> HIDE DEF H
    <3>2. Cardinality(H(k) \cup {k+1}) = Cardinality(H(k)) + 1
      BY ONLY <2>2, <3>1, FS_AddElement
    <3> QED
      BY <2>2, <2>3, <3>1, <3>2
  <2>4. CASE s[k+1].kind # "head"
    <3>1. H(k+1) = H(k)
      BY <2>4
    <3> HIDE DEF H
    <3> QED
      BY <2>2, <2>4, <3>1
  <2> QED
    BY <2>3, <2>4
<1> QED
  BY <1>1, <1>2, <1>3

\* Headers of a text of iperf3: none in its opening, one before the intervals, two
\* from the summary on.  m lines are printed before the summary.
LEMMA HeadersOf ==
  ASSUME NEW s \in Seq(Lines), NEW n \in Nat, NEW m \in Nat, Opened(s, n),
         n + 2 <= m, m <= Len(s), BodyFrom(s, n + 3, m),
         m < Len(s) => /\ m + 2 <= Len(s) /\ s[m+1].kind = "dash" /\ s[m+2].kind = "head"
                       /\ BodyFrom(s, m + 3, Len(s)),
         NEW k \in 0..Len(s)
  PROVE  Headers(s, k) = IF k < n + 2 THEN 0 ELSE IF k < m + 2 THEN 1 ELSE 2
<1> DEFINE Of(j) == IF j < n + 2 THEN 0 ELSE IF j < m + 2 THEN 1 ELSE 2
           P == {j \in Nat : j <= Len(s) => Headers(s, j) = Of(j)}
<1>1. 0 \in P
  BY HeadersStep
<1>2. ASSUME NEW j \in Nat, j \in P PROVE j + 1 \in P
  <2> SUFFICES ASSUME j + 1 <= Len(s) PROVE Headers(s, j+1) = Of(j+1)
    OBVIOUS
  <2>1. j \in 0..Len(s)-1 /\ Headers(s, j) = Of(j)
    BY <1>2
  <2>2. Headers(s, j+1) = Of(j) + (IF s[j+1].kind = "head" THEN 1 ELSE 0)
    BY <2>1, HeadersStep
  <2>3. CASE j + 1 < n + 2
    <3>1. s[j+1].kind # "head"
      BY <2>3 DEF Opened
    <3> QED
      BY <2>2, <2>3, <3>1
  <2>4. CASE j + 1 = n + 2
    <3>1. s[j+1].kind = "head"
      BY <2>4 DEF Opened
    <3> QED
      BY <2>2, <2>4, <3>1
  <2>5. CASE n + 2 < j + 1 /\ j + 1 <= m
    <3>1. s[j+1].kind # "head"
      BY <2>5 DEF BodyFrom
    <3> QED
      BY <2>2, <2>5, <3>1
  <2>6. CASE j + 1 = m + 1
    <3>1. s[j+1].kind # "head"
      BY <2>6
    <3> QED
      BY <2>2, <2>6, <3>1
  <2>7. CASE j + 1 = m + 2
    <3>1. s[j+1].kind = "head"
      BY <2>7
    <3> QED
      BY <2>2, <2>7, <3>1
  <2>8. CASE m + 2 < j + 1
    <3>1. j+1 \in m+3..Len(s) /\ m < Len(s)
      BY <2>8
    <3>2. s[j+1].kind # "head"
      BY <3>1 DEF BodyFrom
    <3> QED
      BY <2>2, <2>8, <3>2
  <2> QED
    BY <2>3, <2>4, <2>5, <2>6, <2>7, <2>8
<1> HIDE DEF P
<1>3. Nat \subseteq P
  BY ONLY <1>1, <1>2, NatSetInduction
<1> QED
  BY <1>3 DEF P

\* No text of iperf3, cut off or not, has a third header, nor a line that tells of a
\* connection after the first; a whole one has two.
Orderly(s) ==
  \A k \in 1..Len(s) : Headers(s, k) <= 2 /\ (s[k].kind = "local" => Headers(s, k) = 0)

LEMMA TextOrder ==
  ASSUME NEW s \in Seq(Lines), NEW n \in Nat, s = << >> \/ Cut(s, n) \/ Summed(s, n)
  PROVE  Orderly(s) /\ (Summed(s, n) => Headers(s, Len(s)) = 2)
<1>1. CASE s = << >>
  BY <1>1 DEF Orderly, Summed, Opened
<1>2. CASE Cut(s, n)
  <2>1. Opened(s, n) /\ n + 2 <= Len(s) /\ Len(s) \in Nat
    BY <1>2 DEF Cut, Opened
  <2>2. \A k \in 0..Len(s) :
          Headers(s, k) = IF k < n + 2 THEN 0 ELSE IF k < Len(s) + 2 THEN 1 ELSE 2
    BY <1>2, <2>1, HeadersOf DEF Cut
  <2>3. \A k \in 1..Len(s) : s[k].kind = "local" => k < n + 2
    BY <1>2, <2>1 DEF Cut, Opened, BodyFrom
  <2>4. ~Summed(s, n)
    BY <1>2, <2>1 DEF Summed, Cut, BodyFrom
  <2> QED
    BY <2>1, <2>2, <2>3, <2>4 DEF Orderly
<1>3. CASE Summed(s, n)
  <2>1. PICK m \in n+2..Len(s)-2 : /\ BodyFrom(s, n + 3, m)
                                   /\ s[m+1].kind = "dash" /\ s[m+2].kind = "head"
                                   /\ BodyFrom(s, m + 3, Len(s))
    BY <1>3 DEF Summed
  <2>2. Opened(s, n) /\ m \in Nat /\ Len(s) \in Nat /\ n + 2 <= m /\ m + 2 <= Len(s)
    BY <1>3 DEF Summed
  <2>3. \A k \in 0..Len(s) : Headers(s, k) = IF k < n + 2 THEN 0 ELSE IF k < m + 2 THEN 1 ELSE 2
    BY <2>1, <2>2, HeadersOf
  <2>4. ASSUME NEW k \in 1..Len(s), s[k].kind = "local" PROVE k < n + 2
    <3>1. k # n + 2 /\ k # m + 1 /\ k # m + 2
      BY <2>1, <2>2, <2>4 DEF Opened
    <3>2. ~(k \in n+3..m) /\ ~(k \in m+3..Len(s))
      BY <2>1, <2>4 DEF BodyFrom
    <3> QED
      BY <2>2, <3>1, <3>2
  <2> QED
    BY <2>2, <2>3, <2>4 DEF Orderly
<1> QED
  BY <1>1, <1>2, <1>3

\* Lines strung together.
LEMMA FlatLines ==
  ASSUME NEW n \in Nat, NEW a, \A j \in 1..n : a[j] \in Seq(Lines)
  PROVE  /\ Flat(a, 0) = << >>
         /\ \A m \in 0..n : Flat(a, m) \in Seq(Lines)
         /\ \A m \in 0..n-1 : Flat(a, m+1) = Flat(a, m) \o a[m+1]
<1>1. PICK X : X = Lines
  OBVIOUS
<1>2. \A j \in 1..n : a[j] \in Seq(X)
  BY <1>1
<1>3. /\ Flat(a, 0) = << >>
      /\ \A m \in 0..n : Flat(a, m) \in Seq(X)
      /\ \A m \in 0..n-1 : Flat(a, m+1) = Flat(a, m) \o a[m+1]
  BY ONLY n \in Nat, <1>2, FlatStep
<1> QED
  BY ONLY <1>1, <1>3

\* A text of figures that grows by one at each result after c headers has, in the
\* end, a figure for each in its place.
LEMMA Printed ==
  ASSUME NEW s \in Seq(Lines), NEW c \in Nat, NEW out \in [0..Len(s) -> Seq(Int)],
         out[0] = << >>,
         \A k \in 0..Len(s)-1 :
           IF s[k+1].kind \in {"row", "wide", "sum"} /\ Headers(s, k+1) = c
           THEN \E x \in Int : /\ out[k+1] = Append(out[k], x)
                               /\ s[k+1].kind = "row" => x = s[k+1].val
           ELSE out[k+1] = out[k]
  PROVE  InPlace(out[Len(s)], Results(s, c))
<1> DEFINE N == Len(s)
           R(k) == s[k].kind \in {"row", "wide", "sum"} /\ Headers(s, k) = c
           a == [k \in 1..N |-> IF R(k) THEN <<s[k]>> ELSE << >>]
           P == {k \in Nat : k <= N => InPlace(out[k], Flat(a, k))}
<1>1. N \in Nat /\ \A k \in 1..N : a[k] \in Seq(Lines)
  <2>1. ASSUME NEW k \in 1..N PROVE a[k] \in Seq(Lines)
    <3>1. s[k] \in Lines /\ (a[k] = <<s[k]>> \/ a[k] = << >>)
      OBVIOUS
    <3>2. <<s[k]>> \in Seq(Lines) /\ << >> \in Seq(Lines)
      BY <3>1
    <3> QED
      BY ONLY <3>1, <3>2
  <2>2. N \in Nat
    OBVIOUS
  <2> HIDE DEF a, N
  <2> QED
    BY ONLY <2>1, <2>2
<1>2. /\ Flat(a, 0) = << >>
      /\ \A k \in 0..N : Flat(a, k) \in Seq(Lines)
      /\ \A k \in 0..N-1 : Flat(a, k+1) = Flat(a, k) \o a[k+1]
  <2> HIDE DEF a, N
  <2> QED
    BY ONLY <1>1, FlatLines
<1>3. Results(s, c) = Flat(a, N)
  <2>1. [j \in 1..N |-> a[j]] = a
    OBVIOUS
  <2> QED
    BY <2>1 DEF Results, Flat
<1>4. 0 \in P
  <2> HIDE DEF a
  <2> QED
    BY <1>2 DEF InPlace
<1>5. ASSUME NEW k \in Nat, k \in P PROVE k + 1 \in P
  <2> SUFFICES ASSUME k + 1 <= N PROVE InPlace(out[k+1], Flat(a, k+1))
    OBVIOUS
  <2>1. k \in 0..N-1 /\ k \in 0..N /\ k+1 \in 1..N /\ s[k+1] \in Lines
    BY <1>1
  <2>2. PICK u, o, l : u = Flat(a, k) /\ o = out[k] /\ l = s[k+1]
    OBVIOUS
  <2>3. u \in Seq(Lines) /\ o \in Seq(Int) /\ l \in Lines
    <3> HIDE DEF a
    <3> QED
      BY <1>2, <2>1, <2>2
  <2>4. Len(o) = Len(u) /\ \A i \in DOMAIN u : u[i].kind = "row" => o[i] = u[i].val
    <3> HIDE DEF a
    <3> QED
      BY <1>1, <1>5, <2>1, <2>2 DEF InPlace
  <2>5. CASE R(k+1)
    <3>1. Flat(a, k+1) = u \o <<l>>
      <4>1. a[k+1] = <<l>>
        BY <2>1, <2>2, <2>5
      <4> HIDE DEF a
      <4> QED
        BY <1>2, <2>1, <2>2, <4>1
    <3>2. PICK x \in Int : out[k+1] = Append(o, x) /\ (l.kind = "row" => x = l.val)
      BY <2>1, <2>2, <2>5
    <3>3. u \o <<l>> = Append(u, l)
      BY <2>3
    <3>4. /\ Len(Append(u, l)) = Len(u) + 1 /\ Append(u, l) \in Seq(Lines)
          /\ Len(Append(o, x)) = Len(o) + 1
          /\ \A i \in 1..Len(u) : Append(u, l)[i] = u[i] /\ Append(o, x)[i] = o[i]
          /\ Append(u, l)[Len(u) + 1] = l /\ Append(o, x)[Len(u) + 1] = x
      BY <2>3, <2>4
    <3>5. PICK v, w : v = Append(u, l) /\ w = Append(o, x)
      OBVIOUS
    <3>6. ASSUME NEW i \in DOMAIN v, v[i].kind = "row" PROVE w[i] = v[i].val
      <4>1. DOMAIN v = 1..Len(u)+1 /\ DOMAIN u = 1..Len(u) /\ Len(u) \in Nat
        BY <2>3, <3>4, <3>5
      <4>2. CASE i \in 1..Len(u)
        BY <2>4, <3>4, <3>5, <3>6, <4>1, <4>2
      <4>3. CASE i = Len(u) + 1
        BY <3>2, <3>4, <3>5, <3>6, <4>3
      <4> QED
        BY <4>1, <4>2, <4>3
    <3>7. InPlace(w, v)
      BY <2>4, <3>4, <3>5, <3>6 DEF InPlace
    <3> QED
      BY ONLY <3>1, <3>2, <3>3, <3>5, <3>7
  <2>6. CASE ~R(k+1)
    <3>1. Flat(a, k+1) = u \o << >>
      <4>1. a[k+1] = << >>
        BY <2>1, <2>6
      <4> HIDE DEF a
      <4> QED
        BY <1>2, <2>1, <2>2, <4>1
    <3>2. u \o << >> = u
      BY <2>3
    <3>3. out[k+1] = o
      BY <2>1, <2>2, <2>6
    <3>4. InPlace(o, u)
      BY <2>4 DEF InPlace
    <3> QED
      BY ONLY <3>1, <3>2, <3>3, <3>4
  <2> QED
    BY <2>5, <2>6
<1> HIDE DEF P
<1>6. N \in P
  <2>1. Nat \subseteq P
    BY ONLY <1>4, <1>5, NatSetInduction
  <2> QED
    BY <1>1, <2>1
<1> QED
  <2> HIDE DEF a
  <2> QED
    BY <1>1, <1>3, <1>6 DEF P

\* tcp_Retr is printing after the first header, and until the second.
LEMMA RetrText ==
  ASSUME NEW s \in Seq(Lines), Orderly(s)
  PROVE  InPlace(Retr(s), Results(s, 1))
<1> DEFINE N == Len(s)
<1>1. N \in Nat
  OBVIOUS
<1>2. PICK h \in [0..N -> RetrState] :
        /\ h[0] = [id |-> FALSE, out |-> << >>]
        /\ \A j \in 0..N-1 : h[j+1] = RetrLine(h[j], s[j+1])
        /\ Retr(s) = h[N].out
  BY RetrRuns
<1>3. \A k \in 0..N : h[k] \in RetrState /\ h[k].id \in BOOLEAN /\ h[k].out \in Seq(Int)
  BY <1>2 DEF RetrState
<1>4. ASSUME NEW k \in 0..N-1
      PROVE  /\ s[k+1].kind = "head" => h[k+1].id = ~h[k].id
             /\ s[k+1].kind # "head" => h[k+1].id = h[k].id
             /\ h[k].id /\ s[k+1].kind \in Long =>
                  h[k+1].out = Append(h[k].out, NinthInt(s[k+1]))
             /\ ~(h[k].id /\ s[k+1].kind \in Long) => h[k+1].out = h[k].out
             /\ s[k+1] \in Lines
  <2>1. s[k+1] \in Lines /\ h[k] \in RetrState /\ h[k+1] = RetrLine(h[k], s[k+1])
    BY <1>1, <1>2, <1>3
  <2> QED
    BY ONLY <2>1, RetrLineFacts
<1> DEFINE P == {k \in Nat : k <= N => (h[k].id <=> Headers(s, k) = 1)}
<1>5. 0 \in P
  BY <1>2, HeadersStep
<1>6. ASSUME NEW k \in Nat, k \in P PROVE k + 1 \in P
  <2> SUFFICES ASSUME k + 1 <= N PROVE h[k+1].id <=> Headers(s, k+1) = 1
    OBVIOUS
  <2>1. k \in 0..N-1 /\ k \in 0..N /\ k+1 \in 1..N
    BY <1>1
  <2>2. /\ Headers(s, k) \in Nat /\ Headers(s, k+1) <= 2
        /\ Headers(s, k+1) = Headers(s, k) + (IF s[k+1].kind = "head" THEN 1 ELSE 0)
    BY <2>1, HeadersStep DEF Orderly
  <2>3. h[k].id <=> Headers(s, k) = 1
    BY <1>6, <2>1
  <2> QED
    BY <1>3, <1>4, <2>1, <2>2, <2>3
<1> HIDE DEF P
<1>7. \A k \in 0..N : h[k].id <=> Headers(s, k) = 1
  <2>1. Nat \subseteq P
    BY ONLY <1>5, <1>6, NatSetInduction
  <2> QED
    BY <1>1, <2>1 DEF P
<1> DEFINE out == [k \in 0..N |-> h[k].out]
<1>8. out \in [0..N -> Seq(Int)] /\ out[0] = << >>
  BY <1>1, <1>2, <1>3
<1>9. ASSUME NEW k \in 0..N-1
      PROVE  IF s[k+1].kind \in {"row", "wide", "sum"} /\ Headers(s, k+1) = 1
             THEN \E x \in Int : /\ out[k+1] = Append(out[k], x)
                                 /\ s[k+1].kind = "row" => x = s[k+1].val
             ELSE out[k+1] = out[k]
  <2>1. k \in 0..N /\ k+1 \in 0..N /\ k+1 \in 1..N /\ s[k+1] \in Lines
    BY <1>1
  <2>2. out[k] = h[k].out /\ out[k+1] = h[k+1].out
    BY <2>1
  <2>3. /\ s[k+1].kind # "head" => Headers(s, k+1) = Headers(s, k)
        /\ s[k+1].kind = "local" => Headers(s, k+1) = 0
    BY <2>1, HeadersStep DEF Orderly
  <2>4. CASE s[k+1].kind \in {"row", "wide", "sum"} /\ Headers(s, k+1) = 1
    <3>1. h[k].id /\ s[k+1].kind \in Long
      BY <1>7, <2>1, <2>3, <2>4 DEF Long
    <3>2. out[k+1] = Append(out[k], NinthInt(s[k+1]))
      BY <1>4, <2>2, <3>1
    <3> QED
      BY <2>1, <2>4, <3>2, NinthFacts
  <2>5. CASE ~(s[k+1].kind \in {"row", "wide", "sum"} /\ Headers(s, k+1) = 1)
    <3>1. ~(h[k].id /\ s[k+1].kind \in Long)
      BY <1>7, <2>1, <2>3, <2>5 DEF Long
    <3> QED
      BY <1>4, <2>2, <2>5, <3>1
  <2> QED
    BY <2>4, <2>5
<1>10. InPlace(out[N], Results(s, 1))
  <2> HIDE DEF out
  <2> QED
    BY <1>8, <1>9, 1 \in Nat, Printed
<1> QED
  BY <1>1, <1>2, <1>10

\* jitter is printing from the second header on.
LEMMA JitterText ==
  ASSUME NEW s \in Seq(Lines), Orderly(s)
  PROVE  InPlace(Jitter(s), Results(s, 2))
<1> DEFINE N == Len(s)
<1>1. N \in Nat
  OBVIOUS
<1>2. PICK h \in [0..N -> JitterState] :
        /\ h[0] = [id |-> 0, out |-> << >>]
        /\ \A j \in 0..N-1 : h[j+1] = JitterLine(h[j], s[j+1])
        /\ Jitter(s) = h[N].out
  BY JitterRuns
<1>3. \A k \in 0..N : h[k] \in JitterState /\ h[k].id \in Nat /\ h[k].out \in Seq(Int)
  BY <1>2 DEF JitterState
<1>4. ASSUME NEW k \in 0..N-1
      PROVE  /\ s[k+1].kind = "head" => h[k+1].id = h[k].id + 1
             /\ s[k+1].kind # "head" => h[k+1].id = h[k].id
             /\ h[k].id = 2 /\ s[k+1].kind \in Long =>
                  h[k+1].out = Append(h[k].out, NinthDouble(s[k+1]))
             /\ ~(h[k].id = 2 /\ s[k+1].kind \in Long) => h[k+1].out = h[k].out
             /\ s[k+1] \in Lines
  <2>1. s[k+1] \in Lines /\ h[k] \in JitterState /\ h[k+1] = JitterLine(h[k], s[k+1])
    BY <1>1, <1>2, <1>3
  <2> QED
    BY ONLY <2>1, JitterLineFacts
<1> DEFINE P == {k \in Nat : k <= N => h[k].id = Headers(s, k)}
<1>5. 0 \in P
  BY <1>2, HeadersStep
<1>6. ASSUME NEW k \in Nat, k \in P PROVE k + 1 \in P
  <2> SUFFICES ASSUME k + 1 <= N PROVE h[k+1].id = Headers(s, k+1)
    OBVIOUS
  <2>1. k \in 0..N-1 /\ k \in 0..N /\ k+1 \in 1..N
    BY <1>1
  <2>2. Headers(s, k+1) = Headers(s, k) + (IF s[k+1].kind = "head" THEN 1 ELSE 0)
        /\ Headers(s, k) \in Nat
    BY <2>1, HeadersStep
  <2>3. h[k].id = Headers(s, k)
    BY <1>6, <2>1
  <2> QED
    BY <1>4, <2>1, <2>2, <2>3
<1> HIDE DEF P
<1>7. \A k \in 0..N : h[k].id = Headers(s, k)
  <2>1. Nat \subseteq P
    BY ONLY <1>5, <1>6, NatSetInduction
  <2> QED
    BY <1>1, <2>1 DEF P
<1> DEFINE out == [k \in 0..N |-> h[k].out]
<1>8. out \in [0..N -> Seq(Int)] /\ out[0] = << >>
  BY <1>1, <1>2, <1>3
<1>9. ASSUME NEW k \in 0..N-1
      PROVE  IF s[k+1].kind \in {"row", "wide", "sum"} /\ Headers(s, k+1) = 2
             THEN \E x \in Int : /\ out[k+1] = Append(out[k], x)
                                 /\ s[k+1].kind = "row" => x = s[k+1].val
             ELSE out[k+1] = out[k]
  <2>1. k \in 0..N /\ k+1 \in 0..N /\ k+1 \in 1..N /\ s[k+1] \in Lines
    BY <1>1
  <2>2. out[k] = h[k].out /\ out[k+1] = h[k+1].out
    BY <2>1
  <2>3. /\ s[k+1].kind # "head" => Headers(s, k+1) = Headers(s, k)
        /\ s[k+1].kind = "local" => Headers(s, k+1) = 0
    BY <2>1, HeadersStep DEF Orderly
  <2>4. CASE s[k+1].kind \in {"row", "wide", "sum"} /\ Headers(s, k+1) = 2
    <3>1. h[k].id = 2 /\ s[k+1].kind \in Long
      BY <1>7, <2>1, <2>3, <2>4 DEF Long
    <3>2. out[k+1] = Append(out[k], NinthDouble(s[k+1]))
      BY <1>4, <2>2, <3>1
    <3> QED
      BY <2>1, <2>4, <3>2, NinthFacts
  <2>5. CASE ~(s[k+1].kind \in {"row", "wide", "sum"} /\ Headers(s, k+1) = 2)
    <3>1. ~(h[k].id = 2 /\ s[k+1].kind \in Long)
      BY <1>7, <2>1, <2>3, <2>5 DEF Long
    <3> QED
      BY <1>4, <2>2, <2>5, <3>1
  <2> QED
    BY <2>4, <2>5
<1>10. InPlace(out[N], Results(s, 2))
  <2> HIDE DEF out
  <2> QED
    BY <1>8, <1>9, 2 \in Nat, Printed
<1> QED
  BY <1>1, <1>2, <1>10

\* The parsers print figures.
LEMMA FiguresType ==
  ASSUME NEW s \in Seq(Lines)
  PROVE  Retr(s) \in Seq(Int) /\ Jitter(s) \in Seq(Int)
<1>1. Len(s) \in 0..Len(s)
  OBVIOUS
<1>2. PICK h \in [0..Len(s) -> RetrState] : Retr(s) = h[Len(s)].out
  BY RetrRuns
<1>3. PICK g \in [0..Len(s) -> JitterState] : Jitter(s) = g[Len(s)].out
  BY JitterRuns
<1>4. h[Len(s)] \in RetrState /\ g[Len(s)] \in JitterState
  BY <1>1
<1> QED
  BY <1>2, <1>3, <1>4 DEF RetrState, JitterState
--------------------------------------------------------------------------------
(***************************************************************************)
(* What the tools write                                                    *)
(***************************************************************************)
\* Each tool has a file of its own.
LEMMA Outputs ==
  /\ \A t \in Tool : Output(t) \in Names /\ Output(t) \in OfTools /\ Output(t) # "latency"
                     /\ Output(t) \notin {"retr", "jitter"}
  /\ \A t, u \in Tool : Output(t) = Output(u) => t = u
  /\ Output("iperf") = "iperf_send" /\ Output("speed") = "speed_data"
  /\ Output("tcpdump") = "send_pcap"
  /\ OfTools \subseteq Names
BY DEF Output, Tool, Names, OfTools

\* A line carries its kind and its run.
LEMMA LineType ==
  ASSUME NEW r \in Run, NEW v \in Int,
         NEW k \in {"text", "local", "head", "row", "wide", "sum", "dash", "data"}
  PROVE  Line(k, v, r) \in Lines /\ Line(k, v, r).run = r /\ Line(k, v, r).kind = k
BY DEF Line, Lines

\* The lines of two texts joined.
LEMMA Joined ==
  ASSUME NEW X, NEW d \in Seq(X), NEW w \in Seq(X)
  PROVE  /\ d \o w \in Seq(X) /\ Len(d \o w) = Len(d) + Len(w)
         /\ \A i \in 1..Len(d) : (d \o w)[i] = d[i]
         /\ \A i \in Len(d)+1..Len(d)+Len(w) :
              i - Len(d) \in 1..Len(w) /\ (d \o w)[i] = w[i - Len(d)]
OBVIOUS

\* The lines that open the text.
LEMMA OpeningText ==
  ASSUME NEW n \in Nat, NEW r \in Run
  PROVE  /\ Opening(n, r) \in Seq(Lines) /\ Cut(Opening(n, r), n)
         /\ \A i \in 1..Len(Opening(n, r)) : Opening(n, r)[i].run = r
<1>1. PICK x, y, z : x = Line("text", 0, r) /\ y = Line("local", 0, r) /\ z = Line("head", 0, r)
  OBVIOUS
<1>2. /\ x \in Lines /\ x.run = r /\ x.kind = "text"
      /\ y \in Lines /\ y.run = r /\ y.kind = "local"
      /\ z \in Lines /\ z.run = r /\ z.kind = "head"
  BY ONLY <1>1, LineType, r \in Run, 0 \in Int
<1>3. PICK s : s = Opening(n, r)
  OBVIOUS
<1>4. s = <<x>> \o [i \in 1..n |-> y] \o <<z>>
  BY ONLY <1>1, <1>3 DEF Opening
<1>5. [i \in 1..n |-> y] \in Seq(Lines) /\ Len([i \in 1..n |-> y]) = n
  BY <1>2
<1>6. PICK u : u = [i \in 1..n |-> y]
  OBVIOUS
<1>7. /\ s \in Seq(Lines) /\ Len(s) = n + 2 /\ s[1] = x /\ s[n+2] = z
      /\ \A i \in 2..n+1 : s[i] = y
  <2>1. u \in Seq(Lines) /\ Len(u) = n /\ \A i \in 1..n : u[i] = y
    BY <1>5, <1>6
  <2>2. s = <<x>> \o u \o <<z>>
    BY ONLY <1>4, <1>6
  <2>3. PICK v : v = <<x>> \o u
    OBVIOUS
  <2>4. v \in Seq(Lines) /\ Len(v) = n + 1 /\ v[1] = x /\ \A i \in 2..n+1 : v[i] = y
    BY <1>2, <2>1, <2>3
  <2>5. s = v \o <<z>>
    BY ONLY <2>2, <2>3
  <2>6. PICK e : e = <<z>>
    OBVIOUS
  <2>7. e \in Seq(Lines) /\ Len(e) = 1 /\ e[1] = z /\ s = v \o e
    BY <1>2, <2>5, <2>6
  <2>8. /\ s \in Seq(Lines) /\ Len(s) = Len(v) + Len(e)
        /\ \A i \in 1..Len(v) : s[i] = v[i]
        /\ \A i \in Len(v)+1..Len(v)+Len(e) : i - Len(v) \in 1..Len(e) /\ s[i] = e[i - Len(v)]
    <3>1. v \in Seq(Lines) /\ e \in Seq(Lines) /\ s = v \o e
      BY <2>4, <2>7
    <3> QED
      BY ONLY <3>1, Joined, Zenon
  <2>9. s[n+2] = z
    <3>1. n+2 \in Len(v)+1..Len(v)+Len(e) /\ (n+2) - Len(v) = 1
      BY <2>4, <2>7
    <3> QED
      BY <2>7, <2>8, <3>1
  <2>10. Len(s) = n + 2 /\ \A i \in 1..n+1 : s[i] = v[i]
    BY <2>4, <2>7, <2>8
  <2> QED
    BY ONLY <2>4, <2>8, <2>9, <2>10, n \in Nat
<1>8. \A i \in 1..Len(s) : s[i].run = r
  <2> TAKE i \in 1..Len(s)
  <2>1. i = 1 \/ i \in 2..n+1 \/ i = n+2
    BY <1>7
  <2> QED
    BY <1>2, <1>7, <2>1
<1>9. Cut(s, n)
  BY <1>2, <1>7 DEF Cut, Opened, BodyFrom
<1> QED
  BY ONLY <1>3, <1>7, <1>8, <1>9

\* The rows of an interval.
LEMMA RowsText ==
  ASSUME NEW n \in Nat, NEW v \in Int, NEW r \in Run
  PROVE  /\ Rows(n, v, r) \in Seq(Lines) /\ BodyFrom(Rows(n, v, r), 1, Len(Rows(n, v, r)))
         /\ \A i \in 1..Len(Rows(n, v, r)) : Rows(n, v, r)[i].run = r
<1> DEFINE Own(l) == l \in Lines /\ l.run = r /\ l.kind \in {"row", "wide", "sum", "dash"}
<1>1. PICK x, y, z : x = Line("row", v, r) /\ y = Line("wide", v, r) /\ z = Line("sum", v, r)
  OBVIOUS
<1>2. Own(x) /\ Own(y) /\ Own(z)
  BY ONLY <1>1, LineType, r \in Run, v \in Int
<1>3. PICK s, u, w : /\ s = Rows(n, v, r)
                     /\ u = [i \in 1..n |-> Line(IF i <= TwoDigit THEN "row" ELSE "wide", v, r)]
                     /\ w = IF n > 1 THEN <<z>> ELSE << >>
  OBVIOUS
<1>4. s = u \o w
  BY ONLY <1>1, <1>3 DEF Rows
<1>5. \A i \in 1..n : u[i] = x \/ u[i] = y
  BY <1>1, <1>3
<1>6. u \in Seq(Lines) /\ Len(u) = n
  <2>1. u = [i \in 1..n |-> u[i]]
    BY <1>3
  <2> QED
    BY <1>2, <1>5, <2>1
<1>7. w \in Seq(Lines) /\ \A i \in 1..Len(w) : w[i] = z
  BY <1>2, <1>3
<1>8. s \in Seq(Lines) /\ \A i \in 1..Len(s) : s[i] = x \/ s[i] = y \/ s[i] = z
  BY <1>4, <1>5, <1>6, <1>7
<1> QED
  BY <1>2, <1>3, <1>8 DEF BodyFrom

\* An interval, set apart from the one before.
LEMMA IntervalText ==
  ASSUME NEW n \in Nat, NEW v \in Int, NEW r \in Run
  PROVE  \E w \in Seq(Lines) :
            /\ Interval(n, v, r) = w /\ BodyFrom(w, 1, Len(w))
            /\ \A i \in 1..Len(w) : w[i].run = r
<1>1. PICK z, u, e, w : /\ z = Line("dash", 0, r) /\ u = Rows(n, v, r)
                        /\ e = IF n > 1 /\ v # TestTime THEN <<z>> ELSE << >>
                        /\ w = e \o u
  OBVIOUS
<1>2. Interval(n, v, r) = w
  BY ONLY <1>1 DEF Interval
<1>3. z \in Lines /\ z.run = r /\ z.kind = "dash"
  BY ONLY <1>1, LineType, r \in Run, 0 \in Int
<1>4. u \in Seq(Lines) /\ BodyFrom(u, 1, Len(u)) /\ \A i \in 1..Len(u) : u[i].run = r
  BY ONLY <1>1, RowsText, n \in Nat, v \in Int, r \in Run
<1>5. e \in Seq(Lines) /\ \A i \in 1..Len(e) : e[i] = z
  BY <1>1, <1>3
<1>6. /\ w \in Seq(Lines)
      /\ \A i \in 1..Len(w) : w[i] = z \/ \E j \in 1..Len(u) : w[i] = u[j]
  BY <1>1, <1>4, <1>5
<1> QED
  BY <1>2, <1>3, <1>4, <1>6 DEF BodyFrom

\* The summary.
LEMMA SummaryText ==
  ASSUME NEW n \in Nat, NEW r \in Run
  PROVE  \E w \in Seq(Lines) :
            /\ Summary(n, r) = w /\ Len(w) >= 2
            /\ w[1].kind = "dash" /\ w[2].kind = "head" /\ BodyFrom(w, 3, Len(w))
            /\ \A i \in 1..Len(w) : w[i].run = r
<1>1. PICK y, z : y = Line("dash", 0, r) /\ z = Line("head", 0, r)
  OBVIOUS
<1>2. /\ y \in Lines /\ y.run = r /\ y.kind = "dash"
      /\ z \in Lines /\ z.run = r /\ z.kind = "head"
  BY ONLY <1>1, LineType, r \in Run, 0 \in Int
<1>3. PICK u : u = Rows(n, TestTime + 1, r)
  OBVIOUS
<1>4. u \in Seq(Lines) /\ BodyFrom(u, 1, Len(u)) /\ \A i \in 1..Len(u) : u[i].run = r
  <2>1. TestTime + 1 \in Int
    BY TimeAssumption
  <2> QED
    BY ONLY <1>3, <2>1, RowsText, n \in Nat, r \in Run
<1>5. PICK w : w = <<y, z>> \o u
  OBVIOUS
<1>6. Summary(n, r) = w
  BY ONLY <1>1, <1>3, <1>5 DEF Summary
<1>7. /\ w \in Seq(Lines) /\ Len(w) = Len(u) + 2 /\ w[1] = y /\ w[2] = z
      /\ \A i \in 3..Len(w) : i - 2 \in 1..Len(u) /\ w[i] = u[i-2]
  BY <1>2, <1>4, <1>5
<1>8. BodyFrom(w, 3, Len(w))
  BY <1>4, <1>7 DEF BodyFrom
<1>9. \A i \in 1..Len(w) : w[i].run = r
  <2> TAKE i \in 1..Len(w)
  <2>1. i = 1 \/ i = 2 \/ i \in 3..Len(w)
    BY <1>7
  <2> QED
    BY <1>2, <1>4, <1>7, <2>1
<1>10. Len(w) >= 2
  BY <1>4, <1>7
<1> QED
  BY <1>2, <1>6, <1>7, <1>8, <1>9, <1>10

\* An interval prolongs the text.
LEMMA CutRows ==
  ASSUME NEW n \in Nat, NEW d \in Seq(Lines), Cut(d, n),
         NEW w \in Seq(Lines), BodyFrom(w, 1, Len(w))
  PROVE  Cut(d \o w, n)
<1>1. PICK s : s = d \o w
  OBVIOUS
<1>2. /\ s \in Seq(Lines) /\ Len(s) = Len(d) + Len(w)
      /\ \A i \in 1..Len(d) : s[i] = d[i]
      /\ \A i \in Len(d)+1..Len(s) : i - Len(d) \in 1..Len(w) /\ s[i] = w[i - Len(d)]
  BY <1>1
<1>3. Opened(s, n)
  <2>1. /\ Len(d) >= n + 2 /\ d[1].kind = "text" /\ d[n+2].kind = "head"
        /\ \A i \in 2..n+1 : d[i].kind = "local"
    BY DEF Cut, Opened
  <2>2. \A i \in 1..n+2 : s[i] = d[i]
    BY <1>2, <2>1
  <2>3. s[1] = d[1] /\ s[n+2] = d[n+2] /\ \A i \in 2..n+1 : s[i] = d[i]
    BY <2>2
  <2>4. Len(s) >= n + 2
    BY <1>2, <2>1
  <2> QED
    BY <2>1, <2>3, <2>4 DEF Opened
<1>4. BodyFrom(s, n + 3, Len(s))
  <2> SUFFICES ASSUME NEW i \in n+3..Len(s) PROVE s[i].kind \in {"row", "wide", "sum", "dash"}
    BY DEF BodyFrom
  <2>1. CASE i <= Len(d)
    BY <1>2, <2>1 DEF Cut, BodyFrom
  <2>2. CASE ~(i <= Len(d))
    <3>1. i \in Len(d)+1..Len(s)
      BY <1>2, <2>2
    <3> QED
      BY <1>2, <3>1 DEF BodyFrom
  <2> QED
    BY <2>1, <2>2
<1> QED
  BY <1>1, <1>3, <1>4 DEF Cut

\* A summary ends it.
LEMMA CutSummary ==
  ASSUME NEW n \in Nat, NEW d \in Seq(Lines), Cut(d, n),
         NEW w \in Seq(Lines), Len(w) >= 2, w[1].kind = "dash", w[2].kind = "head",
         BodyFrom(w, 3, Len(w))
  PROVE  Summed(d \o w, n)
<1>1. PICK s, m : s = d \o w /\ m = Len(d)
  OBVIOUS
<1>2. /\ s \in Seq(Lines) /\ m \in Nat /\ Len(s) = m + Len(w)
      /\ \A i \in 1..m : s[i] = d[i]
      /\ \A i \in m+1..Len(s) : i - m \in 1..Len(w) /\ s[i] = w[i - m]
  BY <1>1
<1>3. n + 2 <= m
  BY <1>1 DEF Cut, Opened
<1>4. Opened(s, n)
  BY <1>1, <1>2, <1>3 DEF Cut, Opened
<1>5. BodyFrom(s, n + 3, m)
  BY <1>1, <1>2, <1>3 DEF Cut, BodyFrom
<1>6. s[m+1].kind = "dash" /\ s[m+2].kind = "head"
  <2>1. m+1 \in m+1..Len(s) /\ m+2 \in m+1..Len(s) /\ (m+1) - m = 1 /\ (m+2) - m = 2
    BY <1>2
  <2> QED
    BY <1>2, <2>1
<1>7. BodyFrom(s, m + 3, Len(s))
  <2> SUFFICES ASSUME NEW i \in m+3..Len(s) PROVE s[i].kind \in {"row", "wide", "sum", "dash"}
    BY DEF BodyFrom
  <2>1. i \in m+1..Len(s) /\ i - m \in 3..Len(w)
    BY <1>2
  <2> QED
    BY <1>2, <2>1 DEF BodyFrom
<1>8. m \in n+2..Len(s)-2
  BY <1>2, <1>3
<1> QED
  BY <1>1, <1>4, <1>5, <1>6, <1>7, <1>8 DEF Summed

--------------------------------------------------------------------------------
(***************************************************************************)
(* A tick: what the running tools write together                           *)
(***************************************************************************)
\* The streams of a run that was started.
LEMMA StreamsType ==
  ASSUME Typed, NEW r \in Run, r <= run
  PROVE  calls[r].streams \in Nat
<1>1. r \in 1..Len(calls)
  BY DEF run, Run
<1>2. calls[r] \in Tests
  BY <1>1 DEF Typed
<1> QED
  BY <1>2, TestsAssumption

\* The figure of a tick is made of the run's own lines.
LEMMA FigureType ==
  ASSUME Typed, InTime, NEW r \in Run, NEW t \in Tool, proc[r][t].st = "running"
  PROVE  /\ Figure(t, r) \in Seq(Lines)
         /\ \A i \in 1..Len(Figure(t, r)) : Figure(t, r)[i].run = r
         /\ t = "iperf" => BodyFrom(Figure(t, r), 1, Len(Figure(t, r)))
         /\ t # "iperf" => Len(Figure(t, r)) = 1
<1>1. calls[r].streams \in Nat
  <2>1. r <= run
    <3>1. r > run => proc[r][t].st = "off"
      BY DEF InTime
    <3> QED
      BY <3>1 DEF Run, run, Typed
  <2> QED
    BY <2>1, StreamsType
<1>2. PICK v : v = proc[r][t].left
  OBVIOUS
<1>3. v \in Int
  BY <1>2 DEF Typed
<1>4. CASE t = "iperf"
  <2>1. PICK w \in Seq(Lines) :
            /\ Interval(calls[r].streams, v, r) = w /\ BodyFrom(w, 1, Len(w))
            /\ \A i \in 1..Len(w) : w[i].run = r
    BY <1>1, <1>3, IntervalText
  <2>2. Figure(t, r) = w
    BY <1>2, <1>4, <2>1 DEF Figure
  <2>3. w \in Seq(Lines) /\ BodyFrom(w, 1, Len(w)) /\ \A i \in 1..Len(w) : w[i].run = r
    BY <2>1
  <2> QED
    BY ONLY <1>4, <2>2, <2>3
<1>5. CASE t # "iperf"
  <2>1. Figure(t, r) = <<Line("data", v, r)>>
    BY <1>2, <1>5 DEF Figure
  <2>2. Line("data", v, r) \in Lines /\ Line("data", v, r).run = r
    BY ONLY <1>3, r \in Run, LineType
  <2> QED
    BY <1>5, <2>1, <2>2
<1> QED
  BY <1>4, <1>5

\* New data in a file.
LEMMA FileExcept ==
  ASSUME NEW e \in Files, e.made = TRUE, NEW w
  PROVE  [e EXCEPT !.data = w] = File(w)
<1>1. PICK X : e \in [made : BOOLEAN, data : X]
  BY DEF Files
<1>2. [e EXCEPT !.data = w] = [made |-> e.made, data |-> w]
  BY <1>1
<1> QED
  BY <1>2 DEF File

\* A write keeps the files what they are, and adds to one of them.
LEMMA WrittenFacts ==
  ASSUME NEW f, Sane(f), NEW t \in Tool, NEW r \in Run, NEW d \in Seq(Lines), f[Output(t)].made
  PROVE  /\ Sane(Written(f, t, r, d))
         /\ \A n \in Names : Written(f, t, r, d)[n].made = f[n].made
         /\ \A n \in Names \ {Output(t)} : Written(f, t, r, d)[n] = f[n]
         /\ ~Shared(t, r) => Written(f, t, r, d)[Output(t)] = File(f[Output(t)].data \o d)
         /\ \A g : g[Output(t)] = f[Output(t)] /\ Sane(g)
              => Written(g, t, r, d)[Output(t)] = Written(f, t, r, d)[Output(t)]
<1>1. PICK o : o = Output(t)
  OBVIOUS
<1>2. o \in Names /\ o \in OfTools
  BY <1>1, Outputs
<1>3. /\ f \in [Names -> Files] /\ f[o] \in Files /\ f[o].made = TRUE /\ f[o].data \in Seq(Lines)
  BY <1>1, <1>2 DEF Sane, Files
<1>4. PICK w : w = IF Shared(t, r) THEN <<Line("text", 0, r)>> ELSE f[o].data \o d
  OBVIOUS
<1>5. w \in Seq(Lines)
  <2>1. Line("text", 0, r) \in Lines
    BY ONLY r \in Run, 0 \in Int, LineType
  <2> QED
    BY <1>3, <1>4, <2>1
<1>6. PICK g : g = Written(f, t, r, d)
  OBVIOUS
<1>7. g = [f EXCEPT ![o] = File(w)]
  <2>1. g = [f EXCEPT ![o].data = w]
    BY <1>1, <1>3, <1>4, <1>6 DEF Written
  <2>2. [f[o] EXCEPT !.data = w] = File(w)
    BY <1>3, FileExcept
  <2> QED
    BY <2>1, <2>2
<1>8. File(w) \in Files /\ File(w).made = TRUE /\ File(w).data = w
  BY <1>5 DEF File, Files
<1>9. /\ g \in [Names -> Files] /\ g[o] = File(w) /\ \A n \in Names \ {o} : g[n] = f[n]
  BY <1>2, <1>3, <1>7, <1>8
<1>10. Sane(g)
  <2>1. \A n \in Names : g[n].made \/ g[n].data = << >>
    BY <1>8, <1>9 DEF Sane
  <2>2. \A n \in OfTools : g[n].data \in Seq(Lines)
    BY <1>5, <1>8, <1>9, Outputs DEF Sane
  <2> QED
    BY <1>9, <2>1, <2>2 DEF Sane
<1>11. \A n \in Names : g[n].made = f[n].made
  BY <1>3, <1>8, <1>9
<1>12. ~Shared(t, r) => g[o] = File(f[o].data \o d)
  BY <1>4, <1>9
<1>13. ASSUME NEW h, h[o] = f[o], Sane(h)
       PROVE  Written(h, t, r, d)[o] = g[o]
  <2>1. o \in DOMAIN h
    BY <1>2, <1>13 DEF Sane
  <2>2. Written(h, t, r, d)[o] = [h[o] EXCEPT !.data = IF Shared(t, r)
                             THEN <<Line("text", 0, r)>> ELSE h[o].data \o d]
    BY <1>1, <2>1 DEF Written
  <2>3. Written(h, t, r, d)[o] = [f[o] EXCEPT !.data = w]
    BY <1>4, <1>13, <2>2
  <2>4. [f[o] EXCEPT !.data = w] = File(w)
    BY <1>3, FileExcept
  <2> QED
    BY <1>9, <2>3, <2>4
<1> QED
  BY ONLY <1>1, <1>6, <1>9, <1>10, <1>11, <1>12, <1>13

\* What holds of a finite set when it does of a set whenever it does of its parts.
LEMMA WholeSet ==
  ASSUME NEW S, IsFiniteSet(S), NEW R,
         \A s \in SUBSET S : (\A x \in s : s \ {x} \in R) => s \in R
  PROVE  S \in R
<1>1. SUBSET S \subseteq R
  BY SubsetInduction
<1> QED
  BY <1>1

\* What the tools of S write in a tick, each of them in a file of its own if no other
\* of S writes there.
Ticked(S) == FoldSet(LAMBDA p, f : Written(f, p[2], p[1], Figure(p[2], p[1])), file, S)

\* A file that one tool of S writes, at most, gets what that tool writes.
LEMMA FoldWritten ==
  ASSUME Typed, InTime, OpenMade,
         NEW S \in SUBSET (Run \X Tool), \A x \in S : proc[x[1]][x[2]].st = "running"
  PROVE  /\ Sane(Ticked(S))
         /\ \A n \in Names : Ticked(S)[n].made = file[n].made
         /\ \A t \in Tool, r \in Run : (\A x \in S : x[2] = t => x[1] = r) =>
              Ticked(S)[Output(t)] = IF <<r, t>> \in S
                                     THEN Written(file, t, r, Figure(t, r))[Output(t)]
                                     ELSE file[Output(t)]
<1> DEFINE W(x, f) == Written(f, x[2], x[1], Figure(x[2], x[1]))
           V == {f \in [Names -> Files] : Sane(f) /\ \A n \in Names : f[n].made = file[n].made}
           c == [s \in (SUBSET S) \ {{}} |-> CHOOSE x \in s : TRUE]
           T == [y \in V \X S |-> W(y[2], y[1])]
           F(g) == g = [s \in SUBSET S |-> IF s = {} THEN file
                          ELSE W(CHOOSE x \in s : TRUE, g[s \ {CHOOSE x \in s : TRUE}])]
<1>1. IsFiniteSet(S)
  <2>1. IsFiniteSet(Run) /\ IsFiniteSet(Tool)
    <3>1. IsFiniteSet({"iperf"}) /\ IsFiniteSet({"speed"}) /\ IsFiniteSet({"tcpdump"})
      BY FS_Singleton
    <3>2. IsFiniteSet({"iperf"} \cup {"speed"})
      BY <3>1, FS_Union
    <3>3. IsFiniteSet(({"iperf"} \cup {"speed"}) \cup {"tcpdump"})
      BY <3>1, <3>2, FS_Union
    <3>4. Tool = ({"iperf"} \cup {"speed"}) \cup {"tcpdump"}
      BY DEF Tool
    <3>5. IsFiniteSet(Run)
      BY TestsAssumption, FS_Interval DEF Run
    <3> QED
      BY <3>3, <3>4, <3>5
  <2>2. IsFiniteSet(Run \X Tool)
    BY <2>1, FS_Product
  <2> QED
    BY <2>2, FS_Subset
<1>2. Picks(c, S)
  BY DEF Picks
<1>3. \A x \in S, f \in V : W(x, f) \in V
  <2> TAKE x \in S, f \in V
  <2>1. x[1] \in Run /\ x[2] \in Tool /\ proc[x[1]][x[2]].st = "running"
    OBVIOUS
  <2>2. PICK t, r, d : t = x[2] /\ r = x[1] /\ d = Figure(t, r)
    OBVIOUS
  <2>3. t \in Tool /\ r \in Run /\ proc[r][t].st = "running" /\ d \in Seq(Lines)
    BY <2>1, <2>2, FigureType
  <2>4. Output(t) \in Names /\ file[Output(t)].made
    BY <2>3, Outputs DEF OpenMade
  <2>5. Sane(f) /\ f[Output(t)].made
    BY <2>4
  <2>6. PICK g : g = Written(f, t, r, d)
    OBVIOUS
  <2>7. Sane(g) /\ \A n \in Names : g[n].made = f[n].made
    BY <2>3, <2>5, <2>6, WrittenFacts
  <2>8. g \in V
    BY <2>7 DEF Sane
  <2> QED
    BY <2>2, <2>6, <2>8
<1>4. file \in V
  BY DEF Typed, Sane
<1>5. T \in [V \X S -> V]
  BY <1>3
<1>6. PICK g1 \in [SUBSET S -> V] : PickEq(g1, T, file, c, S)
  <2> HIDE DEF T, c, V
  <2> QED
    BY <1>1, <1>2, <1>4, <1>5, FoldPicks
<1>7. F(g1)
  <2>1. ASSUME NEW s \in SUBSET S, s # {}
        PROVE  T[<<g1[s \ {c[s]}], c[s]>>]
                 = W(CHOOSE x \in s : TRUE, g1[s \ {CHOOSE x \in s : TRUE}])
    <3>1. PICK x : x = (CHOOSE y \in s : TRUE)
      OBVIOUS
    <3>2. x \in S /\ c[s] = x
      BY <2>1, <3>1
    <3>3. g1[s \ {x}] \in V
      BY <1>6
    <3>4. PICK v : v = g1[s \ {x}]
      OBVIOUS
    <3>5. <<v, x>> \in V \X S
      BY <3>2, <3>3, <3>4
    <3>6. T[<<v, x>>] = W(x, v)
      BY <3>5
    <3> HIDE DEF T, V, W, c
    <3> QED
      BY ONLY <3>1, <3>2, <3>4, <3>6
  <2>2. \A s \in SUBSET S : g1[s] = IF s = {} THEN file
                              ELSE W(CHOOSE x \in s : TRUE, g1[s \ {CHOOSE x \in s : TRUE}])
    <3> TAKE s \in SUBSET S
    <3>1. g1[s] = IF s = {} THEN file ELSE T[<<g1[s \ {c[s]}], c[s]>>]
      BY <1>6 DEF PickEq
    <3> HIDE DEF T, V, W, c
    <3> QED
      BY <2>1, <3>1
  <2>3. g1 = [s \in SUBSET S |-> g1[s]]
    OBVIOUS
  <2> HIDE DEF T, V, W, c
  <2> QED
    BY <2>2, <2>3
<1>8. Ticked(S) = (CHOOSE g : F(g))[S]
  BY DEF Ticked, FoldSet, MapThenFoldSet
<1>9. PICK g : g = (CHOOSE h : F(h))
  OBVIOUS
<1>10. F(g)
  BY <1>7, <1>9
<1>11. Ticked(S) = g[S]
  BY ONLY <1>8, <1>9
<1>12. \A s \in SUBSET S : s # {} => \E x \in s : g[s] = W(x, g[s \ {x}])
  <2> TAKE s \in SUBSET S
  <2> SUFFICES ASSUME s # {} PROVE \E x \in s : g[s] = W(x, g[s \ {x}])
    OBVIOUS
  <2>1. PICK x : x = (CHOOSE y \in s : TRUE)
    OBVIOUS
  <2>2. x \in s
    BY <2>1
  <2>3. g[s] = W(x, g[s \ {x}])
    <3> HIDE DEF W
    <3> QED
      BY <1>10, <2>1
  <2> QED
    BY <2>2, <2>3
<1>13. g[{}] = file
  BY <1>10
<1> DEFINE Q(s, t, r) == (\A x \in s : x[2] = t => x[1] = r) =>
              g[s][Output(t)] = IF <<r, t>> \in s
                                THEN Written(file, t, r, Figure(t, r))[Output(t)]
                                ELSE file[Output(t)]
           P == {s \in SUBSET S : g[s] \in V /\ \A t \in Tool, r \in Run : Q(s, t, r)}
<1>14. ASSUME NEW s \in SUBSET S, \A x \in s : s \ {x} \in P PROVE s \in P
  <2>1. CASE s = {}
    BY <1>4, <1>13, <2>1
  <2>2. CASE s # {}
    <3>1. PICK x \in s : g[s] = W(x, g[s \ {x}])
      BY <1>12, <2>2
    <3>2. PICK f, u, q, d : f = g[s \ {x}] /\ u = x[2] /\ q = x[1] /\ d = Figure(u, q)
      OBVIOUS
    <3>3. g[s] = Written(f, u, q, d)
      BY ONLY <3>1, <3>2
    <3>4. f \in V /\ \A t \in Tool, r \in Run : Q(s \ {x}, t, r)
      BY <1>14, <3>1, <3>2
    <3>5. u \in Tool /\ q \in Run /\ proc[q][u].st = "running" /\ x = <<q, u>>
      BY <3>1, <3>2
    <3>6. g[s] \in V
      <4>1. x \in S /\ f \in V /\ g[s] = W(x, f)
        BY ONLY <3>1, <3>2, <3>4, s \in SUBSET S
      <4> HIDE DEF W, V
      <4> QED
        BY ONLY <1>3, <4>1
    <3>7. d \in Seq(Lines)
      BY <3>2, <3>5, FigureType
    <3>8. Sane(f) /\ f[Output(u)].made /\ Sane(file) /\ file[Output(u)].made
      BY <3>4, <3>5, Outputs DEF OpenMade, Typed
    <3>9. ASSUME NEW t \in Tool, NEW r \in Run, \A y \in s : y[2] = t => y[1] = r
          PROVE  g[s][Output(t)] = IF <<r, t>> \in s
                                   THEN Written(file, t, r, Figure(t, r))[Output(t)]
                                   ELSE file[Output(t)]
      <4>1. f[Output(t)] = IF <<r, t>> \in s \ {x}
                           THEN Written(file, t, r, Figure(t, r))[Output(t)]
                           ELSE file[Output(t)]
        BY <3>2, <3>4, <3>9
      <4>2. CASE t # u
        <5>1. Output(t) \in Names \ {Output(u)}
          BY <3>5, <4>2, Outputs
        <5>2. g[s][Output(t)] = f[Output(t)]
          BY <3>3, <3>5, <3>7, <3>8, <5>1, WrittenFacts
        <5>3. <<r, t>> \in s \ {x} <=> <<r, t>> \in s
          BY <3>5, <4>2
        <5> QED
          BY ONLY <4>1, <5>2, <5>3
      <4>3. CASE t = u
        <5>1. q = r /\ x = <<r, t>>
          BY <3>1, <3>2, <3>5, <3>9, <4>3
        <5>2. <<r, t>> \in s /\ <<r, t>> \notin s \ {x}
          BY <3>1, <5>1
        <5>3. f[Output(u)] = file[Output(u)]
          BY ONLY <4>1, <4>3, <5>2
        <5>4. Written(f, u, q, d)[Output(u)] = Written(file, u, q, d)[Output(u)]
          BY <3>5, <3>7, <3>8, <5>3, WrittenFacts
        <5> QED
          BY ONLY <3>2, <3>3, <4>3, <5>1, <5>2, <5>4
      <4> QED
        BY <4>2, <4>3
    <3>10. \A t \in Tool, r \in Run : Q(s, t, r)
      BY ONLY <3>9
    <3> HIDE DEF Q, V
    <3> QED
      BY <3>6, <3>10
  <2> QED
    BY <2>1, <2>2
<1> HIDE DEF P
<1>15. S \in P
  <2>1. PICK R : R = P
    OBVIOUS
  <2>2. \A s \in SUBSET S : (\A x \in s : s \ {x} \in R) => s \in R
    BY ONLY <1>14, <2>1
  <2>3. S \in R
    BY ONLY <1>1, <2>2, WholeSet
  <2> QED
    BY ONLY <2>1, <2>3
<1>16. g[S] \in V /\ \A t \in Tool, r \in Run : Q(S, t, r)
  BY <1>15 DEF P
<1> QED
  BY ONLY <1>11, <1>16

--------------------------------------------------------------------------------
(***************************************************************************)
(* The steps of one tool of one run                                        *)
(***************************************************************************)
\* The run under way, and its test.
LEMMA RunFacts ==
  ASSUME Typed
  PROVE  run \in Nat /\ 1..run \subseteq Run /\ (run >= 1 => run \in Run /\ test \in Tests)
<1>1. run \in Nat /\ run <= MaxRuns
  BY DEF Typed, run
<1>2. run >= 1 => test \in Tests
  BY <1>1 DEF Typed, run, test
<1> QED
  BY <1>1, <1>2, TestsAssumption DEF Run

\* The files of a directory of results.
LEMMA KeptTypes ==
  ASSUME Typed, NEW d \in Dirs
  PROVE  /\ \A n \in Names : results[d].file[n] \in Files
                             /\ (results[d].file[n].made \/ Kept(d, n) = << >>)
         /\ \A n \in OfTools : Kept(d, n) \in Seq(Lines)
         /\ results[d].by \in 0..run
BY DEF Typed, Sane, Kept

\* The time left to a tool.
LEMMA DeadlineType ==
  ASSUME NEW p \in [st : States, left : 0..SleepTime], NEW t
  PROVE  p.left \in Nat /\ Deadline(t, p) \in Nat /\ p.left <= Deadline(t, p)
BY TimeAssumption DEF Deadline

\* When the script has slept its time, every tool has ended.
LEMMA NoneAlive ==
  ASSUME BenchInv, script.pc # "idle", script.left = 0
  PROVE  \A r \in Run, t \in Tool : ~Alive(proc[r][t])
<1> TAKE r \in Run, t \in Tool
<1> SUFFICES ASSUME Alive(proc[r][t]) PROVE FALSE
  OBVIOUS
<1>1. script.pc = "tshark" /\ Deadline(t, proc[r][t]) < script.left
  BY DEF BenchInv, InTime
<1>2. proc[r][t] \in [st : States, left : 0..SleepTime]
  BY DEF BenchInv, Typed
<1>3. Deadline(t, proc[r][t]) \in Nat
  BY <1>2, DeadlineType
<1> QED
  BY <1>1, <1>3

\* A step of one tool of one run, from which it comes out as p and its file as f.
LEMMA ToolStep ==
  ASSUME BenchInv, NEW t \in Tool, NEW r \in Run, Alive(proc[r][t]),
         NEW p \in [st : States, left : 0..SleepTime], NEW f \in Files,
         f.made \/ f.data = << >>, f.data \in Seq(Lines),
         p.st \notin {"off", "starting"}, p.st \in {"hung", "done"} => t = "iperf",
         p.st = "running" => p.left <= ToolLimit,
         Alive(p) => Deadline(t, p) <= Deadline(t, proc[r][t]),
         p.st \in {"running", "hung"} \/ file[Output(t)].made => f.made,
         (\A s \in Run \ {r} : ~Alive(proc[s][t])) =>
           (OwnText(t, calls[r].streams, r, proc[r][t], file[Output(t)])
              => OwnText(t, calls[r].streams, r, p, f)),
         proc' = [proc EXCEPT ![r][t] = p], file' = [file EXCEPT ![Output(t)] = f],
         UNCHANGED <<calls, script, results, alone>>
  PROVE  BenchInv'
<1>1. run' = run /\ test' = test /\ Sound' = Sound
  BY DEF run, test, Sound
<1>2. /\ Typed /\ InTime /\ OpenMade /\ NoOthers /\ OwnFiles /\ Filling /\ KeptOwn
      /\ run \in Nat
  BY RunFacts DEF BenchInv
<1>3. proc \in [Run -> [Tool -> [st : States, left : 0..SleepTime]]] /\ Sane(file)
  BY <1>2 DEF Typed
<1>4. /\ proc'[r][t] = p
      /\ \A s \in Run, u \in Tool : s # r \/ u # t => proc'[s][u] = proc[s][u]
      /\ proc' \in [Run -> [Tool -> [st : States, left : 0..SleepTime]]]
  BY <1>3
<1>5. PICK o : o = Output(t)
  OBVIOUS
<1>6. o \in Names /\ o \in OfTools /\ o # "latency" /\ o \notin {"retr", "jitter"}
  BY <1>5, Outputs
<1>7. file'[o] = f /\ (\A n \in Names \ {o} : file'[n] = file[n]) /\ file' \in [Names -> Files]
  BY <1>3, <1>5, <1>6 DEF Sane
<1>8. Sane(file)'
  <2>1. \A n \in Names : file'[n].made \/ file'[n].data = << >>
    BY <1>3, <1>7 DEF Sane
  <2>2. \A n \in OfTools : file'[n].data \in Seq(Lines)
    BY <1>3, <1>7, Outputs DEF Sane
  <2> QED
    BY <1>7, <2>1, <2>2 DEF Sane
<1>9. Typed'
  BY <1>1, <1>2, <1>4, <1>8 DEF Typed, Sane
<1>10. /\ script.pc \in {"idle", "tshark"} /\ r <= run
       /\ Deadline(t, proc[r][t]) <= MaxDelay + ToolLimit
       /\ script.pc = "tshark" => Deadline(t, proc[r][t]) < script.left
  <2>1. proc[r][t].st # "off"
    BY DEF Alive
  <2>2. r > run => proc[r][t].st = "off"
    BY <1>2 DEF InTime
  <2>3. r <= run
    BY <1>2, <2>1, <2>2 DEF Run
  <2> QED
    BY <1>2, <2>3 DEF InTime
<1>11. InTime'
  <2> SUFFICES ASSUME NEW s \in Run, NEW u \in Tool
               PROVE  /\ s > run => proc'[s][u].st = "off"
                      /\ s <= run => proc'[s][u].st # "off"
                      /\ proc'[s][u].st \in {"hung", "done"} => u = "iperf"
                      /\ proc'[s][u].st = "running" => proc'[s][u].left <= ToolLimit
                      /\ Alive(proc'[s][u]) =>
                           /\ script.pc \in {"idle", "tshark"}
                           /\ Deadline(u, proc'[s][u]) <= MaxDelay + ToolLimit
                           /\ script.pc = "tshark" => Deadline(u, proc'[s][u]) < script.left
    BY <1>1 DEF InTime
  <2>1. CASE s = r /\ u = t
    <3>1. Alive(p) => /\ Deadline(t, p) <= MaxDelay + ToolLimit
                      /\ script.pc = "tshark" => Deadline(t, p) < script.left
      <4>1. Deadline(t, p) \in Nat /\ Deadline(t, proc[r][t]) \in Nat
        BY <1>3, DeadlineType
      <4>2. script.left \in Nat /\ MaxDelay + ToolLimit \in Nat
        BY <1>2, TimeAssumption DEF Typed
      <4> QED
        BY <1>10, <4>1, <4>2
    <3> QED
      BY <1>2, <1>4, <1>10, <2>1, <3>1 DEF Run
  <2>2. CASE ~(s = r /\ u = t)
    <3>1. proc'[s][u] = proc[s][u]
      BY <1>4, <2>2
    <3> QED
      BY <1>2, <3>1 DEF InTime
  <2> QED
    BY <2>1, <2>2
<1>12. OpenMade'
  <2> SUFFICES ASSUME NEW s \in Run, NEW u \in Tool, proc'[s][u].st \in {"running", "hung"}
               PROVE  file'[Output(u)].made
    BY DEF OpenMade
  <2>1. CASE u = t
    <3>1. CASE s = r
      BY <1>4, <1>5, <1>7, <2>1, <3>1
    <3>2. CASE s # r
      <4>1. file[o].made
        BY <1>2, <1>4, <1>5, <2>1, <3>2 DEF OpenMade
      <4> QED
        BY <1>5, <1>7, <2>1, <4>1
    <3> QED
      BY <3>1, <3>2
  <2>2. CASE u # t
    <3>1. Output(u) \in Names \ {o}
      BY <1>5, <2>2, Outputs
    <3>2. file[Output(u)].made
      BY <1>2, <1>4, <2>2 DEF OpenMade
    <3> QED
      BY <1>7, <3>1, <3>2
  <2> QED
    BY <2>1, <2>2
<1>13. Undisturbed' = Undisturbed
  BY <1>1 DEF Undisturbed
<1>14. NoOthers'
  <2> SUFFICES ASSUME Undisturbed, NEW s \in Run \ {run}, NEW u \in Tool
               PROVE  ~Alive(proc'[s][u])
    BY <1>1, <1>13 DEF NoOthers
  <2>1. ~Alive(proc[s][u])
    BY <1>2 DEF NoOthers
  <2>2. s # r \/ u # t
    BY <2>1
  <2> QED
    BY <1>4, <2>1, <2>2
<1>15. OwnFiles'
  <2> SUFFICES ASSUME Undisturbed, script.pc = "tshark", NEW u \in Tool
               PROVE  OwnText(u, test.streams, run, proc'[run][u], file'[Output(u)])
    BY <1>1, <1>10, <1>13 DEF OwnFiles
  <2>1. OwnText(u, test.streams, run, proc[run][u], file[Output(u)])
    BY <1>2 DEF OwnFiles
  <2>2. r = run /\ \A s \in Run \ {r}, v \in Tool : ~Alive(proc[s][v])
    BY <1>2 DEF NoOthers
  <2>3. CASE u = t
    <3>1. calls[r].streams = test.streams
      BY <2>2 DEF test
    <3>2. OwnText(t, calls[r].streams, r, p, f)
      BY <2>1, <2>2, <2>3, <3>1
    <3> QED
      BY <1>4, <1>5, <1>7, <2>2, <2>3, <3>1, <3>2
  <2>4. CASE u # t
    <3>1. Output(u) \in Names \ {o}
      BY <1>5, <2>4, Outputs
    <3>2. proc'[run][u] = proc[run][u]
      BY <1>4, <2>2, <2>4
    <3> QED
      BY <1>7, <2>1, <3>1, <3>2
  <2> QED
    BY <2>3, <2>4
<1>16. Filling'
  BY <1>1, <1>2 DEF Filling
<1>17. KeptOwn'
  <2> SUFFICES ASSUME NEW d \in Sound PROVE KeptText(d, results[d].by)'
    BY <1>1 DEF KeptOwn
  <2>1. PICK b : b = results[d].by
    OBVIOUS
  <2>2. b \in Run
    BY <1>2, <2>1, RunFacts DEF Sound, Typed
  <2>3. KeptText(d, b)
    BY <1>2, <2>1 DEF KeptOwn
  <2>4. r # b
    BY <2>3 DEF KeptText, Alive, Dead
  <2>5. \A u \in Tool : proc'[b][u] = proc[b][u]
    BY <1>4, <2>2, <2>4
  <2>6. results'[d] = results[d] /\ results'[d].by = b /\ calls' = calls
    BY <2>1
  <2>7. "iperf" \in Tool /\ "speed" \in Tool /\ "tcpdump" \in Tool
    BY DEF Tool
  <2> QED
    BY <2>1, <2>3, <2>5, <2>6, <2>7 DEF KeptText, KeptFile, Kept
<1> QED
  BY <1>9, <1>11, <1>12, <1>14, <1>15, <1>16, <1>17 DEF BenchInv

\* What a tool that was started has.
LEMMA AliveFacts ==
  ASSUME BenchInv, NEW t \in Tool, NEW r \in Run, Alive(proc[r][t])
  PROVE  /\ calls[r].streams \in Nat /\ proc[r][t] \in [st : States, left : 0..SleepTime]
         /\ Output(t) \in Names /\ Output(t) \in OfTools
         /\ file[Output(t)] \in Files /\ file[Output(t)].data \in Seq(Lines)
         /\ file[Output(t)].made \/ file[Output(t)].data = << >>
         /\ file = [file EXCEPT ![Output(t)] = file[Output(t)]]
         /\ proc[r][t].st \in {"running", "hung"} => file[Output(t)].made
         /\ proc[r][t].st = "hung" => t = "iperf"
         /\ 0 \in 0..SleepTime
<1>1. Typed /\ InTime /\ OpenMade
  BY DEF BenchInv
<1>2. proc[r][t] \in [st : States, left : 0..SleepTime]
  BY <1>1 DEF Typed
<1>3. calls[r].streams \in Nat
  <2>1. proc[r][t].st # "off"
    BY DEF Alive
  <2>2. r > run => proc[r][t].st = "off"
    BY <1>1 DEF InTime
  <2>3. r <= run
    BY <1>1, <2>1, <2>2, RunFacts DEF Run
  <2> QED
    BY <1>1, <2>3, StreamsType
<1>4. Output(t) \in Names /\ Output(t) \in OfTools
  BY Outputs
<1>5. file \in [Names -> Files] /\ file[Output(t)].data \in Seq(Lines)
      /\ (file[Output(t)].made \/ file[Output(t)].data = << >>)
  BY <1>1, <1>4 DEF Typed, Sane
<1>6. proc[r][t].st \in {"running", "hung"} => file[Output(t)].made
  BY <1>1 DEF OpenMade
<1>7. proc[r][t].st = "hung" => t = "iperf"
  BY <1>1 DEF InTime
<1>8. 0 \in 0..SleepTime
  BY TimeAssumption
<1>9. file = [file EXCEPT ![Output(t)] = file[Output(t)]]
  BY <1>4, <1>5
<1> QED
  BY <1>2, <1>3, <1>4, <1>5, <1>6, <1>7, <1>8, <1>9

\* A file of lines.
LEMMA FileType ==
  ASSUME NEW w \in Seq(Lines)
  PROVE  File(w) \in Files /\ File(w).made = TRUE /\ File(w).data = w
BY DEF File, Files

\* A tool starts.
LEMMA StartStep ==
  ASSUME BenchInv, NEW t \in Tool, NEW r \in Run, Start(t, r)
  PROVE  BenchInv'
<1>1. Alive(proc[r][t]) /\ proc[r][t].st = "starting"
  BY DEF Start, Alive
<1>2. /\ calls[r].streams \in Nat /\ proc[r][t] \in [st : States, left : 0..SleepTime]
      /\ Output(t) \in Names /\ file[Output(t)] \in Files
  BY <1>1, AliveFacts
<1>3. PICK x : x = IF t = "iperf" THEN TestTime ELSE ToolLimit
  OBVIOUS
<1>4. PICK p : p = [st |-> "running", left |-> x]
  OBVIOUS
<1>5. x \in Nat /\ x <= ToolLimit /\ x \in 0..SleepTime
  BY <1>3, TimeAssumption
<1>6. p \in [st : States, left : 0..SleepTime] /\ p.st = "running" /\ p.left = x
  BY <1>4, <1>5 DEF States
<1>7. Deadline(t, p) <= Deadline(t, proc[r][t])
  <2>1. Deadline(t, proc[r][t]) = proc[r][t].left + ToolLimit
    BY <1>1 DEF Deadline
  <2>2. Deadline(t, p) <= ToolLimit
    BY <1>3, <1>6, TimeAssumption DEF Deadline
  <2>3. proc[r][t].left \in Nat /\ Deadline(t, p) \in Nat /\ ToolLimit \in Nat
    BY <1>2, <1>6, DeadlineType, TimeAssumption
  <2> QED
    BY <2>1, <2>2, <2>3
<1>8. PICK w : w = Launch(t, r)
  OBVIOUS
<1>9. /\ w \in Seq(Lines) /\ \A i \in 1..Len(w) : w[i].run = r
      /\ t = "iperf" => Cut(w, calls[r].streams)
      /\ t # "iperf" => w = << >>
  <2>1. CASE t = "iperf"
    <3>1. w = Opening(calls[r].streams, r)
      BY <1>8, <2>1 DEF Launch
    <3> QED
      BY <1>2, <2>1, <3>1, OpeningText
  <2>2. CASE t # "iperf"
    BY <1>8, <2>2 DEF Launch
  <2> QED
    BY <2>1, <2>2
<1>10. PICK f : f = File(w)
  OBVIOUS
<1>11. f \in Files /\ f.made = TRUE /\ f.data = w
  BY <1>9, <1>10, FileType
<1>12. OwnText(t, calls[r].streams, r, p, f)
  <2>1. t # "iperf" => Len(w) = ToolLimit - x
    <3>1. ToolLimit - ToolLimit = 0 /\ Len(<< >>) = 0
      BY TimeAssumption
    <3> QED
      BY <1>3, <1>9, <3>1
  <2> QED
    BY <1>6, <1>9, <1>11, <2>1 DEF OwnText
<1>13. proc' = [proc EXCEPT ![r][t] = p] /\ file' = [file EXCEPT ![Output(t)] = f]
  BY <1>3, <1>4, <1>8, <1>10 DEF Start, File
<1>14. UNCHANGED <<calls, script, results, alone>>
  BY DEF Start
<1>15. p.st \notin {"off", "starting"} /\ p.st \notin {"hung", "done"}
  BY <1>6
<1> QED
  <2>1. f.made \/ f.data = << >>
    BY <1>11
  <2>2. f.data \in Seq(Lines)
    BY <1>9, <1>11
  <2>3. p.st = "running" => p.left <= ToolLimit
    BY <1>5, <1>6
  <2>4. p.st \in {"running", "hung"} \/ file[Output(t)].made => f.made
    BY <1>11
  <2> QED
    BY ONLY BenchInv, t \in Tool, r \in Run, <1>1, <1>6, <1>7, <1>11, <1>12, <1>13, <1>14, <1>15,
       <2>1, <2>2, <2>3, <2>4, ToolStep

\* A tool starts and gives up.
LEMMA StartFailsStep ==
  ASSUME BenchInv, NEW t \in Tool, NEW r \in Run, StartFails(t, r)
  PROVE  BenchInv'
<1>1. Alive(proc[r][t]) /\ proc[r][t].st = "starting"
  BY DEF StartFails, Alive
<1>2. /\ calls[r].streams \in Nat /\ proc[r][t] \in [st : States, left : 0..SleepTime]
      /\ Output(t) \in Names /\ file[Output(t)] \in Files /\ file[Output(t)].data \in Seq(Lines)
      /\ (file[Output(t)].made \/ file[Output(t)].data = << >>)
      /\ file = [file EXCEPT ![Output(t)] = file[Output(t)]] /\ 0 \in 0..SleepTime
  BY <1>1, AliveFacts
<1>3. PICK p : p = [st |-> "failed", left |-> 0]
  OBVIOUS
<1>4. p \in [st : States, left : 0..SleepTime] /\ p.st = "failed" /\ ~Alive(p)
  BY <1>2, <1>3 DEF States, Alive
<1>5. PICK f : f = IF t = "tcpdump" THEN file[Output(t)] ELSE File(<< >>)
  OBVIOUS
<1>6. << >> \in Seq(Lines)
  OBVIOUS
<1>7. /\ f \in Files /\ f.data \in Seq(Lines) /\ (f.made \/ f.data = << >>)
      /\ t # "tcpdump" => f.made /\ f.data = << >>
      /\ file[Output(t)].made => f.made
  BY <1>2, <1>5, <1>6, FileType
<1>8. OwnText(t, calls[r].streams, r, p, f)
  BY <1>4, <1>7 DEF OwnText
<1>9. proc' = [proc EXCEPT ![r][t] = p] /\ file' = [file EXCEPT ![Output(t)] = f]
  BY <1>2, <1>3, <1>5 DEF StartFails
<1>10. UNCHANGED <<calls, script, results, alone>>
  BY DEF StartFails
<1>11. p.st \notin {"off", "starting", "hung", "done", "running"}
  BY <1>4
<1> QED
  <2>1. f.made \/ f.data = << >>
    BY <1>7
  <2>2. p.st = "running" => p.left <= ToolLimit
    BY <1>4
  <2>3. p.st \in {"running", "hung"} \/ file[Output(t)].made => f.made
    BY <1>4, <1>7
  <2> QED
    BY ONLY BenchInv, t \in Tool, r \in Run, <1>1, <1>4, <1>7, <1>8, <1>9, <1>10, <1>11,
       <2>1, <2>2, <2>3, ToolStep

\* iperf3 comes to its end, with a summary.
LEMMA SummaryStep ==
  ASSUME BenchInv, NEW r \in Run, proc[r]["iperf"].st \in {"running", "hung"},
         NEW p \in [st : States, left : 0..SleepTime], p.st \in {"done", "killed"},
         proc' = [proc EXCEPT ![r]["iperf"] = p],
         file' = Written(file, "iperf", r, Summary(calls[r].streams, r)),
         UNCHANGED <<calls, script, results, alone>>
  PROVE  BenchInv'
<1> DEFINE t == "iperf"
<1>1. t \in Tool /\ Alive(proc[r][t])
  BY DEF Alive, Tool
<1>2. PICK n, o : n = calls[r].streams /\ o = Output(t)
  OBVIOUS
<1>3. /\ n \in Nat /\ o \in Names /\ o \in OfTools /\ file[o].made = TRUE
      /\ file[o] \in Files /\ file[o].data \in Seq(Lines)
  <2>1. /\ calls[r].streams \in Nat /\ Output(t) \in Names /\ Output(t) \in OfTools
        /\ file[Output(t)].made
        /\ file[Output(t)] \in Files /\ file[Output(t)].data \in Seq(Lines)
    BY <1>1, AliveFacts
  <2> QED
    BY <1>2, <2>1 DEF Files
<1>4. Sane(file)
  BY DEF BenchInv, Typed
<1>5. PICK w \in Seq(Lines) :
            /\ Summary(n, r) = w /\ Len(w) >= 2
            /\ w[1].kind = "dash" /\ w[2].kind = "head" /\ BodyFrom(w, 3, Len(w))
            /\ \A i \in 1..Len(w) : w[i].run = r
  BY <1>3, SummaryText
<1>6. PICK g : g = Written(file, t, r, w)
  OBVIOUS
<1>7. file' = g
  BY <1>2, <1>5, <1>6
<1>8. /\ Sane(g) /\ g[o].made
      /\ \A m \in Names \ {o} : g[m] = file[m]
      /\ ~Shared(t, r) => g[o] = File(file[o].data \o w)
  BY <1>1, <1>2, <1>3, <1>4, <1>6, WrittenFacts
<1>9. PICK f : f = g[o]
  OBVIOUS
<1>10. f \in Files /\ f.data \in Seq(Lines) /\ f.made
  BY <1>3, <1>8, <1>9 DEF Sane
<1>11. g = [file EXCEPT ![o] = f]
  <2>1. g \in [Names -> Files] /\ file \in [Names -> Files]
    BY <1>4, <1>8 DEF Sane
  <2> QED
    BY <1>3, <1>8, <1>9, <2>1
<1>12. ASSUME \A s \in Run \ {r} : ~Alive(proc[s][t]), OwnText(t, n, r, proc[r][t], file[o])
       PROVE  OwnText(t, n, r, p, f)
  <2>1. ~Shared(t, r)
    BY <1>12 DEF Shared, Alive
  <2>2. PICK d : d = file[o].data
    OBVIOUS
  <2>3. d \in Seq(Lines) /\ Cut(d, n) /\ \A i \in 1..Len(d) : d[i].run = r
    BY <1>3, <1>12, <2>2 DEF OwnText
  <2>4. f = File(d \o w)
    BY <1>8, <1>9, <2>1, <2>2
  <2>5. PICK e : e = d \o w
    OBVIOUS
  <2>6. Summed(e, n)
    BY <1>3, <1>5, <2>3, <2>5, CutSummary
  <2>7. e \in Seq(Lines) /\ \A i \in 1..Len(e) : e[i].run = r
    <3>1. /\ e \in Seq(Lines) /\ Len(e) = Len(d) + Len(w)
          /\ \A i \in 1..Len(d) : e[i] = d[i]
          /\ \A i \in Len(d)+1..Len(d)+Len(w) : i - Len(d) \in 1..Len(w) /\ e[i] = w[i - Len(d)]
      <4>1. d \in Seq(Lines) /\ w \in Seq(Lines)
        BY <2>3
      <4> QED
        BY ONLY <2>5, <4>1, Joined, Zenon
    <3>2. ASSUME NEW i \in 1..Len(e) PROVE e[i].run = r
      <4>1. i \in 1..Len(d) \/ i \in Len(d)+1..Len(d)+Len(w)
        BY <2>3, <3>1
      <4> QED
        BY <1>5, <2>3, <3>1, <4>1
    <3> QED
      BY <3>1, <3>2
  <2>8. f.made = TRUE /\ f.data = e
    BY <2>4, <2>5, <2>7, FileType
  <2> QED
    BY <2>6, <2>7, <2>8 DEF OwnText
<1>13. p.st \notin {"off", "starting", "running", "hung"} /\ ~Alive(p)
  BY DEF Alive
<1>14. (\A s \in Run \ {r} : ~Alive(proc[s][t])) =>
         (OwnText(t, calls[r].streams, r, proc[r][t], file[Output(t)])
            => OwnText(t, calls[r].streams, r, p, f))
  BY ONLY <1>2, <1>12
<1>15. file' = [file EXCEPT ![Output(t)] = f]
  BY <1>2, <1>7, <1>11
<1> QED
  BY <1>1, <1>10, <1>13, <1>14, <1>15, ToolStep

\* A tool changes state and leaves its file alone.
LEMMA QuietStep ==
  ASSUME BenchInv, NEW t \in Tool, NEW r \in Run, proc[r][t].st \in {"running", "hung"},
         NEW p \in [st : States, left : 0..SleepTime], p.st \in {"hung", "killed"},
         p.st = "hung" => t = "iperf", Alive(p) => Deadline(t, p) <= Deadline(t, proc[r][t]),
         t # "iperf" => proc[r][t].left = 0,
         proc' = [proc EXCEPT ![r][t] = p], UNCHANGED <<file, calls, script, results, alone>>
  PROVE  BenchInv'
<1>1. Alive(proc[r][t])
  BY DEF Alive
<1>2. PICK f, q, n : f = file[Output(t)] /\ q = proc[r][t] /\ n = calls[r].streams
  OBVIOUS
<1>3. /\ f \in Files /\ f.data \in Seq(Lines) /\ f.made
      /\ file = [file EXCEPT ![Output(t)] = f]
      /\ q.st = "hung" => t = "iperf"
  <2>1. /\ file[Output(t)] \in Files /\ file[Output(t)].data \in Seq(Lines)
        /\ file[Output(t)].made
        /\ file = [file EXCEPT ![Output(t)] = file[Output(t)]]
        /\ proc[r][t].st = "hung" => t = "iperf"
    BY <1>1, AliveFacts
  <2> QED
    BY <1>2, <2>1
<1>4. file' = [file EXCEPT ![Output(t)] = f]
  BY <1>3
<1>5. q.st \in {"running", "hung"} /\ (t # "iperf" => q.left = 0 /\ q.st = "running")
  BY <1>2, <1>3
<1>6. OwnText(t, n, r, q, f) => OwnText(t, n, r, p, f)
  BY <1>3, <1>5 DEF OwnText
<1>7. (\A s \in Run \ {r} : ~Alive(proc[s][t])) =>
        (OwnText(t, calls[r].streams, r, proc[r][t], file[Output(t)])
           => OwnText(t, calls[r].streams, r, p, f))
  BY ONLY <1>2, <1>6
<1>8. p.st \notin {"off", "starting", "running", "done"}
  OBVIOUS
<1> QED
  BY <1>1, <1>3, <1>4, <1>7, <1>8, ToolStep

\* iperf3's test is over.
LEMMA IperfEndsStep ==
  ASSUME BenchInv, NEW r \in Run, IperfEnds(r)
  PROVE  BenchInv'
<1>1. "iperf" \in Tool
  BY DEF Tool
<1>2. proc[r]["iperf"] = [st |-> "running", left |-> 0]
  BY DEF IperfEnds
<1>3. PICK p : p = [st |-> "done", left |-> 0]
  OBVIOUS
<1>4. p \in [st : States, left : 0..SleepTime] /\ p.st = "done"
  BY <1>3, TimeAssumption DEF States
<1>5. proc' = [proc EXCEPT ![r]["iperf"] = p]
  <2>1. proc \in [Run -> [Tool -> [st : States, left : 0..SleepTime]]]
    BY DEF BenchInv, Typed
  <2>2. [proc[r]["iperf"] EXCEPT !.st = "done"] = p
    BY <1>2, <1>3
  <2>3. proc' = [proc EXCEPT ![r]["iperf"] = [proc[r]["iperf"] EXCEPT !.st = "done"]]
    BY <1>1, <2>1 DEF IperfEnds
  <2> QED
    BY ONLY <2>2, <2>3
<1>6. /\ file' = Written(file, "iperf", r, Summary(calls[r].streams, r))
      /\ UNCHANGED <<calls, script, results, alone>>
  BY DEF IperfEnds
<1>7. proc[r]["iperf"].st \in {"running", "hung"} /\ p.st \in {"done", "killed"}
  BY <1>2, <1>4
<1> QED
  BY <1>4, <1>5, <1>6, <1>7, SummaryStep

\* iperf3 goes on waiting for the receiver.
LEMMA IperfHangsStep ==
  ASSUME BenchInv, NEW r \in Run, IperfHangs(r)
  PROVE  BenchInv'
<1>1. "iperf" \in Tool
  BY DEF Tool
<1>2. proc[r]["iperf"] = [st |-> "running", left |-> 0]
  BY DEF IperfHangs
<1>3. PICK p : p = [st |-> "hung", left |-> IperfLimit - TestTime]
  OBVIOUS
<1>4. p \in [st : States, left : 0..SleepTime] /\ p.st = "hung"
  <2>1. IperfLimit - TestTime \in 0..SleepTime
    BY TimeAssumption
  <2> QED
    BY <1>3, <2>1 DEF States
<1>5. Deadline("iperf", p) <= Deadline("iperf", proc[r]["iperf"])
  <2>1. Deadline("iperf", p) = IperfLimit - TestTime
    BY <1>3 DEF Deadline
  <2>2. Deadline("iperf", proc[r]["iperf"]) = 0 + (IperfLimit - TestTime)
    BY <1>2 DEF Deadline
  <2> QED
    BY <2>1, <2>2, TimeAssumption
<1>6. proc' = [proc EXCEPT ![r]["iperf"] = p] /\ UNCHANGED <<file, calls, script, results, alone>>
  BY <1>3 DEF IperfHangs
<1>7. proc[r]["iperf"].st \in {"running", "hung"} /\ p.st \in {"hung", "killed"}
  BY <1>2, <1>4
<1> QED
  BY <1>1, <1>4, <1>5, <1>6, <1>7, QuietStep

\* timeout ends a tool.
LEMMA TimedOutStep ==
  ASSUME BenchInv, NEW t \in Tool, NEW r \in Run, TimedOut(t, r)
  PROVE  BenchInv'
<1>1. /\ proc[r][t].left = 0 /\ proc[r][t].st \in {"running", "hung"}
      /\ proc' = [proc EXCEPT ![r][t].st = "killed"]
      /\ UNCHANGED <<calls, script, results, alone>>
  BY DEF TimedOut
<1>2. proc \in [Run -> [Tool -> [st : States, left : 0..SleepTime]]]
  BY DEF BenchInv, Typed
<1>3. PICK p : p = [proc[r][t] EXCEPT !.st = "killed"]
  OBVIOUS
<1>4. p \in [st : States, left : 0..SleepTime] /\ p.st = "killed" /\ ~Alive(p)
  <2>1. proc[r][t] \in [st : States, left : 0..SleepTime]
    BY <1>2
  <2>2. p \in [st : States, left : 0..SleepTime] /\ p.st = "killed"
    BY <1>3, <2>1 DEF States
  <2> QED
    BY <2>2 DEF Alive
<1>5. proc' = [proc EXCEPT ![r][t] = p]
  BY <1>1, <1>2, <1>3
<1>6. CASE UNCHANGED file
  BY <1>1, <1>4, <1>5, <1>6, QuietStep
<1>7. CASE t = "iperf" /\ file' = Written(file, t, r, Summary(calls[r].streams, r))
  <2>1. p.st \in {"done", "killed"}
    BY <1>4
  <2> QED
    BY <1>1, <1>4, <1>5, <1>7, <2>1, SummaryStep
<1> QED
  BY <1>6, <1>7 DEF TimedOut

--------------------------------------------------------------------------------
(***************************************************************************)
(* A run begins, and a tick                                                *)
(***************************************************************************)
\* What a kept directory says, where its run and tools are what they were.
LEMMA KeptSame ==
  ASSUME NEW d, NEW b, results'[d] = results[d], calls'[b] = calls[b],
         \A t \in Tool : proc[b][t].st \in Dead => proc'[b][t] = proc[b][t],
         KeptText(d, b)
  PROVE  KeptText(d, b)'
<1>1. "iperf" \in Tool /\ "speed" \in Tool /\ "tcpdump" \in Tool
  BY DEF Tool
<1>2. \A t \in Tool : proc[b][t].st \in Dead
  BY DEF KeptText
<1>3. \A t \in Tool : proc'[b][t] = proc[b][t]
  BY <1>2
<1> QED
  BY <1>1, <1>3 DEF KeptText, KeptFile, Kept

\* A run of the script begins.
LEMMA BeginStep ==
  ASSUME BenchInv, NEW c \in Tests, Begin(c)
  PROVE  BenchInv'
<1>1. /\ Typed /\ InTime /\ OpenMade /\ NoOthers /\ OwnFiles /\ Filling /\ KeptOwn
      /\ run \in Nat
  BY RunFacts DEF BenchInv
<1>2. /\ script.pc = "idle" /\ run < MaxRuns
      /\ calls' = Append(calls, c)
      /\ script' = [pc |-> "tshark", left |-> SleepTime]
      /\ proc' = [proc EXCEPT ![run + 1] = [t \in Tool |-> [st |-> "starting", left |-> MaxDelay]]]
      /\ alone' = IF \E r \in Run, t \in Tool : Alive(proc[r][t]) THEN alone
                  ELSE alone \cup {run + 1}
      /\ UNCHANGED <<file, results>>
  BY DEF Begin, At
<1>3. PICK k : k = run + 1
  OBVIOUS
<1>4. /\ k \in Run /\ k \in Nat /\ k > run /\ k >= 1
      /\ calls \in Seq(Tests) /\ calls' \in Seq(Tests) /\ run' = k
      /\ \A b \in 1..run : calls'[b] = calls[b]
  <2>1. calls \in Seq(Tests) /\ run = Len(calls)
    BY <1>1 DEF Typed, run
  <2>2. Len(Append(calls, c)) = Len(calls) + 1 /\ Append(calls, c) \in Seq(Tests)
        /\ \A b \in 1..Len(calls) : Append(calls, c)[b] = calls[b]
    BY <2>1
  <2>3. run' = k
    BY <1>2, <1>3, <2>1, <2>2 DEF run
  <2>4. k \in Run
    BY <1>1, <1>2, <1>3, TestsAssumption DEF Run
  <2> QED
    BY <1>1, <1>2, <1>3, <2>1, <2>2, <2>3, <2>4
<1>5. PICK p : p = [st |-> "starting", left |-> MaxDelay]
  OBVIOUS
<1>6. p \in [st : States, left : 0..SleepTime] /\ p.st = "starting" /\ p.left = MaxDelay
  BY <1>5, TimeAssumption DEF States
<1>7. proc \in [Run -> [Tool -> [st : States, left : 0..SleepTime]]]
  BY <1>1 DEF Typed
<1>8. /\ \A t \in Tool : proc'[k][t] = p
      /\ \A r \in Run \ {k} : proc'[r] = proc[r]
      /\ proc' \in [Run -> [Tool -> [st : States, left : 0..SleepTime]]]
  <2>1. proc' = [proc EXCEPT ![k] = [t \in Tool |-> p]]
    BY ONLY <1>2, <1>3, <1>5
  <2> QED
    BY <1>4, <1>6, <1>7, <2>1
<1>9. script' \in [pc : Commands, left : 0..SleepTime] /\ script'.pc = "tshark"
      /\ script'.left = SleepTime
  BY <1>2, TimeAssumption DEF Commands
<1>10. Typed'
  <2>1. results \in [Dirs -> [by : 0..run, file : [Names -> Files]]] /\ 0..run \subseteq 0..k
    BY <1>1, <1>4 DEF Typed
  <2>2. results' \in [Dirs -> [by : 0..k, file : [Names -> Files]]]
    BY <1>2, <2>1
  <2>3. alone' \subseteq 1..k
    <3>1. alone \subseteq 1..run /\ 1..run \subseteq 1..k /\ k \in 1..k
      BY <1>1, <1>4 DEF Typed
    <3> QED
      BY <1>2, <1>3, <3>1
  <2>4. k <= MaxRuns
    BY <1>4, TestsAssumption DEF Run
  <2>5. Sane(file)' /\ \A d \in Dirs : Sane(results[d].file)'
    BY <1>1, <1>2 DEF Typed, Sane
  <2> QED
    BY <1>4, <1>8, <1>9, <2>2, <2>3, <2>4, <2>5 DEF Typed
<1>11. InTime'
  <2> SUFFICES ASSUME NEW s \in Run, NEW u \in Tool
               PROVE  /\ s > k => proc'[s][u].st = "off"
                      /\ s <= k => proc'[s][u].st # "off"
                      /\ proc'[s][u].st \in {"hung", "done"} => u = "iperf"
                      /\ proc'[s][u].st = "running" => proc'[s][u].left <= ToolLimit
                      /\ Alive(proc'[s][u]) =>
                           /\ Deadline(u, proc'[s][u]) <= MaxDelay + ToolLimit
                           /\ Deadline(u, proc'[s][u]) < SleepTime
    BY <1>4, <1>9 DEF InTime
  <2>1. CASE s = k
    <3>1. Deadline(u, p) = MaxDelay + ToolLimit
      BY <1>6 DEF Deadline
    <3> QED
      BY <1>4, <1>6, <1>8, <2>1, <3>1, TimeAssumption
  <2>2. CASE s # k
    <3>1. proc'[s][u] = proc[s][u] /\ Deadline(u, proc[s][u]) \in Nat /\ s \in Nat
      <4>1. proc[s][u] \in [st : States, left : 0..SleepTime]
        BY <1>7
      <4> QED
        BY <1>8, <2>2, <4>1, DeadlineType DEF Run
    <3>2. /\ s > run => proc[s][u].st = "off"
          /\ s <= run => proc[s][u].st # "off"
          /\ proc[s][u].st \in {"hung", "done"} => u = "iperf"
          /\ proc[s][u].st = "running" => proc[s][u].left <= ToolLimit
          /\ Alive(proc[s][u]) => Deadline(u, proc[s][u]) <= MaxDelay + ToolLimit
      BY <1>1 DEF InTime
    <3>3. (s > k => s > run) /\ (s <= k => s <= run)
      BY <1>1, <1>3, <2>2, <3>1
    <3>4. Alive(proc[s][u]) => Deadline(u, proc[s][u]) < SleepTime
      BY <3>1, <3>2, TimeAssumption
    <3> QED
      BY <3>1, <3>2, <3>3, <3>4
  <2> QED
    BY <2>1, <2>2
<1>12. OpenMade'
  <2> SUFFICES ASSUME NEW s \in Run, NEW u \in Tool, proc'[s][u].st \in {"running", "hung"}
               PROVE  file[Output(u)].made
    BY <1>2 DEF OpenMade
  <2>1. s # k
    BY <1>6, <1>8
  <2> QED
    BY <1>1, <1>8, <2>1 DEF OpenMade
<1>13. NoOthers'
  <2> SUFFICES ASSUME k \in alone', NEW s \in Run \ {k}, NEW u \in Tool
               PROVE  ~Alive(proc'[s][u])
    BY <1>4 DEF NoOthers, Undisturbed
  <2>1. k \notin alone
    BY <1>1, <1>4 DEF Typed
  <2>2. ~Alive(proc[s][u])
    BY <1>2, <2>1
  <2> QED
    BY <1>8, <2>2
<1>14. OwnFiles'
  <2> SUFFICES ASSUME NEW u \in Tool
               PROVE  OwnText(u, test.streams, run, proc[run][u], file[Output(u)])'
    BY <1>9 DEF OwnFiles
  <2>1. proc'[run'][u].st = "starting"
    BY <1>4, <1>6, <1>8
  <2> QED
    BY <2>1 DEF OwnText
<1>15. Filling'
  BY <1>9 DEF Filling
<1>16. KeptOwn'
  <2> SUFFICES ASSUME NEW d \in Sound' PROVE KeptText(d, results[d].by)'
    BY DEF KeptOwn
  <2>1. PICK b : b = results[d].by
    OBVIOUS
  <2>2. d \in Dirs /\ results'[d].by = b /\ b \in alone' /\ b \in 0..run
    BY <1>1, <1>2, <2>1 DEF Sound, Typed
  <2>3. b # k
    BY <1>1, <1>3, <2>2
  <2>4. b \in alone
    BY <1>2, <1>3, <2>2, <2>3
  <2>5. b \in 1..run /\ b \in Run
    BY <1>1, <2>4, RunFacts DEF Typed
  <2>6. KeptText(d, b)
    BY <1>1, <2>1, <2>2, <2>4 DEF KeptOwn, Sound
  <2>7. KeptText(d, b)'
    BY <1>2, <1>4, <1>8, <2>3, <2>5, <2>6, KeptSame
  <2> QED
    BY ONLY <2>2, <2>7
<1> QED
  BY <1>10, <1>11, <1>12, <1>13, <1>14, <1>15, <1>16 DEF BenchInv

\* A tick: each tool that is alive has one less left, and writes its figure if it runs.
LEMMA TickStep ==
  ASSUME BenchInv, Tick
  PROVE  BenchInv'
<1>1. /\ Typed /\ InTime /\ OpenMade /\ NoOthers /\ OwnFiles /\ Filling /\ KeptOwn
      /\ run \in Nat
  BY RunFacts DEF BenchInv
<1> DEFINE S == {x \in Run \X Tool : proc[x[1]][x[2]].st = "running"}
<1>2. /\ script.left > 0 \/ \E r \in Run, t \in Tool : Alive(proc[r][t])
      /\ \A r \in Run, t \in Tool : Alive(proc[r][t]) => proc[r][t].left > 0
      /\ proc' = [r \in Run |-> [t \in Tool |->
                IF Alive(proc[r][t]) THEN [proc[r][t] EXCEPT !.left = @ - 1] ELSE proc[r][t]]]
      /\ file' = Ticked(S)
      /\ script' = [script EXCEPT !.left = IF @ > 0 THEN @ - 1 ELSE 0]
      /\ calls' = calls /\ results' = results /\ alone' = alone
  BY DEF Tick, Ticked
<1>3. run' = run /\ test' = test /\ Sound' = Sound
  BY <1>2 DEF run, test, Sound
<1>4. /\ proc \in [Run -> [Tool -> [st : States, left : 0..SleepTime]]]
      /\ script \in [pc : Commands, left : 0..SleepTime]
      /\ script.pc # "tshark" => script.left = 0
  BY <1>1 DEF Typed
<1>5. script.pc \in {"idle", "tshark"}
  <2>1. CASE script.left > 0
    BY <1>4, <2>1
  <2>2. CASE \E r \in Run, t \in Tool : Alive(proc[r][t])
    BY <1>1, <2>2 DEF InTime
  <2> QED
    BY <1>2, <2>1, <2>2
<1>6. /\ script' \in [pc : Commands, left : 0..SleepTime] /\ script'.pc = script.pc
      /\ script'.left = IF script.left > 0 THEN script.left - 1 ELSE 0
      /\ script.pc # "tshark" => script'.left = 0
  <2>1. PICK x : x = IF script.left > 0 THEN script.left - 1 ELSE 0
    OBVIOUS
  <2>2. script.left \in 0..SleepTime /\ SleepTime \in Nat
    BY <1>4, TimeAssumption
  <2>3. x \in 0..SleepTime /\ (script.left = 0 => x = 0)
    BY ONLY <2>1, <2>2
  <2>4. script' = [script EXCEPT !.left = x]
    BY <1>2, <1>4, <2>1
  <2>5. script' \in [pc : Commands, left : 0..SleepTime] /\ script'.pc = script.pc
        /\ script'.left = x
    BY ONLY <1>4, <2>3, <2>4
  <2> QED
    BY ONLY <1>4, <2>1, <2>3, <2>5
<1>7. ASSUME NEW r \in Run, NEW t \in Tool
      PROVE  /\ proc'[r][t] \in [st : States, left : 0..SleepTime]
             /\ proc'[r][t].st = proc[r][t].st
             /\ Alive(proc'[r][t]) <=> Alive(proc[r][t])
             /\ Alive(proc[r][t]) => proc'[r][t].left = proc[r][t].left - 1
                                     /\ Deadline(t, proc'[r][t]) = Deadline(t, proc[r][t]) - 1
             /\ ~Alive(proc[r][t]) => proc'[r][t] = proc[r][t]
  <2>1. PICK q, p : q = proc[r][t] /\ p = proc'[r][t]
    OBVIOUS
  <2>2. q \in [st : States, left : 0..SleepTime]
    BY <1>4, <2>1
  <2>3. p = IF Alive(q) THEN [q EXCEPT !.left = @ - 1] ELSE q
    BY <1>2, <2>1
  <2>4. CASE Alive(q)
    <3>1. q.left > 0
      BY <1>2, <2>1, <2>4
    <3>2. p.st = q.st /\ p.left = q.left - 1 /\ p \in [st : States, left : 0..SleepTime]
      BY <2>2, <2>3, <2>4, <3>1, TimeAssumption
    <3>3. Deadline(t, p) = Deadline(t, q) - 1
      <4>1. q.left \in Nat
        BY <2>2
      <4> QED
        BY <3>2, <4>1, TimeAssumption DEF Deadline
    <3>4. Alive(p)
      BY <2>4, <3>2 DEF Alive
    <3> QED
      BY ONLY <2>1, <2>4, <3>2, <3>3, <3>4
  <2>5. CASE ~Alive(q)
    BY ONLY <2>1, <2>2, <2>3, <2>5
  <2> QED
    BY <2>4, <2>5
<1>8. proc' \in [Run -> [Tool -> [st : States, left : 0..SleepTime]]]
  <2>1. proc' = [r \in Run |-> [t \in Tool |-> proc'[r][t]]]
    BY <1>2
  <2> QED
    BY <1>7, <2>1
<1>9. /\ Sane(file')
      /\ \A n \in Names : file'[n].made = file[n].made
      /\ \A t \in Tool, r \in Run : (\A x \in S : x[2] = t => x[1] = r) =>
           file'[Output(t)] = IF <<r, t>> \in S
                              THEN Written(file, t, r, Figure(t, r))[Output(t)]
                              ELSE file[Output(t)]
  <2>1. S \in SUBSET (Run \X Tool) /\ \A x \in S : proc[x[1]][x[2]].st = "running"
    OBVIOUS
  <2>2. PICK R : R = S
    OBVIOUS
  <2>3. R \in SUBSET (Run \X Tool) /\ (\A x \in R : proc[x[1]][x[2]].st = "running")
        /\ file' = Ticked(R)
    BY ONLY <1>2, <2>1, <2>2
  <2>4. /\ Sane(Ticked(R))
        /\ \A n \in Names : Ticked(R)[n].made = file[n].made
        /\ \A t \in Tool, r \in Run : (\A x \in R : x[2] = t => x[1] = r) =>
             Ticked(R)[Output(t)] = IF <<r, t>> \in R
                                    THEN Written(file, t, r, Figure(t, r))[Output(t)]
                                    ELSE file[Output(t)]
    BY ONLY <1>1, <2>3, FoldWritten
  <2> HIDE DEF S
  <2> QED
    BY ONLY <2>2, <2>3, <2>4
<1>10. Typed'
  <2>1. Sane(file)'
    BY <1>9 DEF Sane
  <2>2. \A d \in Dirs : Sane(results[d].file)'
    BY <1>1, <1>2 DEF Typed, Sane
  <2> QED
    BY <1>1, <1>2, <1>3, <1>6, <1>8, <2>1, <2>2 DEF Typed
<1>11. InTime'
  <2> SUFFICES ASSUME NEW s \in Run, NEW u \in Tool
               PROVE  /\ s > run => proc'[s][u].st = "off"
                      /\ s <= run => proc'[s][u].st # "off"
                      /\ proc'[s][u].st \in {"hung", "done"} => u = "iperf"
                      /\ proc'[s][u].st = "running" => proc'[s][u].left <= ToolLimit
                      /\ Alive(proc'[s][u]) =>
                           /\ script'.pc \in {"idle", "tshark"}
                           /\ Deadline(u, proc'[s][u]) <= MaxDelay + ToolLimit
                           /\ script'.pc = "tshark" => Deadline(u, proc'[s][u]) < script'.left
    BY <1>3 DEF InTime
  <2>1. proc[s][u].st = "running" => Alive(proc[s][u])
    BY DEF Alive
  <2>2. /\ s > run => proc[s][u].st = "off"
        /\ s <= run => proc[s][u].st # "off"
        /\ proc[s][u].st \in {"hung", "done"} => u = "iperf"
        /\ proc[s][u].st = "running" => proc[s][u].left <= ToolLimit
        /\ Alive(proc[s][u]) =>
             /\ Deadline(u, proc[s][u]) <= MaxDelay + ToolLimit
             /\ script.pc = "tshark" => Deadline(u, proc[s][u]) < script.left
    BY <1>1 DEF InTime
  <2>3. proc[s][u].left \in Nat /\ Deadline(u, proc[s][u]) \in Nat
    <3>1. proc[s][u] \in [st : States, left : 0..SleepTime]
      BY <1>4
    <3> QED
      BY <3>1, DeadlineType
  <2>4. script.left \in Nat /\ MaxDelay + ToolLimit \in Nat /\ ToolLimit \in Nat
    BY <1>4, TimeAssumption
  <2>5. PICK x, y : x = Deadline(u, proc[s][u]) /\ y = Deadline(u, proc'[s][u])
    OBVIOUS
  <2>6. Alive(proc[s][u]) => y = x - 1 /\ proc'[s][u].left = proc[s][u].left - 1
    BY ONLY <1>7, <2>5
  <2>7. Alive(proc[s][u]) => y <= MaxDelay + ToolLimit
                             /\ (script.pc = "tshark" => y < script'.left)
    <3>1. Alive(proc[s][u]) => x <= MaxDelay + ToolLimit
                               /\ (script.pc = "tshark" => x < script.left)
      BY ONLY <2>2, <2>5
    <3>2. x \in Nat /\ (x < script.left => script.left > 0)
      BY <2>3, <2>4, <2>5
    <3>3. script.left > 0 => script'.left = script.left - 1
      BY <1>6
    <3> QED
      BY ONLY <2>4, <2>6, <3>1, <3>2, <3>3
  <2>8. proc'[s][u].st = proc[s][u].st /\ (Alive(proc'[s][u]) <=> Alive(proc[s][u]))
    BY <1>7
  <2>9. proc'[s][u].st = "running" => proc'[s][u].left <= ToolLimit
    BY ONLY <2>1, <2>2, <2>3, <2>4, <2>6, <2>8
  <2> QED
    BY ONLY <1>5, <1>6, <2>2, <2>5, <2>7, <2>8, <2>9
<1>12. OpenMade'
  <2> SUFFICES ASSUME NEW s \in Run, NEW u \in Tool, proc'[s][u].st \in {"running", "hung"}
               PROVE  file'[Output(u)].made
    BY DEF OpenMade
  <2>1. file[Output(u)].made
    BY <1>1, <1>7 DEF OpenMade
  <2>2. Output(u) \in Names
    BY Outputs
  <2> QED
    BY <1>9, <2>1, <2>2
<1>13. Undisturbed' = Undisturbed
  BY <1>2, <1>3, <1>6 DEF Undisturbed
<1>14. NoOthers'
  <2> SUFFICES ASSUME Undisturbed, NEW s \in Run \ {run}, NEW u \in Tool
               PROVE  ~Alive(proc'[s][u])
    BY <1>3, <1>13 DEF NoOthers
  <2>1. ~Alive(proc[s][u])
    BY <1>1 DEF NoOthers
  <2> QED
    BY <1>7, <2>1
<1>15. OwnFiles'
  <2> SUFFICES ASSUME Undisturbed, script.pc = "tshark", NEW u \in Tool
               PROVE  OwnText(u, test.streams, run, proc'[run][u], file'[Output(u)])
    BY <1>3, <1>5, <1>6, <1>13 DEF OwnFiles
  <2>1. OwnText(u, test.streams, run, proc[run][u], file[Output(u)])
    BY <1>1 DEF OwnFiles
  <2>2. run \in Run /\ \A s \in Run \ {run}, v \in Tool : ~Alive(proc[s][v])
    <3>1. run >= 1
      BY <1>1 DEF Typed
    <3> QED
      BY <1>1, <3>1, RunFacts DEF NoOthers
  <2>3. PICK r, p, q, n : r = run /\ p = proc'[run][u] /\ q = proc[run][u] /\ n = test.streams
    OBVIOUS
  <2>4. /\ p.st = q.st /\ q.left \in Nat
        /\ Alive(q) => p.left = q.left - 1
        /\ ~Alive(q) => p = q
    BY <1>4, <1>7, <2>2, <2>3
  <2>5. \A x \in S : x[2] = u => x[1] = r
    BY <2>2, <2>3 DEF Alive
  <2>6. <<r, u>> \in S <=> q.st = "running"
    BY <2>2, <2>3
  <2>7. file'[Output(u)] = IF <<r, u>> \in S
                           THEN Written(file, u, r, Figure(u, r))[Output(u)]
                           ELSE file[Output(u)]
    <3> HIDE DEF S
    <3>1. r \in Run
      BY <2>2, <2>3
    <3> QED
      BY ONLY <1>9, <2>5, <3>1, u \in Tool
  <2>8. PICK f, g : f = file[Output(u)] /\ g = file'[Output(u)]
    OBVIOUS
  <2>9. CASE q.st = "running"
    <3>1. PICK d, w : d = f.data /\ w = Figure(u, r)
      OBVIOUS
    <3>2. /\ w \in Seq(Lines) /\ \A i \in 1..Len(w) : w[i].run = r
          /\ u = "iperf" => BodyFrom(w, 1, Len(w))
          /\ u # "iperf" => Len(w) = 1
      <4>1. r \in Run /\ proc[r][u].st = "running"
        BY <2>2, <2>3, <2>9
      <4> QED
        BY <1>1, <3>1, <4>1, FigureType
    <3>3. Output(u) \in OfTools /\ f.made /\ d \in Seq(Lines)
      <4>1. Output(u) \in OfTools
        BY Outputs
      <4>2. file[Output(u)].made
        BY <1>1, <2>2, <2>3, <2>9 DEF OpenMade
      <4>3. file[Output(u)].data \in Seq(Lines)
        BY <1>1, <4>1 DEF Typed, Sane
      <4> QED
        BY ONLY <2>8, <3>1, <4>1, <4>2, <4>3
    <3>4. ~Shared(u, r)
      BY <2>2, <2>3 DEF Shared, Alive
    <3>5. g = File(d \o w)
      <4>1. Written(file, u, r, w)[Output(u)] = File(file[Output(u)].data \o w)
        <5>1. Sane(file) /\ r \in Run /\ file[Output(u)].made
          BY <1>1, <2>2, <2>3, <2>8, <3>3 DEF Typed
        <5> QED
          BY <3>2, <3>4, <5>1, WrittenFacts
      <4>2. g = Written(file, u, r, w)[Output(u)]
        <5> HIDE DEF S
        <5> QED
          BY ONLY <2>6, <2>7, <2>8, <2>9, <3>1
      <4> QED
        BY ONLY <2>8, <3>1, <4>1, <4>2
    <3>6. PICK e : e = d \o w
      OBVIOUS
    <3>7. /\ e \in Seq(Lines) /\ Len(e) = Len(d) + Len(w)
          /\ \A i \in 1..Len(d) : e[i] = d[i]
          /\ \A i \in Len(d)+1..Len(d)+Len(w) : i - Len(d) \in 1..Len(w) /\ e[i] = w[i - Len(d)]
      <4>1. d \in Seq(Lines) /\ w \in Seq(Lines)
        BY <3>2, <3>3
      <4> QED
        BY ONLY <3>6, <4>1, Joined, Zenon
    <3>8. g.made = TRUE /\ g.data = e
      BY <3>5, <3>6, <3>7, FileType
    <3>9. /\ \A i \in 1..Len(d) : d[i].run = r
          /\ u # "iperf" => Len(d) = ToolLimit - q.left
          /\ u = "iperf" => Cut(d, n)
      BY <2>1, <2>3, <2>8, <2>9, <3>1 DEF OwnText
    <3>10. \A i \in 1..Len(e) : e[i].run = r
      <4> TAKE i \in 1..Len(e)
      <4>1. i \in 1..Len(d) \/ i \in Len(d)+1..Len(d)+Len(w)
        BY <3>2, <3>3, <3>7
      <4> QED
        BY <3>2, <3>7, <3>9, <4>1
    <3>11. u # "iperf" => Len(e) = ToolLimit - p.left
      <4>1. p.left = q.left - 1
        BY <2>4, <2>9 DEF Alive
      <4>2. q.left \in Nat /\ ToolLimit \in Nat
        BY <2>4, TimeAssumption
      <4>3. Len(e) = Len(d) + Len(w)
        BY ONLY <3>7
      <4>4. u # "iperf" => Len(w) = 1 /\ Len(d) = ToolLimit - q.left
        BY ONLY <3>2, <3>9
      <4>5. u # "iperf" => Len(e) = ToolLimit - p.left
        <5>1. PICK x : x = q.left
          OBVIOUS
        <5>2. u # "iperf" => Len(e) = (ToolLimit - x) + 1
          BY ONLY <4>3, <4>4, <5>1
        <5>3. x \in Nat /\ p.left = x - 1
          BY ONLY <4>1, <4>2, <5>1
        <5>4. (ToolLimit - x) + 1 = ToolLimit - (x - 1)
          BY ONLY <4>2, <5>3
        <5> QED
          BY ONLY <5>2, <5>3, <5>4
      <4> QED
        BY ONLY <4>5
    <3>12. u = "iperf" => Cut(e, n)
      <4>1. n \in Nat
        BY <1>1, <2>2, <2>3, StreamsType DEF test
      <4> QED
        BY <3>2, <3>3, <3>6, <3>9, <4>1, CutRows
    <3>13. OwnText(u, n, r, p, g)
      <4>1. p.st = "running"
        BY <2>4, <2>9
      <4> QED
        BY ONLY <3>8, <3>10, <3>11, <3>12, <4>1 DEF OwnText
    <3> QED
      BY ONLY <2>3, <2>8, <3>13
  <2>10. CASE q.st # "running"
    <3>1. g = f
      <4> HIDE DEF S
      <4> QED
        BY ONLY <2>6, <2>7, <2>8, <2>10
    <3>2. OwnText(u, n, r, q, f)
      BY ONLY <2>1, <2>3, <2>8
    <3>3. OwnText(u, n, r, p, g)
      BY ONLY <2>4, <2>10, <3>1, <3>2 DEF OwnText
    <3> QED
      BY ONLY <2>3, <2>8, <3>3
  <2> QED
    BY <2>9, <2>10
<1>16. Filling'
  BY <1>5, <1>6 DEF Filling
<1>17. KeptOwn'
  <2> SUFFICES ASSUME NEW d \in Sound PROVE KeptText(d, results[d].by)'
    BY <1>3 DEF KeptOwn
  <2>1. PICK b : b = results[d].by
    OBVIOUS
  <2>2. b \in Run
    BY <1>1, <2>1, RunFacts DEF Sound, Typed
  <2>3. KeptText(d, b)
    BY <1>1, <2>1 DEF KeptOwn
  <2>4. \A t \in Tool : proc[b][t].st \in Dead => proc'[b][t] = proc[b][t]
    BY <1>7, <2>2 DEF Dead, Alive
  <2>5. KeptText(d, b)'
    BY <1>2, <2>3, <2>4, KeptSame
  <2>6. results'[d].by = b
    BY <1>2, <2>1
  <2> QED
    BY ONLY <2>5, <2>6
<1> QED
  BY <1>10, <1>11, <1>12, <1>14, <1>15, <1>16, <1>17 DEF BenchInv

--------------------------------------------------------------------------------
(***************************************************************************)
(* The commands of the script                                              *)
(***************************************************************************)
\* When the script works on the files, every tool of its run has ended.
LEMMA CommandFacts ==
  ASSUME BenchInv, script.pc # "idle", script.left = 0
  PROVE  /\ run \in Run /\ run \in Nat /\ test \in Tests /\ test.dir \in Dirs
         /\ Parsed(test) \in {"retr", "jitter"} /\ Parsed(test) \in Names
         /\ \A t \in Tool : proc[run][t].st \in Dead
<1>1. Typed /\ InTime
  BY DEF BenchInv
<1>2. run >= 1
  BY <1>1 DEF Typed
<1>3. run \in Run /\ run \in Nat /\ test \in Tests
  BY <1>1, <1>2, RunFacts
<1>4. test.dir \in Dirs
  BY <1>3 DEF Dirs
<1>5. Parsed(test) \in {"retr", "jitter"} /\ Parsed(test) \in Names
  BY DEF Parsed, Names
<1>6. \A t \in Tool : proc[run][t].st \in Dead
  <2> TAKE t \in Tool
  <2>1. ~Alive(proc[run][t])
    BY <1>3, NoneAlive
  <2>2. run <= run => proc[run][t].st # "off"
    BY <1>1, <1>3 DEF InTime
  <2>3. proc[run][t].st \in States
    BY <1>1, <1>3 DEF Typed
  <2> QED
    BY <1>3, <2>1, <2>2, <2>3 DEF Alive, Dead, States
<1> QED
  BY <1>3, <1>4, <1>5, <1>6

\* A command moves the script on, and changes files and results at most.
LEMMA CommandStep ==
  ASSUME BenchInv, script.pc # "idle", script.left = 0, NEW pc \in Commands \ {"tshark"},
         script' = [script EXCEPT !.pc = pc], UNCHANGED <<calls, proc, alone>>,
         Sane(file'),
         results' \in [Dirs -> [by : 0..run, file : [Names -> Files]]],
         \A d \in Dirs : Sane(results'[d].file),
         OwnFiles', Filling', KeptOwn'
  PROVE  BenchInv'
<1>1. Typed /\ InTime /\ OpenMade /\ NoOthers
  BY DEF BenchInv
<1>2. run' = run
  BY DEF run
<1>3. \A r \in Run, t \in Tool : ~Alive(proc[r][t])
  BY NoneAlive
<1>4. script' \in [pc : Commands, left : 0..SleepTime] /\ script'.pc = pc /\ script'.left = 0
  BY <1>1 DEF Typed
<1>5. Typed'
  <2>1. Sane(file)' /\ \A d \in Dirs : Sane(results[d].file)'
    BY DEF Sane
  <2>2. run >= 1
    BY <1>1 DEF Typed
  <2>3. results' \in [Dirs -> [by : 0..run', file : [Names -> Files]]]
    BY <1>2
  <2> QED
    BY <1>1, <1>2, <1>4, <2>1, <2>2, <2>3 DEF Typed
<1>6. InTime'
  BY <1>1, <1>2, <1>3 DEF InTime
<1>7. OpenMade'
  BY <1>3 DEF OpenMade, Alive
<1>8. NoOthers'
  BY <1>3 DEF NoOthers
<1> QED
  BY <1>5, <1>6, <1>7, <1>8 DEF BenchInv

\* The kept directories, while nothing changes them.
LEMMA KeptStays ==
  ASSUME BenchInv, UNCHANGED <<calls, proc, results, alone>>
  PROVE  KeptOwn' /\ \A d \in Dirs : Sane(results'[d].file)
<1>1. Sound' = Sound
  BY DEF Sound
<1>2. KeptOwn /\ Typed
  BY DEF BenchInv
<1>3. KeptOwn'
  <2> SUFFICES ASSUME NEW d \in Sound PROVE KeptText(d, results[d].by)'
    BY <1>1 DEF KeptOwn
  <2>1. PICK b : b = results[d].by
    OBVIOUS
  <2>2. KeptText(d, b)
    BY <1>2, <2>1 DEF KeptOwn
  <2>3. KeptText(d, b)'
    BY <2>2, KeptSame
  <2>4. results'[d].by = b
    BY <2>1
  <2> QED
    BY ONLY <2>3, <2>4
<1> QED
  BY <1>2, <1>3 DEF Typed

\* tshark writes the latencies of the packets captured.
LEMMA TsharkStep ==
  ASSUME BenchInv, Tshark
  PROVE  BenchInv'
<1>1. /\ script.pc = "tshark" /\ script.left = 0
      /\ script' = [script EXCEPT !.pc = "parse"]
      /\ file' = [file EXCEPT !["latency"] = File(file["send_pcap"].data)]
      /\ UNCHANGED <<calls, proc, results, alone>>
  BY DEF Tshark, At, GoTo
<1>2. Typed /\ OwnFiles /\ run' = run /\ test' = test
  BY <1>1 DEF BenchInv, run, test
<1>3. Sane(file) /\ script'.pc = "parse"
  BY <1>1, <1>2 DEF Typed
<1>4. PICK w : w = file["send_pcap"].data
  OBVIOUS
<1>5. w \in Seq(Lines)
  BY <1>3, <1>4 DEF Sane, OfTools
<1>6. /\ file' \in [Names -> Files] /\ file'["latency"] = File(w)
      /\ \A n \in Names \ {"latency"} : file'[n] = file[n]
  <2>1. "latency" \in Names /\ file \in [Names -> Files] /\ File(w) \in Files
    BY <1>3, <1>5, FileType DEF Names, Sane
  <2> QED
    BY <1>1, <1>4, <2>1
<1>7. Sane(file')
  <2>1. \A n \in Names : file'[n].made \/ file'[n].data = << >>
    BY <1>3, <1>5, <1>6, FileType DEF Sane
  <2>2. \A n \in OfTools : file'[n].data \in Seq(Lines)
    BY <1>3, <1>5, <1>6, FileType, Outputs DEF Sane
  <2> QED
    BY <1>6, <2>1, <2>2 DEF Sane
<1>8. OwnFiles'
  <2> SUFFICES ASSUME Undisturbed'
               PROVE  /\ \A t \in Tool : OwnText(t, test.streams, run, proc[run][t], file'[Output(t)])
                      /\ file'["latency"] = File(file'["send_pcap"].data)
    BY <1>1, <1>2, <1>3 DEF OwnFiles
  <2>1. Undisturbed
    BY <1>1, <1>2 DEF Undisturbed
  <2>2. \A t \in Tool : OwnText(t, test.streams, run, proc[run][t], file[Output(t)])
    BY <1>1, <1>2, <2>1 DEF OwnFiles
  <2>3. \A t \in Tool : file'[Output(t)] = file[Output(t)]
    BY <1>6, Outputs
  <2>4. file'["send_pcap"] = file["send_pcap"]
    BY <1>6 DEF Names
  <2> QED
    BY <1>4, <1>6, <2>2, <2>3, <2>4
<1>9. Filling'
  BY <1>3 DEF Filling
<1>10. results' \in [Dirs -> [by : 0..run, file : [Names -> Files]]]
  BY <1>1, <1>2 DEF Typed
<1>11. "parse" \in Commands \ {"tshark"}
  BY DEF Commands
<1> QED
  BY <1>1, <1>7, <1>8, <1>9, <1>10, <1>11, KeptStays, CommandStep

\* The parser writes the figures of the iperf output.
LEMMA ParseStep ==
  ASSUME BenchInv, ParseOutput
  PROVE  BenchInv'
<1>1. /\ script.pc = "parse" /\ script.left = 0
      /\ script' = [script EXCEPT !.pc = "replace"]
      /\ file' = [file EXCEPT ![Parsed(test)] =
                   File(Figures(test, file["iperf_send"].data))]
      /\ UNCHANGED <<calls, proc, results, alone>>
  BY DEF ParseOutput, At, GoTo, Figures
<1>2. Typed /\ OwnFiles /\ run' = run /\ test' = test
  BY <1>1 DEF BenchInv, run, test
<1>3. Sane(file) /\ script'.pc = "replace"
  BY <1>1, <1>2 DEF Typed
<1>4. PICK w, m : w = Figures(test, file["iperf_send"].data) /\ m = Parsed(test)
  OBVIOUS
<1>5. w \in Seq(Int)
  <2>1. file["iperf_send"].data \in Seq(Lines)
    BY <1>3 DEF Sane, OfTools
  <2> QED
    BY <1>4, <2>1, FiguresType DEF Figures
<1>6. m \in Names /\ m \in {"retr", "jitter"} /\ m \notin OfTools
  BY <1>4, CommandFacts, <1>1 DEF OfTools
<1>7. File(w) \in Files /\ File(w).made = TRUE
  BY <1>5 DEF File, Files
<1>8. /\ file' \in [Names -> Files] /\ file'[m] = File(w)
      /\ \A n \in Names \ {m} : file'[n] = file[n]
  <2>1. file \in [Names -> Files]
    BY <1>3 DEF Sane
  <2> QED
    BY <1>1, <1>4, <1>6, <1>7, <2>1
<1>9. Sane(file')
  <2>1. \A n \in Names : file'[n].made \/ file'[n].data = << >>
    BY <1>3, <1>7, <1>8 DEF Sane
  <2>2. \A n \in OfTools : file'[n].data \in Seq(Lines)
    BY <1>3, <1>6, <1>8, Outputs DEF Sane
  <2> QED
    BY <1>8, <2>1, <2>2 DEF Sane
<1>10. OwnFiles'
  <2> SUFFICES ASSUME Undisturbed'
               PROVE  /\ \A t \in Tool : OwnText(t, test.streams, run, proc[run][t], file'[Output(t)])
                      /\ file'["latency"] = File(file'["send_pcap"].data)
                      /\ file'[Parsed(test)] = File(Figures(test, file'["iperf_send"].data))
    BY <1>1, <1>2, <1>3 DEF OwnFiles
  <2>1. Undisturbed
    BY <1>1, <1>2 DEF Undisturbed
  <2>2. /\ \A t \in Tool : OwnText(t, test.streams, run, proc[run][t], file[Output(t)])
        /\ file["latency"] = File(file["send_pcap"].data)
    BY <1>1, <1>2, <2>1 DEF OwnFiles
  <2>3. \A n \in OfTools : file'[n] = file[n]
    BY <1>6, <1>8, Outputs
  <2>4. \A t \in Tool : file'[Output(t)] = file[Output(t)]
    BY <2>3, Outputs
  <2>5. /\ file'["send_pcap"] = file["send_pcap"] /\ file'["latency"] = file["latency"]
        /\ file'["iperf_send"] = file["iperf_send"]
    BY <2>3 DEF OfTools
  <2> QED
    BY <1>4, <1>8, <2>2, <2>4, <2>5
<1>11. Filling'
  BY <1>3 DEF Filling
<1>12. results' \in [Dirs -> [by : 0..run, file : [Names -> Files]]]
  BY <1>1, <1>2 DEF Typed
<1>13. "replace" \in Commands \ {"tshark"}
  BY DEF Commands
<1> QED
  BY <1>1, <1>9, <1>10, <1>11, <1>12, <1>13, KeptStays, CommandStep

\* One directory of results changes, the one of the run under way.
LEMMA KeptChange ==
  ASSUME BenchInv, script.pc # "idle", script.left = 0, UNCHANGED <<calls, proc, alone>>,
         NEW c, c = test.dir, NEW r, r = run,
         NEW e \in [by : 0..run, file : [Names -> Files]], e.by = r,
         results' = [results EXCEPT ![c] = e], Sane(e.file), r \in alone => KeptText(c, r)'
  PROVE  /\ results' \in [Dirs -> [by : 0..run, file : [Names -> Files]]]
         /\ \A d \in Dirs : Sane(results'[d].file)
         /\ KeptOwn'
<1>1. Typed /\ KeptOwn
  BY DEF BenchInv
<1>2. c \in Dirs
  BY CommandFacts
<1>3. results \in [Dirs -> [by : 0..run, file : [Names -> Files]]]
      /\ \A d \in Dirs : Sane(results[d].file)
  BY <1>1 DEF Typed
<1>4. /\ results' \in [Dirs -> [by : 0..run, file : [Names -> Files]]]
      /\ results'[c] = e /\ \A d \in Dirs \ {c} : results'[d] = results[d]
  BY <1>2, <1>3
<1>5. \A d \in Dirs : Sane(results'[d].file)
  BY <1>3, <1>4
<1>6. KeptOwn'
  <2> SUFFICES ASSUME NEW d \in Sound' PROVE KeptText(d, results[d].by)'
    BY DEF KeptOwn
  <2>1. PICK b : b = results'[d].by
    OBVIOUS
  <2>2. d \in Dirs /\ b \in alone
    BY <2>1 DEF Sound
  <2>3. KeptText(d, b)'
    <3>1. CASE d = c
      <4>1. b = r /\ r \in alone
        BY <1>4, <2>1, <2>2, <3>1
      <4> QED
        BY ONLY <3>1, <4>1, r \in alone => KeptText(c, r)'
    <3>2. CASE d # c
      <4>1. results'[d] = results[d] /\ d \in Sound /\ b = results[d].by
        BY <1>4, <2>1, <2>2, <3>2 DEF Sound
      <4>2. KeptText(d, b)
        BY <1>1, <4>1 DEF KeptOwn
      <4> QED
        BY <4>1, <4>2, KeptSame
    <3> QED
      BY <3>1, <3>2
  <2> QED
    BY ONLY <2>1, <2>3
<1> QED
  BY <1>4, <1>5, <1>6

\* No file is a file without data.
LEMMA NoFileType == NoFile \in Files /\ NoFile.made = FALSE /\ NoFile.data = << >>
<1>1. << >> \in Seq(Lines)
  OBVIOUS
<1> QED
  BY <1>1 DEF NoFile, Files

\* mv of some names from the working directory to the directory of results.
LEMMA MvFacts ==
  ASSUME BenchInv, script.pc # "idle", script.left = 0, NEW names \in SUBSET Names, Mv(names),
         NEW c, c = test.dir, NEW r, r = run, results[c].by = r
  PROVE  /\ \E e \in [by : 0..run, file : [Names -> Files]] :
              /\ e.by = r /\ results' = [results EXCEPT ![c] = e] /\ results'[c] = e
              /\ Sane(e.file)
              /\ \A n \in Names : e.file[n] = IF n \in names /\ file[n].made THEN file[n]
                                              ELSE results[c].file[n]
         /\ Sane(file')
         /\ \A n \in Names : file'[n] = IF n \in names THEN NoFile ELSE file[n]
<1>1. Typed
  BY DEF BenchInv
<1>2. c \in Dirs
  BY CommandFacts
<1>3. PICK old : old = results[c]
  OBVIOUS
<1>4. results \in [Dirs -> [by : 0..run, file : [Names -> Files]]]
  BY <1>1 DEF Typed
<1>5. old \in [by : 0..run, file : [Names -> Files]] /\ old.by = r /\ Sane(old.file) /\ Sane(file)
  BY <1>1, <1>2, <1>3, <1>4 DEF Typed
<1>6. PICK G : G = [n \in Names |-> IF n \in names /\ file[n].made THEN file[n] ELSE old.file[n]]
  OBVIOUS
<1>7. Sane(G)
  <2>1. \A n \in Names : G[n] = file[n] \/ G[n] = old.file[n]
    BY <1>6
  <2>2. G \in [Names -> Files]
    BY <1>5, <1>6 DEF Sane
  <2>3. \A n \in Names : G[n].made \/ G[n].data = << >>
    BY <1>5, <2>1 DEF Sane
  <2>4. \A n \in OfTools : G[n].data \in Seq(Lines)
    BY <1>5, <2>1, Outputs DEF Sane
  <2> QED
    BY <2>2, <2>3, <2>4 DEF Sane
<1>8. PICK e : e = [by |-> r, file |-> G]
  OBVIOUS
<1>9. e \in [by : 0..run, file : [Names -> Files]] /\ e.by = r /\ e.file = G
  BY <1>5, <1>7, <1>8 DEF Sane
<1>10. results' = [results EXCEPT ![c] = e]
  <2>1. results' = [results EXCEPT ![c].file =
                     [n \in Names |-> IF n \in names /\ file[n].made THEN file[n] ELSE @[n]]]
    BY DEF Mv
  <2>2. results' = [results EXCEPT ![c] = [old EXCEPT !.file = G]]
    BY <1>2, <1>3, <1>4, <1>6, <2>1
  <2>3. [old EXCEPT !.file = G] = e
    BY <1>5, <1>8
  <2> QED
    BY ONLY <2>2, <2>3
<1>11. results'[c] = e
  BY <1>2, <1>4, <1>10
<1>12. \A n \in Names : e.file[n] = IF n \in names /\ file[n].made THEN file[n]
                                    ELSE results[c].file[n]
  BY <1>3, <1>6, <1>9
<1>13. file' = [n \in Names |-> IF n \in names THEN NoFile ELSE file[n]]
  BY DEF Mv
<1>14. Sane(file')
  <2>1. \A n \in Names : file'[n] = NoFile \/ file'[n] = file[n]
    BY <1>13
  <2>2. file' \in [Names -> Files]
    BY <1>5, <1>13, NoFileType DEF Sane
  <2>3. \A n \in Names : file'[n].made \/ file'[n].data = << >>
    BY <1>5, <2>1, NoFileType DEF Sane
  <2>4. \A n \in OfTools : file'[n].data \in Seq(Lines)
    <3>1. << >> \in Seq(Lines)
      OBVIOUS
    <3> QED
      BY <1>5, <2>1, <3>1, NoFileType, Outputs DEF Sane
  <2> QED
    BY <2>2, <2>3, <2>4 DEF Sane
<1>15. \A n \in Names : file'[n] = IF n \in names THEN NoFile ELSE file[n]
  BY <1>13
<1> QED
  BY <1>7, <1>9, <1>10, <1>11, <1>12, <1>14, <1>15

\* rm -rf and mkdir of the directory of results.
LEMMA ReplaceStep ==
  ASSUME BenchInv, Replace
  PROVE  BenchInv'
<1>1. /\ script.pc = "replace" /\ script.left = 0
      /\ script' = [script EXCEPT !.pc = "move"]
      /\ results' = [results EXCEPT ![test.dir] = [by |-> run, file |-> [n \in Names |-> NoFile]]]
      /\ UNCHANGED <<calls, proc, file, alone>>
  BY DEF Replace, At, GoTo
<1>2. Typed /\ OwnFiles /\ run' = run /\ test' = test
  BY <1>1 DEF BenchInv, run, test
<1>3. PICK c, r, e : c = test.dir /\ r = run /\ e = [by |-> run, file |-> [n \in Names |-> NoFile]]
  OBVIOUS
<1>4. Sane(file) /\ script'.pc = "move"
  BY <1>1, <1>2 DEF Typed
<1>5. /\ r \in Run /\ r \in Nat /\ c \in Dirs /\ \A t \in Tool : proc[r][t].st \in Dead
  BY <1>1, <1>3, CommandFacts
<1>6. e.by = r /\ e.file = [n \in Names |-> NoFile]
  BY <1>3
<1>7. e \in [by : 0..run, file : [Names -> Files]]
  BY <1>3, <1>5, NoFileType
<1>8. Sane(e.file)
  <2>1. \A n \in Names : e.file[n] = NoFile
    BY <1>6
  <2>2. << >> \in Seq(Lines)
    OBVIOUS
  <2>3. \A n \in OfTools : e.file[n].data \in Seq(Lines)
    BY <2>1, <2>2, NoFileType, Outputs
  <2> QED
    BY <1>7, <2>1, <2>3, NoFileType DEF Sane
<1>9. results' = [results EXCEPT ![c] = e] /\ results'[c] = e
  BY <1>1, <1>2, <1>3, <1>5 DEF Typed
<1>10. KeptText(c, r)'
  <2>1. \A n \in Names : ~results'[c].file[n].made
    BY <1>6, <1>9, NoFileType
  <2>2. /\ ~results'[c].file["iperf_send"].made /\ ~results'[c].file["speed_data"].made
        /\ ~results'[c].file["latency"].made
        /\ ~results'[c].file["retr"].made /\ ~results'[c].file["jitter"].made
    BY <2>1 DEF Names
  <2> QED
    BY <1>1, <1>5, <2>2 DEF KeptText, KeptFile
<1>11. /\ results' \in [Dirs -> [by : 0..run, file : [Names -> Files]]]
       /\ \A d \in Dirs : Sane(results'[d].file)
       /\ KeptOwn'
  BY <1>1, <1>3, <1>6, <1>7, <1>8, <1>9, <1>10, KeptChange
<1>12. Filling'
  <2>1. results'[test.dir].by = run /\ results'[test.dir].file = [n \in Names |-> NoFile]
    BY <1>3, <1>6, <1>9
  <2>2. "retr" \in Names /\ "jitter" \in Names
    BY DEF Names
  <2> QED
    BY <1>2, <2>1, <2>2 DEF Filling
<1>13. OwnFiles'
  <2> SUFFICES ASSUME Undisturbed'
               PROVE  /\ \A t \in Tool : OwnText(t, test.streams, run, proc[run][t], file[Output(t)])
                      /\ file["latency"] = File(file["send_pcap"].data)
                      /\ file[Parsed(test)] = File(Figures(test, file["iperf_send"].data))
    BY <1>1, <1>2, <1>4 DEF OwnFiles
  <2>1. Undisturbed
    BY <1>1, <1>2 DEF Undisturbed
  <2> QED
    BY <1>1, <1>2, <2>1 DEF OwnFiles
<1>14. "move" \in Commands \ {"tshark"} /\ Sane(file')
  BY <1>1, <1>4 DEF Commands
<1> QED
  BY <1>1, <1>11, <1>12, <1>13, <1>14, CommandStep

\* mv of the tools' files.
LEMMA MoveStep ==
  ASSUME BenchInv, Move
  PROVE  BenchInv'
<1> DEFINE names == {"iperf_send", "latency", "speed_data"}
<1>1. /\ script.pc = "move" /\ script.left = 0
      /\ script' = [script EXCEPT !.pc = "move_parsed"]
      /\ Mv(names) /\ UNCHANGED <<calls, proc, alone>>
  BY DEF Move, At, GoTo, Mv
<1>2. Typed /\ OwnFiles /\ Filling /\ run' = run /\ test' = test
  BY <1>1 DEF BenchInv, run, test
<1>3. PICK c, r : c = test.dir /\ r = run
  OBVIOUS
<1>4. Sane(file) /\ script'.pc = "move_parsed"
  BY <1>1, <1>2 DEF Typed
<1>5. /\ r \in Run /\ c \in Dirs /\ (\A t \in Tool : proc[r][t].st \in Dead)
      /\ Parsed(test) \in {"retr", "jitter"} /\ Parsed(test) \in Names
  BY <1>1, <1>3, CommandFacts
<1>6. results[c].by = r /\ results[c].file = [n \in Names |-> NoFile]
  BY <1>1, <1>2, <1>3 DEF Filling
<1>7. names \in SUBSET Names
  BY DEF Names
<1>8. PICK e \in [by : 0..run, file : [Names -> Files]] :
        /\ e.by = r /\ results' = [results EXCEPT ![c] = e] /\ results'[c] = e
        /\ Sane(e.file)
        /\ \A n \in Names : e.file[n] = IF n \in names /\ file[n].made THEN file[n]
                                        ELSE results[c].file[n]
  <2> HIDE DEF names
  <2> QED
    BY <1>1, <1>3, <1>6, <1>7, MvFacts
<1>9. /\ Sane(file')
      /\ \A n \in Names : file'[n] = IF n \in names THEN NoFile ELSE file[n]
  <2> HIDE DEF names
  <2> QED
    BY <1>1, <1>3, <1>6, <1>7, MvFacts
<1>10. \A n \in Names : e.file[n] = IF n \in names /\ file[n].made THEN file[n] ELSE NoFile
  BY <1>6, <1>8
<1>11. /\ ~e.file["retr"].made /\ ~e.file["jitter"].made
       /\ e.file["retr"] = NoFile /\ e.file["jitter"] = NoFile
       /\ e.file["iperf_send"].data = file["iperf_send"].data
       /\ \A n \in names : e.file[n].made => e.file[n] = file[n]
  <2>1. "retr" \in Names /\ "jitter" \in Names /\ "iperf_send" \in Names
    BY DEF Names
  <2>2. e.file["retr"] = NoFile /\ e.file["jitter"] = NoFile
    BY <1>10, <2>1
  <2>3. e.file["iperf_send"].data = file["iperf_send"].data
    BY <1>4, <1>10, <2>1, NoFileType DEF Sane
  <2>4. \A n \in names : e.file[n].made => e.file[n] = file[n]
    BY <1>7, <1>10, NoFileType
  <2> QED
    BY <2>2, <2>3, <2>4, NoFileType
<1>12. ASSUME r \in alone PROVE KeptText(c, r)'
  <2>1. Undisturbed
    BY <1>1, <1>3, <1>12 DEF Undisturbed
  <2>2. /\ \A t \in Tool : OwnText(t, test.streams, run, proc[run][t], file[Output(t)])
        /\ file["latency"] = File(file["send_pcap"].data)
    BY <1>1, <1>2, <2>1 DEF OwnFiles
  <2>3. PICK k : k = calls[r].streams
    OBVIOUS
  <2>4. k = test.streams
    BY <1>3, <2>3 DEF test
  <2>5. /\ OwnText("iperf", k, r, proc[r]["iperf"], file["iperf_send"])
        /\ OwnText("speed", k, r, proc[r]["speed"], file["speed_data"])
        /\ OwnText("tcpdump", k, r, proc[r]["tcpdump"], file["send_pcap"])
    BY <1>3, <2>2, <2>4, Outputs DEF Tool
  <2>6. OwnText("tcpdump", k, r, proc[r]["tcpdump"], file["latency"])
    <3>1. PICK f, w : f = file["send_pcap"] /\ w = f.data
      OBVIOUS
    <3>2. w \in Seq(Lines)
      BY <1>4, <3>1 DEF Sane, OfTools
    <3>3. file["latency"] = File(w) /\ File(w).made = TRUE /\ File(w).data = w
      BY <2>2, <3>1, <3>2, FileType
    <3>4. OwnText("tcpdump", k, r, proc[r]["tcpdump"], f)
      BY ONLY <2>5, <3>1
    <3>5. OwnText("tcpdump", k, r, proc[r]["tcpdump"], File(w))
      BY ONLY <3>1, <3>3, <3>4 DEF OwnText
    <3> QED
      BY ONLY <3>3, <3>5
  <2>7. /\ e.file["iperf_send"].made =>
             OwnText("iperf", k, r, proc[r]["iperf"], e.file["iperf_send"])
        /\ e.file["speed_data"].made =>
             OwnText("speed", k, r, proc[r]["speed"], e.file["speed_data"])
        /\ e.file["latency"].made =>
             OwnText("tcpdump", k, r, proc[r]["tcpdump"], e.file["latency"])
    <3>1. /\ e.file["iperf_send"].made => e.file["iperf_send"] = file["iperf_send"]
          /\ e.file["speed_data"].made => e.file["speed_data"] = file["speed_data"]
          /\ e.file["latency"].made => e.file["latency"] = file["latency"]
      BY <1>11
    <3> QED
      BY ONLY <2>5, <2>6, <3>1
  <2>8. calls'[r].streams = k /\ proc'[r] = proc[r] /\ results'[c].file = e.file
    BY <1>1, <1>8, <2>3
  <2>9. /\ KeptFile(c, r, "iperf", "iperf_send")'
        /\ KeptFile(c, r, "speed", "speed_data")'
        /\ KeptFile(c, r, "tcpdump", "latency")'
    BY ONLY <2>7, <2>8 DEF KeptFile
  <2>10. /\ ~results'[c].file["retr"].made /\ ~results'[c].file["jitter"].made
         /\ \A t \in Tool : proc'[r][t].st \in Dead
    BY ONLY <1>5, <1>11, <2>8
  <2> QED
    BY ONLY <2>9, <2>10 DEF KeptText
<1>13. /\ results' \in [Dirs -> [by : 0..run, file : [Names -> Files]]]
       /\ \A d \in Dirs : Sane(results'[d].file)
       /\ KeptOwn'
  BY <1>1, <1>3, <1>8, <1>12, KeptChange
<1>14. Filling'
  <2>1. results'[test.dir].by = run
        /\ \A n \in {"retr", "jitter"} : results'[test.dir].file[n] = NoFile
    BY <1>3, <1>8, <1>11
  <2> QED
    BY <1>2, <1>4, <2>1 DEF Filling
<1>15. OwnFiles'
  <2> SUFFICES ASSUME Undisturbed'
               PROVE  file'[Parsed(test)] = File(Figures(test, results'[test.dir].file["iperf_send"].data))
    BY <1>2, <1>4 DEF OwnFiles, Kept
  <2>1. Undisturbed
    BY <1>1, <1>2 DEF Undisturbed
  <2>2. file[Parsed(test)] = File(Figures(test, file["iperf_send"].data))
    BY <1>1, <1>2, <2>1 DEF OwnFiles
  <2>3. file'[Parsed(test)] = file[Parsed(test)]
    BY <1>5, <1>9
  <2>4. results'[test.dir].file["iperf_send"].data = file["iperf_send"].data
    BY <1>3, <1>8, <1>11
  <2> QED
    BY ONLY <2>2, <2>3, <2>4
<1>16. "move_parsed" \in Commands \ {"tshark"}
  BY DEF Commands
<1> QED
  BY <1>1, <1>9, <1>13, <1>14, <1>15, <1>16, CommandStep

\* mv of the parsed file.
LEMMA MoveParsedStep ==
  ASSUME BenchInv, MoveParsed
  PROVE  BenchInv'
<1>1. /\ script.pc = "move_parsed" /\ script.left = 0
      /\ script' = [script EXCEPT !.pc = "clean"]
      /\ Mv({Parsed(test)}) /\ UNCHANGED <<calls, proc, alone>>
  BY DEF MoveParsed, At, GoTo, Mv
<1>2. Typed /\ OwnFiles /\ Filling /\ KeptOwn /\ run' = run /\ test' = test
  BY <1>1 DEF BenchInv, run, test
<1>3. PICK c, r, m : c = test.dir /\ r = run /\ m = Parsed(test)
  OBVIOUS
<1>4. script'.pc = "clean"
  BY <1>1, <1>2 DEF Typed
<1>5. r \in Run /\ c \in Dirs /\ m \in {"retr", "jitter"} /\ m \in Names
  BY <1>1, <1>3, CommandFacts
<1>6. results[c].by = r /\ \A n \in {"retr", "jitter"} : results[c].file[n] = NoFile
  BY <1>1, <1>2, <1>3 DEF Filling
<1>7. {m} \in SUBSET Names /\ Mv({m})
  BY <1>1, <1>3, <1>5
<1>8. /\ \E e \in [by : 0..run, file : [Names -> Files]] :
           /\ e.by = r /\ results' = [results EXCEPT ![c] = e] /\ results'[c] = e
           /\ Sane(e.file)
           /\ \A n \in Names : e.file[n] = IF n \in {m} /\ file[n].made THEN file[n]
                                           ELSE results[c].file[n]
      /\ Sane(file')
  BY <1>1, <1>3, <1>6, <1>7, MvFacts
<1>9. PICK e \in [by : 0..run, file : [Names -> Files]] :
        /\ e.by = r /\ results' = [results EXCEPT ![c] = e] /\ results'[c] = e
        /\ Sane(e.file)
        /\ \A n \in Names : e.file[n] = IF n \in {m} /\ file[n].made THEN file[n]
                                        ELSE results[c].file[n]
  BY <1>8
<1>10. ASSUME r \in alone PROVE KeptText(c, r)'
  <2>1. Undisturbed /\ c \in Sound
    BY <1>1, <1>3, <1>5, <1>6, <1>10 DEF Undisturbed, Sound
  <2>2. KeptText(c, r)
    BY <1>2, <1>6, <2>1 DEF KeptOwn
  <2>3. PICK g : g = results[c].file
    OBVIOUS
  <2>4. file[m] = File(Figures(test, g["iperf_send"].data))
    BY <1>1, <1>2, <1>3, <2>1, <2>3 DEF OwnFiles, Kept
  <2>5. /\ e.file["iperf_send"] = g["iperf_send"] /\ e.file["speed_data"] = g["speed_data"]
        /\ e.file["latency"] = g["latency"]
    BY <1>5, <1>9, <2>3 DEF Names
  <2>6. \A n \in {"retr", "jitter"} : e.file[n].made => n = m /\ e.file[n] = file[n]
    BY <1>6, <1>9, NoFileType DEF Names
  <2>7. (m = "retr" => test.proto = "TCP") /\ (m = "jitter" => test.proto # "TCP")
    BY <1>3 DEF Parsed
  <2>8. file[m].data = Figures(test, g["iperf_send"].data)
    BY <2>4 DEF File
  <2>9. /\ e.file["retr"].made => e.file["retr"].data = Retr(e.file["iperf_send"].data)
        /\ e.file["jitter"].made => e.file["jitter"].data = Jitter(e.file["iperf_send"].data)
    BY <2>5, <2>6, <2>7, <2>8 DEF Figures
  <2>10. results'[c].file = e.file
    BY <1>9
  <2>11. /\ \A t \in Tool : proc[r][t].st \in Dead
         /\ KeptFile(c, r, "iperf", "iperf_send")
         /\ KeptFile(c, r, "speed", "speed_data")
         /\ KeptFile(c, r, "tcpdump", "latency")
    BY <2>2 DEF KeptText
  <2>12. calls' = calls /\ proc' = proc
    BY <1>1
  <2>13. /\ KeptFile(c, r, "iperf", "iperf_send")'
         /\ KeptFile(c, r, "speed", "speed_data")'
         /\ KeptFile(c, r, "tcpdump", "latency")'
    BY ONLY <2>3, <2>5, <2>10, <2>11, <2>12 DEF KeptFile
  <2> QED
    BY ONLY <2>9, <2>10, <2>11, <2>12, <2>13 DEF KeptText, Kept
<1>11. /\ results' \in [Dirs -> [by : 0..run, file : [Names -> Files]]]
       /\ \A d \in Dirs : Sane(results'[d].file)
       /\ KeptOwn'
  BY <1>1, <1>3, <1>9, <1>10, KeptChange
<1>12. Filling' /\ OwnFiles'
  BY <1>4 DEF Filling, OwnFiles
<1>13. "clean" \in Commands \ {"tshark"}
  BY DEF Commands
<1> QED
  BY <1>1, <1>8, <1>11, <1>12, <1>13, CommandStep

\* rm of what is left.
LEMMA CleanStep ==
  ASSUME BenchInv, Clean
  PROVE  BenchInv'
<1>1. /\ script.pc = "clean" /\ script.left = 0
      /\ script' = [script EXCEPT !.pc = "idle"]
      /\ file' = [n \in Names |-> IF n = "send_pcap" THEN file[n] ELSE NoFile]
      /\ UNCHANGED <<calls, proc, results, alone>>
  BY DEF Clean, At, GoTo
<1>2. Typed /\ script'.pc = "idle"
  BY <1>1 DEF BenchInv, Typed
<1>3. Sane(file')
  <2>1. \A n \in Names : file'[n] = NoFile \/ file'[n] = file[n]
    BY <1>1
  <2>2. Sane(file)
    BY <1>2 DEF Typed
  <2>3. file' \in [Names -> Files]
    BY <1>1, <2>2, NoFileType DEF Sane
  <2>4. \A n \in Names : file'[n].made \/ file'[n].data = << >>
    BY <2>1, <2>2, NoFileType DEF Sane
  <2>5. \A n \in OfTools : file'[n].data \in Seq(Lines)
    <3>1. << >> \in Seq(Lines)
      OBVIOUS
    <3> QED
      BY <2>1, <2>2, <3>1, NoFileType, Outputs DEF Sane
  <2> QED
    BY <2>3, <2>4, <2>5 DEF Sane
<1>4. Filling' /\ OwnFiles'
  BY <1>2 DEF Filling, OwnFiles, Undisturbed
<1>5. results' \in [Dirs -> [by : 0..run, file : [Names -> Files]]]
  BY <1>1, <1>2 DEF Typed
<1>6. "idle" \in Commands \ {"tshark"}
  BY DEF Commands
<1> QED
  BY <1>1, <1>3, <1>4, <1>5, <1>6, KeptStays, CommandStep

\* The user stops the script.
LEMMA InterruptStep ==
  ASSUME BenchInv, Interrupt
  PROVE  BenchInv'
<1>1. script' = [pc |-> "idle", left |-> 0] /\ UNCHANGED <<calls, proc, file, results, alone>>
  BY DEF Interrupt
<1>2. Typed /\ InTime /\ OpenMade /\ run' = run
  BY <1>1 DEF BenchInv, run
<1>3. /\ script' \in [pc : Commands, left : 0..SleepTime] /\ script'.pc = "idle"
      /\ script'.left = 0
  BY <1>1, TimeAssumption DEF Commands
<1>4. Typed'
  BY <1>1, <1>2, <1>3 DEF Typed, Sane
<1>5. InTime'
  BY <1>1, <1>2, <1>3 DEF InTime
<1>6. OpenMade'
  BY <1>1, <1>2 DEF OpenMade
<1>7. NoOthers' /\ Filling' /\ OwnFiles'
  BY <1>3 DEF NoOthers, Filling, OwnFiles, Undisturbed
<1>8. KeptOwn'
  BY <1>1, KeptStays
<1> QED
  BY <1>4, <1>5, <1>6, <1>7, <1>8 DEF BenchInv

\* A step that changes nothing.
LEMMA BenchStutter ==
  ASSUME BenchInv, UNCHANGED benchVars
  PROVE  BenchInv'
<1>1. UNCHANGED <<calls, script, proc, file, results, alone>>
  BY DEF benchVars
<1>2. /\ Typed /\ InTime /\ OpenMade /\ NoOthers /\ OwnFiles /\ Filling
      /\ run' = run /\ test' = test
  BY <1>1 DEF BenchInv, run, test
<1>3. Typed' /\ InTime' /\ OpenMade'
  BY <1>1, <1>2 DEF Typed, Sane, InTime, OpenMade
<1>4. NoOthers' /\ Filling'
  BY <1>1, <1>2 DEF NoOthers, Undisturbed, Filling
<1>5. OwnFiles'
  BY <1>1, <1>2 DEF OwnFiles, Undisturbed, Kept
<1>6. KeptOwn'
  BY <1>1, KeptStays
<1> QED
  BY <1>2, <1>3, <1>4, <1>5, <1>6 DEF BenchInv
--------------------------------------------------------------------------------
(***************************************************************************)
(* The theorems of the benchmark                                           *)
(***************************************************************************)
\* BenchInv holds at the start,
LEMMA BenchInvInit == BenchInit => BenchInv
<1> SUFFICES ASSUME BenchInit PROVE BenchInv
  OBVIOUS
<1>1. /\ calls = << >> /\ script = [pc |-> "idle", left |-> 0]
      /\ proc = [r \in Run |-> [t \in Tool |-> Off]]
      /\ file = [n \in Names |-> NoFile]
      /\ results = [d \in Dirs |-> [by |-> 0, file |-> [n \in Names |-> NoFile]]]
      /\ alone = {}
  BY DEF BenchInit
<1>2. run = 0 /\ calls \in Seq(Tests)
  BY <1>1 DEF run
<1>3. script \in [pc : Commands, left : 0..SleepTime] /\ script.pc = "idle" /\ script.left = 0
  BY <1>1, TimeAssumption DEF Commands
<1>4. \A r \in Run, t \in Tool : proc[r][t].st = "off" /\ r > 0
  BY <1>1 DEF Off, Run
<1>5. proc \in [Run -> [Tool -> [st : States, left : 0..SleepTime]]]
  <2>1. Off \in [st : States, left : 0..SleepTime]
    BY TimeAssumption DEF Off, States
  <2> QED
    BY <1>1, <2>1
<1>6. Sane([n \in Names |-> NoFile])
  <2>1. << >> \in Seq(Lines)
    OBVIOUS
  <2> QED
    BY <2>1, NoFileType, Outputs DEF Sane
<1>7. /\ results \in [Dirs -> [by : 0..run, file : [Names -> Files]]]
      /\ \A d \in Dirs : Sane(results[d].file)
  <2>1. [n \in Names |-> NoFile] \in [Names -> Files]
    BY NoFileType
  <2>2. PICK e : e = [by |-> 0, file |-> [n \in Names |-> NoFile]]
    OBVIOUS
  <2>3. 0 \in 0..run
    BY <1>2
  <2>4. e.file = [n \in Names |-> NoFile] /\ e \in [by : 0..run, file : [Names -> Files]]
    BY ONLY <2>1, <2>2, <2>3
  <2>5. results = [d \in Dirs |-> e]
    BY ONLY <1>1, <2>2
  <2>6. \A d \in Dirs : results[d].file = [n \in Names |-> NoFile]
    BY ONLY <2>4, <2>5
  <2> QED
    BY ONLY <1>6, <2>4, <2>5, <2>6
<1>8. Typed
  BY <1>1, <1>2, <1>3, <1>5, <1>6, <1>7, TestsAssumption DEF Typed
<1>9. InTime
  BY <1>2, <1>4 DEF InTime, Alive, Run
<1>10. OpenMade
  BY <1>4 DEF OpenMade
<1>11. NoOthers /\ OwnFiles /\ Filling
  BY <1>3 DEF NoOthers, OwnFiles, Filling, Undisturbed
<1>12. KeptOwn
  BY <1>1 DEF KeptOwn, Sound
<1> QED
  BY <1>8, <1>9, <1>10, <1>11, <1>12 DEF BenchInv

\* and every step keeps it.
LEMMA BenchInvNext == BenchInv /\ [BenchNext]_benchVars => BenchInv'
<1> SUFFICES ASSUME BenchInv, [BenchNext]_benchVars PROVE BenchInv'
  OBVIOUS
<1>1. ASSUME NEW c \in Tests, Begin(c) PROVE BenchInv'
  BY <1>1, BeginStep
<1>2. ASSUME NEW t \in Tool, NEW r \in Run, Start(t, r) PROVE BenchInv'
  BY <1>2, StartStep
<1>3. ASSUME NEW t \in Tool, NEW r \in Run, StartFails(t, r) PROVE BenchInv'
  BY <1>3, StartFailsStep
<1>4. ASSUME NEW t \in Tool, NEW r \in Run, TimedOut(t, r) PROVE BenchInv'
  BY <1>4, TimedOutStep
<1>5. ASSUME NEW r \in Run, IperfEnds(r) PROVE BenchInv'
  BY <1>5, IperfEndsStep
<1>6. ASSUME NEW r \in Run, IperfHangs(r) PROVE BenchInv'
  BY <1>6, IperfHangsStep
<1>7. CASE Tick
  BY <1>7, TickStep
<1>8. CASE Tshark
  BY <1>8, TsharkStep
<1>9. CASE ParseOutput
  BY <1>9, ParseStep
<1>10. CASE Replace
  BY <1>10, ReplaceStep
<1>11. CASE Move
  BY <1>11, MoveStep
<1>12. CASE MoveParsed
  BY <1>12, MoveParsedStep
<1>13. CASE Clean
  BY <1>13, CleanStep
<1>14. CASE Interrupt
  BY <1>14, InterruptStep
<1>15. CASE UNCHANGED benchVars
  BY <1>15, BenchStutter
<1> QED
  BY <1>1, <1>2, <1>3, <1>4, <1>5, <1>6, <1>7, <1>8, <1>9, <1>10, <1>11, <1>12, <1>13, <1>14,
     <1>15 DEF BenchNext

\* BenchInv holds at every command of sender.sh, every interrupt and every tick: it is
\* inductive.
THEOREM BenchInvariance == BenchSpec => []BenchInv
BY BenchInvInit, BenchInvNext, PTL DEF BenchSpec

\* Every variable of the benchmark keeps its type, through every command of sender.sh and
\* every way its tools start, end, hang or fail.
THEOREM BenchTypeCorrect == BenchSpec => []BenchTypeOK
<1>1. BenchInv => BenchTypeOK
  <2> SUFFICES ASSUME BenchInv PROVE BenchTypeOK
    OBVIOUS
  <2>1. Typed
    BY DEF BenchInv
  <2>2. \A r \in Run, t \in Tool :
          /\ proc[r][t].st \in {"off", "starting", "running", "hung", "done", "failed", "killed"}
          /\ proc[r][t].left \in 0..SleepTime
    BY <2>1 DEF Typed, States
  <2>3. \A n \in Names : file[n].made \in BOOLEAN /\ (file[n].made \/ file[n].data = << >>)
    BY <2>1 DEF Typed, Sane, Files
  <2> QED
    BY <2>1, <2>2, <2>3 DEF BenchTypeOK, Typed, Commands
<1> QED
  BY <1>1, BenchInvariance, PTL

\* What a sound directory keeps.
LEMMA SoundFacts ==
  ASSUME BenchInv, NEW d \in Sound
  PROVE  /\ results[d].by \in Run /\ KeptText(d, results[d].by)
         /\ calls[results[d].by].streams \in Nat
         /\ \A n \in Names : results[d].file[n].made \in BOOLEAN
                             /\ (results[d].file[n].made \/ Kept(d, n) = << >>)
         /\ Kept(d, "iperf_send") \in Seq(Lines) /\ Kept(d, "speed_data") \in Seq(Lines)
         /\ Kept(d, "latency") \in Seq(Lines)
<1>1. Typed /\ KeptOwn
  BY DEF BenchInv
<1>2. d \in Dirs /\ results[d].by \in 1..run
  BY <1>1 DEF Sound, Typed
<1>3. results[d].by \in Run /\ results[d].by <= run
  BY <1>1, <1>2, RunFacts
<1>4. calls[results[d].by].streams \in Nat
  BY <1>1, <1>3, StreamsType
<1>5. KeptText(d, results[d].by)
  BY <1>1 DEF KeptOwn
<1>6. \A n \in Names : results[d].file[n].made \in BOOLEAN
                       /\ (results[d].file[n].made \/ Kept(d, n) = << >>)
  BY <1>1, <1>2, KeptTypes DEF Files
<1>7. \A n \in OfTools : Kept(d, n) \in Seq(Lines)
  BY <1>1, <1>2, KeptTypes
<1> QED
  BY <1>3, <1>4, <1>5, <1>6, <1>7 DEF OfTools

\* Wherever earlier runs of sender.sh were interrupted, and whatever their tools wrote
\* since, the output its mv commands leave in the directory of an undisturbed run is that
\* run's own.
THEOREM OwnResultsCorrect == BenchSpec => []OwnResults
<1>1. BenchInv => OwnResults
  <2> SUFFICES ASSUME BenchInv, NEW d \in Sound,
                      NEW n \in {"iperf_send", "speed_data", "latency"},
                      NEW i \in DOMAIN Kept(d, n)
               PROVE  \/ Kept(d, n)[i].run = results[d].by
                      \/ n = "latency" /\ Ended(d, "tcpdump") = "failed"
    BY DEF OwnResults
  <2>1. PICK b, f, t : b = results[d].by /\ f = results[d].file[n]
          /\ t = IF n = "iperf_send" THEN "iperf" ELSE IF n = "speed_data" THEN "speed"
                 ELSE "tcpdump"
    OBVIOUS
  <2>2. f.data \in Seq(Lines) /\ i \in 1..Len(f.data) /\ Kept(d, n) = f.data /\ n \in Names
    BY <2>1, SoundFacts DEF Kept, Names
  <2>3. f.made
    <3>1. f.made \/ f.data = << >>
      BY <2>1, <2>2, SoundFacts
    <3>2. f.data # << >>
      BY <2>2
    <3> QED
      BY <3>1, <3>2
  <2>4. OwnText(t, calls[b].streams, b, proc[b][t], f) /\ proc[b][t].st \in Dead
    <3>1. KeptText(d, b) /\ t \in Tool
      BY <2>1, SoundFacts DEF Tool
    <3>2. KeptFile(d, b, t, n)
      BY <2>1, <3>1 DEF KeptText
    <3>3. OwnText(t, calls[b].streams, b, proc[b][t], f)
      BY ONLY <2>1, <2>3, <3>2 DEF KeptFile
    <3> QED
      BY <3>1, <3>3 DEF KeptText
  <2>5. CASE proc[b][t].st = "failed"
    <3>1. t = "tcpdump"
      BY <2>2, <2>4, <2>5 DEF OwnText
    <3> QED
      BY <2>1, <2>5, <3>1 DEF Ended
  <2>6. CASE proc[b][t].st # "failed"
    <3>1. f.data[i].run = b
      BY <2>2, <2>4, <2>6 DEF OwnText, Dead
    <3> QED
      BY <2>1, <2>2, <3>1
  <2> QED
    BY <2>5, <2>6
<1> QED
  BY <1>1, BenchInvariance, PTL

\* The sleep of sender.sh outlasts the tools it started in the background: a file it
\* moves to the directory of an undisturbed run is whole.
THEOREM CompleteCorrect == BenchSpec => []ResultsComplete
<1>1. BenchInv => ResultsComplete
  <2> SUFFICES ASSUME BenchInv, NEW d \in Sound
               PROVE  /\ results[d].file["iperf_send"].made /\ Ended(d, "iperf") # "failed" =>
                           /\ ~Alive(proc[results[d].by]["iperf"])
                           /\ Ended(d, "iperf") = "done" =>
                                Headers(Kept(d, "iperf_send"), Len(Kept(d, "iperf_send"))) = 2
                      /\ results[d].file["speed_data"].made /\ Ended(d, "speed") # "failed" =>
                           Len(Kept(d, "speed_data")) = ToolLimit
                      /\ results[d].file["latency"].made /\ Ended(d, "tcpdump") # "failed" =>
                           Len(Kept(d, "latency")) = ToolLimit
    BY Zenon DEF ResultsComplete
  <2>1. PICK b : b = results[d].by
    OBVIOUS
  <2>2. KeptText(d, b)
    BY <2>1, SoundFacts
  <2>3. \A t \in Tool : proc[b][t].st \in Dead
    BY <2>2 DEF KeptText
  <2>4. "iperf" \in Tool /\ "speed" \in Tool /\ "tcpdump" \in Tool
    BY DEF Tool
  <2>5. ASSUME results[d].file["iperf_send"].made, Ended(d, "iperf") = "done"
        PROVE  Headers(Kept(d, "iperf_send"), Len(Kept(d, "iperf_send"))) = 2
    <3>1. PICK s : s = Kept(d, "iperf_send")
      OBVIOUS
    <3>2. s \in Seq(Lines) /\ calls[b].streams \in Nat
      BY <2>1, <3>1, SoundFacts
    <3>3. Summed(s, calls[b].streams)
      BY <2>1, <2>2, <2>5, <3>1 DEF KeptText, KeptFile, OwnText, Ended, Kept
    <3>4. Headers(s, Len(s)) = 2
      BY <3>2, <3>3, TextOrder
    <3> QED
      BY <3>1, <3>4
  <2>6. results[d].file["speed_data"].made /\ Ended(d, "speed") # "failed" =>
          Len(Kept(d, "speed_data")) = ToolLimit
    <3>1. ToolLimit - 0 = ToolLimit
      BY TimeAssumption
    <3>2. proc[b]["speed"].st \in Dead
      BY <2>3, <2>4
    <3> QED
      BY <2>1, <2>2, <3>1, <3>2 DEF KeptText, KeptFile, OwnText, Ended, Kept, Dead
  <2>7. results[d].file["latency"].made /\ Ended(d, "tcpdump") # "failed" =>
          Len(Kept(d, "latency")) = ToolLimit
    <3>1. ToolLimit - 0 = ToolLimit
      BY TimeAssumption
    <3>2. proc[b]["tcpdump"].st \in Dead
      BY <2>3, <2>4
    <3> QED
      BY <2>1, <2>2, <3>1, <3>2 DEF KeptText, KeptFile, OwnText, Ended, Kept, Dead
  <2>8. ~Alive(proc[results[d].by]["iperf"])
    BY <2>1, <2>3, <2>4 DEF Alive, Dead
  <2> QED
    BY <2>5, <2>6, <2>7, <2>8
<1> QED
  BY <1>1, BenchInvariance, PTL

\* tcp_Retr and jitter print one figure for each result of the iperf3 output kept beside
\* theirs, in its place and its own but for the SUM rows and the ids of three digits; for
\* any number of streams, whether iperf3 ended, was timed out or never began.
THEOREM ParsedCorrect == BenchSpec => []ParsedFaithfully
<1>1. BenchInv => ParsedFaithfully
  <2> SUFFICES ASSUME BenchInv, NEW d \in Sound
               PROVE  /\ results[d].file["retr"].made =>
                           InPlace(Kept(d, "retr"), Results(Kept(d, "iperf_send"), 1))
                      /\ results[d].file["jitter"].made =>
                           InPlace(Kept(d, "jitter"), Results(Kept(d, "iperf_send"), 2))
    BY DEF ParsedFaithfully
  <2>1. PICK b, s, n : b = results[d].by /\ s = Kept(d, "iperf_send") /\ n = calls[b].streams
    OBVIOUS
  <2>2. /\ s \in Seq(Lines) /\ n \in Nat /\ KeptText(d, b)
        /\ results[d].file["iperf_send"].made \/ s = << >>
    BY <2>1, SoundFacts DEF Names
  <2>3. s = << >> \/ Cut(s, n) \/ Summed(s, n)
    <3>1. CASE results[d].file["iperf_send"].made
      <4>1. proc[b]["iperf"].st \in Dead
        BY <2>2 DEF KeptText, Tool
      <4>2. OwnText("iperf", n, b, proc[b]["iperf"], results[d].file["iperf_send"])
        BY <2>1, <2>2, <3>1 DEF KeptText, KeptFile
      <4> QED
        BY <2>1, <4>1, <4>2 DEF OwnText, Dead, Kept
    <3> QED
      BY <2>2, <3>1
  <2>4. InPlace(Retr(s), Results(s, 1)) /\ InPlace(Jitter(s), Results(s, 2))
    BY <2>2, <2>3, TextOrder, RetrText, JitterText
  <2>5. /\ results[d].file["retr"].made => Kept(d, "retr") = Retr(s)
        /\ results[d].file["jitter"].made => Kept(d, "jitter") = Jitter(s)
    BY <2>1, <2>2 DEF KeptText
  <2> QED
    BY ONLY <2>1, <2>4, <2>5
<1> QED
  BY <1>1, BenchInvariance, PTL
================================================================================
