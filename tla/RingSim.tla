-------------------------------- MODULE RingSim --------------------------------
(***************************************************************************)
(* The user-space simulator of the time ring, RateLimiter/ring/main.cpp.    *)
(*                                                                          *)
(* SIGPROF runs test_func every tenth of a millisecond; the main thread     *)
(* only spins and the signal is masked while its handler runs, so a handler *)
(* is one action.  A handler queues the packets that have arrived in inque, *)
(* moves packets from inque to the ring when any has arrived, and every     *)
(* ROUNDS-th time empties the slot under now_postion and moves it on.       *)
(*                                                                          *)
(* in.txt is read lazily: the packets a handler finds due are chosen when   *)
(* it runs.  A packet's arrival_time is kept as its age in rounds.  The     *)
(* file is in the order of arrival, so a packet is found due the moment it  *)
(* arrives, and the test in test_func for packets too old never succeeds.   *)
(* now_bytes, which nothing reads, is left out.                             *)
(***************************************************************************)
EXTENDS Integers, SequencesExt

CONSTANTS BLOCK,        \* slots of the ring (1000)
          CAP,          \* rate*1024, the bytes of a full ring
          ROUNDS,       \* handler runs per slot (10)
          LATENCY,      \* how old a packet may get in inque, in rounds (400)
          Lengths,      \* lengths of packets
          MaxBatch,     \* bound on the packets due in one round
          MaxAge,       \* bound on the ages told apart
          MaxLoad       \* bound on the bytes the simulator is charged with

ASSUME RingSimAssumption ==
  /\ BLOCK \in Nat \ {0} /\ CAP \in Nat \ {0} /\ ROUNDS \in Nat \ {0}
  /\ LATENCY \in Nat /\ Lengths \subseteq Nat \ {0}
  /\ MaxBatch \in Nat /\ MaxLoad \in Nat
  /\ MaxAge \in Nat /\ MaxAge > LATENCY

VARIABLES
  ring_queue,   \* per slot: the now_qlen packets in it
  now_postion,  \* slot to be sent next
  pre_pointer,  \* slot last filled
  tot_bytes,    \* bytes the ring is charged with
  inque,        \* packets that have arrived and wait for the ring
  round,        \* tot_round, as far as it matters: modulo ROUNDS
  \* History variables: no other variable depends on them.
  lost,         \* bytes of packets overwritten in the ring
  wrapped,      \* a packet has been placed a whole turn ahead of now_postion
  level         \* level of a bucket that leaks BLOCK bytes of CAP per slot

vars == <<ring_queue, now_postion, pre_pointer, tot_bytes, inque, round, lost, wrapped, level>>

Slot == 0..BLOCK-1
Packet == [len : Lengths, age : Nat]
Bytes(s) == FoldLeft(LAMBDA b, p : b + p.len, 0, s)
--------------------------------------------------------------------------------
(***************************************************************************)
(* in_ring                                                                  *)
(***************************************************************************)
\* Plausible bug: the pointers' distance is not taken around the ring.
MutInterval(pre, after) == IF after >= pre THEN after - pre ELSE pre - after

cal_interval(pre, after) == IF after >= pre THEN after - pre ELSE after + BLOCK - pre

\* Plausible bug: the bytes already in the ring are not counted.
MutIntervalBlock(len, tot) == (len * BLOCK) \div CAP

\* How many slots the bytes before a packet's end take.
IntervalBlock(len, tot) == ((len + tot) * BLOCK) \div CAP

\* Plausible bug: the place is taken from the charge alone.
MutPut(st, p) ==
  LET at == (now_postion + IntervalBlock(p.len, st.tot)) % BLOCK
  IN [st EXCEPT !.slots[at] = Append(@, p), !.tot = @ + p.len, !.pre = at]

\* The ring with packet p at its place: on top of the slot last filled, or alone
\* in a later one.
Put(st, p) ==
  LET interval == cal_interval(now_postion, st.pre)
      ahead == IntervalBlock(p.len, st.tot)
      at == (st.pre + ahead - interval) % BLOCK
  IN IF ahead <= interval
     THEN [st EXCEPT !.slots[st.pre] = Append(@, p), !.tot = @ + p.len]
     ELSE [st EXCEPT !.slots[at] = <<p>>, !.pre = at, !.tot = @ + p.len,
                     !.lost = @ + Bytes(st.slots[at]), !.wrapped = @ \/ ahead = BLOCK]

\* Plausible bug: the room in the ring is tested one slot too late.
MutTake(st, p) ==
  IF st.stop THEN [st EXCEPT !.queue = Append(@, p)]
  ELSE IF p.age > LATENCY THEN st
  ELSE IF p.len > CAP THEN [st EXCEPT !.stop = TRUE]
  ELSE IF IntervalBlock(p.len, st.tot) > BLOCK + 1
       THEN [st EXCEPT !.queue = Append(@, p), !.stop = TRUE]
  ELSE Put(st, p)

\* One turn of in_ring's loop: a packet too old is dropped, an over-long one is
\* dropped and ends the loop, one the ring has no room for stays and ends it.
Take(st, p) ==
  IF st.stop THEN [st EXCEPT !.queue = Append(@, p)]
  ELSE IF p.age > LATENCY THEN st
  ELSE IF p.len > CAP THEN [st EXCEPT !.stop = TRUE]
  ELSE IF IntervalBlock(p.len, st.tot) > BLOCK
       THEN [st EXCEPT !.queue = Append(@, p), !.stop = TRUE]
  ELSE Put(st, p)

in_ring(st, waiting) ==
  FoldLeft(Take, [st EXCEPT !.queue = << >>, !.stop = FALSE], waiting)

\* Time passes: every packet gets older by a round, up to MaxAge.
Older(s) == [n \in DOMAIN s |->
               [s[n] EXCEPT !.age = IF @ < MaxAge THEN @ + 1 ELSE @]]

\* in_ring is called only when a packet has arrived.
Arrived(batch) ==
  LET st == [slots |-> [i \in Slot |-> Older(ring_queue[i])], pre |-> pre_pointer,
             tot |-> tot_bytes, queue |-> Older(inque), lost |-> lost,
             wrapped |-> wrapped, stop |-> FALSE]
  IN IF batch = << >> THEN st ELSE in_ring(st, st.queue \o batch)
--------------------------------------------------------------------------------
(***************************************************************************)
(* test_func                                                                *)
(***************************************************************************)
\* Plausible bug: de_ring leaves the sent packets in the slot.
MutEmptied(st) == st.slots
Emptied(st) == [st.slots EXCEPT ![now_postion] = << >>]

\* status_update does not let now_postion pass pre_pointer.
MovedPointer(st) == IF cal_interval(now_postion, st.pre) = 0
                    THEN (st.pre + 1) % BLOCK ELSE st.pre

\* The bucket leaks one slot's bytes when a slot is sent; scaled by BLOCK, and
\* cut at twice the bytes that can be in the simulator at once.
MaxLevel == 2 * BLOCK * MaxLoad
Leak(sent) ==
  LET l == level + sent * BLOCK - CAP
  IN IF l < 0 THEN 0 ELSE IF l > MaxLevel THEN MaxLevel ELSE l

Tick(batch) ==
  LET st == Arrived(batch) IN
    /\ round + 1 < ROUNDS
    /\ ring_queue' = st.slots
    /\ pre_pointer' = st.pre
    /\ tot_bytes' = st.tot
    /\ inque' = st.queue
    /\ lost' = st.lost /\ wrapped' = st.wrapped
    /\ round' = round + 1
    /\ UNCHANGED <<now_postion, level>>

\* de_ring and status_update follow.
TickSend(batch) ==
  LET st == Arrived(batch)
      sent == Bytes(st.slots[now_postion])
  IN
    /\ round + 1 = ROUNDS
    /\ ring_queue' = Emptied(st)
    /\ pre_pointer' = MovedPointer(st)
    /\ now_postion' = (now_postion + 1) % BLOCK
    /\ tot_bytes' = st.tot - sent
    /\ inque' = st.queue
    /\ lost' = st.lost /\ wrapped' = st.wrapped
    /\ level' = Leak(sent)
    /\ round' = 0
--------------------------------------------------------------------------------
Init ==
  /\ ring_queue = [i \in Slot |-> << >>]
  /\ now_postion = 0 /\ pre_pointer = 0 /\ tot_bytes = 0
  /\ inque = << >> /\ round = 0
  /\ lost = 0 /\ wrapped = FALSE /\ level = 0

\* The packets that may be due in a round.
Batch == {b \in BoundedSeq([len : Lengths, age : {0}], MaxBatch) :
             tot_bytes + Bytes(inque) + Bytes(b) <= MaxLoad}

Next == \/ \E batch \in Batch : Tick(batch)
        \/ \E batch \in Batch : TickSend(batch)

Spec == Init /\ [][Next]_vars
--------------------------------------------------------------------------------
(***************************************************************************)
(* Properties                                                               *)
(***************************************************************************)
\* Every variable has its type; the ring never holds more than its bytes and one
\* slot's, whatever arrives.
TypeOK ==
  /\ ring_queue \in [Slot -> Seq(Packet)] /\ inque \in Seq(Packet)
  /\ now_postion \in Slot /\ pre_pointer \in Slot
  /\ round \in 0..ROUNDS-1
  /\ tot_bytes \in Nat /\ tot_bytes * BLOCK < CAP * (BLOCK + 1)
  /\ lost \in Nat /\ level \in Nat

\* The slots in sending order, and the packets in it.
Sending == [k \in 1..BLOCK |-> ring_queue[(now_postion + k - 1) % BLOCK]]
Contents == FlattenSeq(Sending)

\* tot_bytes, from which in_ring computes places, counts the packets in the ring
\* and those overwritten there: de_ring gives back what in_ring has charged.
BytesConserved == tot_bytes = Bytes(Contents) + lost

\* As long as no packet is placed a whole turn ahead, which only a burst that
\* fills the ring to its last slot brings about, packets lie between now_postion
\* and pre_pointer, and none is overwritten by in_ring.
ArcHoldsAll ==
  ~wrapped =>
     /\ lost = 0
     /\ \A i \in Slot : ring_queue[i] # << >> =>
          cal_interval(now_postion, i) <= cal_interval(now_postion, pre_pointer)

\* Until then packets are sent in the order of their arrival.
InOrder ==
  ~wrapped =>
     \A n \in 1..Len(Contents)-1 : Contents[n].age >= Contents[n+1].age

\* Until then a stretch of slots sends no more than its share of CAP and the share
\* of all slots but one: in_ring spaces packets by the bytes still in the ring, so
\* those spaced behind a packet already sent may join it.
RateUnlessWrapped == ~wrapped => level <= CAP * (BLOCK - 1)

\* A packet that has reached the ring is sent within one turn of it.
SentInOneTurn ==
  \A n \in DOMAIN Contents : Contents[n].age <= LATENCY + BLOCK * ROUNDS

\* README of the ring, line 13: "rate=1024kbps".  No stretch of slots sends more
\* than its share of CAP, one slot's share and one packet besides.
RingRate == \E l \in Lengths : l <= CAP /\ level < CAP + BLOCK * l
================================================================================
