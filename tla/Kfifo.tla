--------------------------------- MODULE Kfifo ---------------------------------
(***************************************************************************)
(* The time ring of RateLimiter/sch_kfifo.h and sch_kfifo.c.                *)
(*                                                                          *)
(* The ring has one node per millisecond of depth.  kfifo_enqueue charges   *)
(* a packet its transmission time at the configured rate: against the node  *)
(* under pwrite when the node has that much time left, else against a node  *)
(* as many places ahead as the packet has whole milliseconds, plus one.     *)
(* kfifo_dequeue empties the node under pread; once it is empty the caller  *)
(* clears it (kfifo_finish_node) and sleeps for the sleep_time it had       *)
(* gathered.  kfifo_init builds the ring, and tsf_change calls it again on  *)
(* a live one.                                                              *)
(*                                                                          *)
(* The kernel calls enqueue, dequeue and change of a qdisc under its root   *)
(* lock, so each call is one action.  Nodes are the offsets from pbase;     *)
(* packets are kinds of packet, told apart by their length.                 *)
(***************************************************************************)
EXTENDS Integers, SequencesExt

CONSTANTS UNIT_TIME,    \* a node's time budget (1000000 ns)
          MSEC,         \* milliseconds per second (1000)
          U32,          \* 2^32, the modulus of __u32 arithmetic
          Times,        \* ring depths, in ms, that tsf_change is given
          Rates,        \* rates, in bytes per second, that tsf_change is given
          Skb,          \* kinds of packet
          PktLen,       \* qdisc_pkt_len of each kind
          MaxTime,      \* bound on the transmission time of a packet
          L2T           \* psched_l2t_ns(rate, length) of each kind, at each rate

ASSUME UnitAssumption == UNIT_TIME \in Nat \ {0} /\ MSEC \in Nat \ {0}
\* kfifo_init uses the ring it has installed even when it holds fewer than two
\* nodes, uninitialised; those depths are left out.
ASSUME TimesAssumption == Times \subseteq Nat \ {0, 1}
ASSUME RatesAssumption == Rates \subseteq Nat /\ U32 \in Nat \ {0}
ASSUME LengthAssumption == PktLen \in [Skb -> Nat \ {0}]
ASSUME TimeAssumption == /\ MaxTime \in Nat
                         /\ L2T \in [Rates -> [Skb -> 0..MaxTime]]

VARIABLES
  rate,         \* kfifo->rate
  total_time,   \* number of nodes
  total_len,    \* bytes the ring may hold
  slen,         \* bytes the ring is charged with
  pread,        \* node being emptied
  pwrite,       \* node being filled
  pkt,          \* per node: packets in it
  left_time,    \* per node: time budget left
  sleep_time,   \* per node: time to sleep once it is empty
  node_slen,    \* per node: bytes in it
  kunit,        \* per node: its list of packets
  \* History variables: no other variable depends on them.
  debt,         \* time of the packets released and not yet slept for
  stranded      \* bytes of packets lost in arrays kfifo_init replaced

ring == <<rate, total_time, total_len, slen, pread, pwrite>>
nodes == <<pkt, left_time, sleep_time, node_slen, kunit>>
vars == <<ring, nodes, debt, stranded>>

Node == 0 .. total_time - 1

\* A queued packet; its time and the sleep_time of its node just after it was
\* charged are history, which relates the list to sleep_time.
Unit == [skb : Skb, time : 0..MaxTime, tend : Nat]

\* The node k places after i, and how many places after i node j is.
Ahead(i, k) == (i + k) % total_time
Dist(i, j) == IF j >= i THEN j - i ELSE j - i + total_time
--------------------------------------------------------------------------------
(***************************************************************************)
(* kfifo_init                                                               *)
(***************************************************************************)
\* Bytes in t milliseconds at rate r: the product is taken in 32 bits.
RingBytes(t, r) == ((t * r) % U32) \div MSEC

\* Plausible bug: kmalloc'ed nodes keep the byte count of the old array.
MutFreshNodes(t) ==
  /\ pkt' = [i \in 0..t-1 |-> 0]
  /\ left_time' = [i \in 0..t-1 |-> UNIT_TIME]
  /\ sleep_time' = [i \in 0..t-1 |-> 0]
  /\ node_slen' = [i \in 0..t-1 |-> IF i \in Node THEN node_slen[i] ELSE 0]
  /\ kunit' = [i \in 0..t-1 |-> << >>]
  /\ pread' = 0
  /\ pwrite' = 0

\* A ring of t fresh nodes, both pointers on the first.
FreshNodes(t) ==
  /\ pkt' = [i \in 0..t-1 |-> 0]
  /\ left_time' = [i \in 0..t-1 |-> UNIT_TIME]
  /\ sleep_time' = [i \in 0..t-1 |-> 0]
  /\ node_slen' = [i \in 0..t-1 |-> 0]
  /\ kunit' = [i \in 0..t-1 |-> << >>]
  /\ pread' = 0
  /\ pwrite' = 0

\* The qdisc's private data is zeroed by the kernel before tsf_init.
Init ==
  /\ rate \in Rates
  /\ total_time \in Times
  /\ total_len = RingBytes(total_time, rate)
  /\ slen = 0 /\ pread = 0 /\ pwrite = 0
  /\ pkt = [i \in Node |-> 0]
  /\ left_time = [i \in Node |-> UNIT_TIME]
  /\ sleep_time = [i \in Node |-> 0]
  /\ node_slen = [i \in Node |-> 0]
  /\ kunit = [i \in Node |-> << >>]
  /\ debt = 0 /\ stranded = 0

\* kfifo_init does not touch slen.
InitialSlen == slen

\* tsf_change on a live ring, as far as the ring sees it: the new array replaces
\* the old one and whatever was queued in it.
Change(t, r) ==
  /\ rate' = r
  /\ total_time' = t
  /\ total_len' = RingBytes(t, r)
  /\ FreshNodes(t)
  /\ slen' = InitialSlen
  /\ stranded' = slen
  /\ debt' = 0

\* The same call when kmalloc fails: the rate is already the new one.
ChangeNoMem(r) ==
  /\ rate' = r
  /\ UNCHANGED <<total_time, total_len, slen, pread, pwrite, nodes, debt, stranded>>
--------------------------------------------------------------------------------
(***************************************************************************)
(* kfifo_enqueue                                                            *)
(***************************************************************************)
SkbTime(s) == L2T[rate][s]
Steps(s) == SkbTime(s) \div UNIT_TIME
\* Plausible bugs: the whole time, or that of the nodes moved, is the cost.
MutCostWhole(s) == SkbTime(s)
MutCostMoved(s) == SkbTime(s) - (Steps(s) + 1) * UNIT_TIME
CostTime(s) == SkbTime(s) - Steps(s) * UNIT_TIME

\* Plausible bug: the loop over the next nodes stops one short.
MutConflict(step) ==
  \/ pkt[pwrite] > 0 /\ pwrite = pread
  \/ \E k \in 1..step-1 : Ahead(pwrite, k) = pread

\* kfifo_wr_conflict: the writer is on the reader's node and that node is in
\* use, or one of the next "step" nodes is the reader's.
Conflict(step) ==
  \/ pkt[pwrite] > 0 /\ pwrite = pread
  \/ \E k \in 1..step : Ahead(pwrite, k) = pread

Fits(s) == PktLen[s] + slen <= total_len

\* Plausible bug: a packet that does not fit its node sleeps for the cost only.
MutChargeTime(i, s, cost) ==
  /\ left_time' = [left_time EXCEPT ![i] = @ - cost]
  /\ sleep_time' = [sleep_time EXCEPT ![i] = @ + cost]

ChargeTime(i, s, cost) ==
  /\ left_time' = [left_time EXCEPT ![i] = @ - cost]
  /\ sleep_time' = [sleep_time EXCEPT ![i] = @ + SkbTime(s)]

\* kunit_enqueue_tail; plausible bug: kunit_enqueue_head in its place.
MutEnqueueTail(k, u) == <<u>> \o k
EnqueueTail(k, u) == Append(k, u)

\* Put s in node i, taking cost from the node's budget.
Charge(i, s, cost) ==
  /\ ChargeTime(i, s, cost)
  /\ pkt' = [pkt EXCEPT ![i] = @ + 1]
  /\ node_slen' = [node_slen EXCEPT ![i] = @ + PktLen[s]]
  /\ kunit' = [kunit EXCEPT ![i] = EnqueueTail(@,
                 [skb |-> s, time |-> SkbTime(s), tend |-> sleep_time[i] + SkbTime(s)])]
  /\ slen' = slen + PktLen[s]
  /\ UNCHANGED <<rate, total_time, total_len, pread, debt, stranded>>

\* The current node has the time left.
EnqueueHere(s) ==
  /\ Fits(s)
  /\ SkbTime(s) <= left_time[pwrite]
  /\ ~Conflict(0)
  /\ pwrite' = pwrite
  /\ Charge(pwrite, s, SkbTime(s))

\* Plausible bug: the writer moves as many nodes as the packet has whole units.
MutEnqueueAhead(s) ==
  /\ Fits(s)
  /\ SkbTime(s) > left_time[pwrite]
  /\ ~Conflict(Steps(s))
  /\ pwrite' = Ahead(pwrite, Steps(s))
  /\ Charge(Ahead(pwrite, Steps(s)), s, CostTime(s))

\* It has not: kfifo_write_forward moves pwrite on.  Its own test for the
\* reader repeats Conflict under the same lock and never fails.
EnqueueAhead(s) ==
  /\ Fits(s)
  /\ SkbTime(s) > left_time[pwrite]
  /\ ~Conflict(Steps(s) + 1)
  /\ pwrite' = Ahead(pwrite, Steps(s) + 1)
  /\ Charge(Ahead(pwrite, Steps(s) + 1), s, CostTime(s))

Accepts(s) == /\ Fits(s)
              /\ ~Conflict(IF SkbTime(s) > left_time[pwrite] THEN Steps(s) + 1 ELSE 0)

EnqueueDrop(s) == ~Accepts(s) /\ UNCHANGED vars
--------------------------------------------------------------------------------
(***************************************************************************)
(* kfifo_dequeue and kfifo_finish_node                                      *)
(***************************************************************************)
\* Node i is where kfifo_read_forward leaves pread: the first node in use from
\* pread on, else the writer's.
Reading(i) ==
  \E k \in 0..Dist(pread, pwrite) :
     /\ i = Ahead(pread, k)
     /\ \A j \in 0..k-1 : pkt[Ahead(pread, j)] = 0
     /\ pkt[i] > 0 \/ i = pwrite

\* Plausible bug: a sleep within one unit is not waited for.
MutSleeping == pkt[pread] = 0 /\ sleep_time[pread] > UNIT_TIME

\* An empty node that has not been slept for holds the reader back.
Sleeping == pkt[pread] = 0 /\ sleep_time[pread] > 0

DequeueSkb ==
  /\ ~Sleeping
  /\ \E i \in Node :
       /\ Reading(i) /\ pkt[i] > 0
       /\ pread' = i
       /\ LET u == Head(kunit[i]) IN
            /\ kunit' = [kunit EXCEPT ![i] = Tail(@)]
            /\ pkt' = [pkt EXCEPT ![i] = @ - 1]
            /\ node_slen' = [node_slen EXCEPT ![i] = @ - PktLen[u.skb]]
            /\ slen' = slen - PktLen[u.skb]
            /\ debt' = debt + u.time
  /\ UNCHANGED <<rate, total_time, total_len, pwrite, left_time, sleep_time, stranded>>

\* Nothing to read: pread is moved all the same.
DequeueNull ==
  /\ ~Sleeping
  /\ \E i \in Node : Reading(i) /\ pkt[i] = 0 /\ pread' = i
  /\ UNCHANGED <<rate, total_time, total_len, slen, pwrite, nodes, debt, stranded>>

\* kfifo_finish_node
ClearNode(i) ==
  /\ left_time' = [left_time EXCEPT ![i] = UNIT_TIME]
  /\ pkt' = [pkt EXCEPT ![i] = 0]
  /\ node_slen' = [node_slen EXCEPT ![i] = 0]
  /\ sleep_time' = [sleep_time EXCEPT ![i] = 0]
  /\ kunit' = [kunit EXCEPT ![i] = << >>]

\* What tsf_dequeue does with a node it has emptied and must sleep for.
FinishNode ==
  /\ Sleeping
  /\ ClearNode(pread)
  /\ debt' = debt - sleep_time[pread]
  /\ UNCHANGED <<ring, stranded>>

Dequeue == DequeueSkb \/ DequeueNull \/ FinishNode
--------------------------------------------------------------------------------
Next == \/ \E s \in Skb : EnqueueHere(s)
        \/ \E s \in Skb : EnqueueAhead(s)
        \/ \E s \in Skb : EnqueueDrop(s)
        \/ Dequeue
        \/ \E t \in Times, r \in Rates : Change(t, r)
        \/ \E r \in Rates : ChangeNoMem(r)

Spec == Init /\ [][Next]_vars

\* The caller keeps polling: the kernel runs a qdisc that has been scheduled,
\* and the watchdog schedules it again after a sleep.
FairSpec == Spec /\ WF_vars(Dequeue)
--------------------------------------------------------------------------------
(***************************************************************************)
(* Properties                                                               *)
(***************************************************************************)
Used(i) == pkt[i] > 0
NodeBytes(i) == FoldLeft(LAMBDA b, u : b + PktLen[u.skb], 0, kunit[i])
RingLoad == SumFunction(node_slen)

\* Every variable has its type; left_time, unsigned in the code and decremented
\* by kfifo_enqueue, never goes below zero.
TypeOK ==
  /\ rate \in Rates /\ total_time \in Times
  /\ total_len \in Nat /\ slen \in Int /\ debt \in Int /\ stranded \in Int
  /\ pread \in Node /\ pwrite \in Node
  /\ pkt \in [Node -> Nat]
  /\ left_time \in [Node -> 0..UNIT_TIME]
  /\ sleep_time \in [Node -> Nat]
  /\ node_slen \in [Node -> Int]
  /\ kunit \in [Node -> Seq(Unit)]

\* The writer stands on a node in use unless it stands with the reader.
WriterOnUsedNode == pwrite = pread \/ Used(pwrite)

\* Every node in use lies between the reader and the writer, so kfifo_dequeue,
\* which looks no further than pwrite, never strands a packet.
WindowHoldsAll ==
  \A i \in Node : Used(i) => Dist(pread, i) <= Dist(pread, pwrite)

\* A node the reader has left behind without kfifo_finish_node, and one the
\* writer has jumped over, is as kfifo_init made it: the writer may reuse it.
EmptyNodesPristine ==
  \A i \in Node : i # pread /\ ~Used(i) =>
     /\ left_time[i] = UNIT_TIME
     /\ sleep_time[i] = 0
     /\ kunit[i] = << >>

\* kfifo_dequeue tells an empty node by its counter, not by its list.
PktCountsList == \A i \in Node : pkt[i] = Len(kunit[i])

\* The packet count and the two byte counts kept by kfifo_enqueue, kfifo_dequeue
\* and kfifo_finish_node agree with the lists, up to what kfifo_init on a live
\* ring leaves behind.
CountersAgree ==
  /\ PktCountsList
  /\ \A i \in Node : node_slen[i] = NodeBytes(i)
  /\ slen = stranded + RingLoad /\ stranded >= 0

\* The packets queued in node i account for its sleep_time, one after another;
\* on the reader's node those already released come first.
NodeBase(i) == IF i = pread THEN debt ELSE 0
Linked(k, base, end) ==
  /\ k = << >> => end = base
  /\ k # << >> => k[1].tend = base + k[1].time /\ k[Len(k)].tend = end
  /\ \A j \in 1..Len(k)-1 : k[j+1].tend = k[j].tend + k[j+1].time
Chained(i) == Linked(kunit[i], NodeBase(i), sleep_time[i])

\* The sleep kfifo_finish_node collects from a node is exactly the transmission
\* time of the packets released from it, neither more nor less.
SleepIsEarned == (\A i \in Node : Chained(i)) /\ (Sleeping => debt = sleep_time[pread])

\* A node's charges and the time it has left make up the milliseconds between
\* it and the node used before it: what is charged beyond the node's own
\* millisecond is exactly the nodes kfifo_write_forward jumped over for it.
Spacing ==
  \A i \in Node \ {pread} : Used(i) =>
     \E g \in 1..Dist(pread, i) :
        /\ sleep_time[i] + left_time[i] = g * UNIT_TIME
        /\ \A k \in 1..g-1 : ~Used(Ahead(pread, Dist(pread, i) - k))

\* No node is charged more than its own budget and one packet.
NodeBudget ==
  \A i \in Node : /\ UNIT_TIME <= sleep_time[i] + left_time[i]
                  /\ sleep_time[i] + left_time[i] <= UNIT_TIME + MaxTime

\* The delay stored in the ring, which is what a packet accepted now waits for,
\* is at most one millisecond per node beyond the reader's.
DelayBound ==
  SumFunction(sleep_time) - sleep_time[pread] <= Dist(pread, pwrite) * UNIT_TIME

\* The rate limit: what has been released exceeds what has been slept for by at
\* most one node's budget and one packet.
RateLimit == 0 <= debt /\ debt <= UNIT_TIME + MaxTime

\* kfifo_read_forward takes the reader off a node only when all the time of the
\* packets released so far has been slept for.
ReaderLeavesNoDebt == [][slen' < slen /\ pread' # pread => debt = 0]_vars

\* The ring is a first-in first-out queue that hands back every packet.
Contents ==
  LET arc == [k \in 1..Dist(pread, pwrite)+1 |-> kunit[Ahead(pread, k-1)]] IN
  LET all == FlattenSeq(arc) IN [n \in 1..Len(all) |-> all[n].skb]
Fifo == INSTANCE FifoQueue WITH queue <- Contents
RingIsFifo == Fifo!Spec
================================================================================
