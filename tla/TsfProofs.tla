------------------------------- MODULE TsfProofs -------------------------------
(***************************************************************************)
(* The discipline implements the time ring and the token bucket, for every  *)
(* rate, every depth of the ring and every set of packets; the theorems of  *)
(* the ring are thereby theorems of the discipline, and tsf_delay keeps the *)
(* wire from running ahead of the ring.                                     *)
(***************************************************************************)
EXTENDS TsfPaced, TLAPS

K == INSTANCE KfifoProofs

\* What the calls in progress hold, as far as the ring is concerned: whatever they
\* hand to it is a packet.
JobOK ==
  /\ inner \in Seq(Skb)
  /\ \/ job = Idle
     \/ job.pc = "drain" /\ job.skb \in Skb /\ inner # << >>
     \/ job.pc = "new" /\ job.skb \in Skb
     \/ job.pc = "seg" /\ job.segs \in Seq(Skb) /\ job.segs # << >>
  /\ job.pc = "drain" => job = [pc |-> "drain", skb |-> job.skb, toks |-> job.toks,
                                toks2 |-> job.toks2]
  /\ job.pc = "seg" => job = [pc |-> "seg", segs |-> job.segs]
--------------------------------------------------------------------------------
(***************************************************************************)
(* The discipline uses the ring as Kfifo describes                          *)
(***************************************************************************)
LEMMA InitJobOK == Init => JobOK
BY DEF Init, JobOK, Idle

LEMMA EmptyList ==
  /\ << >> \in Seq(Skb) /\ << >> \in Seq({"DEIP", "other"})
  /\ \A q \in Seq(Skb) : Len(q) = 0 => q = << >>
OBVIOUS

\* A packet list that is not empty has a head, and its tail is a list of packets.
LEMMA HeadTail ==
  ASSUME NEW q \in Seq(Skb), q # << >>
  PROVE  /\ Head(q) \in Skb /\ Tail(q) \in Seq(Skb) /\ Len(q) \in Nat
         /\ Len(q) # 1 => Tail(q) # << >>
         /\ Len(q) = 1 => Tail(q) = << >>
         /\ Len(q) # 1 => Head(Tail(q)) = q[2] /\ q[2] \in Skb
<1>1. Len(q) \in Nat /\ Len(q) > 0
  OBVIOUS
<1>2. Len(Tail(q)) = Len(q) - 1 /\ Tail(q) \in Seq(Skb)
  OBVIOUS
<1>3. \A n \in Nat : n > 0 /\ n # 1 => n - 1 > 0 /\ 2 \in 1..n
  OBVIOUS
<1>4. ASSUME Len(q) # 1
      PROVE  Tail(q) # << >> /\ Head(Tail(q)) = q[2] /\ q[2] \in Skb
  <2>1. Len(Tail(q)) > 0 /\ 2 \in 1..Len(q)
    BY <1>1, <1>2, <1>3, <1>4
  <2>2. Tail(q)[1] = q[2]
    BY <2>1, <1>2
  <2> QED
    BY <2>1, <2>2, <1>2
<1>5. ASSUME Len(q) = 1 PROVE Tail(q) = << >>
  <2>1. Len(Tail(q)) = 0 /\ Tail(q) \in Seq(Skb)
    BY <1>2, <1>5
  <2> HIDE <1>5
  <2> QED
    BY <2>1, EmptyList
<1> QED
  BY <1>1, <1>2, <1>4, <1>5

LEMMA PutPreserves ==
  ASSUME NEW q \in Seq(Skb), NEW s \in Skb
  PROVE  BfifoPut(q, s) \in Seq(Skb) /\ (q # << >> => BfifoPut(q, s) # << >>)
BY DEF BfifoPut

LEMMA JobOKPreserved == JobOK /\ [Next]_vars => JobOK'
<1> SUFFICES ASSUME JobOK, [Next]_vars PROVE JobOK'
  OBVIOUS
<1>0. ASSUME UNCHANGED <<inner, job>> PROVE JobOK'
  BY <1>0 DEF JobOK, Idle
<1>1. CASE UNCHANGED vars
  BY <1>0, <1>1 DEF vars
<1>2. ASSUME NEW s \in Skb, EnqueueOops(s) PROVE JobOK'
  BY <1>0, <1>2 DEF EnqueueOops
<1>3. ASSUME NEW s \in Skb, EnqueueBegin(s) PROVE JobOK'
  BY <1>3 DEF EnqueueBegin, JobOK
<1>4. ASSUME NEW g \in Gso, SegmentBegin(g) PROVE JobOK'
  BY <1>4, SegmentsAssumption DEF SegmentBegin, JobOK
<1>5. ASSUME NEW g \in Gso, SegmentFails(g) PROVE JobOK'
  BY <1>5 DEF SegmentFails, Return, JobOK, Idle
<1>6. ASSUME NEW src, EnqueueTest(src) PROVE JobOK'
  BY <1>0, <1>6 DEF EnqueueTest
<1>7. CASE Drain
  <2>1. inner \in Seq(Skb) /\ inner # << >> /\ job.skb \in Skb /\ inner' = Tail(inner)
    BY <1>7 DEF Drain, JobOK, Idle
  <2>2. CASE Len(inner) = 1
    BY <1>7, <2>1, <2>2, HeadTail DEF Drain, JobOK
  <2>3. CASE Len(inner) # 1
    <3>1. job' = [pc |-> "drain", skb |-> job.skb, toks |-> job.toks2,
                  toks2 |-> job.toks2 - Cost(inner[2])]
      BY <1>7, <2>3 DEF Drain, JobOK
    <3> QED
      BY <3>1, <2>1, <2>3, HeadTail DEF JobOK
  <2> QED
    BY <2>2, <2>3
<1>8. CASE DrainRefused
  <2>1. inner \in Seq(Skb) /\ inner # << >> /\ inner' = Tail(inner) /\ job' = Idle
    BY <1>8 DEF DrainRefused, Return, JobOK, Idle
  <2> QED
    BY <2>1, HeadTail DEF JobOK, Idle
<1>9. CASE DrainEnd
  BY <1>9 DEF DrainEnd, JobOK, Idle
<1>10. CASE NewToRing
  BY <1>10 DEF NewToRing, Return, JobOK, Idle
<1>11. CASE NewToInner
  BY <1>11, PutPreserves DEF NewToInner, Return, JobOK, Idle
<1>12. ASSUME job.pc = "seg", NextSegment, inner' \in Seq(Skb) PROVE JobOK'
  <2>1. job.segs \in Seq(Skb) /\ job.segs # << >> /\ job = [pc |-> "seg", segs |-> job.segs]
    BY <1>12 DEF JobOK, Idle
  <2>2. CASE Len(job.segs) = 1
    BY <1>12, <2>2 DEF NextSegment, JobOK, Idle
  <2>3. CASE Len(job.segs) # 1
    <3>1. job' = [pc |-> "seg", segs |-> Tail(job.segs)]
      BY <1>12, <2>1, <2>3 DEF NextSegment
    <3> QED
      BY <1>12, <3>1, <2>1, <2>3, HeadTail DEF JobOK
  <2> QED
    BY <2>2, <2>3
<1>13. CASE SegmentToRing
  BY <1>12, <1>13 DEF SegmentToRing, JobOK
<1>14. CASE SegmentToInner
  <2>1. Head(job.segs) \in Skb /\ inner \in Seq(Skb)
    BY <1>14, HeadTail DEF SegmentToInner, JobOK, Idle
  <2> QED
    BY <2>1, <1>12, <1>14, PutPreserves DEF SegmentToInner
<1>15. CASE Watchdog \/ DequeueTest \/ DequeueNothing \/ Reset \/ Destroy
              \/ Tick \/ DequeueRing \/ DequeueSleep \/ DequeueSpin
  BY <1>0, <1>15 DEF Watchdog, DequeueTest, DequeueNothing, Reset, Destroy, Tick, DequeueRing,
                     DequeueSleep, DequeueSpin
<1>16. ASSUME inner' = << >> \/ inner' = inner, job' = job, job = Idle PROVE JobOK'
  <2>1. job'.pc = "idle" /\ job' = Idle
    BY <1>16 DEF Idle
  <2>2. inner' \in Seq(Skb)
    BY <1>16, EmptyList DEF JobOK
  <2> QED
    BY <2>1, <2>2 DEF JobOK
<1>17. ASSUME NEW t \in Times, NEW r \in Rates, Change(t, r) PROVE JobOK'
  BY <1>16, <1>17 DEF Change, Ready
<1>18. ASSUME NEW r \in Rates, ChangeNoMem(r) \/ ChangeFails(r) PROVE JobOK'
  BY <1>16, <1>18 DEF ChangeNoMem, ChangeFails, Ready
<1> QED
  BY <1>1, <1>2, <1>3, <1>4, <1>5, <1>6, <1>7, <1>8, <1>9, <1>10, <1>11, <1>13, <1>14, <1>15,
     <1>17, <1>18 DEF Next, Untimed, Working

THEOREM JobInvariance == Spec => []JobOK
BY InitJobOK, JobOKPreserved, PTL DEF Spec

\* What kfifo_enqueue is given is a packet.
LEMMA EnqueueStep ==
  ASSUME NEW s \in Skb, RingTakes(s) \/ RingRefuses(s)
  PROVE  Ring!Next
BY DEF RingTakes, RingRefuses, Ring!Next

LEMMA RingStep == JobOK /\ [Next]_vars => [Ring!Next]_Ring!vars
<1> SUFFICES ASSUME JobOK, [Next]_vars PROVE [Ring!Next]_Ring!vars
  OBVIOUS
<1>1. ASSUME UNCHANGED ring PROVE UNCHANGED Ring!vars
  BY <1>1 DEF ring, Ring!vars, Ring!ring, Ring!nodes
<1>2. CASE UNCHANGED vars
  BY <1>1, <1>2 DEF vars
<1>3. CASE Drain \/ DrainRefused
  <2>1. Head(inner) \in Skb
    BY <1>3, HeadTail DEF Drain, DrainRefused, JobOK, Idle
  <2> QED
    BY <2>1, <1>3, EnqueueStep DEF Drain, DrainRefused
<1>4. CASE NewToRing
  BY <1>4, EnqueueStep DEF NewToRing, JobOK, Idle
<1>5. CASE SegmentToRing
  <2>1. Head(job.segs) \in Skb
    BY <1>5, HeadTail DEF SegmentToRing, JobOK, Idle
  <2> QED
    BY <2>1, <1>5, EnqueueStep DEF SegmentToRing
<1>6. CASE DrainEnd \/ NewToInner \/ SegmentToInner \/ Watchdog \/ DequeueTest \/ Reset
             \/ Destroy \/ Tick
  BY <1>1, <1>6 DEF DrainEnd, NewToInner, SegmentToInner, Watchdog, DequeueTest, Reset, Destroy,
                    Tick
<1>7. ASSUME NEW s \in Skb, EnqueueOops(s) \/ EnqueueBegin(s) PROVE UNCHANGED Ring!vars
  BY <1>1, <1>7 DEF EnqueueOops, EnqueueBegin
<1>8. ASSUME NEW g \in Gso, SegmentBegin(g) \/ SegmentFails(g) PROVE UNCHANGED Ring!vars
  BY <1>1, <1>8 DEF SegmentBegin, SegmentFails
<1>9. ASSUME NEW src, EnqueueTest(src) PROVE UNCHANGED Ring!vars
  BY <1>1, <1>9 DEF EnqueueTest
<1>10. CASE DequeueRing \/ DequeueNothing \/ DequeueSleep \/ DequeueSpin
  BY <1>10 DEF DequeueRing, DequeueNothing, DequeueSleep, DequeueSpin, Finish, Ring!Next,
               Ring!Dequeue
<1>11. ASSUME NEW t \in Times, NEW r \in Rates, Change(t, r) PROVE Ring!Next
  BY <1>11 DEF Change, Ring!Next
<1>12. ASSUME NEW r \in Rates, ChangeNoMem(r) \/ ChangeFails(r) PROVE Ring!Next
  BY <1>12 DEF ChangeNoMem, ChangeFails, Ring!Next
<1> QED
  BY <1>2, <1>3, <1>4, <1>5, <1>6, <1>7, <1>8, <1>9, <1>10, <1>11, <1>12
     DEF Next, Untimed, Working

\* Tsf is built from the actions of Kfifo: what is proved of the ring carries over.
LEMMA RingProtocol == Spec => Ring!Spec
<1>1. Init => Ring!Init
  BY DEF Init
<1> QED
  BY <1>1, RingStep, JobInvariance, PTL DEF Spec, Ring!Spec
--------------------------------------------------------------------------------
(***************************************************************************)
(* The invariants of the ring hold in the discipline                        *)
(***************************************************************************)
\* The ring of the discipline is the ring the theorems of KfifoProofs are about.
LEMMA RingIsK == Ring!Spec => K!Spec
<1>1. Ring!Init => K!Init
  BY DEF Ring!Init, K!Init, Ring!RingBytes, K!RingBytes, Ring!Node, K!Node
<1>2. ASSUME NEW s \in Skb, Ring!EnqueueHere(s) PROVE K!EnqueueHere(s)
  BY <1>2 DEF Ring!EnqueueHere, K!EnqueueHere, Ring!Fits, K!Fits, Ring!SkbTime, K!SkbTime,
       Ring!Conflict, K!Conflict, Ring!Ahead, K!Ahead, Ring!Charge, K!Charge,
       Ring!ChargeTime, K!ChargeTime, Ring!EnqueueTail, K!EnqueueTail
<1>3. ASSUME NEW s \in Skb, Ring!EnqueueAhead(s) PROVE K!EnqueueAhead(s)
  BY <1>3 DEF Ring!EnqueueAhead, K!EnqueueAhead, Ring!Fits, K!Fits, Ring!SkbTime, K!SkbTime,
       Ring!Conflict, K!Conflict, Ring!Ahead, K!Ahead, Ring!Charge, K!Charge,
       Ring!ChargeTime, K!ChargeTime, Ring!EnqueueTail, K!EnqueueTail,
       Ring!Steps, K!Steps, Ring!CostTime, K!CostTime
<1>4. ASSUME NEW s \in Skb, Ring!EnqueueDrop(s) PROVE K!EnqueueDrop(s)
  BY <1>4 DEF Ring!EnqueueDrop, K!EnqueueDrop, Ring!Accepts, K!Accepts, Ring!Fits, K!Fits,
       Ring!SkbTime, K!SkbTime, Ring!Conflict, K!Conflict, Ring!Ahead, K!Ahead,
       Ring!Steps, K!Steps, Ring!vars, K!vars, Ring!ring, K!ring, Ring!nodes, K!nodes
<1>5. Ring!DequeueSkb => K!DequeueSkb
  BY DEF Ring!DequeueSkb, K!DequeueSkb, Ring!Sleeping, K!Sleeping, Ring!Reading, K!Reading,
       Ring!Node, K!Node, Ring!Dist, K!Dist, Ring!Ahead, K!Ahead
<1>6. Ring!DequeueNull => K!DequeueNull
  BY DEF Ring!DequeueNull, K!DequeueNull, Ring!Sleeping, K!Sleeping, Ring!Reading, K!Reading,
       Ring!Node, K!Node, Ring!Dist, K!Dist, Ring!Ahead, K!Ahead, Ring!nodes, K!nodes
<1>7. Ring!FinishNode => K!FinishNode
  BY DEF Ring!FinishNode, K!FinishNode, Ring!Sleeping, K!Sleeping, Ring!ClearNode, K!ClearNode,
       Ring!ring, K!ring
<1>8. ASSUME NEW t \in Times, NEW r \in Rates, Ring!Change(t, r) PROVE K!Change(t, r)
  BY <1>8 DEF Ring!Change, K!Change, Ring!RingBytes, K!RingBytes, Ring!FreshNodes, K!FreshNodes,
       Ring!InitialSlen, K!InitialSlen
<1>9. ASSUME NEW r \in Rates, Ring!ChangeNoMem(r) PROVE K!ChangeNoMem(r)
  BY <1>9 DEF Ring!ChangeNoMem, K!ChangeNoMem, Ring!nodes, K!nodes
<1>10. [Ring!Next]_Ring!vars => [K!Next]_K!vars
  BY <1>2, <1>3, <1>4, <1>5, <1>6, <1>7, <1>8, <1>9
     DEF Ring!Next, K!Next, Ring!Dequeue, K!Dequeue,
         Ring!vars, K!vars, Ring!ring, K!ring, Ring!nodes, K!nodes
<1> QED
  BY <1>1, <1>10, PTL DEF Ring!Spec, K!Spec

\* What the ring guarantees at every step of the discipline.
RingInv == Ring!TypeOK /\ Ring!PktCountsList /\ Ring!SleepIsEarned /\ Ring!RateLimit

LEMMA RingConstants ==
  /\ K!UnitAssumption /\ K!TimesAssumption /\ K!RatesAssumption /\ K!LengthAssumption
  /\ K!TimeAssumption
BY RingAssumption DEF Ring!UnitAssumption, Ring!TimesAssumption, Ring!RatesAssumption,
   Ring!LengthAssumption, Ring!TimeAssumption, K!UnitAssumption, K!TimesAssumption,
   K!RatesAssumption, K!LengthAssumption, K!TimeAssumption

\* The theorems of the ring hold in the discipline, whatever else it does.
THEOREM RingCorrect == Spec => []RingInv
<1>1. K!Spec => []K!IInv
  BY RingConstants, K!Invariance
<1>2. K!Spec => []K!SleepIsEarned
  BY RingConstants, K!SleepCorrect
<1>3. K!Spec => [](K!NodeBudget /\ K!RateLimit)
  BY RingConstants, K!RateCorrect
<1>4. K!IInv /\ K!SleepIsEarned /\ K!NodeBudget /\ K!RateLimit => RingInv
  <2>1. K!IInv => Ring!TypeOK /\ Ring!PktCountsList
    BY DEF K!IInv, K!TypeOK, Ring!TypeOK, K!Node, Ring!Node, K!Unit, Ring!Unit,
           K!PktCountsList, Ring!PktCountsList
  <2>2. K!SleepIsEarned => Ring!SleepIsEarned
    BY DEF K!SleepIsEarned, Ring!SleepIsEarned, K!Node, Ring!Node, K!Chained, Ring!Chained,
           K!Linked, Ring!Linked, K!NodeBase, Ring!NodeBase, K!Sleeping, Ring!Sleeping
  <2>3. K!RateLimit => Ring!RateLimit
    BY DEF K!RateLimit, Ring!RateLimit
  <2> QED
    BY <2>1, <2>2, <2>3 DEF RingInv
<1> QED
  BY <1>1, <1>2, <1>3, <1>4, RingProtocol, RingIsK, PTL
--------------------------------------------------------------------------------
(***************************************************************************)
(* The token bucket and the local variables of tsf_enqueue                  *)
(***************************************************************************)
\* The levels and prices the discipline computes with.
LEMMA Levels ==
  ASSUME TypeOK
  PROVE  /\ rate \in Rates /\ Depth \in 0..MaxDepth /\ Depth \in Nat
         /\ tokens \in Nat /\ elapsed \in Nat
         /\ Level \in 0..Depth /\ Level \in Nat /\ MaxDepth \in Nat
         /\ \A s \in Skb : Cost(s) \in Nat /\ Cost(s) <= MaxTime
<1>1. rate \in Rates
  BY DEF TypeOK, Ring!TypeOK
<1>2. Depth \in 0..MaxDepth /\ MaxDepth \in Nat
  BY <1>1, DepthAssumption DEF Depth
<1>3. Depth \in Nat
  BY <1>2
<1>4. tokens \in 0..MaxDepth /\ elapsed \in 0..MaxDepth
  BY DEF TypeOK
<1>5. tokens \in Nat /\ elapsed \in Nat
  BY <1>2, <1>4
<1>6. Level \in 0..Depth
  BY <1>3, <1>5 DEF Level, Least
<1>7. \A s \in Skb : L2T[rate][s] \in 0..MaxTime
  BY <1>1, RingAssumption DEF Ring!TimeAssumption
<1> QED
  BY <1>1, <1>2, <1>3, <1>5, <1>6, <1>7, RingAssumption DEF Cost, Ring!TimeAssumption

\* Once t_c is now, the level is what was kept.
LEMMA SpendLemma ==
  ASSUME TypeOK, rate' = rate, NEW left \in Int, 0 <= left, left <= Level, Spend(left)
  PROVE  Level' = left /\ tokens' \in 0..MaxDepth /\ elapsed' \in 0..MaxDepth
<1>1. Depth \in 0..MaxDepth /\ Level \in 0..Depth /\ MaxDepth \in Nat
  BY Levels
<1>2. tokens' = left /\ elapsed' = 0 /\ Depth' = Depth
  BY DEF Spend, Depth
<1>3. Level' = Least(Depth, Least(0, Depth) + left)
  BY <1>2 DEF Level
<1> QED
  BY <1>1, <1>2, <1>3 DEF Least

\* kfifo_enqueue leaves the rate alone.
LEMMA TakesRate ==
  ASSUME NEW s, RingTakes(s) \/ RingRefuses(s)
  PROVE  rate' = rate
BY DEF RingTakes, RingRefuses, Ring!EnqueueHere, Ring!EnqueueAhead, Ring!EnqueueDrop, Ring!Charge,
       Ring!vars, Ring!ring

\* What each call does to everything but the ring.
BucketOK == tokens \in 0..MaxDepth /\ elapsed \in 0..MaxDepth
TimersOK == watchdog \in {-1} \cup Nat /\ slept \in {"not", "watchdog", "no_timer"}
            /\ run \in BOOLEAN /\ status \in {"up", "oops", "locked", "destroyed"}
QueuesOK == inner \in Seq(Skb) /\ test \in Seq({"DEIP", "other"})
LocalsOK == \/ job = Idle
            \/ job \in [pc : {"drain"}, skb : Skb, toks : Int, toks2 : Int]
            \/ job \in [pc : {"new"}, skb : Skb, toks : Int, late : Int]
            \/ job \in [pc : {"seg"}, segs : Seq(Skb) \ {<< >>}]

LEMMA TypeParts == TypeOK <=> Ring!TypeOK /\ BucketOK /\ TimersOK /\ QueuesOK /\ LocalsOK
BY DEF TypeOK, BucketOK, TimersOK, QueuesOK, LocalsOK

Fresh == LocalsOK /\ LocalsFresh

LEMMA IdleFresh == job' = Idle => Fresh'
BY DEF Fresh, LocalsOK, LocalsFresh, Idle

LEMMA SameFresh ==
  ASSUME TypeOK, Fresh, UNCHANGED <<job, inner, tokens, elapsed, rate>>
  PROVE  Fresh' /\ Level' = Level
<1>1. Level' = Level /\ \A s : Cost(s)' = Cost(s)
  BY DEF Level, Depth, Cost
<1> QED
  BY <1>1 DEF Fresh, LocalsOK, LocalsFresh, Idle, Cost

\* The fields of the job of a call that loops over the inner queue.
LEMMA DrainJob ==
  ASSUME JobOK, TypeOK, LocalsFresh, job.pc = "drain"
  PROVE  /\ job.skb \in Skb /\ inner \in Seq(Skb) /\ inner # << >> /\ Head(inner) \in Skb
         /\ job.toks = Level /\ job.toks2 = Level - Cost(Head(inner))
         /\ job.toks \in Int /\ job.toks2 \in Int /\ job.toks2 <= Level
         /\ job = [pc |-> "drain", skb |-> job.skb, toks |-> job.toks, toks2 |-> job.toks2]
<1>1. job.skb \in Skb /\ inner \in Seq(Skb) /\ inner # << >> /\ Head(inner) \in Skb
  BY HeadTail DEF JobOK, Idle
<1>2. job.toks = Level /\ job.toks2 = Level - Cost(Head(inner))
  BY DEF LocalsFresh
<1>3. Level \in Nat /\ Cost(Head(inner)) \in Nat
  BY <1>1, Levels
<1>4. job = [pc |-> "drain", skb |-> job.skb, toks |-> job.toks, toks2 |-> job.toks2]
  BY DEF JobOK
<1> QED
  BY <1>1, <1>2, <1>3, <1>4

LEMMA BeginFresh ==
  ASSUME TypeOK, NEW s \in Skb, EnqueueBegin(s)
  PROVE  Fresh'
<1>1. inner \in Seq(Skb) /\ inner # << >> /\ inner' = inner
  BY DEF EnqueueBegin, TypeOK
<1>2. Head(inner) \in Skb
  BY <1>1, HeadTail
<1>3. Level \in Nat /\ Cost(Head(inner)) \in Nat
  BY <1>2, Levels
<1>4. Level' = Level /\ Cost(Head(inner))' = Cost(Head(inner))
  BY <1>1 DEF EnqueueBegin, bucket, ring, Level, Depth, Cost
<1>5. job' = [pc |-> "drain", skb |-> s, toks |-> Level, toks2 |-> Level - Cost(Head(inner))]
  BY DEF EnqueueBegin
<1> QED
  BY <1>1, <1>3, <1>4, <1>5 DEF Fresh, LocalsOK, LocalsFresh

LEMMA DrainFresh ==
  ASSUME JobOK, TypeOK, LocalsFresh, Drain
  PROVE  Fresh' /\ BucketOK'
<1>1. /\ job.pc = "drain" /\ job.toks2 >= 0 /\ RingTakes(Head(inner))
      /\ inner' = Tail(inner) /\ Spend(job.toks2)
  BY DEF Drain
<1>2. /\ job.skb \in Skb /\ inner \in Seq(Skb) /\ inner # << >>
      /\ job.toks2 \in Int /\ job.toks2 <= Level
      /\ job = [pc |-> "drain", skb |-> job.skb, toks |-> job.toks, toks2 |-> job.toks2]
  BY <1>1, DrainJob
<1>3. rate' = rate
  BY <1>1, TakesRate
<1>4. Level' = job.toks2 /\ BucketOK'
  BY <1>1, <1>2, <1>3, SpendLemma DEF BucketOK
<1>5. CASE Len(inner) = 1
  <2>1. job' = [pc |-> "new", skb |-> job.skb, toks |-> job.toks2, late |-> 0]
    BY <1>5 DEF Drain
  <2>2. inner' = << >>
    BY <1>1, <1>2, <1>5, HeadTail
  <2> QED
    BY <2>1, <2>2, <1>2, <1>4 DEF Fresh, LocalsOK, LocalsFresh
<1>6. CASE Len(inner) # 1
  <2>1. job' = [pc |-> "drain", skb |-> job.skb, toks |-> job.toks2,
                toks2 |-> job.toks2 - Cost(inner[2])]
    BY <1>2, <1>6 DEF Drain
  <2>2. inner' # << >> /\ Head(inner') = inner[2] /\ inner[2] \in Skb
    BY <1>1, <1>2, <1>6, HeadTail
  <2>3. Cost(inner[2]) \in Nat
    BY <2>2, Levels
  <2>4. Cost(Head(inner))' = Cost(inner[2])
    BY <2>2, <1>3 DEF Cost
  <2>5. job' \in [pc : {"drain"}, skb : Skb, toks : Int, toks2 : Int]
    BY <2>1, <2>3, <1>2
  <2> QED
    BY <2>1, <2>2, <2>4, <2>5, <1>4 DEF Fresh, LocalsOK, LocalsFresh
<1> QED
  BY <1>4, <1>5, <1>6

LEMMA DrainEndFresh ==
  ASSUME JobOK, TypeOK, LocalsFresh, DrainEnd
  PROVE  Fresh'
<1>1. /\ job.pc = "drain" /\ job.toks2 < 0 /\ inner' = inner
      /\ job' = [pc |-> "new", skb |-> job.skb, toks |-> job.toks, late |-> job.toks2]
  BY DEF DrainEnd
<1>2. /\ job.skb \in Skb /\ inner # << >> /\ job.toks = Level
      /\ job.toks \in Int /\ job.toks2 \in Int
  BY <1>1, DrainJob
<1>3. Level' = Level
  BY DEF DrainEnd, bucket, ring, Level, Depth
<1> QED
  BY <1>1, <1>2, <1>3 DEF Fresh, LocalsOK, LocalsFresh

\* A segment leaves no local copy of the tokens.
LEMMA SegmentFresh ==
  ASSUME JobOK, job.pc = "seg", NextSegment
  PROVE  Fresh'
<1>1. job.segs \in Seq(Skb) /\ job.segs # << >> /\ job = [pc |-> "seg", segs |-> job.segs]
  BY DEF JobOK, Idle
<1>2. CASE Len(job.segs) = 1
  BY <1>2, IdleFresh DEF NextSegment
<1>3. CASE Len(job.segs) # 1
  <2>1. job' = [pc |-> "seg", segs |-> Tail(job.segs)]
    BY <1>1, <1>3 DEF NextSegment
  <2>2. Tail(job.segs) \in Seq(Skb) /\ Tail(job.segs) # << >>
    BY <1>1, <1>3, HeadTail
  <2> QED
    BY <2>1, <2>2 DEF Fresh, LocalsOK, LocalsFresh
<1> QED
  BY <1>2, <1>3

\* The ring is given packet s, which pays for itself.
Pays(s) == /\ Level >= Cost(s)
           /\ RingTakes(s) \/ RingRefuses(s)
           /\ Spend(Level - Cost(s))

\* Letting a packet pay leaves the bucket between empty and full.
LEMMA PayBucket ==
  ASSUME TypeOK, NEW s \in Skb, Pays(s)
  PROVE  BucketOK' /\ Level' = Level - Cost(s) /\ rate' = rate
<1>1. Level \in Nat /\ Cost(s) \in Nat /\ rate' = rate
  BY Levels, TakesRate DEF Pays
<1>2. Level - Cost(s) \in Int /\ 0 <= Level - Cost(s) /\ Level - Cost(s) <= Level
  BY <1>1 DEF Pays
<1> QED
  BY <1>1, <1>2, SpendLemma DEF BucketOK, Pays

\* The new packet's turn, and a segment's.
LEMMA PayStep ==
  ASSUME JobOK, TypeOK, LocalsFresh, NewToRing \/ SegmentToRing
  PROVE  \E s \in Skb : Pays(s)
<1>1. CASE NewToRing
  BY <1>1 DEF NewToRing, JobOK, LocalsFresh, Idle, Pays
<1>2. CASE SegmentToRing
  <2>1. Head(job.segs) \in Skb
    BY <1>2, HeadTail DEF SegmentToRing, JobOK, Idle
  <2> QED
    BY <2>1, <1>2 DEF SegmentToRing, Pays
<1> QED
  BY <1>1, <1>2

LEMMA FreshPreserved ==
  ASSUME JobOK, TypeOK, LocalsFresh, [Next]_vars
  PROVE  Fresh'
<1>1. Fresh
  BY DEF Fresh, TypeOK, LocalsOK
<1>2. CASE UNCHANGED vars
  BY <1>1, <1>2, SameFresh DEF vars, ring, bucket
<1>3. ASSUME NEW s \in Skb, EnqueueOops(s) PROVE Fresh'
  BY <1>1, <1>3, SameFresh DEF EnqueueOops, ring, bucket
<1>4. ASSUME NEW s \in Skb, EnqueueBegin(s) PROVE Fresh'
  BY <1>4, BeginFresh
<1>5. ASSUME NEW g \in Gso, SegmentBegin(g) PROVE Fresh'
  <2>1. Segments[g] \in Seq(Skb) \ {<< >>}
    BY SegmentsAssumption
  <2> QED
    BY <2>1, <1>5 DEF SegmentBegin, Fresh, LocalsOK, LocalsFresh
<1>6. ASSUME NEW g \in Gso, SegmentFails(g) PROVE Fresh'
  BY <1>6, IdleFresh DEF SegmentFails, Return
<1>7. ASSUME job' = job, job = Idle PROVE Fresh'
  BY <1>7, IdleFresh
<1>8. ASSUME NEW src, EnqueueTest(src) PROVE Fresh'
  BY <1>7, <1>8 DEF EnqueueTest, Ready
<1>9. CASE Drain
  BY <1>9, DrainFresh
<1>10. CASE DrainRefused \/ NewToRing \/ NewToInner
  BY <1>10, IdleFresh DEF DrainRefused, NewToRing, NewToInner, Return
<1>11. CASE DrainEnd
  BY <1>11, DrainEndFresh
<1>12. CASE SegmentToRing \/ SegmentToInner
  BY <1>12, SegmentFresh DEF SegmentToRing, SegmentToInner
<1>13. CASE Watchdog \/ DequeueTest \/ DequeueNothing \/ Reset \/ Destroy
              \/ Tick \/ DequeueRing \/ DequeueSleep \/ DequeueSpin
  BY <1>7, <1>13 DEF Watchdog, DequeueTest, DequeueNothing, Reset, Destroy, Tick, DequeueRing,
                     DequeueSleep, DequeueSpin, Ready, Polled
<1>14. ASSUME NEW t \in Times, NEW r \in Rates, Change(t, r) PROVE Fresh'
  BY <1>7, <1>14 DEF Change, Ready
<1>15. ASSUME NEW r \in Rates, ChangeNoMem(r) \/ ChangeFails(r) PROVE Fresh'
  BY <1>7, <1>15 DEF ChangeNoMem, ChangeFails, Ready
<1> QED
  BY <1>2, <1>3, <1>4, <1>5, <1>6, <1>8, <1>9, <1>10, <1>11, <1>12, <1>13, <1>14, <1>15
     DEF Next, Untimed, Working

\* Time fills the bucket no further than MaxDepth, and a set watchdog stays one.
LEMMA PassLemma ==
  ASSUME TypeOK, NEW d \in Nat, PassTime(d)
  PROVE  /\ elapsed' = (IF elapsed + d < MaxDepth THEN elapsed + d ELSE MaxDepth)
         /\ elapsed' \in 0..MaxDepth /\ watchdog' \in {-1} \cup Nat
<1>1. elapsed \in Nat /\ MaxDepth \in Nat /\ watchdog \in {-1} \cup Nat
  BY Levels DEF TypeOK
<1> QED
  BY <1>1 DEF PassTime, Least, Most

\* The sleep of a node that is finished.
LEMMA SleepLemma ==
  ASSUME Ring!TypeOK, Ring!FinishNode
  PROVE  /\ sleep_time[pread] \in Nat \ {0} /\ pkt[pread] = 0
         /\ debt' = debt - sleep_time[pread]
         /\ UNCHANGED <<rate, total_time, slen>>
BY DEF Ring!TypeOK, Ring!FinishNode, Ring!Sleeping, Ring!ring

LEMMA BucketPreserved ==
  ASSUME JobOK, TypeOK, LocalsFresh, [Next]_vars
  PROVE  BucketOK'
<1>1. BucketOK
  BY DEF TypeOK, BucketOK
<1>2. ASSUME UNCHANGED bucket PROVE BucketOK'
  BY <1>1, <1>2 DEF BucketOK, bucket
<1>3. CASE Drain
  BY <1>3, DrainFresh
<1>4. CASE NewToRing \/ SegmentToRing
  <2>1. PICK s \in Skb : Pays(s)
    BY <1>4, PayStep
  <2> QED
    BY <2>1, PayBucket
<1>5. CASE Tick
  <2>1. PassTime(1) /\ tokens' = tokens
    BY <1>5 DEF Tick
  <2> QED
    BY <2>1, <1>1, PassLemma DEF BucketOK
<1>6. CASE DequeueSpin
  <2>1. PassTime(sleep_time[pread]) /\ tokens' = tokens /\ Ring!FinishNode
    BY <1>6 DEF DequeueSpin, Finish
  <2>2. sleep_time[pread] \in Nat
    BY <2>1, SleepLemma DEF TypeOK
  <2> QED
    BY <2>1, <2>2, <1>1, PassLemma DEF BucketOK
<1>7. CASE UNCHANGED vars
  BY <1>2, <1>7 DEF vars
<1>8. ASSUME NEW s \in Skb, EnqueueOops(s) \/ EnqueueBegin(s) PROVE BucketOK'
  BY <1>2, <1>8 DEF EnqueueOops, EnqueueBegin
<1>9. ASSUME NEW g \in Gso, SegmentBegin(g) \/ SegmentFails(g) PROVE BucketOK'
  BY <1>2, <1>9 DEF SegmentBegin, SegmentFails
<1>10. ASSUME NEW src, EnqueueTest(src) PROVE BucketOK'
  BY <1>2, <1>10 DEF EnqueueTest
<1>11. CASE DrainRefused \/ DrainEnd \/ NewToInner \/ SegmentToInner \/ Watchdog \/ DequeueTest
              \/ DequeueNothing \/ Reset \/ Destroy \/ DequeueRing \/ DequeueSleep
  BY <1>2, <1>11 DEF DrainRefused, DrainEnd, NewToInner, SegmentToInner, Watchdog, DequeueTest,
                     DequeueNothing, Reset, Destroy, DequeueRing, DequeueSleep
<1>12. ASSUME NEW t \in Times, NEW r \in Rates, Change(t, r) PROVE BucketOK'
  BY <1>2, <1>12 DEF Change
<1>13. ASSUME NEW r \in Rates, ChangeNoMem(r) \/ ChangeFails(r) PROVE BucketOK'
  BY <1>2, <1>13 DEF ChangeNoMem, ChangeFails
<1> QED
  BY <1>3, <1>4, <1>5, <1>6, <1>7, <1>8, <1>9, <1>10, <1>11, <1>12, <1>13
     DEF Next, Untimed, Working

LEMMA TimersPreserved ==
  ASSUME JobOK, TypeOK, LocalsFresh, [Next]_vars
  PROVE  TimersOK'
<1>1. TimersOK
  BY DEF TypeOK, TimersOK
<1>2. ASSUME UNCHANGED timers, status' \in {status, "oops", "locked"} PROVE TimersOK'
  BY <1>1, <1>2 DEF TimersOK, timers
<1>3. ASSUME UNCHANGED <<watchdog, slept, status>>, run' \in BOOLEAN PROVE TimersOK'
  BY <1>1, <1>3 DEF TimersOK
<1>4. CASE Drain \/ DrainEnd \/ DequeueTest \/ DequeueRing
  BY <1>2, <1>4 DEF Drain, DrainEnd, DequeueTest, DequeueRing
<1>5. CASE DrainRefused \/ NewToRing
  BY <1>3, <1>5 DEF DrainRefused, NewToRing, Return
<1>6. CASE SegmentToRing \/ SegmentToInner
  <2>1. run' \in BOOLEAN
    BY <1>6 DEF SegmentToRing, SegmentToInner, NextSegment
  <2> QED
    BY <2>1, <1>3, <1>6 DEF SegmentToRing, SegmentToInner
<1>7. CASE NewToInner
  <2>1. job.pc = "new" /\ job.skb \in Skb /\ job.toks \in Int /\ job.late \in Int
    BY <1>7 DEF NewToInner, TypeOK, Idle
  <2>2. Cost(job.skb) \in Nat /\ job.toks < Cost(job.skb)
    BY <1>7, <2>1, Levels DEF NewToInner
  <2>3. watchdog' \in Nat
    BY <1>7, <2>1, <2>2 DEF NewToInner
  <2> QED
    BY <2>3, <1>1, <1>7 DEF NewToInner, Return, TimersOK
<1>8. CASE Tick
  BY <1>1, <1>8, PassLemma DEF Tick, TimersOK
<1>9. CASE DequeueSpin
  <2>1. sleep_time[pread] \in Nat
    BY <1>9, SleepLemma DEF TypeOK, DequeueSpin, Finish
  <2> QED
    BY <2>1, <1>1, <1>9, PassLemma DEF DequeueSpin, TimersOK
<1>10. CASE DequeueSleep
  <2>1. sleep_time[pread] \in Nat
    BY <1>10, SleepLemma DEF TypeOK, DequeueSleep, Finish
  <2> QED
    BY <2>1, <1>1, <1>10 DEF DequeueSleep, TimersOK
<1>11. CASE Watchdog \/ DequeueNothing \/ Reset \/ Destroy
  BY <1>1, <1>11 DEF Watchdog, DequeueNothing, Reset, Destroy, TimersOK
<1>12. CASE UNCHANGED vars
  BY <1>2, <1>12 DEF vars
<1>13. ASSUME NEW s \in Skb, EnqueueOops(s) \/ EnqueueBegin(s) PROVE TimersOK'
  BY <1>2, <1>13 DEF EnqueueOops, EnqueueBegin
<1>14. ASSUME NEW g \in Gso, SegmentBegin(g) \/ SegmentFails(g) PROVE TimersOK'
  BY <1>2, <1>3, <1>14 DEF SegmentBegin, SegmentFails, Return
<1>15. ASSUME NEW src, EnqueueTest(src) PROVE TimersOK'
  BY <1>3, <1>15 DEF EnqueueTest
<1>16. ASSUME NEW t \in Times, NEW r \in Rates, Change(t, r) PROVE TimersOK'
  BY <1>2, <1>16 DEF Change
<1>17. ASSUME NEW r \in Rates, ChangeNoMem(r) \/ ChangeFails(r) PROVE TimersOK'
  BY <1>2, <1>17 DEF ChangeNoMem, ChangeFails
<1> QED
  BY <1>4, <1>5, <1>6, <1>7, <1>8, <1>9, <1>10, <1>11, <1>12, <1>13, <1>14, <1>15, <1>16, <1>17
     DEF Next, Untimed, Working

LEMMA QueuesPreserved ==
  ASSUME JobOK, JobOK', TypeOK, [Next]_vars
  PROVE  QueuesOK'
<1>1. inner' \in Seq(Skb) /\ test \in Seq({"DEIP", "other"})
  BY DEF JobOK, TypeOK
<1>2. ASSUME test' = test \/ test' = << >> PROVE QueuesOK'
  <2>1. test' \in Seq({"DEIP", "other"})
    BY <1>1, <1>2, EmptyList
  <2> QED
    BY <1>1, <2>1 DEF QueuesOK
<1>3. ASSUME NEW src \in {"DEIP", "other"}, EnqueueTest(src) PROVE QueuesOK'
  BY <1>1, <1>3 DEF EnqueueTest, QueuesOK
<1>4. CASE DequeueTest
  BY <1>1, <1>4 DEF DequeueTest, TestHead, QueuesOK
<1>5. CASE UNCHANGED vars
  BY <1>2, <1>5 DEF vars
<1>6. ASSUME NEW s \in Skb, EnqueueOops(s) \/ EnqueueBegin(s) PROVE QueuesOK'
  BY <1>2, <1>6 DEF EnqueueOops, EnqueueBegin
<1>7. ASSUME NEW g \in Gso, SegmentBegin(g) \/ SegmentFails(g) PROVE QueuesOK'
  BY <1>2, <1>7 DEF SegmentBegin, SegmentFails
<1>8. CASE Working
  BY <1>2, <1>8 DEF Working, Drain, DrainRefused, DrainEnd, NewToRing, NewToInner, SegmentToRing,
                    SegmentToInner
<1>9. CASE Watchdog \/ DequeueNothing \/ Reset \/ Destroy \/ Tick \/ DequeueRing
             \/ DequeueSleep \/ DequeueSpin
  BY <1>2, <1>9 DEF Watchdog, DequeueNothing, Reset, Destroy, Tick, DequeueRing, DequeueSleep,
                    DequeueSpin
<1>10. ASSUME NEW t \in Times, NEW r \in Rates, Change(t, r) PROVE QueuesOK'
  BY <1>2, <1>10 DEF Change
<1>11. ASSUME NEW r \in Rates, ChangeNoMem(r) \/ ChangeFails(r) PROVE QueuesOK'
  BY <1>2, <1>11 DEF ChangeNoMem, ChangeFails
<1> QED
  BY <1>3, <1>4, <1>5, <1>6, <1>7, <1>8, <1>9, <1>10, <1>11 DEF Next, Untimed

\* Every variable of the discipline keeps its type, and tsf_enqueue and its loop
\* never go on with stale copies of the tokens.
THEOREM Invariance == Spec => [](TypeOK /\ LocalsFresh)
<1>1. Init /\ RingInv => TypeOK /\ LocalsFresh
  <2> SUFFICES ASSUME Init, RingInv PROVE TypeOK /\ LocalsFresh
    OBVIOUS
  <2>1. MaxDepth \in Nat /\ 0 \in 0..MaxDepth /\ MaxDepth \in 0..MaxDepth
    BY DepthAssumption
  <2>2. inner \in Seq(Skb) /\ test \in Seq({"DEIP", "other"})
    BY EmptyList DEF Init
  <2>3. tokens = 0 /\ elapsed = MaxDepth /\ watchdog = -1 /\ slept = "not" /\ run = FALSE
        /\ status = "up" /\ job = Idle
    BY DEF Init
  <2>4. LocalsFresh
    BY <2>3 DEF LocalsFresh, Idle
  <2> QED
    BY <2>1, <2>2, <2>3, <2>4 DEF RingInv, TypeOK
<1>2. RingInv' /\ JobOK /\ JobOK' /\ TypeOK /\ LocalsFresh /\ [Next]_vars
        => (TypeOK /\ LocalsFresh)'
  <2> SUFFICES ASSUME RingInv', JobOK, JobOK', TypeOK, LocalsFresh, [Next]_vars
               PROVE  TypeOK' /\ LocalsFresh'
    OBVIOUS
  <2>1. Fresh' /\ BucketOK' /\ TimersOK' /\ QueuesOK'
    BY FreshPreserved, BucketPreserved, TimersPreserved, QueuesPreserved
  <2>2. LocalsFresh' /\ LocalsOK' /\ Ring!TypeOK'
    BY <2>1 DEF Fresh, RingInv
  <2> QED
    BY <2>1, <2>2 DEF TypeOK, BucketOK, TimersOK, QueuesOK, LocalsOK
<1> QED
  BY <1>1, <1>2, RingCorrect, JobInvariance, PTL DEF Spec

\* Every variable of the discipline keeps its type; tokens stay between nothing and
\* a full bucket.
THEOREM TypeCorrect == Spec => []TypeOK
BY Invariance, PTL

\* Whatever the loop of tsf_enqueue spends and wherever it stops, the copies of the
\* tokens the packet that follows pays from are what q->tokens and q->t_c say.
THEOREM LocalsCorrect == Spec => []LocalsFresh
BY Invariance, PTL
--------------------------------------------------------------------------------
(***************************************************************************)
(* The lazily filled bucket is one filled at every instant                  *)
(***************************************************************************)
\* Time that passes fills the bucket, up to its depth, and with no more than has passed.
LEMMA FillLemma ==
  ASSUME TypeOK, NEW d \in 1..UNIT_TIME, PassTime(d), passed' = d,
         UNCHANGED <<rate, tokens, slen>>
  PROVE  Bucket!Next
<1>1. /\ Depth \in Nat /\ Depth <= MaxDepth /\ tokens \in Nat /\ elapsed \in Nat
      /\ MaxDepth \in Nat /\ d \in Nat /\ d \in 0..UNIT_TIME /\ Depth' = Depth
  <2>1. UNIT_TIME \in Nat
    BY RingAssumption DEF Ring!UnitAssumption
  <2>2. Depth' = Depth
    BY DEF Depth
  <2> QED
    BY <2>1, <2>2, Levels
<1>2. elapsed' = IF elapsed + d < MaxDepth THEN elapsed + d ELSE MaxDepth
  BY <1>1, PassLemma
<1>3. Level' = Least(Depth, Least(elapsed', Depth) + tokens)
  BY <1>1 DEF Level
<1>4. Level' = Level + d \/ Level' = Depth
  BY <1>1, <1>2, <1>3 DEF Level, Least
<1>5. Level' <= Depth /\ (Level' = Depth => Level + d >= Depth)
  BY <1>1, <1>2, <1>3 DEF Level, Least
<1>6. Level' = IF Level + d < Depth THEN Level + d ELSE Depth
  BY <1>1, <1>4, <1>5, Levels
<1>7. Bucket!Wait(d)
  BY <1>6 DEF Bucket!Wait, Bucket!Depth, Bucket!Lower, Depth
<1> QED
  BY <1>1, <1>7 DEF Bucket!Next

\* A step that takes no time and leaves the bucket and the charge alone is a wait of
\* no time.
LEMMA QuietLemma ==
  ASSUME TypeOK, UNCHANGED <<bucket, rate, slen>>, passed' = 0
  PROVE  Bucket!Next
<1>1. Level \in 0..Depth /\ Depth \in Nat /\ Depth' = Depth /\ Level' = Level
  BY Levels DEF bucket, Level, Depth
<1>2. Level' = IF Level + 0 < Depth THEN Level + 0 ELSE Depth
  BY <1>1
<1>3. Bucket!Wait(0)
  BY <1>2 DEF Bucket!Wait, Bucket!Depth, Bucket!Lower, Depth
<1>4. 0 \in 0..UNIT_TIME
  BY RingAssumption DEF Ring!UnitAssumption
<1> QED
  BY <1>3, <1>4 DEF Bucket!Next

\* A packet the ring is given has paid for itself, whether the ring takes it.
LEMMA AdmitLemma ==
  ASSUME TypeOK, NEW s \in Skb, Pays(s), passed' = 0
  PROVE  Bucket!Next
<1>1. Level' = Level - Cost(s) /\ rate' = rate /\ Level >= Cost(s)
  BY PayBucket DEF Pays
<1>2. slen' = slen + PktLen[s] \/ slen' = slen
  BY DEF Pays, RingTakes, RingRefuses, Ring!EnqueueHere, Ring!EnqueueAhead, Ring!EnqueueDrop,
         Ring!Charge, Ring!vars, Ring!ring
<1>3. Bucket!Admit(s)
  BY <1>1, <1>2 DEF Bucket!Admit, Cost
<1> QED
  BY <1>3 DEF Bucket!Next

\* The bytes of a packet the ring releases leave its charge.
LEMMA ReleaseLemma ==
  ASSUME TypeOK, Ring!PktCountsList, Ring!DequeueSkb, UNCHANGED bucket, passed' = 0
  PROVE  Bucket!Next
<1>1. PICK i \in Ring!Node : /\ pkt[i] > 0
                             /\ slen' = slen - PktLen[Head(kunit[i]).skb]
  BY DEF Ring!DequeueSkb
<1>2. kunit[i] \in Seq(Ring!Unit) /\ slen \in Int
  BY <1>1 DEF TypeOK, Ring!TypeOK
<1>3. pkt[i] = Len(kunit[i])
  BY <1>1 DEF Ring!PktCountsList
<1>4. kunit[i] # << >>
  BY <1>1, <1>2, <1>3
<1>5. Head(kunit[i]) \in Ring!Unit
  BY <1>2, <1>4
<1>6. Head(kunit[i]).skb \in Skb
  BY <1>5 DEF Ring!Unit
<1>7. PktLen[Head(kunit[i]).skb] \in Nat \ {0}
  BY <1>6, RingAssumption DEF Ring!LengthAssumption
<1>8. slen' < slen
  BY <1>1, <1>2, <1>7
<1>9. rate' = rate /\ Level' = Level
  BY DEF Ring!DequeueSkb, bucket, Level, Depth
<1> QED
  BY <1>8, <1>9 DEF Bucket!Next, Bucket!Release

\* The level of a lazy bucket of which D is the depth.
Lazy(D, e, t) == Least(D, Least(e, D) + t)

\* A smaller bucket keeps what fits into it of a larger one, a larger one at least as
\* much as a smaller one.
LEMMA LazyDepth ==
  ASSUME NEW D \in Nat, NEW D2 \in Nat, NEW e \in Nat, NEW t \in Nat
  PROVE  /\ Lazy(D2, e, t) <= D2 /\ Lazy(D2, e, t) \in Nat
         /\ D2 <= D => Lazy(D2, e, t) = Least(Lazy(D, e, t), D2)
         /\ D <= D2 => Lazy(D, e, t) <= Lazy(D2, e, t)
BY DEF Lazy, Least

\* tsf_change moves the level only with the rate: down to a smaller depth, or up by
\* what the old one had no room for.
LEMMA ResizeLemma ==
  ASSUME TypeOK, UNCHANGED bucket, rate' \in Rates, slen' = slen, passed' = 0
  PROVE  Bucket!Next
<1>1. tokens \in Nat /\ elapsed \in Nat
  BY Levels
<1>2. Depth \in Nat /\ Depth' \in Nat
  BY Levels, DepthAssumption DEF Depth
<1>3. Level = Lazy(Depth, elapsed, tokens) /\ Level' = Lazy(Depth', elapsed, tokens)
  BY DEF Level, Lazy, bucket
<1>4. /\ Level' <= Depth' /\ Level' \in Nat /\ Level \in Nat
      /\ Depth' <= Depth => Level' = Least(Level, Depth')
      /\ Depth <= Depth' => Level <= Level'
  <2>1. \A D, D2 \in Nat :
          /\ Lazy(D2, elapsed, tokens) <= D2 /\ Lazy(D2, elapsed, tokens) \in Nat
          /\ D2 <= D => Lazy(D2, elapsed, tokens) = Least(Lazy(D, elapsed, tokens), D2)
          /\ D <= D2 => Lazy(D, elapsed, tokens) <= Lazy(D2, elapsed, tokens)
    BY <1>1, LazyDepth
  <2> QED
    BY <1>2, <1>3, <2>1
<1>5. Level' \in Least(Level, Depth')..Depth'
  BY <1>2, <1>4 DEF Least
<1>6. CASE rate' = rate
  BY <1>6, QuietLemma
<1>7. CASE rate' # rate
  <2>1. Least(Level, Depth') = Bucket!Lower(Level, Depth') /\ Bucket!Depth' = Depth'
        /\ Bucket!Depth = Depth
    BY DEF Least, Bucket!Lower, Bucket!Depth, Depth
  <2>2. Bucket!Resize
    BY <1>4, <1>5, <1>7, <2>1 DEF Bucket!Resize
  <2> QED
    BY <2>2 DEF Bucket!Next
<1> QED
  BY <1>6, <1>7

\* What Tsf does, with the time TsfPaced keeps.
LEMMA PacedIsTsf == PacedSpec => Spec
<1>1. PacedInit => Init
  BY DEF PacedInit
<1>2. [PacedNext]_pacedVars => [Next]_vars
  BY DEF PacedNext, PacedRelease, PacedSleep, PacedSpin, PacedTick, PacedChange, Next, pacedVars
<1> QED
  BY <1>1, <1>2, PTL DEF PacedSpec, Spec

LEMMA UntimedBucket ==
  ASSUME JobOK, TypeOK, LocalsFresh, Untimed, passed' = 0
  PROVE  Bucket!Next
<1>1. ASSUME UNCHANGED <<bucket, ring>> PROVE Bucket!Next
  BY <1>1, QuietLemma DEF ring
<1>2. ASSUME NEW s \in Skb, EnqueueOops(s) \/ EnqueueBegin(s) PROVE Bucket!Next
  BY <1>1, <1>2 DEF EnqueueOops, EnqueueBegin
<1>3. ASSUME NEW g \in Gso, SegmentBegin(g) \/ SegmentFails(g) PROVE Bucket!Next
  BY <1>1, <1>3 DEF SegmentBegin, SegmentFails
<1>4. ASSUME NEW src, EnqueueTest(src) PROVE Bucket!Next
  BY <1>1, <1>4 DEF EnqueueTest
<1>5. CASE DrainEnd \/ NewToInner \/ SegmentToInner \/ Watchdog \/ DequeueTest \/ Reset
             \/ Destroy
  BY <1>1, <1>5 DEF DrainEnd, NewToInner, SegmentToInner, Watchdog, DequeueTest, Reset, Destroy
<1>6. CASE DrainRefused
  BY <1>6, QuietLemma DEF DrainRefused, RingRefuses, Ring!EnqueueDrop, Ring!vars, Ring!ring
<1>7. CASE DequeueNothing
  BY <1>7, QuietLemma DEF DequeueNothing, Ring!DequeueNull
<1>8. CASE Drain
  <2>1. job.pc = "drain" /\ job.toks2 >= 0 /\ RingTakes(Head(inner)) /\ Spend(job.toks2)
    BY <1>8 DEF Drain
  <2>2. Head(inner) \in Skb /\ job.toks2 = Level - Cost(Head(inner))
    BY <2>1, DrainJob
  <2>3. Level \in Nat /\ Cost(Head(inner)) \in Nat
    BY <2>2, Levels
  <2>4. Pays(Head(inner))
    BY <2>1, <2>2, <2>3 DEF Pays
  <2> QED
    BY <2>2, <2>4, AdmitLemma
<1>9. CASE NewToRing \/ SegmentToRing
  BY <1>9, PayStep, AdmitLemma
<1>10. ASSUME NEW r \in Rates, ChangeNoMem(r) \/ ChangeFails(r) PROVE Bucket!Next
  <2>1. rate' \in Rates /\ slen' = slen /\ UNCHANGED bucket
    BY <1>10 DEF ChangeNoMem, ChangeFails, Ring!ChangeNoMem
  <2> QED
    BY <2>1, ResizeLemma
<1> QED
  BY <1>2, <1>3, <1>4, <1>5, <1>6, <1>7, <1>8, <1>9, <1>10 DEF Untimed, Working

LEMMA BucketStep ==
  ASSUME JobOK, TypeOK, LocalsFresh, Ring!PktCountsList, [PacedNext]_pacedVars
  PROVE  [Bucket!Next]_Bucket!vars
<1>1. CASE UNCHANGED pacedVars
  BY <1>1 DEF pacedVars, vars, ring, bucket, Bucket!vars, Level, Depth
<1>2. CASE Untimed /\ passed' = 0
  BY <1>2, UntimedBucket
<1>3. 1 \in 1..UNIT_TIME
  BY RingAssumption DEF Ring!UnitAssumption
<1>4. CASE PacedTick
  <2>1. PassTime(1) /\ passed' = 1 /\ UNCHANGED <<rate, tokens, slen>>
    BY <1>4 DEF PacedTick, Tick, Leak, ring
  <2> QED
    BY <2>1, <1>3, FillLemma
<1>5. CASE PacedSpin
  <2>1. /\ PassTime(sleep_time[pread]) /\ tokens' = tokens /\ Ring!FinishNode
        /\ sleep_time[pread] <= UNIT_TIME /\ passed' = sleep_time[pread]
    BY <1>5 DEF PacedSpin, DequeueSpin, Finish, Leak
  <2>2. sleep_time[pread] \in Nat \ {0} /\ UNCHANGED <<rate, slen>>
    BY <2>1, SleepLemma DEF TypeOK
  <2>3. sleep_time[pread] \in 1..UNIT_TIME
    BY <2>1, <2>2, <1>3
  <2> QED
    BY <2>1, <2>2, <2>3, FillLemma
<1>6. CASE PacedRelease
  BY <1>6, ReleaseLemma DEF PacedRelease, DequeueRing
<1>7. CASE PacedSleep
  <2>1. Ring!FinishNode /\ UNCHANGED bucket /\ passed' = 0
    BY <1>7 DEF PacedSleep, DequeueSleep, Finish
  <2>2. UNCHANGED <<rate, slen>>
    BY <2>1, SleepLemma DEF TypeOK
  <2> QED
    BY <2>1, <2>2, QuietLemma
<1>8. ASSUME NEW t \in Times, NEW r \in Rates, PacedChange(t, r) PROVE Bucket!Next
  <2>1. rate' \in Rates /\ slen' = slen /\ UNCHANGED bucket /\ passed' = 0
    BY <1>8 DEF PacedChange, Change, Ring!Change, Ring!InitialSlen
  <2> QED
    BY <2>1, ResizeLemma
<1> QED
  BY <1>1, <1>2, <1>4, <1>5, <1>6, <1>7, <1>8 DEF PacedNext

\* The lazy tokens and t_c of tsf_enqueue are a bucket filled at every instant: each
\* packet that enters the ring has paid its whole transmission time, whatever path of
\* tsf_enqueue and tsf_segment let it in, out of tokens earned by time that has really
\* passed, no instant counted twice; and only another rate moves the level otherwise.
THEOREM BucketCorrect == PacedSpec => BucketIsFilledByTime
<1>1. PacedInit /\ TypeOK => Bucket!Init
  <2> SUFFICES ASSUME PacedInit, TypeOK PROVE Bucket!Init
    OBVIOUS
  <2>1. tokens = 0 /\ elapsed = MaxDepth /\ slen = 0 /\ passed = 0
    BY DEF PacedInit, Init, Ring!Init
  <2>2. rate \in Rates /\ Depth \in 0..MaxDepth /\ MaxDepth \in Nat
    BY Levels
  <2>3. Level = Depth
    BY <2>1, <2>2 DEF Level, Least
  <2> QED
    BY <2>1, <2>2, <2>3 DEF Bucket!Init, Bucket!Depth, Depth
<1>2. RingInv => Ring!PktCountsList
  BY DEF RingInv
<1> QED
  BY <1>1, <1>2, BucketStep, Invariance, RingCorrect, JobInvariance, PacedIsTsf, PTL
     DEF PacedSpec, BucketIsFilledByTime, Bucket!Spec
--------------------------------------------------------------------------------
(***************************************************************************)
(* The rate on the wire                                                     *)
(***************************************************************************)
\* While tsf_delay's sleep lasts the ring owes nothing, so that its reader cannot
\* finish a second node; without this the invariant is not inductive.
NapIsDebt == wire # Early =>
  /\ wire \in Nat
  /\ nap > 0 => debt = 0
  /\ nap <= UNIT_TIME + MaxTime
  /\ WireIsAccounted

WireInv == nap \in Nat /\ NapIsDebt

LEMMA Numbers == UNIT_TIME \in Nat \ {0} /\ MaxTime \in Nat
BY RingAssumption DEF Ring!UnitAssumption, Ring!TimeAssumption

\* kfifo_enqueue and the calls that never reach the ring owe and repay nothing.
LEMMA UntimedOwesNothing ==
  ASSUME Ring!TypeOK, Untimed
  PROVE  debt' = debt
<1>1. ASSUME NEW s, RingTakes(s) \/ RingRefuses(s) PROVE debt' = debt
  BY <1>1 DEF RingTakes, RingRefuses, Ring!EnqueueHere, Ring!EnqueueAhead, Ring!EnqueueDrop,
              Ring!Charge, Ring!vars, Ring!ring
<1>2. CASE Working
  BY <1>1, <1>2 DEF Working, Drain, DrainRefused, DrainEnd, NewToRing, NewToInner,
                    SegmentToRing, SegmentToInner, ring
<1>3. CASE Watchdog \/ DequeueTest \/ Reset \/ Destroy
  BY <1>3 DEF Watchdog, DequeueTest, Reset, Destroy, ring
<1>4. CASE DequeueNothing
  BY <1>4 DEF DequeueNothing, Ring!DequeueNull
<1>5. ASSUME NEW s \in Skb, EnqueueOops(s) \/ EnqueueBegin(s) PROVE debt' = debt
  BY <1>5 DEF EnqueueOops, EnqueueBegin, ring
<1>6. ASSUME NEW g \in Gso, SegmentBegin(g) \/ SegmentFails(g) PROVE debt' = debt
  BY <1>6 DEF SegmentBegin, SegmentFails, ring
<1>7. ASSUME NEW src, EnqueueTest(src) PROVE debt' = debt
  BY <1>7 DEF EnqueueTest, ring
<1>8. ASSUME NEW r \in Rates, ChangeNoMem(r) \/ ChangeFails(r) PROVE debt' = debt
  BY <1>8 DEF ChangeNoMem, ChangeFails, Ring!ChangeNoMem
<1> QED
  BY <1>2, <1>3, <1>4, <1>5, <1>6, <1>7, <1>8 DEF Untimed

\* A packet released adds its transmission time to what is owed.
LEMMA ReleaseOwes ==
  ASSUME Ring!TypeOK, Ring!PktCountsList, Ring!DequeueSkb
  PROVE  \E c \in Nat : debt' = debt + c
<1>1. PICK i \in Ring!Node : pkt[i] > 0 /\ debt' = debt + Head(kunit[i]).time
  BY DEF Ring!DequeueSkb
<1>2. kunit[i] \in Seq(Ring!Unit) /\ pkt[i] = Len(kunit[i]) /\ debt \in Int
  BY <1>1 DEF Ring!TypeOK, Ring!PktCountsList
<1>3. kunit[i] # << >>
  BY <1>1, <1>2
<1>4. Head(kunit[i]) \in Ring!Unit
  BY <1>2, <1>3
<1>5. Head(kunit[i]).time \in Nat
  BY <1>4, Numbers DEF Ring!Unit
<1> QED
  BY <1>1, <1>2, <1>5

\* A node is finished only with its whole sleep owed, and afterwards nothing is.
LEMMA FinishRepays ==
  ASSUME RingInv, Ring!FinishNode
  PROVE  /\ sleep_time[pread] \in Nat \ {0} /\ debt = sleep_time[pread] /\ debt' = 0
         /\ sleep_time[pread] <= UNIT_TIME + MaxTime
<1>1. /\ sleep_time[pread] \in Nat \ {0} /\ debt = sleep_time[pread]
      /\ debt' = debt - sleep_time[pread]
  BY DEF RingInv, Ring!TypeOK, Ring!FinishNode, Ring!Sleeping, Ring!ring, Ring!SleepIsEarned
<1> QED
  BY <1>1 DEF RingInv, Ring!RateLimit

LEMMA WireInvStep == RingInv /\ WireInv /\ [PacedNext]_pacedVars => WireInv'
<1> SUFFICES ASSUME RingInv, WireInv, [PacedNext]_pacedVars PROVE WireInv'
  OBVIOUS
<1>0. /\ UNIT_TIME \in Nat \ {0} /\ MaxTime \in Nat /\ debt \in Int /\ debt >= 0
      /\ Ring!TypeOK /\ Ring!PktCountsList
  BY Numbers DEF RingInv, Ring!TypeOK, Ring!RateLimit
<1>1. ASSUME debt' = debt, UNCHANGED pacing PROVE WireInv'
  BY <1>1 DEF WireInv, NapIsDebt, WireIsAccounted, pacing
<1>2. ASSUME wire = Early, PacedRelease \/ PacedSleep \/ PacedSpin \/ PacedTick
      PROVE  WireInv'
  <2>1. UNCHANGED pacing
    BY <1>2 DEF PacedRelease, PacedSleep, PacedSpin, PacedTick, Leak, Paced
  <2> QED
    BY <1>2, <2>1 DEF WireInv, NapIsDebt, pacing
<1>3. ASSUME wire # Early
      PROVE  /\ nap \in Nat /\ wire \in Nat /\ (nap > 0 => debt = 0)
             /\ nap <= UNIT_TIME + MaxTime /\ wire <= debt + nap
  BY <1>3 DEF WireInv, NapIsDebt, WireIsAccounted
<1>4. CASE wire # Early /\ PacedRelease
  <2>1. \E c \in Nat : debt' = debt + c
    BY <1>0, <1>4, ReleaseOwes DEF PacedRelease, DequeueRing
  <2>2. CASE nap > 0
    BY <1>4, <2>2 DEF PacedRelease, Paced, WireInv, NapIsDebt
  <2>3. CASE ~(nap > 0)
    <3>1. nap' = 0 /\ wire' = wire + (debt' - debt)
      BY <1>4, <2>3 DEF PacedRelease, Paced
    <3>2. nap = 0 /\ wire \in Nat /\ wire <= debt
      BY <1>0, <1>3, <1>4, <2>3
    <3>3. debt \in Int
      BY <1>0
    <3>4. PICK c \in Nat : debt' = debt + c
      BY <2>1
    <3>5. wire' = wire + c
      BY <3>1, <3>2, <3>3, <3>4
    <3>6. wire' \in Nat /\ wire' <= debt' + nap'
      BY <3>1, <3>2, <3>3, <3>4, <3>5
    <3> QED
      BY <1>0, <3>1, <3>6 DEF WireInv, NapIsDebt, WireIsAccounted
  <2> QED
    BY <2>2, <2>3
<1>5. CASE wire # Early /\ PacedSleep
  <2>1. /\ sleep_time[pread] \in Nat \ {0} /\ debt = sleep_time[pread] /\ debt' = 0
        /\ sleep_time[pread] <= UNIT_TIME + MaxTime
    BY <1>5, FinishRepays DEF PacedSleep, DequeueSleep, Finish
  <2>2. nap' = sleep_time[pread] /\ wire' = wire
    BY <1>5 DEF PacedSleep, DequeueSleep, Paced
  <2>3. nap' \in Nat /\ wire' \in Nat /\ nap' <= UNIT_TIME + MaxTime /\ wire' <= debt' + nap'
    BY <1>0, <1>3, <1>5, <2>1, <2>2
  <2> QED
    BY <2>1, <2>3 DEF WireInv, NapIsDebt, WireIsAccounted
<1>6. CASE wire # Early /\ PacedSpin
  <2>1. sleep_time[pread] \in Nat \ {0} /\ debt = sleep_time[pread] /\ debt' = 0
    BY <1>6, FinishRepays DEF PacedSpin, DequeueSpin, Finish
  <2>2. /\ nap' = Most(nap - sleep_time[pread], 0)
        /\ wire' = Most(wire - sleep_time[pread], 0)
    BY <1>6 DEF PacedSpin, Leak, Paced
  <2>3. nap = 0 /\ wire <= sleep_time[pread]
    BY <1>3, <1>6, <2>1
  <2>4. nap' = 0 /\ wire' = 0
    BY <1>3, <1>6, <2>1, <2>2, <2>3 DEF Most
  <2> QED
    BY <1>0, <2>1, <2>4 DEF WireInv, NapIsDebt, WireIsAccounted
<1>7. CASE wire # Early /\ PacedTick
  <2>1. debt' = debt /\ nap' = Most(nap - 1, 0) /\ wire' = Most(wire - 1, 0)
    BY <1>7 DEF PacedTick, Tick, ring, Leak, Paced
  <2> QED
    BY <1>0, <1>3, <1>7, <2>1 DEF Most, WireInv, NapIsDebt, WireIsAccounted
<1>8. ASSUME NEW t \in Times, NEW r \in Rates, PacedChange(t, r) PROVE WireInv'
  <2>1. nap' = 0 /\ wire' = 0 /\ debt' = 0
    BY <1>8 DEF PacedChange, Change, Ring!Change
  <2> QED
    BY <1>0, <2>1 DEF WireInv, NapIsDebt, WireIsAccounted
<1>9. CASE Untimed /\ UNCHANGED pacing
  BY <1>0, <1>1, <1>9, UntimedOwesNothing
<1>10. CASE UNCHANGED pacedVars
  BY <1>1, <1>10 DEF pacedVars, vars, ring
<1> QED
  BY <1>2, <1>4, <1>5, <1>6, <1>7, <1>8, <1>9, <1>10 DEF PacedNext

\* As long as no dequeue comes during a sleep left to the watchdog, what
\* tsf_dequeue has put on the wire never exceeds the configured rate by more than
\* one node's budget and one packet.
THEOREM WireRateCorrect == PacedSpec => []WireRate
<1>1. PacedInit => WireInv
  BY Numbers DEF PacedInit, Init, Ring!Init, WireInv, NapIsDebt, WireIsAccounted
<1>2. RingInv /\ WireInv => WireRate
  <2> SUFFICES ASSUME RingInv, WireInv PROVE WireRate
    OBVIOUS
  <2>1. UNIT_TIME \in Nat /\ MaxTime \in Nat /\ debt \in Int /\ debt <= UNIT_TIME + MaxTime
    BY Numbers DEF RingInv, Ring!TypeOK, Ring!RateLimit
  <2>2. CASE wire = Early
    BY <2>1, <2>2 DEF WireRate, Early
  <2>3. CASE wire # Early
    <3>1. /\ nap \in Nat /\ wire \in Nat /\ (nap > 0 => debt = 0)
          /\ nap <= UNIT_TIME + MaxTime /\ wire <= debt + nap
      BY <2>3 DEF WireInv, NapIsDebt, WireIsAccounted
    <3> QED
      BY <2>1, <3>1 DEF WireRate
  <2> QED
    BY <2>2, <2>3
<1> QED
  BY <1>1, <1>2, WireInvStep, PacedIsTsf, RingCorrect, PTL DEF PacedSpec
================================================================================
