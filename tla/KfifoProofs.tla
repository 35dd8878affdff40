------------------------------ MODULE KfifoProofs ------------------------------
(***************************************************************************)
(* The safety invariants of the time ring, for rings of every depth, every  *)
(* rate and every set of packets.                                           *)
(***************************************************************************)
EXTENDS Kfifo, TLAPS

\* SleepIsEarned relates neighbours in a node's list.  Any two packets of the
\* list are as far apart as the later one's time, and all of them lie between
\* what the node has released and its sleep_time: this is what makes debt stay
\* below sleep_time without an induction over the list.
Bounded(k, base, end) ==
  /\ base >= 0 /\ base <= end
  /\ \A j \in 1..Len(k) : base + k[j].time <= k[j].tend /\ k[j].tend <= end
  /\ \A j, l \in 1..Len(k) : j < l => k[j].tend + k[l].time <= k[l].tend

ChainBounded(i) == Bounded(kunit[i], NodeBase(i), sleep_time[i])

ChainsBounded == \A i \in Node : ChainBounded(i)

\* The inductive invariant.
IInv == /\ TypeOK
        /\ WriterOnUsedNode
        /\ WindowHoldsAll
        /\ EmptyNodesPristine
        /\ PktCountsList
        /\ NodeBudget
        /\ \A i \in Node : Chained(i)
        /\ ChainsBounded
--------------------------------------------------------------------------------
(***************************************************************************)
(* Arithmetic of the ring                                                   *)
(***************************************************************************)
\* The node k places on is a node, and less than a turn on it is found by at
\* most one subtraction (the next pointers kfifo_init builds).
LEMMA AheadLemma ==
  ASSUME NEW i \in 0..total_time-1, NEW k \in Nat,
         total_time \in Nat, total_time >= 2
  PROVE  /\ Ahead(i, k) \in Node
         /\ k < total_time =>
              Ahead(i, k) = IF i + k < total_time THEN i + k ELSE i + k - total_time
BY DEF Ahead, Node

\* kfifo_init computes a number of bytes, wrapped or not.
LEMMA RingBytesLemma ==
  ASSUME NEW t \in Times, NEW r \in Rates
  PROVE  RingBytes(t, r) \in Nat
<1>1. t \in Nat /\ r \in Nat /\ U32 \in Nat \ {0} /\ MSEC \in Nat \ {0}
  BY TimesAssumption, RatesAssumption, UnitAssumption
<1>2. t * r \in Nat
  BY <1>1
<1>3. (t * r) % U32 \in Nat
  BY <1>1, <1>2
<1> QED
  BY <1>1, <1>3 DEF RingBytes

\* Quotient and remainder.
LEMMA DivLemma ==
  ASSUME NEW t \in Nat, NEW u \in Nat \ {0}
  PROVE  t \div u \in Nat /\ t - (t \div u) * u \in 0..u-1
OBVIOUS

\* A packet's whole units and the rest make up its time.
LEMMA CostLemma ==
  ASSUME NEW s \in Skb, rate \in Rates
  PROVE  /\ SkbTime(s) \in 0..MaxTime
         /\ Steps(s) \in Nat
         /\ CostTime(s) \in 0..UNIT_TIME-1
         /\ CostTime(s) + Steps(s) * UNIT_TIME = SkbTime(s)
<1>1. SkbTime(s) \in 0..MaxTime
  BY TimeAssumption DEF SkbTime
<1>2. SkbTime(s) \in Nat /\ UNIT_TIME \in Nat \ {0}
  BY <1>1, TimeAssumption, UnitAssumption
<1>3. Steps(s) \in Nat /\ CostTime(s) \in 0..UNIT_TIME-1
  BY <1>2, DivLemma DEF Steps, CostTime
<1>4. Steps(s) * UNIT_TIME \in Nat
  BY <1>2, <1>3
<1> QED
  BY <1>1, <1>2, <1>3, <1>4 DEF CostTime

\* A writer that no conflict stops stays short of the reader: it comes to a node
\* that lies beyond the one it leaves.
LEMMA ForwardLemma ==
  ASSUME TypeOK, NEW n \in Nat \ {0}, ~Conflict(n)
  PROVE  LET i == Ahead(pwrite, n) IN
         /\ i \in Node
         /\ i # pread
         /\ Dist(pread, i) = Dist(pread, pwrite) + n
<1>1. total_time \in Nat /\ total_time >= 2 /\ pread \in Node /\ pwrite \in Node
  BY TimesAssumption DEF TypeOK
<1> DEFINE d == IF pwrite = pread THEN total_time ELSE Dist(pwrite, pread)
<1>2. d \in 1..total_time /\ Ahead(pwrite, d) = pread
  <2>1. CASE pwrite = pread
    BY <1>1, <2>1 DEF Ahead, Node
  <2>2. CASE pwrite # pread
    <3>1. d \in 1..total_time-1 /\ d = Dist(pwrite, pread)
      BY <1>1, <2>2 DEF Dist, Node
    <3> QED
      BY <1>1, <2>2, <3>1, AheadLemma DEF Dist, Node
  <2> QED
    BY <2>1, <2>2
<1>3. n < d
  BY <1>2 DEF Conflict
<1>4. Ahead(pwrite, n) = IF pwrite + n < total_time THEN pwrite + n
                                                     ELSE pwrite + n - total_time
  BY <1>1, <1>2, <1>3, AheadLemma DEF Node
<1> QED
  BY <1>1, <1>3, <1>4 DEF Dist, Node
--------------------------------------------------------------------------------
(***************************************************************************)
(* Lists of charged packets                                                 *)
(***************************************************************************)
\* The types of a queued packet's fields.
LEMMA UnitLemma ==
  ASSUME NEW u \in Unit
  PROVE  u.time \in 0..MaxTime /\ u.time \in Nat /\ u.tend \in Nat /\ u.skb \in Skb
<1>1. u.time \in 0..MaxTime /\ u.tend \in Nat /\ u.skb \in Skb
  BY DEF Unit
<1> QED
  BY <1>1, TimeAssumption

\* Charging a packet extends the chain (kunit_enqueue_tail).
LEMMA AppendChainLemma ==
  ASSUME NEW k \in Seq(Unit), NEW base \in Int, NEW end \in Nat, NEW u \in Unit,
         u.tend = end + u.time,
         Linked(k, base, end), Bounded(k, base, end)
  PROVE  Linked(Append(k, u), base, u.tend) /\ Bounded(Append(k, u), base, u.tend)
<1> DEFINE n == Len(k)
           k2 == Append(k, u)
<1>1. n \in Nat /\ (k = << >> \/ n >= 1)
  OBVIOUS
<1>2. Len(k2) = n + 1 /\ k2[n+1] = u /\ k2 # << >>
  OBVIOUS
<1>3. \A m \in 1..n : k2[m] = k[m] /\ k[m] \in Unit
  OBVIOUS
<1>4. \A m \in 1..n : k[m].time \in Nat /\ k[m].tend \in Nat
  BY <1>3, UnitLemma
<1>5. u.time \in Nat /\ u.tend \in Nat
  BY UnitLemma
<1> HIDE DEF k2, n
<1>6. k2[1].tend = base + k2[1].time
  <2>1. CASE k = << >>
    <3>1. n = 0 /\ end = base
      BY <2>1 DEF n, Linked
    <3> QED
      BY <1>2, <1>5, <3>1
  <2>2. CASE k # << >>
    BY <1>1, <1>3, <2>2 DEF Linked
  <2> QED
    BY <2>1, <2>2
<1>7. ASSUME NEW m \in 1..n
      PROVE  k2[m+1].tend = k2[m].tend + k2[m+1].time
  <2>1. CASE m = n
    <3>1. k # << >> /\ k[n].tend = end
      BY <1>1, <2>1 DEF Linked, n
    <3> QED
      BY <1>1, <1>2, <1>3, <1>5, <2>1, <3>1
  <2>2. CASE m # n
    <3>1. m \in 1..n-1 /\ m+1 \in 1..n
      BY <1>1, <2>2
    <3> QED
      BY <1>3, <3>1 DEF Linked, n
  <2> QED
    BY <2>1, <2>2
<1>8. ASSUME NEW m \in 1..n+1
      PROVE  base + k2[m].time <= k2[m].tend /\ k2[m].tend <= u.tend
  <2>1. CASE m = n+1
    <3>1. base <= end
      BY DEF Bounded
    <3> QED
      BY <1>2, <1>5, <2>1, <3>1
  <2>2. CASE m # n+1
    <3>1. m \in 1..n
      BY <1>1, <2>2
    <3>2. base + k[m].time <= k[m].tend /\ k[m].tend <= end
      BY <3>1 DEF Bounded, n
    <3> QED
      BY <1>3, <1>4, <1>5, <3>1, <3>2
  <2> QED
    BY <2>1, <2>2
<1>9. ASSUME NEW m \in 1..n+1, NEW l \in 1..n+1, m < l
      PROVE  k2[m].tend + k2[l].time <= k2[l].tend
  <2>1. m \in 1..n /\ k2[m] = k[m] /\ k[m].tend \in Nat
    BY <1>1, <1>3, <1>4, <1>9
  <2>2. CASE l = n+1
    <3>1. k[m].tend <= end
      BY <2>1 DEF Bounded, n
    <3> QED
      BY <1>2, <1>5, <2>1, <2>2, <3>1
  <2>3. CASE l # n+1
    <3>1. l \in 1..n
      BY <1>1, <2>3
    <3> QED
      BY <1>3, <1>9, <2>1, <3>1 DEF Bounded, n
  <2> QED
    BY <2>2, <2>3
<1>10. base >= 0 /\ base <= u.tend
  BY <1>5 DEF Bounded
<1>11. Linked(k2, base, u.tend)
  BY <1>1, <1>2, <1>6, <1>7 DEF Linked
<1>12. Bounded(k2, base, u.tend)
  BY <1>2, <1>8, <1>9, <1>10 DEF Bounded
<1> QED
  BY <1>11, <1>12 DEF k2

\* Releasing the first packet moves the base to its end (kunit_dequeue_head).
LEMMA TailChainLemma ==
  ASSUME NEW k \in Seq(Unit), k # << >>, NEW base \in Int, NEW end \in Nat,
         Linked(k, base, end), Bounded(k, base, end)
  PROVE  /\ Linked(Tail(k), base + Head(k).time, end)
         /\ Bounded(Tail(k), base + Head(k).time, end)
<1> DEFINE n == Len(k)
           k2 == Tail(k)
<1>1. n \in Nat /\ n >= 1 /\ Head(k) = k[1] /\ Len(k2) = n-1 /\ k2 \in Seq(Unit)
  OBVIOUS
<1>2. \A m \in 1..n-1 : k2[m] = k[m+1]
  OBVIOUS
<1>3. \A m \in 1..n : k[m] \in Unit
  OBVIOUS
<1>4. \A m \in 1..n : k[m].time \in Nat /\ k[m].tend \in Nat
  BY <1>3, UnitLemma
<1> HIDE DEF k2, n
<1>5. k2 = << >> => n = 1
  <2> SUFFICES ASSUME k2 = << >> PROVE n = 1
    OBVIOUS
  <2>1. Len(k2) = 0
    OBVIOUS
  <2>2. n - 1 = 0 /\ n \in Nat
    BY <1>1, <2>1
  <2> QED
    BY <2>2
<1>6. k2 # << >> => n >= 2
  BY <1>1
<1>7. k[1].tend = base + k[1].time /\ k[n].tend = end /\ k[1].tend \in Nat
  BY <1>1, <1>4 DEF Linked, n
<1>8. \A m \in 1..n-1 : k[m+1].tend = k[m].tend + k[m+1].time
  BY DEF Linked, n
<1>9. Linked(k2, k[1].tend, end)
  <2>1. k2 = << >> => end = k[1].tend
    BY <1>5, <1>7
  <2>2. ASSUME k2 # << >>
        PROVE  k2[1].tend = k[1].tend + k2[1].time /\ k2[n-1].tend = end
    <3>1. 1 \in 1..n-1 /\ n-1 \in 1..n-1 /\ n \in Nat
      BY <1>1, <1>6, <2>2
    <3> QED
      BY <1>2, <1>7, <1>8, <3>1
  <2>3. ASSUME NEW m \in 1..n-2
        PROVE  k2[m+1].tend = k2[m].tend + k2[m+1].time
    <3>1. m \in 1..n-1 /\ m+1 \in 1..n-1
      BY <1>1
    <3> QED
      BY <1>2, <1>8, <3>1
  <2> QED
    BY <1>1, <2>1, <2>2, <2>3 DEF Linked
<1>10. Bounded(k2, k[1].tend, end)
  <2>1. k[1].tend >= 0 /\ k[1].tend <= end
    BY <1>1, <1>4, <1>7 DEF Bounded, n
  <2>2. ASSUME NEW m \in 1..n-1
        PROVE  k[1].tend + k2[m].time <= k2[m].tend /\ k2[m].tend <= end
    <3>1. 1 \in 1..n /\ m+1 \in 1..n /\ 1 < m+1
      BY <1>1
    <3> QED
      BY <1>2, <3>1 DEF Bounded, n
  <2>3. ASSUME NEW m \in 1..n-1, NEW l \in 1..n-1, m < l
        PROVE  k2[m].tend + k2[l].time <= k2[l].tend
    <3>1. m+1 \in 1..n /\ l+1 \in 1..n /\ m+1 < l+1
      BY <1>1, <2>3
    <3> QED
      BY <1>2, <3>1 DEF Bounded, n
  <2> QED
    BY <1>1, <2>1, <2>2, <2>3 DEF Bounded
<1> QED
  BY <1>1, <1>7, <1>9, <1>10 DEF k2
--------------------------------------------------------------------------------
(***************************************************************************)
(* The inductive invariant                                                  *)
(***************************************************************************)
\* What the two branches of kfifo_enqueue have in common: charging a packet to
\* the node the writer is on, no nearer to the reader than before, keeps the
\* invariant if the node has the budget.
LEMMA ChargeLemma ==
  ASSUME IInv,
         NEW i \in Node, NEW s \in Skb, NEW cost \in 0..left_time[i],
         UNIT_TIME <= sleep_time[i] + SkbTime(s) + left_time[i] - cost,
         sleep_time[i] + SkbTime(s) + left_time[i] - cost <= UNIT_TIME + MaxTime,
         Dist(pread, pwrite) <= Dist(pread, i),
         pwrite' = i,
         Charge(i, s, cost)
  PROVE  IInv'
<1>1. TypeOK /\ PktCountsList
  BY DEF IInv
<1>2. total_time \in Nat /\ total_time >= 2 /\ pread \in Node /\ pwrite \in Node
  BY <1>1, TimesAssumption DEF TypeOK
<1>3. kunit \in [Node -> Seq(Unit)]
  BY <1>1 DEF TypeOK
<1>4. sleep_time \in [Node -> Nat] /\ left_time \in [Node -> 0..UNIT_TIME]
  BY <1>1 DEF TypeOK
<1>5. /\ pkt \in [Node -> Nat] /\ node_slen \in [Node -> Int] /\ PktLen[s] \in Nat \ {0}
      /\ slen \in Int
  BY <1>1, LengthAssumption DEF TypeOK
<1>6. MaxTime \in Nat /\ UNIT_TIME \in Nat
  BY TimeAssumption, UnitAssumption
<1>7. SkbTime(s) \in 0..MaxTime
  BY <1>1, CostLemma DEF TypeOK
<1>8. sleep_time[i] \in Nat /\ left_time[i] \in 0..UNIT_TIME
  BY <1>4
<1>9. SkbTime(s) \in Nat /\ sleep_time[i] + SkbTime(s) \in Nat
  BY <1>6, <1>7, <1>8
<1> DEFINE u == [skb |-> s, time |-> SkbTime(s), tend |-> sleep_time[i] + SkbTime(s)]
<1>10. u \in Unit
  BY <1>7, <1>9 DEF Unit
<1>11. u.time = SkbTime(s) /\ u.tend = sleep_time[i] + SkbTime(s)
  OBVIOUS
<1>12. /\ kunit' = [kunit EXCEPT ![i] = Append(@, u)]
       /\ sleep_time' = [sleep_time EXCEPT ![i] = @ + SkbTime(s)]
       /\ left_time' = [left_time EXCEPT ![i] = @ - cost]
       /\ pkt' = [pkt EXCEPT ![i] = @ + 1]
       /\ node_slen' = [node_slen EXCEPT ![i] = @ + PktLen[s]]
       /\ slen' = slen + PktLen[s]
       /\ UNCHANGED <<rate, total_time, total_len, pread, debt, stranded>>
  BY DEF Charge, ChargeTime, EnqueueTail
<1> HIDE DEF u
<1>13. Node' = Node
  BY <1>12 DEF Node
<1>14. TypeOK'
  <2>1. kunit' \in [Node -> Seq(Unit)]
    BY <1>3, <1>10, <1>12
  <2>2. sleep_time' \in [Node -> Nat]
    BY <1>4, <1>9, <1>12
  <2>3. left_time' \in [Node -> 0..UNIT_TIME]
    BY <1>4, <1>6, <1>8, <1>12
  <2>4. pkt' \in [Node -> Nat] /\ node_slen' \in [Node -> Int] /\ slen' \in Int
    BY <1>5, <1>12
  <2> QED
    BY <1>1, <1>12, <1>13, <2>1, <2>2, <2>3, <2>4 DEF TypeOK
<1>15. \A j \in Node : Dist(pread, j)' = Dist(pread, j)
  BY <1>12 DEF Dist
<1>16. Used(i)' /\ \A j \in Node : j # i => Used(j)' = Used(j)
  BY <1>5, <1>12 DEF Used
<1>17. WriterOnUsedNode'
  BY <1>16 DEF WriterOnUsedNode, Used
<1>18. WindowHoldsAll'
  <2> SUFFICES ASSUME NEW j \in Node, Used(j)'
               PROVE  Dist(pread, j) <= Dist(pread, i)
    BY <1>12, <1>13, <1>15 DEF WindowHoldsAll, Dist
  <2>1. CASE j = i
    BY <1>2, <2>1 DEF Dist, Node
  <2>2. CASE j # i
    <3>1. Dist(pread, j) <= Dist(pread, pwrite)
      BY <1>16, <2>2 DEF IInv, WindowHoldsAll
    <3> QED
      BY <1>2, <3>1 DEF Dist, Node
  <2> QED
    BY <2>1, <2>2
<1>19. EmptyNodesPristine'
  BY <1>3, <1>4, <1>12, <1>13, <1>16 DEF IInv, EmptyNodesPristine
<1>20. PktCountsList'
  <2>1. kunit[i] \in Seq(Unit) /\ Len(Append(kunit[i], u)) = Len(kunit[i]) + 1
    BY <1>3, <1>10
  <2> QED
    BY <1>1, <1>3, <1>5, <1>12, <1>13, <2>1 DEF PktCountsList
<1>21. NodeBudget'
  <2> SUFFICES ASSUME NEW j \in Node
               PROVE  /\ UNIT_TIME <= sleep_time'[j] + left_time'[j]
                      /\ sleep_time'[j] + left_time'[j] <= UNIT_TIME + MaxTime
    BY <1>13 DEF NodeBudget
  <2>1. CASE j = i
    BY <1>4, <1>6, <1>8, <1>9, <1>12, <2>1
  <2>2. CASE j # i
    BY <1>4, <1>12, <2>2 DEF IInv, NodeBudget
  <2> QED
    BY <2>1, <2>2
<1>22. ASSUME NEW j \in Node
       PROVE  Chained(j)' /\ ChainBounded(j)'
  <2>1. /\ NodeBase(j)' = NodeBase(j) /\ NodeBase(j) \in Int
        /\ Chained(j) /\ ChainBounded(j)
    BY <1>1, <1>12 DEF NodeBase, IInv, ChainsBounded, TypeOK
  <2>2. CASE j # i
    <3>1. kunit'[j] = kunit[j] /\ sleep_time'[j] = sleep_time[j]
      BY <1>3, <1>4, <1>12, <2>2
    <3> QED
      BY <2>1, <3>1 DEF Chained, ChainBounded
  <2>3. CASE j = i
    <3>1. kunit'[i] = Append(kunit[i], u) /\ sleep_time'[i] = u.tend
      BY <1>3, <1>4, <1>11, <1>12
    <3>2. Linked(kunit[i], NodeBase(i), sleep_time[i]) /\ Bounded(kunit[i], NodeBase(i), sleep_time[i])
      BY <2>1, <2>3 DEF Chained, ChainBounded
    <3>3. kunit[i] \in Seq(Unit) /\ NodeBase(i) \in Int /\ u.tend = sleep_time[i] + u.time
      BY <1>3, <1>11, <2>1, <2>3
    <3>4. /\ Linked(Append(kunit[i], u), NodeBase(i), u.tend)
          /\ Bounded(Append(kunit[i], u), NodeBase(i), u.tend)
      BY <1>8, <1>10, <3>2, <3>3, AppendChainLemma
    <3> QED
      BY <2>1, <2>3, <3>1, <3>4 DEF Chained, ChainBounded
  <2> QED
    BY <2>2, <2>3
<1> QED
  BY <1>13, <1>14, <1>17, <1>18, <1>19, <1>20, <1>21, <1>22 DEF IInv, ChainsBounded
\* The facts about types that every step starts from.
LEMMA TypeFacts ==
  ASSUME TypeOK
  PROVE  /\ total_time \in Nat /\ total_time >= 2
         /\ pread \in Node /\ pwrite \in Node
         /\ rate \in Rates /\ debt \in Int
         /\ UNIT_TIME \in Nat \ {0} /\ MaxTime \in Nat
         /\ pkt \in [Node -> Nat] /\ sleep_time \in [Node -> Nat]
         /\ left_time \in [Node -> 0..UNIT_TIME]
         /\ kunit \in [Node -> Seq(Unit)]
<1>1. total_time \in Nat /\ total_time >= 2
  BY TimesAssumption DEF TypeOK
<1>2. UNIT_TIME \in Nat \ {0} /\ MaxTime \in Nat
  BY UnitAssumption, TimeAssumption
<1> QED
  BY <1>1, <1>2 DEF TypeOK

\* A node is less than a turn from the reader, and found again at its distance.
LEMMA DistLemma ==
  ASSUME TypeOK, NEW j \in Node
  PROVE  Dist(pread, j) \in 0..total_time-1 /\ Ahead(pread, Dist(pread, j)) = j
<1>1. total_time \in Nat /\ total_time >= 2 /\ pread \in 0..total_time-1
  BY TypeFacts DEF Node
<1>2. j \in 0..total_time-1
  BY DEF Node
<1>3. Dist(pread, j) \in 0..total_time-1
  BY <1>1, <1>2 DEF Dist
<1>4. Ahead(pread, Dist(pread, j)) = IF pread + Dist(pread, j) < total_time
                                    THEN pread + Dist(pread, j)
                                    ELSE pread + Dist(pread, j) - total_time
  BY <1>1, <1>3, AheadLemma
<1> QED
  BY <1>1, <1>2, <1>3, <1>4 DEF Dist

\* What a node owes is a number.
LEMMA BaseLemma ==
  ASSUME TypeOK, NEW i
  PROVE  NodeBase(i) \in Int
BY TypeFacts DEF NodeBase

\* An empty node has an empty list, and what was released from it is its
\* sleep_time.
LEMMA EmptyNodeLemma ==
  ASSUME IInv, NEW i \in Node, pkt[i] = 0
  PROVE  kunit[i] = << >> /\ sleep_time[i] = NodeBase(i)
<1>1. kunit[i] \in Seq(Unit) /\ Len(kunit[i]) = 0
  BY TypeFacts DEF IInv, PktCountsList
<1>2. kunit[i] = << >>
  BY <1>1
<1> QED
  BY <1>2 DEF IInv, Chained, Linked

\* A fresh ring satisfies the invariant (kfifo_init).
LEMMA InitIInv == Init => IInv
<1> SUFFICES ASSUME Init PROVE IInv
  OBVIOUS
<1>1. /\ total_time \in Nat /\ total_time >= 2 /\ 0 \in Node
      /\ UNIT_TIME \in Nat \ {0} /\ MaxTime \in Nat
  BY TimesAssumption, UnitAssumption, TimeAssumption DEF Init, Node
<1>2. total_len \in Nat
  BY <1>1, RingBytesLemma DEF Init
<1>3. TypeOK
  BY <1>1, <1>2 DEF Init, TypeOK
<1>4. WriterOnUsedNode /\ WindowHoldsAll /\ EmptyNodesPristine /\ PktCountsList
  BY <1>1 DEF Init, WriterOnUsedNode, WindowHoldsAll, EmptyNodesPristine,
              PktCountsList, Used
<1>5. NodeBudget
  BY <1>1 DEF Init, NodeBudget
<1>6. \A i \in Node : Linked(<< >>, 0, 0) /\ Bounded(<< >>, 0, 0)
  BY DEF Linked, Bounded
<1>7. \A i \in Node : Chained(i) /\ ChainBounded(i)
  BY <1>6 DEF Init, Chained, ChainBounded, NodeBase
<1> QED
  BY <1>3, <1>4, <1>5, <1>7 DEF IInv, ChainsBounded

\* A step that changes nothing, such as a packet dropped, keeps the invariant.
LEMMA StutterPreserves ==
  ASSUME IInv, UNCHANGED vars
  PROVE  IInv'
<1>1. /\ UNCHANGED <<rate, total_time, total_len, slen, pread, pwrite, debt, stranded>>
      /\ UNCHANGED <<pkt, left_time, sleep_time, node_slen, kunit>>
  BY DEF vars, ring, nodes
<1>2. TypeOK'
  BY <1>1 DEF IInv, TypeOK, Node
<1>3. WriterOnUsedNode' /\ WindowHoldsAll' /\ EmptyNodesPristine' /\ PktCountsList' /\ NodeBudget'
  BY <1>1 DEF IInv, WriterOnUsedNode, WindowHoldsAll, EmptyNodesPristine, PktCountsList,
              NodeBudget, Used, Dist, Node
<1>4. (\A i \in Node : Chained(i))' /\ ChainsBounded'
  BY <1>1 DEF IInv, Chained, ChainsBounded, ChainBounded, NodeBase, Node
<1> QED
  BY <1>2, <1>3, <1>4 DEF IInv

\* kfifo_enqueue, when the writer's node has the time left.
LEMMA EnqueueHerePreserves ==
  ASSUME IInv, NEW s \in Skb, EnqueueHere(s)
  PROVE  IInv'
<1>1. TypeOK
  BY DEF IInv
<1>2. SkbTime(s) \in 0..left_time[pwrite]
  BY <1>1, TypeFacts, CostLemma DEF EnqueueHere
<1>3. /\ UNIT_TIME <= sleep_time[pwrite] + left_time[pwrite]
      /\ sleep_time[pwrite] + left_time[pwrite] <= UNIT_TIME + MaxTime
      /\ sleep_time[pwrite] \in Nat /\ left_time[pwrite] \in Nat
  BY <1>1, TypeFacts DEF IInv, NodeBudget
<1>4. sleep_time[pwrite] + SkbTime(s) + left_time[pwrite] - SkbTime(s)
        = sleep_time[pwrite] + left_time[pwrite]
  BY <1>2, <1>3
<1>5. Dist(pread, pwrite) <= Dist(pread, pwrite)
  BY <1>1, TypeFacts DEF Dist, Node
<1> QED
  BY <1>1, <1>2, <1>3, <1>4, <1>5, TypeFacts, ChargeLemma DEF EnqueueHere

\* kfifo_enqueue, when the writer must move on: the node it comes to is pristine.
LEMMA EnqueueAheadPreserves ==
  ASSUME IInv, NEW s \in Skb, EnqueueAhead(s)
  PROVE  IInv'
<1> DEFINE n == Steps(s) + 1
           i == Ahead(pwrite, n)
<1>1. TypeOK
  BY DEF IInv
<1>2. n \in Nat \ {0} /\ ~Conflict(n)
  <2>1. rate \in Rates
    BY <1>1 DEF TypeOK
  <2>2. Steps(s) \in Nat
    BY <2>1, CostLemma
  <2> QED
    BY <2>2 DEF EnqueueAhead
<1>3. i \in Node /\ i # pread /\ Dist(pread, i) = Dist(pread, pwrite) + n
  BY <1>1, <1>2, ForwardLemma
<1>4. Dist(pread, pwrite) \in Nat
  <2>1. pwrite \in Node
    BY <1>1 DEF TypeOK
  <2> QED
    BY <1>1, <2>1, DistLemma
<1>5. ~Used(i)
  <2>1. n > 0 /\ ~(Dist(pread, i) <= Dist(pread, pwrite))
    BY <1>2, <1>3, <1>4
  <2> QED
    BY <1>3, <2>1 DEF IInv, WindowHoldsAll
<1>6. left_time[i] = UNIT_TIME /\ sleep_time[i] = 0
  BY <1>3, <1>5 DEF IInv, EmptyNodesPristine
<1>7. /\ SkbTime(s) \in 0..MaxTime /\ Steps(s) \in Nat /\ CostTime(s) \in 0..UNIT_TIME-1
      /\ CostTime(s) + Steps(s) * UNIT_TIME = SkbTime(s)
  BY <1>1, TypeFacts, CostLemma
<1>8. Steps(s) * UNIT_TIME \in Nat /\ UNIT_TIME \in Nat \ {0} /\ MaxTime \in Nat
  <2>1. UNIT_TIME \in Nat \ {0} /\ MaxTime \in Nat
    BY UnitAssumption, TimeAssumption
  <2> QED
    BY <1>7, <2>1
<1>9. CostTime(s) \in 0..left_time[i]
  BY <1>6, <1>7, <1>8
<1>10. /\ UNIT_TIME <= sleep_time[i] + SkbTime(s) + left_time[i] - CostTime(s)
       /\ sleep_time[i] + SkbTime(s) + left_time[i] - CostTime(s) <= UNIT_TIME + MaxTime
  BY <1>6, <1>7, <1>8
<1>11. Dist(pread, pwrite) <= Dist(pread, i)
  BY <1>2, <1>3, <1>4
<1>12. pwrite' = i /\ Charge(i, s, CostTime(s))
  BY DEF EnqueueAhead
<1> HIDE DEF i
<1> QED
  BY <1>3, <1>9, <1>10, <1>11, <1>12, ChargeLemma
\* The reader moves over empty nodes only, and only owing nothing; where it
\* stops, the nodes in use are still between it and the writer.
LEMMA ReaderLemma ==
  ASSUME IInv, NEW i \in Node, Reading(i), ~Sleeping
  PROVE  /\ i # pread => /\ pkt[pread] = 0 /\ sleep_time[pread] = 0
                         /\ debt = 0 /\ kunit[pread] = << >>
                         /\ left_time[pread] = UNIT_TIME
         /\ \A j \in Node : Used(j) => Dist(i, j) <= Dist(i, pwrite)
         /\ i # pwrite => pread # pwrite
<1>1. TypeOK
  BY DEF IInv
<1>2. PICK k \in 0..Dist(pread, pwrite) :
         /\ i = Ahead(pread, k)
         /\ \A j \in 0..k-1 : pkt[Ahead(pread, j)] = 0
         /\ pkt[i] > 0 \/ i = pwrite
  BY DEF Reading
<1>3. total_time \in Nat /\ total_time >= 2 /\ pread \in 0..total_time-1
  BY <1>1, TypeFacts DEF Node
<1>4. Dist(pread, pwrite) \in 0..total_time-1
  <2>1. pwrite \in Node
    BY <1>1 DEF TypeOK
  <2> QED
    BY <1>1, <2>1, DistLemma
<1>5. Ahead(pread, 0) = pread
  BY <1>3, AheadLemma
<1>6. k \in 0..total_time-1 /\ (i # pread => k >= 1)
  BY <1>2, <1>3, <1>4, <1>5
<1>7. i = IF pread + k < total_time THEN pread + k ELSE pread + k - total_time
  BY <1>2, <1>3, <1>6, AheadLemma
<1>8. ASSUME NEW j \in Node, Dist(pread, j) >= k
      PROVE  Dist(i, j) = Dist(pread, j) - k
  BY <1>3, <1>6, <1>7, <1>8 DEF Dist, Node
<1>9. ASSUME i # pread
      PROVE  /\ pkt[pread] = 0 /\ sleep_time[pread] = 0
             /\ debt = 0 /\ kunit[pread] = << >>
             /\ left_time[pread] = UNIT_TIME
  <2>1. pkt[pread] = 0
    <3>1. 0 \in 0..k-1
      BY <1>6, <1>9
    <3> QED
      BY <1>2, <1>5, <3>1
  <2>2. sleep_time[pread] \in Nat /\ left_time[pread] \in 0..UNIT_TIME /\ pread \in Node
    BY <1>1, TypeFacts
  <2>3. sleep_time[pread] = 0
    BY <2>1, <2>2 DEF Sleeping
  <2>4. kunit[pread] = << >> /\ sleep_time[pread] = debt
    BY <2>1, <2>2, EmptyNodeLemma DEF NodeBase
  <2>5. UNIT_TIME <= sleep_time[pread] + left_time[pread] /\ UNIT_TIME \in Nat
    BY <2>2, UnitAssumption DEF IInv, NodeBudget
  <2> QED
    BY <2>1, <2>2, <2>3, <2>4, <2>5
<1>10. ASSUME NEW j \in Node, Used(j)
       PROVE  Dist(i, j) <= Dist(i, pwrite)
  <2>1. Dist(pread, j) \in 0..total_time-1 /\ Ahead(pread, Dist(pread, j)) = j
    BY <1>1, DistLemma
  <2>2. ~(Dist(pread, j) \in 0..k-1)
    <3> SUFFICES ASSUME Dist(pread, j) \in 0..k-1 PROVE FALSE
      OBVIOUS
    <3>1. pkt[j] = 0
      BY <1>2, <2>1
    <3> QED
      BY <1>10, <3>1 DEF Used
  <2>3. Dist(pread, j) >= k
    BY <1>6, <2>1, <2>2
  <2>4. Dist(pread, j) <= Dist(pread, pwrite)
    BY <1>10 DEF IInv, WindowHoldsAll
  <2>5. pwrite \in Node /\ Dist(pread, pwrite) >= k
    BY <1>1, <1>2, <1>4 DEF TypeOK
  <2>6. Dist(i, j) = Dist(pread, j) - k /\ Dist(i, pwrite) = Dist(pread, pwrite) - k
    BY <1>8, <2>3, <2>5
  <2> QED
    BY <1>4, <1>6, <2>1, <2>4, <2>6
<1>11. i # pwrite => pread # pwrite
  <2> SUFFICES ASSUME pread = pwrite PROVE i = pwrite
    OBVIOUS
  <2>1. Dist(pread, pwrite) = 0
    BY <1>3 DEF Dist
  <2> QED
    BY <1>2, <1>5, <2>1
<1> QED
  BY <1>9, <1>10, <1>11

\* kfifo_dequeue, when it hands back a packet.
LEMMA DequeueSkbPreserves ==
  ASSUME IInv, DequeueSkb
  PROVE  IInv'
<1>1. TypeOK
  BY DEF IInv
<1>2. PICK i \in Node :
        /\ Reading(i) /\ pkt[i] > 0
        /\ pread' = i
        /\ kunit' = [kunit EXCEPT ![i] = Tail(@)]
        /\ pkt' = [pkt EXCEPT ![i] = @ - 1]
        /\ node_slen' = [node_slen EXCEPT ![i] = @ - PktLen[Head(kunit[i]).skb]]
        /\ slen' = slen - PktLen[Head(kunit[i]).skb]
        /\ debt' = debt + Head(kunit[i]).time
  BY DEF DequeueSkb
<1>3. /\ ~Sleeping
      /\ UNCHANGED <<rate, total_time, total_len, pwrite, left_time, sleep_time, stranded>>
  BY DEF DequeueSkb
<1>4. /\ i # pread => /\ pkt[pread] = 0 /\ sleep_time[pread] = 0
                      /\ debt = 0 /\ kunit[pread] = << >>
                      /\ left_time[pread] = UNIT_TIME
      /\ \A j \in Node : Used(j) => Dist(i, j) <= Dist(i, pwrite)
      /\ i # pwrite => pread # pwrite
  BY <1>2, <1>3, ReaderLemma
<1>5. kunit \in [Node -> Seq(Unit)] /\ pkt \in [Node -> Nat]
  BY <1>1 DEF TypeOK
<1>6. kunit[i] \in Seq(Unit) /\ kunit[i] # << >> /\ Len(kunit[i]) = pkt[i]
  <2>1. kunit[i] \in Seq(Unit) /\ pkt[i] = Len(kunit[i])
    BY <1>2, <1>5 DEF IInv, PktCountsList
  <2> QED
    BY <1>2, <2>1
<1> DEFINE u == Head(kunit[i])
<1>7. u \in Unit /\ Tail(kunit[i]) \in Seq(Unit) /\ Len(Tail(kunit[i])) = Len(kunit[i]) - 1
  BY <1>6
<1>8. u.time \in Nat /\ u.skb \in Skb
  BY <1>7, UnitLemma
<1>9. PktLen[u.skb] \in Nat
  BY <1>8, LengthAssumption
<1> HIDE DEF u
<1>10. Node' = Node
  BY <1>3 DEF Node
<1>11. TypeOK'
  <2>1. kunit' \in [Node -> Seq(Unit)]
    BY <1>2, <1>5, <1>7
  <2>2. pkt' \in [Node -> Nat]
    BY <1>2, <1>5
  <2>3. slen' \in Int /\ debt' \in Int
    <3>1. slen \in Int /\ debt \in Int
      BY <1>1 DEF TypeOK
    <3>2. slen' = slen - PktLen[u.skb] /\ debt' = debt + u.time
      BY <1>2 DEF u
    <3> QED
      BY <1>8, <1>9, <3>1, <3>2
  <2>4. node_slen' \in [Node -> Int]
    <3>1. node_slen \in [Node -> Int]
      BY <1>1 DEF TypeOK
    <3>2. node_slen' = [node_slen EXCEPT ![i] = @ - PktLen[u.skb]]
      BY <1>2 DEF u
    <3> QED
      BY <1>9, <3>1, <3>2
  <2> QED
    BY <1>1, <1>2, <1>3, <1>10, <2>1, <2>2, <2>3, <2>4 DEF TypeOK
<1>12. \A j \in Node : (j # i => Used(j)' = Used(j)) /\ (Used(j)' => Used(j))
  BY <1>2, <1>5 DEF Used
<1>13. WriterOnUsedNode'
  <2> SUFFICES ASSUME i # pwrite PROVE Used(pwrite)'
    BY <1>2, <1>3 DEF WriterOnUsedNode, Used
  <2>1. pwrite \in Node /\ Used(pwrite)
    BY <1>1, <1>4 DEF IInv, TypeOK, WriterOnUsedNode
  <2> QED
    BY <1>3, <1>12, <2>1 DEF Used
<1>14. WindowHoldsAll'
  <2>1. \A j \in Node : Dist(pread, j)' = Dist(i, j)
    BY <1>2, <1>3 DEF Dist
  <2>2. Dist(pread, pwrite)' = Dist(i, pwrite)
    BY <1>2, <1>3 DEF Dist
  <2> QED
    BY <1>4, <1>10, <1>12, <2>1, <2>2 DEF WindowHoldsAll
<1>15. EmptyNodesPristine'
  <2> SUFFICES ASSUME NEW j \in Node, j # i, ~Used(j)
               PROVE  left_time[j] = UNIT_TIME /\ sleep_time[j] = 0 /\ kunit'[j] = << >>
    BY <1>2, <1>3, <1>10, <1>12 DEF EmptyNodesPristine
  <2>1. kunit'[j] = kunit[j]
    BY <1>2, <1>5
  <2>2. CASE j = pread
    BY <1>4, <2>1, <2>2
  <2>3. CASE j # pread
    BY <2>1, <2>3 DEF IInv, EmptyNodesPristine
  <2> QED
    BY <2>2, <2>3
<1>16. PktCountsList'
  <2> SUFFICES ASSUME NEW j \in Node PROVE pkt'[j] = Len(kunit'[j])
    BY <1>10 DEF PktCountsList
  <2>1. CASE j = i
    BY <1>2, <1>5, <1>6, <1>7, <2>1
  <2>2. CASE j # i
    BY <1>2, <1>5, <2>2 DEF IInv, PktCountsList
  <2> QED
    BY <2>1, <2>2
<1>17. NodeBudget'
  BY <1>3, <1>10 DEF IInv, NodeBudget
<1>18. ASSUME NEW j \in Node
       PROVE  Chained(j)' /\ ChainBounded(j)'
  <2>1. Chained(j) /\ ChainBounded(j)
    BY DEF IInv, ChainsBounded
  <2>2. CASE j = i
    <3>1. NodeBase(i)' = NodeBase(i) + u.time
      BY <1>1, <1>2, <1>4, <1>8 DEF NodeBase, TypeOK, u
    <3>2. sleep_time[i] \in Nat /\ NodeBase(i) \in Int
      BY <1>1, TypeFacts, BaseLemma
    <3>3. /\ Linked(kunit[i], NodeBase(i), sleep_time[i])
          /\ Bounded(kunit[i], NodeBase(i), sleep_time[i])
      BY <2>1, <2>2 DEF Chained, ChainBounded
    <3>4. /\ Linked(Tail(kunit[i]), NodeBase(i) + u.time, sleep_time[i])
          /\ Bounded(Tail(kunit[i]), NodeBase(i) + u.time, sleep_time[i])
      BY <1>6, <3>2, <3>3, TailChainLemma DEF u
    <3>5. kunit'[i] = Tail(kunit[i]) /\ sleep_time' = sleep_time
      BY <1>2, <1>3, <1>5
    <3> QED
      BY <2>2, <3>1, <3>4, <3>5 DEF Chained, ChainBounded
  <2>3. CASE j # i
    <3>1. kunit'[j] = kunit[j] /\ sleep_time' = sleep_time
      BY <1>2, <1>3, <1>5, <2>3
    <3>2. NodeBase(j)' = NodeBase(j)
      BY <1>2, <1>4, <2>3 DEF NodeBase
    <3> QED
      BY <2>1, <3>1, <3>2 DEF Chained, ChainBounded
  <2> QED
    BY <2>2, <2>3
<1> QED
  BY <1>10, <1>11, <1>13, <1>14, <1>15, <1>16, <1>17, <1>18 DEF IInv, ChainsBounded

\* A dequeue that finds nothing finds the reader on the writer's node already.
LEMMA NullStutters ==
  ASSUME IInv, DequeueNull
  PROVE  UNCHANGED vars
<1>1. PICK i \in Node : Reading(i) /\ pkt[i] = 0 /\ pread' = i
  BY DEF DequeueNull
<1>2. i = pwrite
  BY <1>1 DEF Reading
<1>3. pwrite = pread
  BY <1>1, <1>2 DEF IInv, WriterOnUsedNode, Used
<1> QED
  BY <1>1, <1>2, <1>3 DEF DequeueNull, vars, ring

\* Clearing a node whose list is empty frees its budget.
LEMMA FinishNodePreserves ==
  ASSUME IInv, FinishNode
  PROVE  IInv'
<1>1. TypeOK
  BY DEF IInv
<1>2. /\ left_time' = [left_time EXCEPT ![pread] = UNIT_TIME]
      /\ pkt' = [pkt EXCEPT ![pread] = 0]
      /\ node_slen' = [node_slen EXCEPT ![pread] = 0]
      /\ sleep_time' = [sleep_time EXCEPT ![pread] = 0]
      /\ kunit' = [kunit EXCEPT ![pread] = << >>]
      /\ debt' = debt - sleep_time[pread]
      /\ UNCHANGED <<rate, total_time, total_len, slen, pread, pwrite, stranded>>
  BY DEF FinishNode, ClearNode, ring
<1>3. Node' = Node
  BY <1>2 DEF Node
<1>4. /\ pread \in Node /\ pkt \in [Node -> Nat] /\ sleep_time \in [Node -> Nat]
      /\ left_time \in [Node -> 0..UNIT_TIME] /\ kunit \in [Node -> Seq(Unit)]
      /\ node_slen \in [Node -> Int] /\ debt \in Int
  BY <1>1 DEF TypeOK
<1>5. UNIT_TIME \in Nat /\ MaxTime \in Nat
  BY UnitAssumption, TimeAssumption
<1>6. pkt[pread] = 0 /\ pkt' = pkt
  <2>1. pkt[pread] = 0
    BY DEF FinishNode, Sleeping
  <2> QED
    BY <1>2, <1>4, <2>1
<1>7. debt' = 0
  <2>1. sleep_time[pread] = debt
    BY <1>4, <1>6, EmptyNodeLemma DEF NodeBase
  <2> QED
    BY <1>2, <1>4, <2>1
<1>8. TypeOK'
  <2>1. << >> \in Seq(Unit)
    OBVIOUS
  <2>2. kunit' \in [Node -> Seq(Unit)]
    BY <1>2, <1>4, <2>1
  <2>3. left_time' \in [Node -> 0..UNIT_TIME]
    BY <1>2, <1>4, <1>5
  <2>4. sleep_time' \in [Node -> Nat] /\ node_slen' \in [Node -> Int]
    BY <1>2, <1>4
  <2> QED
    BY <1>1, <1>2, <1>3, <1>6, <1>7, <2>2, <2>3, <2>4 DEF TypeOK
<1>9. WriterOnUsedNode' /\ WindowHoldsAll'
  BY <1>2, <1>3, <1>6 DEF IInv, WriterOnUsedNode, WindowHoldsAll, Used, Dist
<1>10. EmptyNodesPristine'
  BY <1>2, <1>3, <1>4, <1>6 DEF IInv, EmptyNodesPristine, Used
<1>11. PktCountsList'
  <2>1. Len(<< >>) = 0
    OBVIOUS
  <2> QED
    BY <1>2, <1>3, <1>4, <1>6, <2>1 DEF IInv, PktCountsList
<1>12. NodeBudget'
  BY <1>2, <1>3, <1>4, <1>5 DEF IInv, NodeBudget
<1>13. ASSUME NEW j \in Node
       PROVE  Chained(j)' /\ ChainBounded(j)'
  <2>1. CASE j = pread
    <3>1. kunit'[j] = << >> /\ sleep_time'[j] = 0 /\ NodeBase(j)' = 0
      BY <1>2, <1>4, <1>7, <2>1 DEF NodeBase
    <3>2. Linked(<< >>, 0, 0) /\ Bounded(<< >>, 0, 0)
      BY DEF Linked, Bounded
    <3> QED
      BY <3>1, <3>2 DEF Chained, ChainBounded
  <2>2. CASE j # pread
    <3>1. kunit'[j] = kunit[j] /\ sleep_time'[j] = sleep_time[j]
      BY <1>2, <1>4, <2>2
    <3>2. NodeBase(j)' = NodeBase(j)
      BY <1>2, <2>2 DEF NodeBase
    <3> QED
      BY <3>1, <3>2 DEF IInv, ChainsBounded, Chained, ChainBounded
  <2> QED
    BY <2>1, <2>2
<1> QED
  BY <1>3, <1>8, <1>9, <1>10, <1>11, <1>12, <1>13 DEF IInv, ChainsBounded

\* A new ring is a ring as it was made, whatever the old one held.
LEMMA ChangePreserves ==
  ASSUME IInv, NEW t \in Times, NEW r \in Rates, Change(t, r)
  PROVE  IInv'
<1>1. /\ t \in Nat /\ t >= 2 /\ UNIT_TIME \in Nat \ {0} /\ MaxTime \in Nat
      /\ slen \in Int
  BY TimesAssumption, UnitAssumption, TimeAssumption DEF IInv, TypeOK
<1>2. /\ rate' = r /\ total_time' = t /\ total_len' = RingBytes(t, r)
      /\ slen' = slen /\ stranded' = slen /\ debt' = 0
      /\ pread' = 0 /\ pwrite' = 0
      /\ pkt' = [i \in 0..t-1 |-> 0]
      /\ left_time' = [i \in 0..t-1 |-> UNIT_TIME]
      /\ sleep_time' = [i \in 0..t-1 |-> 0]
      /\ node_slen' = [i \in 0..t-1 |-> 0]
      /\ kunit' = [i \in 0..t-1 |-> << >>]
  BY DEF Change, FreshNodes, InitialSlen
<1>3. Node' = 0..t-1 /\ 0 \in 0..t-1
  BY <1>1, <1>2 DEF Node
<1>4. RingBytes(t, r) \in Nat
  BY RingBytesLemma
<1>5. TypeOK'
  BY <1>1, <1>2, <1>3, <1>4 DEF TypeOK
<1>6. WriterOnUsedNode' /\ WindowHoldsAll' /\ EmptyNodesPristine'
  BY <1>1, <1>2, <1>3 DEF WriterOnUsedNode, WindowHoldsAll, EmptyNodesPristine, Used
<1>7. PktCountsList'
  <2>1. Len(<< >>) = 0
    OBVIOUS
  <2> QED
    BY <1>2, <1>3, <2>1 DEF PktCountsList
<1>8. NodeBudget'
  BY <1>1, <1>2, <1>3 DEF NodeBudget
<1>9. ASSUME NEW j \in 0..t-1
      PROVE  Chained(j)' /\ ChainBounded(j)'
  <2>1. kunit'[j] = << >> /\ sleep_time'[j] = 0 /\ NodeBase(j)' = 0
    BY <1>2 DEF NodeBase
  <2>2. Linked(<< >>, 0, 0) /\ Bounded(<< >>, 0, 0)
    BY DEF Linked, Bounded
  <2> QED
    BY <2>1, <2>2 DEF Chained, ChainBounded
<1> QED
  BY <1>3, <1>5, <1>6, <1>7, <1>8, <1>9 DEF IInv, ChainsBounded

\* A change that gets no memory changes the rate only, which the invariant says
\* nothing of.
LEMMA ChangeNoMemPreserves ==
  ASSUME IInv, NEW r \in Rates, ChangeNoMem(r)
  PROVE  IInv'
<1>1. /\ rate' = r
      /\ UNCHANGED <<total_time, total_len, slen, pread, pwrite, debt, stranded>>
      /\ UNCHANGED <<pkt, left_time, sleep_time, node_slen, kunit>>
  BY DEF ChangeNoMem, nodes
<1>2. TypeOK'
  BY <1>1 DEF IInv, TypeOK, Node
<1>3. WriterOnUsedNode' /\ WindowHoldsAll' /\ EmptyNodesPristine' /\ PktCountsList' /\ NodeBudget'
  BY <1>1 DEF IInv, WriterOnUsedNode, WindowHoldsAll, EmptyNodesPristine, PktCountsList,
              NodeBudget, Used, Dist, Node
<1>4. (\A i \in Node : Chained(i))' /\ ChainsBounded'
  BY <1>1 DEF IInv, Chained, ChainsBounded, ChainBounded, NodeBase, Node
<1> QED
  BY <1>2, <1>3, <1>4 DEF IInv
--------------------------------------------------------------------------------
(***************************************************************************)
(* Theorems                                                                 *)
(***************************************************************************)
\* The invariant of the ring, which every operation of sch_kfifo.c preserves.
THEOREM Invariance == Spec => []IInv
<1>1. Init => IInv
  BY InitIInv
<1>2. IInv /\ [Next]_vars => IInv'
  <2> SUFFICES ASSUME IInv, [Next]_vars PROVE IInv'
    OBVIOUS
  <2>1. CASE UNCHANGED vars
    BY <2>1, StutterPreserves
  <2>2. CASE \E s \in Skb : EnqueueHere(s)
    BY <2>2, EnqueueHerePreserves
  <2>3. CASE \E s \in Skb : EnqueueAhead(s)
    BY <2>3, EnqueueAheadPreserves
  <2>4. CASE \E s \in Skb : EnqueueDrop(s)
    BY <2>4, StutterPreserves DEF EnqueueDrop
  <2>5. CASE DequeueSkb
    BY <2>5, DequeueSkbPreserves
  <2>6. CASE DequeueNull
    BY <2>6, NullStutters, StutterPreserves
  <2>7. CASE FinishNode
    BY <2>7, FinishNodePreserves
  <2>8. CASE \E t \in Times, r \in Rates : Change(t, r)
    BY <2>8, ChangePreserves
  <2>9. CASE \E r \in Rates : ChangeNoMem(r)
    BY <2>9, ChangeNoMemPreserves
  <2> QED
    BY <2>1, <2>2, <2>3, <2>4, <2>5, <2>6, <2>7, <2>8, <2>9 DEF Next, Dequeue
<1> QED
  BY <1>1, <1>2, PTL DEF Spec

\* No node's time budget underflows, and every pointer stays in the ring.
THEOREM TypeCorrect == Spec => []TypeOK
<1>1. IInv => TypeOK
  BY DEF IInv
<1> QED
  BY <1>1, Invariance, PTL

\* The nodes in use lie between the reader and the writer.
THEOREM WindowCorrect == Spec => [](WriterOnUsedNode /\ WindowHoldsAll)
<1>1. IInv => WriterOnUsedNode /\ WindowHoldsAll
  BY DEF IInv
<1> QED
  BY <1>1, Invariance, PTL

\* A node without packets, other than the reader's, is ready for the writer.
THEOREM PristineCorrect == Spec => []EmptyNodesPristine
<1>1. IInv => EmptyNodesPristine
  BY DEF IInv
<1> QED
  BY <1>1, Invariance, PTL

\* The sleep collected from a node is the transmission time of what was released
\* from it.
THEOREM SleepCorrect == Spec => []SleepIsEarned
<1>1. IInv => SleepIsEarned
  <2> SUFFICES ASSUME IInv PROVE SleepIsEarned
    OBVIOUS
  <2>1. pread \in Node
    BY DEF IInv, TypeOK
  <2>2. Sleeping => debt = sleep_time[pread]
    BY <2>1, EmptyNodeLemma DEF Sleeping, NodeBase
  <2> QED
    BY <2>2 DEF IInv, SleepIsEarned
<1> QED
  BY <1>1, Invariance, PTL

\* The ring never releases more than one node's budget and one packet ahead of
\* the sleeps it asks for.
THEOREM RateCorrect == Spec => [](NodeBudget /\ RateLimit)
<1>1. IInv => NodeBudget /\ RateLimit
  <2> SUFFICES ASSUME IInv PROVE RateLimit
    BY DEF IInv
  <2>1. /\ pread \in Node /\ debt \in Int /\ sleep_time[pread] \in Nat
        /\ left_time[pread] \in 0..UNIT_TIME /\ UNIT_TIME \in Nat /\ MaxTime \in Nat
    BY TypeFacts DEF IInv
  <2>2. 0 <= debt /\ debt <= sleep_time[pread]
    BY <2>1 DEF IInv, ChainsBounded, ChainBounded, Bounded, NodeBase
  <2>3. sleep_time[pread] + left_time[pread] <= UNIT_TIME + MaxTime
    BY <2>1 DEF IInv, NodeBudget
  <2> QED
    BY <2>1, <2>2, <2>3 DEF RateLimit
<1> QED
  BY <1>1, Invariance, PTL

\* The reader leaves a node only when all it released has been slept for.
THEOREM ReaderCorrect == Spec => ReaderLeavesNoDebt
<1>1. IInv /\ [Next]_vars => [slen' < slen /\ pread' # pread => debt = 0]_vars
  <2> SUFFICES ASSUME IInv, Next, slen' < slen, pread' # pread
               PROVE  debt = 0
    BY DEF vars
  <2>1. slen \in Int
    BY DEF IInv, TypeOK
  <2>2. CASE DequeueSkb
    <3>1. PICK i \in Node : Reading(i) /\ pread' = i
      BY <2>2 DEF DequeueSkb
    <3>2. ~Sleeping
      BY <2>2 DEF DequeueSkb
    <3> QED
      BY <3>1, <3>2, ReaderLemma
  <2>3. CASE ~DequeueSkb
    <3>1. slen' # slen => \E s \in Skb : EnqueueHere(s) \/ EnqueueAhead(s)
      BY <2>3 DEF Next, Dequeue, EnqueueDrop, DequeueNull, FinishNode, Change, InitialSlen,
                  ChangeNoMem, vars, ring
    <3>2. slen' # slen => pread' = pread
      BY <3>1 DEF EnqueueHere, EnqueueAhead, Charge
    <3> QED
      BY <2>1, <3>2
  <2> QED
    BY <2>2, <2>3
<1> QED
  BY <1>1, Invariance, PTL DEF Spec, ReaderLeavesNoDebt
================================================================================
