----------------------------- MODULE KUnitProofs -----------------------------
(***************************************************************************)
(* The lists of KUnit are what their pointers say, for every set of nodes   *)
(* and packets.                                                             *)
(***************************************************************************)
EXTENDS KUnit, TLAPS

\* Every variable has its type, and the nodes have one list each.
TypeOK ==
  /\ list \in [DOMAIN list -> Seq(Skb)]
  /\ head \in [DOMAIN list -> Skb \cup {NULL}]
  /\ tail \in [DOMAIN list -> Skb \cup {NULL}]
  /\ next \in [Skb -> Skb \cup {NULL}]

\* No packet is in two places of the lists.
Apart ==
  \A i, j \in DOMAIN list : \A k \in 1..Len(list[i]), l \in 1..Len(list[j]) :
     list[i][k] = list[j][l] => i = j /\ k = l

\* The inductive invariant.
IInv == TypeOK /\ ListsRepresent
--------------------------------------------------------------------------------
\* New heads are empty lists, whether of a whole array or of the initial one.
LEMMA EmptyLemma ==
  ASSUME NEW N, list' = Empty(N), InitHeads(N), TypeOK
  PROVE  IInv'
BY DEF Empty, InitHeads, TypeOK, IInv, ListsRepresent, Threaded

LEMMA InitIInv == Init => IInv
BY DEF Init, Empty, TypeOK, IInv, ListsRepresent, Threaded

\* kunit_skb_head_init of a node drops its packets and leaves the other lists.
LEMMA ClearPreserves ==
  ASSUME IInv, NEW i \in DOMAIN head, Clear(i)
  PROVE  IInv'
<1>1. /\ TypeOK /\ Apart
      /\ \A j \in DOMAIN list : Threaded(j)
  BY DEF IInv, ListsRepresent, Apart
<1>2. i \in DOMAIN list /\ DOMAIN list' = DOMAIN list
  BY <1>1 DEF TypeOK, Clear
<1>3. /\ list'[i] = << >> /\ head'[i] = NULL /\ tail'[i] = NULL /\ next' = next
      /\ \A j \in DOMAIN list : j # i =>
            list'[j] = list[j] /\ head'[j] = head[j] /\ tail'[j] = tail[j]
  BY <1>1, <1>2 DEF TypeOK, Clear, InitHead
<1>4. TypeOK'
  BY <1>1, <1>2 DEF TypeOK, Clear, InitHead
<1>5. \A j \in DOMAIN list' : Threaded(j)'
  BY <1>1, <1>2, <1>3 DEF Threaded
<1>6. Apart'
  BY <1>1, <1>2, <1>3 DEF Apart
<1> QED
  BY <1>4, <1>5, <1>6 DEF IInv, ListsRepresent, Apart

\* A packet in no list differs from those of every list.
LEMMA QueuedLemma ==
  ASSUME NEW s, ~Queued(s)
  PROVE  \A j \in DOMAIN list : \A k \in 1..Len(list[j]) : list[j][k] # s
BY DEF Queued

\* The tail pointer of a node in use is the last packet of its list alone.
LEMMA TailLemma ==
  ASSUME NullAssumption, TypeOK, Apart, NEW i \in DOMAIN list, list[i] # << >>, Threaded(i)
  PROVE  /\ Len(list[i]) \in 1..Len(list[i])
         /\ tail[i] \in Skb /\ tail[i] # NULL
         /\ head[i] \in Skb /\ head[i] # NULL
         /\ \A j \in DOMAIN list : \A k \in 1..Len(list[j]) :
               list[j][k] = tail[i] => j = i /\ k = Len(list[i])
<1>1. list[i] \in Seq(Skb)
  BY DEF TypeOK
<1>2. Len(list[i]) \in Nat \ {0}
  BY <1>1
<1>3. Len(list[i]) \in 1..Len(list[i]) /\ 1 \in 1..Len(list[i])
  BY <1>2
<1>4. list[i][Len(list[i])] \in Skb /\ list[i][1] \in Skb
  BY <1>1, <1>3
<1>5. tail[i] = list[i][Len(list[i])] /\ head[i] = list[i][1]
  BY DEF Threaded
<1> QED
  BY <1>3, <1>4, <1>5 DEF Apart, NullAssumption

\* A list stays threaded as long as its own pointers do not change.
LEMMA UntouchedLemma ==
  ASSUME NEW j \in DOMAIN list, Threaded(j), list[j] \in Seq(Skb), list[j] # << >>,
         list'[j] = list[j], head'[j] = head[j], tail'[j] = tail[j],
         \A k \in 1..Len(list[j]) : next'[list[j][k]] = next[list[j][k]]
  PROVE  Threaded(j)'
<1>1. Len(list[j]) \in Nat \ {0}
  OBVIOUS
<1>2. next'[tail'[j]] = NULL
  <2>1. tail[j] = list[j][Len(list[j])] /\ next[tail[j]] = NULL
    BY DEF Threaded
  <2>2. next'[list[j][Len(list[j])]] = next[list[j][Len(list[j])]]
    BY <1>1
  <2> QED
    BY <2>1, <2>2
<1>3. \A k \in 1..Len(list[j])-1 : next'[list[j][k]] = list[j][k+1]
  <2> TAKE k \in 1..Len(list[j])-1
  <2>1. k \in 1..Len(list[j])
    BY <1>1
  <2>2. next[list[j][k]] = list[j][k+1]
    BY DEF Threaded
  <2> QED
    BY <2>1, <2>2
<1>4. head'[j] = list'[j][1] /\ tail'[j] = list'[j][Len(list'[j])] /\ list'[j] # << >>
  BY DEF Threaded
<1> QED
  BY <1>2, <1>3, <1>4 DEF Threaded

\* kunit_enqueue_tail of a packet that is in no list.
LEMMA PutPreserves ==
  ASSUME NullAssumption, IInv, NEW i \in DOMAIN head, NEW s \in Skb, Put(i, s)
  PROVE  IInv'
<1>1. /\ TypeOK /\ Apart
      /\ \A j \in DOMAIN list : Threaded(j)
  BY DEF IInv, ListsRepresent, Apart
<1>2. i \in DOMAIN list /\ DOMAIN list' = DOMAIN list
  BY <1>1 DEF TypeOK, Put
<1>3. \A j \in DOMAIN list : list[j] \in Seq(Skb) /\ Len(list[j]) \in Nat
  BY <1>1 DEF TypeOK
<1>4. \A j \in DOMAIN list : \A k \in 1..Len(list[j]) : list[j][k] # s
  BY QueuedLemma DEF Put
<1>5. \A j \in DOMAIN list : \A k \in 1..Len(list[j]) : list[j][k] \in Skb
  BY <1>3
<1>6. /\ list'[i] = Append(list[i], s)
      /\ \A j \in DOMAIN list : j # i => list'[j] = list[j]
  BY <1>1, <1>2 DEF TypeOK, Put
<1>7. /\ Len(list'[i]) = Len(list[i]) + 1
      /\ list'[i][Len(list[i]) + 1] = s
      /\ \A k \in 1..Len(list[i]) : list'[i][k] = list[i][k]
      /\ list'[i] # << >>
  BY <1>2, <1>3, <1>6
<1>8. /\ tail'[i] = s
      /\ \A j \in DOMAIN list : j # i => head'[j] = head[j] /\ tail'[j] = tail[j]
  BY <1>1, <1>2 DEF TypeOK, Put, PutTail, PutFirst, PutNext
<1>9. TypeOK'
  <2>1. list' \in [DOMAIN list -> Seq(Skb)]
    BY <1>1, <1>2, <1>3 DEF TypeOK, Put
  <2>2. head' \in [DOMAIN list -> Skb \cup {NULL}] /\ tail' \in [DOMAIN list -> Skb \cup {NULL}]
    BY <1>1, <1>2 DEF TypeOK, Put, PutTail, PutFirst, PutNext
  <2>3. next' \in [Skb -> Skb \cup {NULL}]
    BY <1>1, <1>2 DEF TypeOK, Put, PutTail, PutFirst, PutNext, HandedOver
  <2> QED
    BY <2>1, <2>2, <2>3, <1>2 DEF TypeOK
<1>10. Apart'
  <2> SUFFICES ASSUME NEW j \in DOMAIN list, NEW m \in DOMAIN list,
                      NEW k \in 1..Len(list'[j]), NEW l \in 1..Len(list'[m]),
                      list'[j][k] = list'[m][l]
               PROVE  j = m /\ k = l
    BY <1>2 DEF Apart
  <2>1. \A n \in DOMAIN list : \A p \in 1..Len(list'[n]) :
           \/ p \in 1..Len(list[n]) /\ list'[n][p] = list[n][p]
           \/ n = i /\ p = Len(list[i]) + 1 /\ list'[n][p] = s
    <3> TAKE n \in DOMAIN list
    <3> TAKE p \in 1..Len(list'[n])
    <3>1. CASE n # i
      BY <3>1, <1>6
    <3>2. CASE n = i
      <4>1. p \in 1..Len(list[i]) \/ p = Len(list[i]) + 1
        BY <3>2, <1>2, <1>3, <1>7
      <4> QED
        BY <4>1, <3>2, <1>7
    <3> QED
      BY <3>1, <3>2
  <2>2. /\ \/ k \in 1..Len(list[j]) /\ list'[j][k] = list[j][k]
           \/ j = i /\ k = Len(list[i]) + 1 /\ list'[j][k] = s
        /\ \/ l \in 1..Len(list[m]) /\ list'[m][l] = list[m][l]
           \/ m = i /\ l = Len(list[i]) + 1 /\ list'[m][l] = s
    BY <2>1
  <2> QED
    BY <2>2, <1>1, <1>4 DEF Apart
<1>11. \A j \in DOMAIN list : Threaded(j)'
  <2> TAKE j \in DOMAIN list
  <2>1. CASE list[i] = << >>
    <3>1. tail[i] = NULL
      BY <2>1, <1>1, <1>2 DEF Threaded
    <3>2. /\ next'[s] = NULL
          /\ \A p \in Skb : p # s => next'[p] = next[p]
          /\ head'[i] = s
      BY <3>1, <1>1, <1>2 DEF TypeOK, Put, PutTail, PutFirst, PutNext, HandedOver
    <3>3. CASE j = i
      BY <3>2, <3>3, <2>1, <1>7, <1>8 DEF Threaded
    <3>4. CASE j # i /\ list[j] = << >>
      BY <3>4, <1>1, <1>6, <1>8 DEF Threaded
    <3>5. CASE j # i /\ list[j] # << >>
      <4>1. \A k \in 1..Len(list[j]) : next'[list[j][k]] = next[list[j][k]]
        BY <3>2, <1>4, <1>5
      <4> QED
        BY <4>1, <3>5, <1>1, <1>3, <1>6, <1>8, UntouchedLemma
    <3> QED
      BY <3>3, <3>4, <3>5
  <2>2. CASE list[i] # << >>
    <3>1. /\ tail[i] \in Skb /\ tail[i] # NULL
          /\ Len(list[i]) \in 1..Len(list[i])
          /\ tail[i] = list[i][Len(list[i])]
          /\ \A m \in DOMAIN list : \A k \in 1..Len(list[m]) :
                list[m][k] = tail[i] => m = i /\ k = Len(list[i])
      BY <2>2, <1>1, <1>2, TailLemma DEF Threaded
    <3>2. tail[i] # s
      BY <3>1, <1>2, <1>4
    <3>3. /\ next'[s] = NULL /\ next'[tail[i]] = s
          /\ \A p \in Skb : p # s /\ p # tail[i] => next'[p] = next[p]
          /\ head' = head
      BY <3>1, <3>2, <1>1, <1>2 DEF TypeOK, Put, PutTail, PutFirst, PutNext, HandedOver
    <3>4. CASE j = i
      <4>1. head'[i] = list'[i][1]
        BY <3>1, <3>3, <2>2, <1>1, <1>2, <1>3, <1>7 DEF Threaded
      <4>2. \A k \in 1..Len(list[i])-1 : next'[list[i][k]] = list[i][k+1]
        <5> TAKE k \in 1..Len(list[i])-1
        <5>1. k \in 1..Len(list[i]) /\ k # Len(list[i])
          BY <1>2, <1>3
        <5>2. list[i][k] # tail[i] /\ list[i][k] # s /\ list[i][k] \in Skb
          BY <5>1, <3>1, <1>2, <1>4, <1>5
        <5> QED
          BY <5>2, <3>3, <2>2, <1>1, <1>2 DEF Threaded
      <4>3. \A k \in 1..Len(list'[i])-1 : next'[list'[i][k]] = list'[i][k+1]
        <5> TAKE k \in 1..Len(list'[i])-1
        <5>1. \/ k \in 1..Len(list[i])-1 /\ k + 1 \in 1..Len(list[i]) /\ k \in 1..Len(list[i])
              \/ k = Len(list[i])
          BY <1>2, <1>3, <1>7
        <5> QED
          BY <5>1, <4>2, <3>1, <3>3, <1>7
      <4> QED
        BY <4>1, <4>3, <3>3, <3>4, <1>7, <1>8 DEF Threaded
    <3>5. CASE j # i /\ list[j] = << >>
      BY <3>3, <3>5, <1>1, <1>6, <1>8 DEF Threaded
    <3>6. CASE j # i /\ list[j] # << >>
      <4>1. \A k \in 1..Len(list[j]) : next'[list[j][k]] = next[list[j][k]]
        BY <3>1, <3>3, <3>6, <1>4, <1>5
      <4> QED
        BY <4>1, <3>6, <1>1, <1>3, <1>6, <1>8, UntouchedLemma
    <3> QED
      BY <3>4, <3>5, <3>6
  <2> QED
    BY <2>1, <2>2
<1> QED
  BY <1>2, <1>9, <1>10, <1>11 DEF IInv, ListsRepresent, Apart

\* kunit_dequeue_head of a list that is threaded takes its first packet.
LEMMA TakePreserves ==
  ASSUME NullAssumption, IInv, NEW i \in DOMAIN head, Take(i)
  PROVE  IInv'
<1>1. /\ TypeOK /\ Apart
      /\ \A j \in DOMAIN list : Threaded(j)
  BY DEF IInv, ListsRepresent, Apart
<1>2. i \in DOMAIN list /\ DOMAIN list' = DOMAIN list
  BY <1>1 DEF TypeOK, Take
<1>3. \A j \in DOMAIN list : list[j] \in Seq(Skb) /\ Len(list[j]) \in Nat
  BY <1>1 DEF TypeOK
<1>4. list[i] # << >>
  BY <1>1, <1>2 DEF Threaded, Take, TakeHead
<1>5. /\ Len(list[i]) \in 1..Len(list[i])
      /\ tail[i] \in Skb /\ head[i] \in Skb
      /\ head[i] = list[i][1] /\ tail[i] = list[i][Len(list[i])]
      /\ next[tail[i]] = NULL
      /\ \A k \in 1..Len(list[i])-1 : next[list[i][k]] = list[i][k+1]
  BY <1>1, <1>2, <1>4, TailLemma DEF Threaded
<1>6. /\ list'[i] = Tail(list[i])
      /\ next' = next
      /\ \A j \in DOMAIN list : j # i =>
            list'[j] = list[j] /\ head'[j] = head[j] /\ tail'[j] = tail[j]
  BY <1>1, <1>2 DEF TypeOK, Take, TakeHead
<1>7. /\ list'[i] \in Seq(Skb)
      /\ Len(list'[i]) = Len(list[i]) - 1
      /\ \A k \in 1..Len(list'[i]) : list'[i][k] = list[i][k+1]
  BY <1>2, <1>3, <1>4, <1>6
<1>8. /\ head'[i] = next[head[i]]
      /\ tail'[i] = IF next[head[i]] = NULL THEN NULL ELSE tail[i]
  BY <1>1, <1>2 DEF TypeOK, Take, TakeHead
<1>9. TypeOK'
  <2>1. list' \in [DOMAIN list -> Seq(Skb)]
    BY <1>1, <1>2, <1>6, <1>7 DEF TypeOK, Take
  <2>2. next[head[i]] \in Skb \cup {NULL}
    BY <1>1, <1>5 DEF TypeOK
  <2>3. head' \in [DOMAIN list -> Skb \cup {NULL}] /\ tail' \in [DOMAIN list -> Skb \cup {NULL}]
    BY <1>1, <1>2, <2>2 DEF TypeOK, Take, TakeHead
  <2> QED
    BY <2>1, <2>3, <1>1, <1>2, <1>6 DEF TypeOK
<1>10. \A n \in DOMAIN list : \A p \in 1..Len(list'[n]) :
          \/ n # i /\ p \in 1..Len(list[n]) /\ list'[n][p] = list[n][p]
          \/ n = i /\ p + 1 \in 1..Len(list[i]) /\ list'[n][p] = list[i][p+1]
  <2> TAKE n \in DOMAIN list
  <2> TAKE p \in 1..Len(list'[n])
  <2>1. CASE n # i
    BY <2>1, <1>6
  <2>2. CASE n = i
    <3>1. p + 1 \in 1..Len(list[i])
      BY <2>2, <1>2, <1>3, <1>7
    <3> QED
      BY <3>1, <2>2, <1>7
  <2> QED
    BY <2>1, <2>2
<1>11. Apart'
  <2> SUFFICES ASSUME NEW j \in DOMAIN list, NEW m \in DOMAIN list,
                      NEW k \in 1..Len(list'[j]), NEW l \in 1..Len(list'[m]),
                      list'[j][k] = list'[m][l]
               PROVE  j = m /\ k = l
    BY <1>2 DEF Apart
  <2>1. /\ \/ j # i /\ k \in 1..Len(list[j]) /\ list'[j][k] = list[j][k]
           \/ j = i /\ k + 1 \in 1..Len(list[i]) /\ list'[j][k] = list[i][k+1]
        /\ \/ m # i /\ l \in 1..Len(list[m]) /\ list'[m][l] = list[m][l]
           \/ m = i /\ l + 1 \in 1..Len(list[i]) /\ list'[m][l] = list[i][l+1]
    BY <1>10
  <2>2. k \in Nat /\ l \in Nat
    BY <1>2, <1>9 DEF TypeOK
  <2> QED
    BY <2>1, <2>2, <1>1, <1>2 DEF Apart
<1>12. \A j \in DOMAIN list : Threaded(j)'
  <2> TAKE j \in DOMAIN list
  <2>1. CASE j # i
    BY <2>1, <1>1, <1>6 DEF Threaded
  <2>2. CASE j = i /\ Len(list[i]) = 1
    <3>1. next[head[i]] = NULL /\ list'[i] = << >>
      BY <2>2, <1>5, <1>7
    <3> QED
      BY <3>1, <2>2, <1>8 DEF Threaded
  <2>3. CASE j = i /\ Len(list[i]) > 1
    <3>1. Len(list[i]) \in Nat
      BY <1>2, <1>3
    <3>2. /\ 1 \in 1..Len(list[i])-1 /\ 2 \in 1..Len(list[i])
          /\ 1 \in 1..Len(list'[i]) /\ Len(list'[i]) \in 1..Len(list'[i])
      <4>1. Len(list'[i]) = Len(list[i]) - 1
        BY <1>7
      <4> QED
        BY <2>3, <3>1, <4>1
    <3>3. next[head[i]] = list[i][2] /\ list[i][2] \in Skb
      BY <3>2, <1>2, <1>3, <1>5
    <3>4. head'[i] = list'[i][1] /\ tail'[i] = tail[i]
      BY <3>2, <3>3, <1>7, <1>8 DEF NullAssumption
    <3>5. tail'[i] = list'[i][Len(list'[i])] /\ next'[tail'[i]] = NULL
      BY <2>3, <3>1, <3>2, <3>4, <1>5, <1>6, <1>7
    <3>6. \A k \in 1..Len(list'[i])-1 : next'[list'[i][k]] = list'[i][k+1]
      <4> TAKE k \in 1..Len(list'[i])-1
      <4>1. /\ k \in 1..Len(list'[i]) /\ k + 1 \in 1..Len(list'[i])
            /\ k + 1 \in 1..Len(list[i])-1
        BY <2>3, <3>1, <1>7
      <4> QED
        BY <4>1, <1>5, <1>6, <1>7
    <3> QED
      BY <3>2, <3>4, <3>5, <3>6, <2>3 DEF Threaded
  <2>4. Len(list[i]) = 1 \/ Len(list[i]) > 1
    <3>1. Len(list[i]) \in Nat /\ Len(list[i]) >= 1
      BY <1>2, <1>3, <1>5
    <3>2. \A n \in Nat : n >= 1 => n = 1 \/ n > 1
      OBVIOUS
    <3> QED
      BY <3>1, <3>2
  <2> QED
    BY <2>1, <2>2, <2>3, <2>4
<1> QED
  BY <1>2, <1>9, <1>11, <1>12 DEF IInv, ListsRepresent, Apart
--------------------------------------------------------------------------------
\* Every reachable state of the lists is typed and represented by its pointers,
\* through every order of kunit_enqueue_tail, kunit_dequeue_head and
\* kunit_skb_head_init.
THEOREM Invariance == ASSUME NullAssumption PROVE Spec => []IInv
<1>1. Init => IInv
  BY InitIInv
<1>2. IInv /\ [Next]_vars => IInv'
  <2> SUFFICES ASSUME IInv, [Next]_vars PROVE IInv'
    OBVIOUS
  <2>1. CASE UNCHANGED vars
    BY <2>1 DEF vars, pointers, IInv, TypeOK, ListsRepresent, Threaded
  <2>2. ASSUME NEW i \in DOMAIN head, NEW s \in Skb, Put(i, s) PROVE IInv'
    BY <2>2, PutPreserves
  <2>3. ASSUME NEW i \in DOMAIN head, Take(i) PROVE IInv'
    BY <2>3, TakePreserves
  <2>4. ASSUME NEW i \in DOMAIN head, Clear(i) PROVE IInv'
    BY <2>4, ClearPreserves
  <2>5. ASSUME NEW N \in SUBSET Nodes, Build(N) PROVE IInv'
    BY <2>5, EmptyLemma DEF Build, IInv
  <2> QED
    BY <2>1, <2>2, <2>3, <2>4, <2>5 DEF Next
<1> QED
  BY <1>1, <1>2, PTL DEF Spec

\* The lists of sch_kfifo.h hold the packets put in them, each once, in the order
\* kunit_dequeue_head takes them.
THEOREM ListsCorrect == ASSUME NullAssumption PROVE Spec => []ListsRepresent
<1>1. IInv => ListsRepresent
  BY DEF IInv
<1> QED
  BY <1>1, Invariance, PTL
================================================================================
