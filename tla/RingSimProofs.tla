----------------------------- MODULE RingSimProofs -----------------------------
(***************************************************************************)
(* Proofs about the simulated time ring, module RingSim.                    *)
(*                                                                          *)
(* The ring is looked at from now_postion on: position k of the view is the *)
(* slot sent after k moves of the pointer.  The invariant has two parts.    *)
(* RingOK relates the charge, the bytes up to each position and the level   *)
(* of the bucket; AgesOK bounds the age of a packet by its position and     *)
(* orders the packets.  in_ring's loop is a fold: FoldRuns says that it has *)
(* a result, and an induction over the packets taken that the invariant     *)
(* holds of it.                                                             *)
(***************************************************************************)
EXTENDS RingSim, SumTheorems

--------------------------------------------------------------------------------
(***************************************************************************)
(* The bytes of a list of packets                                           *)
(***************************************************************************)
Part(s) == [i \in 1..Len(s) |-> s[i].len]

LEMMA PacketLemma ==
  ASSUME NEW s \in Seq(Packet)
  PROVE  /\ Len(s) \in Nat /\ DOMAIN s = 1..Len(s)
         /\ \A i \in 1..Len(s) : s[i] \in Packet /\ s[i].len \in Nat \ {0} /\ s[i].age \in Nat
<1>1. \A p \in Packet : p.len \in Nat \ {0} /\ p.age \in Nat
  BY RingSimAssumption DEF Packet
<1> QED
  BY <1>1

LEMMA BytesSum ==
  ASSUME NEW s \in Seq(Packet)
  PROVE  /\ Bytes(s) = SumFunctionOnSet(Part(s), 1..Len(s))
         /\ Bytes(s) \in Nat
<1> DEFINE n == Len(s)
           f == Part(s)
           F(g) == g = [t \in SUBSET (DOMAIN s) |-> IF t = {} THEN 0
                           ELSE g[t \ {Max(t)}] + s[Max(t)].len]
<1>1. n \in Nat /\ DOMAIN s = 1..n /\ \A j \in 1..n : s[j].len \in Nat
  BY PacketLemma
<1>2. \A j \in 1..n : f[j] \in Nat /\ f[j] = s[j].len
  BY <1>1 DEF Part
<1>3. Bytes(s) = (CHOOSE g : F(g))[DOMAIN s]
  BY DEF Bytes, FoldLeft, MapThenFoldSet
<1> HIDE DEF f
<1>4. ASSUME NEW g PROVE F(g) <=> SeqFoldEq(g, f, n)
  <2>1. \A t \in SUBSET (1..n) : t # {} => f[Max(t)] = s[Max(t)].len
    BY <1>1, <1>2, MaxPicks
  <2> HIDE DEF n
  <2>2. [t \in SUBSET (1..n) |-> IF t = {} THEN 0 ELSE g[t \ {Max(t)}] + s[Max(t)].len]
          = [t \in SUBSET (1..n) |-> IF t = {} THEN 0 ELSE g[t \ {Max(t)}] + f[Max(t)]]
    BY <2>1
  <2> QED
    BY <1>1, <2>2 DEF SeqFoldEq
<1>5. \A j \in 1..n : f[j] \in Int
  BY <1>2
<1> HIDE DEF n, F
<1>6. /\ \E g : SeqFoldEq(g, f, n)
      /\ \A g : SeqFoldEq(g, f, n) => g[1..n] = SumFunctionOnSet(f, 1..n)
  BY <1>1, <1>5, SeqFoldIsSum
<1>7. F(CHOOSE g : F(g))
  BY <1>4, <1>6
<1>8. Bytes(s) = SumFunctionOnSet(f, 1..n)
  BY <1>1, <1>3, <1>4, <1>6, <1>7
<1>9. IsFiniteSet(1..n)
  BY <1>1, FS_Interval
<1>10. SumFunctionOnSet(f, 1..n) \in Nat
  BY <1>2, <1>9, SumOfNat
<1> QED
  BY <1>8, <1>10 DEF n, f

LEMMA BytesEmpty == Bytes(<< >>) = 0
<1>1. << >> \in Seq(Packet) /\ Len(<< >>) = 0 /\ 1..0 = {}
  OBVIOUS
<1>2. Bytes(<< >>) = SumFunctionOnSet(Part(<< >>), {})
  BY <1>1, BytesSum
<1>3. IsFiniteSet({})
  BY FS_EmptySet
<1> QED
  BY <1>2, <1>3, SumStep

LEMMA BytesAppend ==
  ASSUME NEW s \in Seq(Packet), NEW p \in Packet
  PROVE  Bytes(Append(s, p)) = Bytes(s) + p.len
<1> DEFINE n == Len(s)
           s2 == Append(s, p)
<1>1. /\ n \in Nat /\ s2 \in Seq(Packet) /\ Len(s2) = n+1 /\ s2[n+1] = p
      /\ \A j \in 1..n : s2[j] = s[j]
  OBVIOUS
<1> HIDE DEF s2
<1>2. /\ Bytes(s2) = SumFunctionOnSet(Part(s2), 1..n+1)
      /\ Bytes(s) = SumFunctionOnSet(Part(s), 1..n)
  BY <1>1, BytesSum
<1>3. /\ \A j \in 1..n+1 : Part(s2)[j] \in Int /\ Part(s2)[j] = s2[j].len
      /\ \A j \in 1..n : Part(s)[j] \in Int /\ Part(s)[j] = Part(s2)[j]
  BY <1>1, PacketLemma DEF Part
<1> HIDE DEF n
<1>4. SumFunctionOnSet(Part(s2), 1..n+1) = SumFunctionOnSet(Part(s2), 1..n) + Part(s2)[n+1]
  BY <1>1, <1>3, SumAppend
<1>5. SumFunctionOnSet(Part(s), 1..n) = SumFunctionOnSet(Part(s2), 1..n)
  <2>1. n \in Int
    BY <1>1
  <2>2. IsFiniteSet(1..n)
    BY ONLY <2>1, FS_Interval
  <2> QED
    BY <1>3, <2>2, SumEqual
<1>6. Part(s2)[n+1] = p.len
  <2>1. n+1 \in 1..n+1
    BY <1>1
  <2> QED
    BY <1>1, <1>3, <2>1
<1> QED
  BY <1>2, <1>4, <1>5, <1>6 DEF s2

LEMMA BytesOne ==
  ASSUME NEW p \in Packet
  PROVE  <<p>> \in Seq(Packet) /\ Bytes(<<p>>) = p.len
<1>1. << >> \in Seq(Packet) /\ <<p>> = Append(<< >>, p)
  OBVIOUS
<1>2. Bytes(<<p>>) = 0 + p.len
  BY <1>1, BytesAppend, BytesEmpty
<1>3. p.len \in Nat
  BY RingSimAssumption DEF Packet
<1> QED
  BY <1>2, <1>3

\* Lists of the same lengths.
LEMMA BytesSame ==
  ASSUME NEW s \in Seq(Packet), NEW t \in Seq(Packet), Len(s) = Len(t),
         \A i \in 1..Len(s) : s[i].len = t[i].len
  PROVE  Bytes(s) = Bytes(t)
<1>1. Part(s) = Part(t)
  BY DEF Part
<1> QED
  BY <1>1, BytesSum

LEMMA BytesConcat ==
  ASSUME NEW s \in Seq(Packet), NEW t \in Seq(Packet)
  PROVE  Bytes(s \o t) = Bytes(s) + Bytes(t)
<1> DEFINE Pre(i) == SubSeq(t, 1, i)
           P == {i \in Nat : i <= Len(t) => Bytes(s \o Pre(i)) = Bytes(s) + Bytes(Pre(i))}
<1>0. Bytes(s) \in Nat
  BY BytesSum
<1>1. 0 \in P
  <2>1. Pre(0) = << >> /\ s \o << >> = s
    BY SubSeqEmpty, ConcatEmptySeq
  <2>2. Bytes(s \o Pre(0)) = Bytes(s) + Bytes(Pre(0))
    <3>1. Bytes(s) = Bytes(s) + Bytes(<< >>)
      BY <1>0, BytesEmpty
    <3> QED
      BY ONLY <2>1, <3>1
  <2> QED
    BY <2>2
<1>2. ASSUME NEW i \in Nat, i \in P PROVE i+1 \in P
  <2> SUFFICES ASSUME i+1 <= Len(t)
               PROVE  Bytes(s \o Pre(i+1)) = Bytes(s) + Bytes(Pre(i+1))
    OBVIOUS
  <2>1. /\ Pre(i) \in Seq(Packet) /\ Pre(i+1) \in Seq(Packet) /\ t[i+1] \in Packet
        /\ Len(Pre(i)) = i /\ Len(Pre(i+1)) = i+1
        /\ \A j \in 1..i : Pre(i)[j] = t[j]
        /\ \A j \in 1..i+1 : Pre(i+1)[j] = t[j]
    OBVIOUS
  <2> HIDE DEF Pre
  <2>2. Pre(i+1) = Append(Pre(i), t[i+1])
    BY <2>1
  <2>3. s \o Append(Pre(i), t[i+1]) = Append(s \o Pre(i), t[i+1]) /\ s \o Pre(i) \in Seq(Packet)
    BY <2>1
  <2>4. Bytes(s \o Pre(i+1)) = Bytes(s \o Pre(i)) + t[i+1].len
    BY <2>1, <2>2, <2>3, BytesAppend
  <2>5. Bytes(Pre(i+1)) = Bytes(Pre(i)) + t[i+1].len
    BY <2>1, <2>2, BytesAppend
  <2>6. Bytes(s \o Pre(i)) = Bytes(s) + Bytes(Pre(i))
    BY <1>2
  <2>7. Bytes(Pre(i)) \in Nat /\ t[i+1].len \in Nat
    BY <2>1, BytesSum, PacketLemma
  <2> QED
    BY <1>0, <2>4, <2>5, <2>6, <2>7
<1> HIDE DEF P
<1>3. Len(t) \in P
  BY <1>1, <1>2, NatSetInduction
<1>4. Pre(Len(t)) = t /\ Len(t) \in Nat /\ Len(t) <= Len(t)
  BY SubSeqFull
<1>5. Bytes(s \o Pre(Len(t))) = Bytes(s) + Bytes(Pre(Len(t)))
  BY <1>3, <1>4 DEF P
<1> QED
  BY <1>4, <1>5
--------------------------------------------------------------------------------
(***************************************************************************)
(* The ring from now_postion on                                             *)
(***************************************************************************)
Place == 1..BLOCK
Ring == [Place -> Seq(Packet)]

\* The slots q in the order in which a pointer at p comes to them.
At(p, k) == (p + k - 1) % BLOCK
View(q, p) == [k \in Place |-> q[At(p, k)]]

LEMMA AtLemma ==
  ASSUME NEW p \in Slot, NEW k \in Place
  PROVE  At(p, k) = IF p + k - 1 < BLOCK THEN p + k - 1 ELSE p + k - 1 - BLOCK
<1>1. BLOCK \in Nat \ {0} /\ p \in 0..BLOCK-1 /\ k \in 1..BLOCK
  BY RingSimAssumption DEF Slot, Place
<1> QED
  BY <1>1 DEF At

LEMMA NextLemma ==
  ASSUME NEW p \in Slot
  PROVE  (p + 1) % BLOCK = IF p + 1 < BLOCK THEN p + 1 ELSE 0
<1>1. BLOCK \in Nat \ {0} /\ p \in 0..BLOCK-1
  BY RingSimAssumption DEF Slot
<1>2. PICK x \in 0..2*BLOCK-1 : x = p + 1
  BY <1>1
<1>3. x % BLOCK = IF x < BLOCK THEN x ELSE x - BLOCK
  BY ONLY <1>1
<1> QED
  BY ONLY <1>1, <1>2, <1>3

LEMMA SlotLemma ==
  ASSUME NEW p \in Slot
  PROVE  /\ \A k \in Place : At(p, k) \in Slot /\ cal_interval(p, At(p, k)) = k - 1
         /\ \A i \in Slot : cal_interval(p, i) \in 0..BLOCK-1 /\ At(p, cal_interval(p, i) + 1) = i
         /\ \A k \in Place, l \in Place : At(p, k) = At(p, l) => k = l
<1>1. BLOCK \in Nat \ {0} /\ p \in 0..BLOCK-1
  BY RingSimAssumption DEF Slot
<1>3. ASSUME NEW k \in Place
      PROVE  /\ At(p, k) = IF p + k - 1 < BLOCK THEN p + k - 1 ELSE p + k - 1 - BLOCK
             /\ k \in Nat /\ k >= 1 /\ k <= BLOCK
  BY <1>1, AtLemma DEF Place
<1>4. \A k \in Place : At(p, k) \in Slot /\ cal_interval(p, At(p, k)) = k - 1
  BY <1>1, <1>3 DEF Slot, cal_interval
<1>5. ASSUME NEW i \in Slot
      PROVE  cal_interval(p, i) \in 0..BLOCK-1 /\ At(p, cal_interval(p, i) + 1) = i
  <2>1. cal_interval(p, i) \in 0..BLOCK-1
    BY <1>1 DEF cal_interval, Slot
  <2>2. cal_interval(p, i) + 1 \in Place
    BY <1>1, <2>1 DEF Place
  <2> QED
    BY <1>1, <1>3, <2>1, <2>2 DEF Slot, cal_interval
<1>6. \A k \in Place, l \in Place : At(p, k) = At(p, l) => k = l
  BY <1>1, <1>3
<1> QED
  BY <1>4, <1>5, <1>6

\* A function changed at one point.
With(f, x, v) == [f EXCEPT ![x] = v]

\* One slot changed.
LEMMA ViewExcept ==
  ASSUME NEW p \in Slot, NEW q \in [Slot -> Seq(Packet)], NEW k \in Place,
         NEW s \in Seq(Packet)
  PROVE  /\ View(q, p) \in Ring
         /\ View(With(q, At(p, k), s), p) = With(View(q, p), k, s)
         /\ With(q, At(p, k), s) \in [Slot -> Seq(Packet)]
<1>1. \A l \in Place : At(p, l) \in Slot /\ (At(p, l) = At(p, k) => l = k)
  BY SlotLemma
<1>2. View(q, p) \in Ring
  BY <1>1 DEF View, Ring
<1> DEFINE q2 == With(q, At(p, k), s)
<1>3. \A l \in Place : q2[At(p, l)] = IF l = k THEN s ELSE q[At(p, l)]
  BY <1>1 DEF With
<1>4. View(q2, p) = [l \in Place |-> IF l = k THEN s ELSE q[At(p, l)]]
  <2> HIDE DEF q2
  <2> QED
    BY <1>3 DEF View
<1>5. With(View(q, p), k, s) = [l \in Place |-> IF l = k THEN s ELSE q[At(p, l)]]
  BY DEF View, With
<1>6. With(q, At(p, k), s) \in [Slot -> Seq(Packet)]
  BY DEF With
<1> QED
  BY <1>2, <1>4, <1>5, <1>6

\* The pointer moves on.
LEMMA ViewNext ==
  ASSUME NEW p \in Slot, NEW q \in [Slot -> Seq(Packet)]
  PROVE  /\ (p + 1) % BLOCK \in Slot
         /\ View(q, (p + 1) % BLOCK)
              = [k \in Place |-> IF k < BLOCK THEN View(q, p)[k + 1] ELSE View(q, p)[1]]
         /\ \A i \in Slot : i # p =>
              cal_interval((p + 1) % BLOCK, i) = cal_interval(p, i) - 1
         /\ cal_interval((p + 1) % BLOCK, (p + 1) % BLOCK) = 0
<1>1. BLOCK \in Nat \ {0} /\ p \in 0..BLOCK-1 /\ p \in Nat
  BY RingSimAssumption DEF Slot
<1> DEFINE n == (p + 1) % BLOCK
<1>3. n = IF p + 1 < BLOCK THEN p + 1 ELSE 0
  BY NextLemma
<1>4. n \in Slot
  BY <1>1, <1>3 DEF Slot
<1> HIDE DEF n
<1>5. ASSUME NEW k \in Place
      PROVE  At(n, k) = IF k < BLOCK THEN At(p, k + 1) ELSE At(p, 1)
  <2>1. k \in 1..BLOCK /\ n \in 0..BLOCK-1
    BY <1>4 DEF Place, Slot
  <2>2. 1 \in Place /\ (k < BLOCK => k + 1 \in Place)
    BY <1>1, <2>1 DEF Place
  <2>3. /\ At(n, k) = IF n + k - 1 < BLOCK THEN n + k - 1 ELSE n + k - 1 - BLOCK
        /\ At(p, 1) = p
        /\ k < BLOCK => At(p, k + 1) = IF p + k < BLOCK THEN p + k ELSE p + k - BLOCK
    BY <1>1, <1>4, <2>1, <2>2, AtLemma
  <2>4. CASE k < BLOCK
    BY <1>1, <1>3, <2>1, <2>3, <2>4
  <2>5. CASE k = BLOCK
    BY <1>1, <1>3, <2>1, <2>3, <2>5
  <2> QED
    BY <1>1, <2>1, <2>4, <2>5
<1>6. View(q, n) = [k \in Place |-> IF k < BLOCK THEN View(q, p)[k + 1] ELSE View(q, p)[1]]
  <2>1. ASSUME NEW k \in Place
        PROVE  q[At(n, k)] = IF k < BLOCK THEN View(q, p)[k + 1] ELSE View(q, p)[1]
    <3>1. 1 \in Place /\ (k < BLOCK => k + 1 \in Place)
      BY <1>1 DEF Place
    <3> QED
      BY <1>5, <3>1 DEF View
  <2> QED
    BY <2>1 DEF View
<1>7. \A i \in Slot : i # p => cal_interval(n, i) = cal_interval(p, i) - 1
  BY <1>1, <1>3 DEF Slot, cal_interval
<1>8. cal_interval(n, n) = 0
  BY <1>1, <1>4 DEF Slot, cal_interval
<1> QED
  BY <1>4, <1>6, <1>7, <1>8 DEF n

\* The bytes in the first k places.
Weight(a) == [k \in Place |-> Bytes(a[k])]
Upto(a, k) == SumFunctionOnSet(Weight(a), 1..k)

LEMMA UptoLemma ==
  ASSUME NEW a \in Ring
  PROVE  /\ \A k \in Place : Weight(a)[k] = Bytes(a[k]) /\ Bytes(a[k]) \in Nat
         /\ \A k \in 0..BLOCK : Upto(a, k) \in Nat
         /\ Upto(a, 0) = 0
         /\ \A k \in 0..BLOCK-1 : Upto(a, k+1) = Upto(a, k) + Bytes(a[k+1])
         /\ \A k \in 0..BLOCK : Upto(a, k) <= Upto(a, BLOCK)
<1>0. BLOCK \in Nat \ {0}
  BY RingSimAssumption
<1>1. \A k \in Place : Weight(a)[k] = Bytes(a[k]) /\ Bytes(a[k]) \in Nat
  BY BytesSum DEF Weight, Ring
<1>2. ASSUME NEW k \in 0..BLOCK
      PROVE  IsFiniteSet(1..k) /\ \A j \in 1..k : Weight(a)[j] \in Nat
  <2>1. k \in Int /\ \A j \in 1..k : j \in Place
    BY <1>0 DEF Place
  <2>2. IsFiniteSet(1..k)
    BY ONLY <2>1, FS_Interval
  <2> QED
    BY <1>1, <2>1, <2>2
<1>3. ASSUME NEW k \in 0..BLOCK PROVE Upto(a, k) \in Nat
  BY <1>2, SumOfNat DEF Upto
<1>4. Upto(a, 0) = 0
  <2>1. 1..0 = {} /\ IsFiniteSet({})
    BY FS_EmptySet
  <2> QED
    BY <2>1, SumStep DEF Upto
<1>5. ASSUME NEW k \in 0..BLOCK-1 PROVE Upto(a, k+1) = Upto(a, k) + Bytes(a[k+1])
  <2>1. k \in Nat /\ k+1 \in 0..BLOCK /\ k+1 \in Place
    BY <1>0 DEF Place
  <2>2. \A j \in 1..k+1 : Weight(a)[j] \in Int
    BY <1>2, <2>1
  <2>3. SumFunctionOnSet(Weight(a), 1..k+1) = SumFunctionOnSet(Weight(a), 1..k) + Weight(a)[k+1]
    BY <2>1, <2>2, SumAppend
  <2> QED
    BY <1>1, <2>1, <2>3 DEF Upto
<1>6. ASSUME NEW k \in 0..BLOCK PROVE Upto(a, k) <= Upto(a, BLOCK)
  <2> DEFINE P == {i \in Nat : k + i <= BLOCK => Upto(a, k) <= Upto(a, k+i)}
  <2>1. 0 \in P
    BY <1>3
  <2>2. ASSUME NEW i \in Nat, i \in P PROVE i+1 \in P
    <3> SUFFICES ASSUME k + (i+1) <= BLOCK PROVE Upto(a, k) <= Upto(a, k+(i+1))
      OBVIOUS
    <3>1. /\ k+i \in 0..BLOCK-1 /\ k+i \in 0..BLOCK /\ k+(i+1) = (k+i)+1 /\ k+i <= BLOCK
          /\ (k+i)+1 \in Place
      BY <1>0 DEF Place
    <3>2. Upto(a, k+(i+1)) = Upto(a, k+i) + Bytes(a[(k+i)+1]) /\ Bytes(a[(k+i)+1]) \in Nat
      BY <1>1, <1>5, <3>1
    <3>3. Upto(a, k) <= Upto(a, k+i) /\ Upto(a, k) \in Nat /\ Upto(a, k+i) \in Nat
      BY <1>3, <2>2, <3>1
    <3> QED
      BY <3>2, <3>3
  <2> HIDE DEF P
  <2>3. BLOCK - k \in P
    <3>1. BLOCK - k \in Nat
      BY <1>0
    <3> QED
      BY <2>1, <2>2, <3>1, NatSetInduction
  <2>4. k + (BLOCK - k) = BLOCK
    BY <1>0
  <2> QED
    BY <2>3, <2>4 DEF P
<1> QED
  BY <1>1, <1>3, <1>4, <1>5, <1>6

\* One place changed.
LEMMA UptoExcept ==
  ASSUME NEW a \in Ring, NEW k \in Place, NEW s \in Seq(Packet)
  PROVE  /\ With(a, k, s) \in Ring
         /\ \A j \in 0..BLOCK : Upto(With(a, k, s), j)
              = IF j < k THEN Upto(a, j) ELSE Upto(a, j) - Bytes(a[k]) + Bytes(s)
<1> DEFINE b == With(a, k, s)
<1>0. BLOCK \in Nat \ {0} /\ k \in 1..BLOCK
  BY RingSimAssumption DEF Place
<1>1. b \in Ring /\ b[k] = s /\ \A j \in Place \ {k} : b[j] = a[j]
  BY DEF Ring, With
<1> HIDE DEF b
<1>2. /\ \A j \in Place : Weight(a)[j] = Bytes(a[j]) /\ Bytes(a[j]) \in Nat
      /\ \A j \in Place : Weight(b)[j] = Bytes(b[j]) /\ Bytes(b[j]) \in Nat
  BY <1>1, UptoLemma
<1>3. ASSUME NEW j \in 0..BLOCK
      PROVE  Upto(b, j) = IF j < k THEN Upto(a, j) ELSE Upto(a, j) - Bytes(a[k]) + Bytes(s)
  <2>1. j \in Int /\ \A i \in 1..j : i \in Place
    BY <1>0 DEF Place
  <2>2. IsFiniteSet(1..j)
    BY ONLY <2>1, FS_Interval
  <2>3. /\ \A i \in 1..j : Weight(a)[i] \in Int
        /\ \A i \in 1..j : Weight(b)[i] \in Int
        /\ \A i \in (1..j) \ {k} : Weight(b)[i] = Weight(a)[i]
    BY <1>1, <1>2, <2>1
  <2>4. CASE j < k
    <3>1. \A i \in 1..j : Weight(a)[i] = Weight(b)[i]
      BY <1>0, <2>3, <2>4
    <3>2. SumFunctionOnSet(Weight(a), 1..j) = SumFunctionOnSet(Weight(b), 1..j)
      BY <2>2, <2>3, <3>1, SumEqual
    <3> QED
      BY <2>4, <3>2 DEF Upto
  <2>5. CASE ~(j < k)
    <3>1. k \in 1..j
      BY <1>0, <2>5
    <3>2. SumFunctionOnSet(Weight(b), 1..j)
            = SumFunctionOnSet(Weight(a), 1..j) - Weight(a)[k] + Weight(b)[k]
      <4>1. PICK f, g : f = Weight(a) /\ g = Weight(b)
        OBVIOUS
      <4>2. /\ \A i \in 1..j : f[i] \in Int
            /\ \A i \in 1..j : g[i] \in Int
            /\ \A i \in (1..j) \ {k} : g[i] = f[i]
        BY <2>3, <4>1
      <4>3. SumFunctionOnSet(g, 1..j) = SumFunctionOnSet(f, 1..j) - f[k] + g[k]
        BY ONLY <2>2, <3>1, <4>2, SumExcept
      <4> QED
        BY <4>1, <4>3
    <3> QED
      BY <1>1, <1>2, <2>5, <3>2 DEF Upto
  <2> QED
    BY <2>4, <2>5
<1> QED
  BY <1>1, <1>3 DEF b
--------------------------------------------------------------------------------
(***************************************************************************)
(* The charge, the bytes and the level                                      *)
(***************************************************************************)
\* a is the ring from now_postion on, d the distance of pre_pointer.
RingOK(a, d, tot, gone, turned, lev) ==
  /\ a \in Ring /\ d \in 0..BLOCK-1 /\ tot \in Nat /\ gone \in Nat /\ turned \in BOOLEAN
  /\ tot * BLOCK < CAP * (BLOCK + 1)
  /\ tot = Upto(a, BLOCK) + gone
  /\ ~turned =>
       /\ gone = 0 /\ tot < CAP
       /\ \A k \in d+2..BLOCK : a[k] = << >>
       /\ \A k \in 0..BLOCK : lev + BLOCK * Upto(a, k) <= CAP * (k + BLOCK - 1)

LEMMA Monotone ==
  ASSUME NEW x \in Int, NEW y \in Int, x <= y, NEW c \in Nat
  PROVE  c * x <= c * y
OBVIOUS

LEMMA Quotient ==
  ASSUME NEW x \in Nat, NEW c \in Nat \ {0}
  PROVE  x \div c \in Nat /\ c * (x \div c) <= x /\ x < c * (x \div c + 1)
OBVIOUS

\* What the place of a packet says of the charge with it.
LEMMA ChargeLemma ==
  ASSUME NEW tot \in Nat, NEW len \in Nat
  PROVE  /\ IntervalBlock(len, tot) \in Nat
         /\ \A k \in Nat : k > IntervalBlock(len, tot) => BLOCK * (tot + len) < CAP * k
         /\ IntervalBlock(len, tot) < BLOCK => tot + len < CAP
<1> DEFINE x == (len + tot) * BLOCK
           w == IntervalBlock(len, tot)
<1>1. BLOCK \in Nat \ {0} /\ CAP \in Nat \ {0} /\ x \in Nat /\ x = BLOCK * (tot + len)
  BY RingSimAssumption
<1>2. w = x \div CAP
  BY DEF IntervalBlock
<1> HIDE DEF x, w
<1>3. w \in Nat /\ x < CAP * (w + 1)
  BY <1>1, <1>2, Quotient
<1>4. ASSUME NEW k \in Nat, k > w PROVE x < CAP * k
  <2>1. CAP * (w + 1) <= CAP * k
    BY <1>1, <1>3, <1>4, Monotone
  <2>2. CAP * (w + 1) \in Nat /\ CAP * k \in Nat
    BY <1>1, <1>3
  <2> QED
    BY <1>1, <1>3, <2>1, <2>2
<1>5. ASSUME w < BLOCK PROVE tot + len < CAP
  <2>1. BLOCK * (tot + len) < CAP * BLOCK
    BY <1>1, <1>4, <1>5
  <2> SUFFICES ASSUME tot + len >= CAP PROVE FALSE
    BY <1>1
  <2>2. BLOCK * CAP <= BLOCK * (tot + len)
    BY <1>1, Monotone
  <2>3. BLOCK * CAP = CAP * BLOCK /\ BLOCK * CAP \in Nat /\ BLOCK * (tot + len) \in Nat
    BY <1>1
  <2> QED
    BY <2>1, <2>2, <2>3
<1> QED
  BY <1>1, <1>3, <1>4, <1>5 DEF w

\* A packet put at position k, not before the place its charge gives it.
LEMMA PlacedLevel ==
  ASSUME NEW a, NEW d, NEW tot, NEW gone, NEW turned, NEW lev \in Nat,
         RingOK(a, d, tot, gone, turned, lev), ~turned,
         NEW len \in Nat, NEW k \in Place, k > IntervalBlock(len, tot),
         NEW b \in Ring, Upto(b, BLOCK) = tot + len,
         \A j \in 0..BLOCK : j < k => Upto(b, j) = Upto(a, j)
  PROVE  \A j \in 0..BLOCK : lev + BLOCK * Upto(b, j) <= CAP * (j + BLOCK - 1)
<1> SUFFICES ASSUME NEW j \in 0..BLOCK
             PROVE  lev + BLOCK * Upto(b, j) <= CAP * (j + BLOCK - 1)
  OBVIOUS
<1>1. BLOCK \in Nat \ {0} /\ CAP \in Nat \ {0} /\ j \in Nat /\ k \in Nat
  BY RingSimAssumption DEF Place
<1>2. a \in Ring /\ tot \in Nat /\ \A i \in 0..BLOCK : lev + BLOCK * Upto(a, i) <= CAP * (i + BLOCK - 1)
  BY DEF RingOK
<1>3. CASE j < k
  BY <1>2, <1>3
<1>4. CASE ~(j < k)
  <2>1. lev <= CAP * (BLOCK - 1)
    <3>1. 0 \in 0..BLOCK /\ Upto(a, 0) = 0
      BY <1>1, <1>2, UptoLemma
    <3>2. lev + BLOCK * Upto(a, 0) <= CAP * (0 + BLOCK - 1)
      BY <1>2, <3>1
    <3> QED
      BY <1>1, <3>1, <3>2
  <2>2. PICK u \in Nat : u = Upto(b, j) /\ u <= tot + len
    BY UptoLemma
  <2>3. BLOCK * (tot + len) < CAP * j
    <3>1. /\ IntervalBlock(len, tot) \in Nat
          /\ \A i \in Nat : i > IntervalBlock(len, tot) => BLOCK * (tot + len) < CAP * i
      BY ONLY <1>2, len \in Nat, ChargeLemma
    <3>2. j > IntervalBlock(len, tot)
      BY <1>1, <1>4, <3>1
    <3> QED
      BY <1>1, <3>1, <3>2
  <2>4. BLOCK * u <= BLOCK * (tot + len)
    BY <1>1, <1>2, <2>2, Monotone
  <2>5. PICK c, m, x, y \in Int : c = CAP * j /\ m = CAP * (BLOCK - 1) /\ x = BLOCK * u /\ y = BLOCK * (tot + len)
    BY <1>1, <1>2, <2>2
  <2>6. CAP * (j + BLOCK - 1) = c + m
    BY <1>1, <2>5
  <2>7. lev + x <= c + m
    BY <2>1, <2>3, <2>4, <2>5
  <2> QED
    BY <2>2, <2>5, <2>6, <2>7
<1> QED
  BY <1>3, <1>4

\* in_ring puts a packet on top of the slot last filled.
LEMMA PutOnTop ==
  ASSUME NEW a, NEW d, NEW tot, NEW gone, NEW turned, NEW lev \in Nat,
         RingOK(a, d, tot, gone, turned, lev), NEW p \in Packet,
         IntervalBlock(p.len, tot) <= d
  PROVE  RingOK(With(a, d+1, Append(a[d+1], p)), d, tot + p.len, gone, turned, lev)
<1> DEFINE k == d+1
           b == With(a, k, Append(a[k], p))
<1>1. /\ BLOCK \in Nat \ {0} /\ CAP \in Nat \ {0} /\ d \in 0..BLOCK-1 /\ tot \in Nat
      /\ p.len \in Nat /\ a \in Ring /\ gone \in Nat /\ k \in Place /\ a[k] \in Seq(Packet)
  <2>1. BLOCK \in Nat \ {0} /\ CAP \in Nat \ {0} /\ p.len \in Nat
    BY RingSimAssumption DEF Packet
  <2>2. d \in 0..BLOCK-1 /\ tot \in Nat /\ a \in Ring /\ gone \in Nat
    BY DEF RingOK
  <2>3. k \in Place
    BY <2>1, <2>2 DEF Place
  <2> QED
    BY <2>1, <2>2, <2>3 DEF Ring
<1>0. PICK w \in Nat :
        /\ w = IntervalBlock(p.len, tot)
        /\ \A i \in Nat : i > w => BLOCK * (tot + p.len) < CAP * i
        /\ w < BLOCK => tot + p.len < CAP
  <2>1. tot \in Nat /\ p.len \in Nat
    BY <1>1
  <2> QED
    BY ONLY <2>1, ChargeLemma
<1>2. Append(a[k], p) \in Seq(Packet) /\ Bytes(Append(a[k], p)) = Bytes(a[k]) + p.len
  BY <1>1, BytesAppend
<1>3. /\ b \in Ring
      /\ \A j \in 0..BLOCK : Upto(b, j) = IF j < k THEN Upto(a, j)
                                 ELSE Upto(a, j) - Bytes(a[k]) + Bytes(Append(a[k], p))
  BY <1>1, <1>2, UptoExcept
<1>4. \A j \in Place \ {k} : b[j] = a[j]
  BY <1>1 DEF Ring, With
<1> HIDE DEF b
<1>5. Upto(b, BLOCK) = Upto(a, BLOCK) + p.len /\ Upto(a, BLOCK) \in Nat
  <2>1. BLOCK \in 0..BLOCK /\ ~(BLOCK < k) /\ Bytes(a[k]) \in Nat /\ Upto(a, BLOCK) \in Nat
    BY <1>1, UptoLemma
  <2> QED
    BY <1>1, <1>2, <1>3, <2>1
<1>6. tot + p.len = Upto(b, BLOCK) + gone
  BY <1>1, <1>5 DEF RingOK
<1>7. (tot + p.len) * BLOCK < CAP * (BLOCK + 1) /\ tot + p.len < CAP
  <2>1. w < BLOCK /\ BLOCK + 1 > w /\ BLOCK + 1 \in Nat
    BY <1>0, <1>1
  <2>2. BLOCK * (tot + p.len) < CAP * (BLOCK + 1) /\ tot + p.len < CAP
    BY <1>0, <2>1
  <2> QED
    BY <1>1, <2>2
<1>8. ASSUME ~turned
      PROVE  /\ gone = 0 /\ \A j \in d+2..BLOCK : b[j] = << >>
             /\ \A j \in 0..BLOCK : lev + BLOCK * Upto(b, j) <= CAP * (j + BLOCK - 1)
  <2>1. gone = 0 /\ \A j \in d+2..BLOCK : a[j] = << >>
    BY <1>8 DEF RingOK
  <2>2. \A j \in d+2..BLOCK : j \in Place \ {k}
    BY <1>1 DEF Place
  <2>3. Upto(b, BLOCK) = tot + p.len
    BY <1>1, <1>5, <1>6, <2>1
  <2>4. k > IntervalBlock(p.len, tot)
    BY <1>0, <1>1
  <2>5. \A j \in 0..BLOCK : lev + BLOCK * Upto(b, j) <= CAP * (j + BLOCK - 1)
    <3> HIDE DEF k
    <3>1. k \in Place /\ p.len \in Nat /\ b \in Ring /\ lev \in Nat
      BY <1>1, <1>3
    <3>2. \A j \in 0..BLOCK : j < k => Upto(b, j) = Upto(a, j)
      BY <1>3
    <3>3. RingOK(a, d, tot, gone, turned, lev)
      OBVIOUS
    <3> QED
      BY ONLY <1>8, <2>3, <2>4, <3>1, <3>2, <3>3, PlacedLevel
  <2> QED
    BY <1>4, <2>1, <2>2, <2>5
<1>9. tot + p.len \in Nat /\ turned \in BOOLEAN
  BY <1>1 DEF RingOK
<1> QED
  BY <1>1, <1>3, <1>6, <1>7, <1>8, <1>9 DEF RingOK, b

\* in_ring puts a packet alone in a later slot, or a whole turn ahead.
LEMMA PutAlone ==
  ASSUME NEW a, NEW d, NEW tot, NEW gone, NEW turned, NEW lev \in Nat,
         RingOK(a, d, tot, gone, turned, lev), NEW p \in Packet,
         NEW ahead, ahead = IntervalBlock(p.len, tot), ahead > d, ahead <= BLOCK,
         NEW k, k = IF ahead = BLOCK THEN 1 ELSE ahead + 1
  PROVE  /\ k \in Place
         /\ RingOK(With(a, k, <<p>>), k - 1, tot + p.len, gone + Bytes(a[k]),
                   turned \/ ahead = BLOCK, lev)
<1> DEFINE b == With(a, k, <<p>>)
<1>1. /\ BLOCK \in Nat \ {0} /\ CAP \in Nat \ {0} /\ d \in 0..BLOCK-1 /\ tot \in Nat
      /\ p.len \in Nat /\ a \in Ring /\ gone \in Nat
  BY RingSimAssumption DEF RingOK, Packet
<1>2. ahead \in Nat
  BY <1>1, ChargeLemma
<1>3. k \in Place /\ k - 1 \in 0..BLOCK-1 /\ k \in Nat
  BY <1>1, <1>2 DEF Place
<1>4. <<p>> \in Seq(Packet) /\ Bytes(<<p>>) = p.len /\ Bytes(a[k]) \in Nat
  BY <1>1, <1>3, BytesOne, UptoLemma
<1>5. /\ b \in Ring
      /\ \A j \in 0..BLOCK : Upto(b, j) = IF j < k THEN Upto(a, j)
                                 ELSE Upto(a, j) - Bytes(a[k]) + Bytes(<<p>>)
  BY <1>1, <1>3, <1>4, UptoExcept
<1>6. \A j \in Place \ {k} : b[j] = a[j]
  BY <1>1 DEF Ring, With
<1> HIDE DEF b
<1>7. Upto(b, BLOCK) = Upto(a, BLOCK) - Bytes(a[k]) + p.len /\ Upto(a, BLOCK) \in Nat
  <2>1. BLOCK \in 0..BLOCK /\ ~(BLOCK < k) /\ Upto(a, BLOCK) \in Nat
    BY <1>1, <1>3, UptoLemma DEF Place
  <2> QED
    BY <1>4, <1>5, <2>1
<1>8. tot + p.len = Upto(b, BLOCK) + (gone + Bytes(a[k]))
  BY <1>1, <1>4, <1>7 DEF RingOK
<1>9. (tot + p.len) * BLOCK < CAP * (BLOCK + 1)
  <2>1. BLOCK + 1 > IntervalBlock(p.len, tot) /\ BLOCK + 1 \in Nat
    BY <1>1, <1>2
  <2>2. BLOCK * (tot + p.len) < CAP * (BLOCK + 1)
    BY <1>1, <2>1, ChargeLemma
  <2> QED
    BY <1>1, <2>2
<1>10. ASSUME ~turned, ahead # BLOCK
       PROVE  /\ gone + Bytes(a[k]) = 0 /\ tot + p.len < CAP
              /\ \A j \in (k-1)+2..BLOCK : b[j] = << >>
              /\ \A j \in 0..BLOCK : lev + BLOCK * Upto(b, j) <= CAP * (j + BLOCK - 1)
  <2>1. gone = 0 /\ \A j \in d+2..BLOCK : a[j] = << >>
    BY <1>10 DEF RingOK
  <2>2. k = ahead + 1 /\ k \in d+2..BLOCK /\ \A j \in (k-1)+2..BLOCK : j \in d+2..BLOCK /\ j \in Place \ {k}
    BY <1>1, <1>2, <1>10 DEF Place
  <2>3. Bytes(a[k]) = 0
    BY <2>1, <2>2, BytesEmpty
  <2>4. tot + p.len < CAP
    <3>1. IntervalBlock(p.len, tot) < BLOCK
      BY <1>1, <1>2, <1>10
    <3>2. tot \in Nat /\ p.len \in Nat
      BY <1>1
    <3> QED
      BY ONLY <3>1, <3>2, ChargeLemma
  <2>5. Upto(b, BLOCK) = tot + p.len /\ k > IntervalBlock(p.len, tot)
    <3>1. Upto(b, BLOCK) \in Nat
      BY <1>1, <1>5, UptoLemma
    <3> QED
      BY <1>1, <1>2, <1>8, <2>1, <2>2, <2>3, <3>1
  <2>6. \A j \in 0..BLOCK : lev + BLOCK * Upto(b, j) <= CAP * (j + BLOCK - 1)
    BY <1>1, <1>3, <1>5, <1>10, <2>5, PlacedLevel
  <2> QED
    BY <1>6, <2>1, <2>2, <2>3, <2>4, <2>6
<1>11. tot + p.len \in Nat /\ turned \in BOOLEAN /\ gone + Bytes(a[k]) \in Nat
       /\ (turned \/ ahead = BLOCK) \in BOOLEAN
  BY <1>1, <1>4 DEF RingOK
<1>12. RingOK(b, k - 1, tot + p.len, gone + Bytes(a[k]), turned \/ ahead = BLOCK, lev)
  BY <1>1, <1>3, <1>5, <1>8, <1>9, <1>10, <1>11 DEF RingOK
<1> QED
  BY <1>3, <1>12 DEF b
\* The slot under the pointer is sent, and the pointer moves on.
Shifted(a) == [k \in Place |-> IF k < BLOCK THEN a[k+1] ELSE << >>]

LEMMA UptoShifted ==
  ASSUME NEW a \in Ring
  PROVE  /\ Shifted(a) \in Ring
         /\ \A k \in 0..BLOCK-1 : Upto(Shifted(a), k) = Upto(a, k+1) - Bytes(a[1])
         /\ Upto(Shifted(a), BLOCK) = Upto(a, BLOCK) - Bytes(a[1])
<1> DEFINE b == Shifted(a)
<1>0. BLOCK \in Nat \ {0} /\ 1 \in Place
  BY RingSimAssumption DEF Place
<1>1. ASSUME NEW k \in Place
      PROVE  b[k] = (IF k < BLOCK THEN a[k+1] ELSE << >>) /\ b[k] \in Seq(Packet)
  <2>1. k < BLOCK => k + 1 \in Place
    BY <1>0 DEF Place
  <2> QED
    BY <2>1 DEF Shifted, Ring
<1>2. b \in Ring
  BY <1>1 DEF Ring, Shifted
<1> HIDE DEF b
<1>3. /\ \A k \in Place : Weight(a)[k] = Bytes(a[k]) /\ Bytes(a[k]) \in Nat
      /\ \A k \in Place : Weight(b)[k] = Bytes(b[k]) /\ Bytes(b[k]) \in Nat
  BY <1>2, UptoLemma
<1>4. ASSUME NEW k \in 0..BLOCK-1 PROVE Upto(b, k) = Upto(a, k+1) - Bytes(a[1])
  <2>1. k \in Nat /\ \A j \in 1..k+1 : j \in Place
    BY <1>0 DEF Place
  <2>2. \A j \in 1..k : j \in Place /\ j < BLOCK /\ j + 1 \in Place
    BY <1>0 DEF Place
  <2>3. PICK f, g : f = Weight(a) /\ g = Weight(b)
    OBVIOUS
  <2>4. \A j \in 1..k+1 : f[j] \in Int
    BY <1>3, <2>1, <2>3
  <2>5. \A j \in 1..k : g[j] = f[j+1]
    BY <1>1, <1>3, <2>2, <2>3
  <2>6. SumFunctionOnSet(g, 1..k) = SumFunctionOnSet(f, 1..k+1) - f[1]
    BY ONLY <2>1, <2>4, <2>5, SumTail
  <2> QED
    BY <1>0, <1>3, <2>3, <2>6 DEF Upto
<1>5. Upto(b, BLOCK) = Upto(a, BLOCK) - Bytes(a[1])
  <2>1. PICK k \in 0..BLOCK-1 : k + 1 = BLOCK
    BY <1>0
  <2>2. Upto(b, k+1) = Upto(b, k) + Bytes(b[k+1])
    BY <1>2, UptoLemma
  <2>3. Bytes(b[k+1]) = 0
    <3>1. k + 1 \in Place /\ ~(k + 1 < BLOCK)
      BY <1>0, <2>1 DEF Place
    <3> QED
      BY <1>1, <3>1, BytesEmpty
  <2>4. Upto(b, k) = Upto(a, k+1) - Bytes(a[1]) /\ Upto(b, k) \in Nat
    BY <1>0, <1>2, <1>4, UptoLemma
  <2> QED
    BY <2>1, <2>2, <2>3, <2>4
<1> QED
  BY <1>2, <1>4, <1>5 DEF b

LEMMA SentLevel ==
  ASSUME NEW a, NEW d, NEW tot, NEW gone, NEW turned, NEW lev \in Nat,
         RingOK(a, d, tot, gone, turned, lev), ~turned,
         NEW sent \in Nat, sent = Bytes(a[1]),
         NEW lev2 \in Nat, lev2 = 0 \/ lev2 <= lev + sent * BLOCK - CAP
  PROVE  \A k \in 0..BLOCK : lev2 + BLOCK * Upto(Shifted(a), k) <= CAP * (k + BLOCK - 1)
<1> SUFFICES ASSUME NEW k \in 0..BLOCK
             PROVE  lev2 + BLOCK * Upto(Shifted(a), k) <= CAP * (k + BLOCK - 1)
  OBVIOUS
<1>0. BLOCK \in Nat \ {0} /\ CAP \in Nat \ {0} /\ k \in Nat /\ BLOCK \in 0..BLOCK
  BY RingSimAssumption
<1>1. /\ a \in Ring /\ tot \in Nat /\ tot < CAP /\ tot = Upto(a, BLOCK)
      /\ \A i \in 0..BLOCK : lev + BLOCK * Upto(a, i) <= CAP * (i + BLOCK - 1)
  <2>1. /\ a \in Ring /\ tot \in Nat /\ tot < CAP /\ tot = Upto(a, BLOCK) + gone /\ gone = 0
        /\ \A i \in 0..BLOCK : lev + BLOCK * Upto(a, i) <= CAP * (i + BLOCK - 1)
    BY DEF RingOK
  <2>2. Upto(a, BLOCK) \in Nat
    BY <1>0, <2>1, UptoLemma
  <2> QED
    BY <2>1, <2>2
<1>2. PICK i \in 0..BLOCK : /\ i <= k + 1 /\ (k = 0 => i = 1)
                            /\ Upto(Shifted(a), k) = Upto(a, i) - sent
  <2>1. CASE k < BLOCK
    <3>1. k + 1 \in 0..BLOCK /\ k \in 0..BLOCK-1
      BY <1>0, <2>1
    <3> QED
      BY <1>0, <1>1, <3>1, UptoShifted
  <2>2. CASE k = BLOCK
    BY <1>0, <1>1, <2>2, UptoShifted
  <2> QED
    BY <1>0, <2>1, <2>2
<1>3. PICK u \in Nat, v \in Nat : u = Upto(Shifted(a), k) /\ v = Upto(a, i) /\ u = v - sent /\ v <= tot
  BY <1>0, <1>1, <1>2, UptoLemma, UptoShifted
<1>4. PICK c, e, x, y, z \in Int :
        /\ c = CAP * k /\ e = CAP * (BLOCK - 1) /\ x = BLOCK * u /\ y = BLOCK * v
        /\ z = sent * BLOCK
  BY <1>0, <1>3
<1>5. CAP * (k + BLOCK - 1) = c + e /\ x = y - z
  <2>1. CAP * (k + BLOCK - 1) = c + e
    BY <1>0, <1>4
  <2>2. BLOCK * u = BLOCK * v - sent * BLOCK
    BY <1>0, <1>3
  <2> QED
    BY <1>4, <2>1, <2>2
<1>6. CASE lev2 <= lev + sent * BLOCK - CAP
  <2>1. lev + y <= CAP * (i + BLOCK - 1)
    BY <1>1, <1>3, <1>4
  <2>2. CAP * (i + BLOCK - 1) <= CAP * (k + 1 + BLOCK - 1)
    BY <1>0, <1>2, Monotone
  <2>3. CAP * (k + 1 + BLOCK - 1) = c + e + CAP
    BY <1>0, <1>4
  <2>4. CAP * (i + BLOCK - 1) \in Int
    BY <1>0
  <2>5. lev2 <= lev + z - CAP /\ lev + y <= c + e + CAP
    BY <1>0, <1>4, <1>6, <2>1, <2>2, <2>3, <2>4
  <2>6. lev2 + x <= c + e
    BY <1>0, <1>5, <2>5
  <2> QED
    BY <1>3, <1>4, <1>5, <2>6
<1>7. CASE lev2 = 0
  <2>1. CASE k = 0
    <3>1. 0 \in 0..BLOCK-1
      BY <1>0
    <3>2. Upto(Shifted(a), 0) = 0
      BY <1>1, UptoShifted, UptoLemma
    <3>3. x = 0 /\ c = 0 /\ e >= 0
      <4>1. u = 0
        BY <1>3, <2>1, <3>2
      <4>2. BLOCK - 1 \in Nat
        BY <1>0
      <4>3. CAP * (BLOCK - 1) >= 0
        BY <1>0, <4>2
      <4>4. BLOCK * 0 = 0 /\ CAP * 0 = 0
        BY <1>0
      <4> QED
        BY <1>4, <2>1, <4>1, <4>3, <4>4
    <3> QED
      BY <1>3, <1>4, <1>5, <1>7, <3>3
  <2>2. CASE k # 0
    <3>1. u <= CAP
      BY <1>0, <1>1, <1>3
    <3>2. BLOCK * u <= BLOCK * CAP
      BY <1>0, <3>1, Monotone
    <3>3. CAP * BLOCK <= CAP * (k + BLOCK - 1)
      BY <1>0, <2>2, Monotone
    <3>4. BLOCK * CAP = CAP * BLOCK /\ BLOCK * CAP \in Int
      BY <1>0
    <3> QED
      BY <1>3, <1>4, <1>5, <1>7, <3>2, <3>3, <3>4
  <2> QED
    BY <2>1, <2>2
<1> QED
  BY <1>6, <1>7

LEMMA SendRing ==
  ASSUME NEW a, NEW d, NEW tot, NEW gone, NEW turned, NEW lev \in Nat,
         RingOK(a, d, tot, gone, turned, lev),
         NEW sent, sent = Bytes(a[1]),
         NEW lev2 \in Nat, lev2 = 0 \/ lev2 <= lev + sent * BLOCK - CAP
  PROVE  RingOK(Shifted(a), IF d = 0 THEN 0 ELSE d - 1, tot - sent, gone, turned, lev2)
<1> DEFINE b == Shifted(a)
           e == IF d = 0 THEN 0 ELSE d - 1
<1>0. BLOCK \in Nat \ {0} /\ CAP \in Nat \ {0} /\ 1 \in Place
  BY RingSimAssumption DEF Place
<1>1. /\ a \in Ring /\ tot \in Nat /\ gone \in Nat /\ turned \in BOOLEAN /\ d \in 0..BLOCK-1
      /\ tot = Upto(a, BLOCK) + gone /\ tot * BLOCK < CAP * (BLOCK + 1)
  BY DEF RingOK
<1>2. sent \in Nat /\ Upto(a, BLOCK) \in Nat
  BY <1>0, <1>1, UptoLemma
<1>3. b \in Ring /\ Upto(b, BLOCK) = Upto(a, BLOCK) - sent /\ Upto(b, BLOCK) \in Nat
  <2>1. BLOCK \in 0..BLOCK
    BY <1>0
  <2> QED
    BY <1>1, <2>1, UptoShifted, UptoLemma
<1>4. e \in 0..BLOCK-1
  BY <1>0, <1>1
<1>5. tot - sent = Upto(b, BLOCK) + gone /\ tot - sent \in Nat /\ tot - sent <= tot
  BY <1>1, <1>2, <1>3
<1>6. (tot - sent) * BLOCK < CAP * (BLOCK + 1)
  <2>1. BLOCK * (tot - sent) <= BLOCK * tot
    BY <1>0, <1>1, <1>5, Monotone
  <2> QED
    BY <1>0, <1>1, <1>5, <2>1
<1>7. ASSUME ~turned
      PROVE  /\ gone = 0 /\ tot - sent < CAP
             /\ \A k \in e+2..BLOCK : b[k] = << >>
             /\ \A k \in 0..BLOCK : lev2 + BLOCK * Upto(b, k) <= CAP * (k + BLOCK - 1)
  <2>1. gone = 0 /\ tot < CAP /\ \A k \in d+2..BLOCK : a[k] = << >>
    BY <1>7 DEF RingOK
  <2>2. ASSUME NEW k \in e+2..BLOCK PROVE b[k] = << >>
    <3>1. k \in Place /\ (k < BLOCK => k + 1 \in d+2..BLOCK)
      BY <1>0, <1>1 DEF Place
    <3> QED
      BY <2>1, <3>1 DEF Shifted
  <2>3. \A k \in 0..BLOCK : lev2 + BLOCK * Upto(b, k) <= CAP * (k + BLOCK - 1)
    BY <1>2, <1>7, SentLevel
  <2> QED
    BY <1>0, <1>1, <1>2, <2>1, <2>2, <2>3
<1> HIDE DEF b, e
<1>8. RingOK(b, e, tot - sent, gone, turned, lev2)
  BY <1>1, <1>3, <1>4, <1>5, <1>6, <1>7 DEF RingOK
<1> QED
  BY <1>8 DEF b, e
--------------------------------------------------------------------------------
(***************************************************************************)
(* The ages                                                                 *)
(***************************************************************************)
\* Every packet of the ring a is at least x old; a list or a ring holds older
\* packets first.
Eldest(a, x) == \A k \in Place : \A i \in 1..Len(a[k]) : a[k][i].age >= x
Aged(s) == \A i \in 1..Len(s), j \in 1..Len(s) : i <= j => s[i].age >= s[j].age
AgedRing(a) == \A k \in Place, l \in Place : \A i \in 1..Len(a[k]), j \in 1..Len(a[l]) :
                  k < l \/ (k = l /\ i <= j) => a[k][i].age >= a[l][j].age

\* q waits for the ring a; r rounds have passed since the pointer moved.
AgesOK(a, turned, q, r) ==
  /\ q \in Seq(Packet) /\ Aged(q)
  /\ \A k \in Place : \A i \in 1..Len(a[k]) :
        a[k][i].age <= LATENCY + (BLOCK - k) * ROUNDS + r
  /\ \A j \in 1..Len(q) : Eldest(a, q[j].age)
  /\ ~turned => AgedRing(a)

\* A packet no older than those in the ring is put into it, last if none has been
\* placed a whole turn ahead.
LEMMA PutAges ==
  ASSUME NEW a \in Ring, NEW turned, NEW r \in Nat, AgesOK(a, turned, << >>, r),
         NEW p \in Packet, p.age <= LATENCY, Eldest(a, p.age),
         NEW k \in Place, NEW s, s = Append(a[k], p) \/ s = <<p>>,
         NEW turned2, turned => turned2,
         ~turned2 => \A j \in k+1..BLOCK : a[j] = << >>
  PROVE  /\ AgesOK(With(a, k, s), turned2, << >>, r)
         /\ \A x \in Int : Eldest(a, x) /\ p.age >= x => Eldest(With(a, k, s), x)
<1> DEFINE b == With(a, k, s)
<1>0. /\ BLOCK \in Nat \ {0} /\ ROUNDS \in Nat \ {0} /\ LATENCY \in Nat /\ k \in 1..BLOCK
      /\ p.age \in Nat
  BY RingSimAssumption DEF Place, Packet
<1>1. b[k] = s /\ \A l \in Place \ {k} : b[l] = a[l]
  BY DEF Ring, With
<1>2. ASSUME NEW l \in Place
      PROVE  a[l] \in Seq(Packet) /\ Len(a[l]) \in Nat /\ \A i \in 1..Len(a[l]) : a[l][i].age \in Nat
  BY PacketLemma DEF Ring
<1>3. /\ Len(s) \in Nat
      /\ \A i \in 1..Len(s) : \/ i = Len(s) /\ s[i] = p
                              \/ i < Len(s) /\ i \in 1..Len(a[k]) /\ s[i] = a[k][i]
  <2>1. CASE s = <<p>>
    BY <2>1
  <2>2. CASE s = Append(a[k], p)
    BY <1>2, <2>2
  <2> QED
    BY ONLY <2>1, <2>2, s = Append(a[k], p) \/ s = <<p>>
<1> HIDE DEF b
<1>4. \* What b holds.
      ASSUME NEW l \in Place, NEW i \in 1..Len(b[l])
      PROVE  \/ l = k /\ i = Len(b[l]) /\ b[l][i] = p
             \/ i \in 1..Len(a[l]) /\ b[l][i] = a[l][i] /\ (l = k => i < Len(b[l]))
  BY <1>1, <1>3
<1>5. ASSUME NEW x \in Int, Eldest(a, x), p.age >= x
      PROVE  Eldest(b, x)
  BY <1>4, <1>5 DEF Eldest
<1>6. ASSUME NEW l \in Place, NEW i \in 1..Len(b[l])
      PROVE  b[l][i].age <= LATENCY + (BLOCK - l) * ROUNDS + r
  <2>1. (BLOCK - l) * ROUNDS \in Nat
    <3>1. BLOCK - l \in Nat
      BY <1>0 DEF Place
    <3> QED
      BY <1>0, <3>1
  <2>2. CASE b[l][i] = p
    BY <1>0, <2>1, <2>2
  <2>3. CASE i \in 1..Len(a[l]) /\ b[l][i] = a[l][i]
    BY <2>3 DEF AgesOK
  <2> QED
    BY <1>4, <2>2, <2>3
<1>7. ASSUME ~turned2 PROVE AgedRing(b)
  <2> SUFFICES ASSUME NEW l \in Place, NEW m \in Place, NEW i \in 1..Len(b[l]),
                      NEW j \in 1..Len(b[m]), l < m \/ (l = m /\ i <= j)
               PROVE  b[l][i].age >= b[m][j].age
    BY DEF AgedRing
  <2>1. AgedRing(a) /\ \A n \in k+1..BLOCK : a[n] = << >>
    BY <1>7 DEF AgesOK
  <2>2. l \in 1..BLOCK /\ m \in 1..BLOCK /\ i \in Int /\ j \in Int
    BY DEF Place
  <2>3. CASE b[m][j] = p /\ b[l][i] = p
    BY <1>0, <2>3
  <2>4. CASE b[m][j] = p /\ i \in 1..Len(a[l]) /\ b[l][i] = a[l][i]
    BY <2>4 DEF Eldest
  <2>5. CASE /\ l = k /\ i = Len(b[l]) /\ b[l][i] = p
             /\ j \in 1..Len(a[m]) /\ b[m][j] = a[m][j] /\ (m = k => j < Len(b[m]))
    <3>1. CASE m = k
      BY <2>2, <2>5, <3>1
    <3>2. CASE m # k
      <4>1. m \in k+1..BLOCK
        BY <1>0, <2>2, <2>5, <3>2
      <4>2. a[m] = << >>
        BY <2>1, <4>1
      <4> QED
        BY <2>5, <4>2
    <3> QED
      BY <3>1, <3>2
  <2>6. CASE /\ i \in 1..Len(a[l]) /\ b[l][i] = a[l][i]
             /\ j \in 1..Len(a[m]) /\ b[m][j] = a[m][j]
    BY <2>1, <2>6 DEF AgedRing
  <2> QED
    BY <1>4, <2>3, <2>4, <2>5, <2>6
<1>8. << >> \in Seq(Packet) /\ Len(<< >>) = 0 /\ Aged(<< >>)
  BY DEF Aged
<1>9. AgesOK(b, turned2, << >>, r)
  BY <1>6, <1>7, <1>8 DEF AgesOK
<1> QED
  BY <1>5, <1>9 DEF b

\* The pointer moves on after ROUNDS rounds.
LEMMA SendAges ==
  ASSUME NEW a \in Ring, NEW turned, NEW q, AgesOK(a, turned, q, ROUNDS)
  PROVE  AgesOK(Shifted(a), turned, q, 0)
<1> DEFINE b == Shifted(a)
<1>0. BLOCK \in Nat \ {0} /\ ROUNDS \in Nat \ {0} /\ LATENCY \in Nat
  BY RingSimAssumption
<1>1. ASSUME NEW k \in Place, NEW i \in 1..Len(b[k])
      PROVE  k < BLOCK /\ k + 1 \in Place /\ i \in 1..Len(a[k+1]) /\ b[k][i] = a[k+1][i]
  <2>1. k \in 1..BLOCK
    BY DEF Place
  <2>2. CASE k < BLOCK
    BY <1>0, <2>1, <2>2 DEF Shifted, Place
  <2>3. CASE ~(k < BLOCK)
    BY <2>3 DEF Shifted
  <2> QED
    BY <2>2, <2>3
<1>2. \A k \in Place : \A i \in 1..Len(a[k]) : a[k][i].age \in Nat
  BY PacketLemma DEF Ring
<1> HIDE DEF b
<1>3. ASSUME NEW k \in Place, NEW i \in 1..Len(b[k])
      PROVE  b[k][i].age <= LATENCY + (BLOCK - k) * ROUNDS + 0
  <2>1. a[k+1][i].age <= LATENCY + (BLOCK - (k+1)) * ROUNDS + ROUNDS
    BY <1>1 DEF AgesOK
  <2>2. (BLOCK - (k+1)) * ROUNDS + ROUNDS = (BLOCK - k) * ROUNDS /\ (BLOCK - (k+1)) * ROUNDS \in Int
    BY <1>0 DEF Place
  <2> QED
    BY <1>0, <1>1, <2>1, <2>2
<1>4. \A x : Eldest(a, x) => Eldest(b, x)
  BY <1>1 DEF Eldest
<1>5. AgedRing(a) => AgedRing(b)
  <2> SUFFICES ASSUME AgedRing(a), NEW k \in Place, NEW l \in Place, NEW i \in 1..Len(b[k]),
                      NEW j \in 1..Len(b[l]), k < l \/ (k = l /\ i <= j)
               PROVE  b[k][i].age >= b[l][j].age
    BY DEF AgedRing
  <2>1. /\ k + 1 \in Place /\ i \in 1..Len(a[k+1]) /\ b[k][i] = a[k+1][i]
        /\ l + 1 \in Place /\ j \in 1..Len(a[l+1]) /\ b[l][j] = a[l+1][j]
    BY <1>1
  <2>2. k + 1 < l + 1 \/ (k + 1 = l + 1 /\ i <= j)
    BY <1>0 DEF Place
  <2> QED
    BY <2>1, <2>2 DEF AgedRing
<1>6. AgesOK(b, turned, q, 0)
  BY <1>3, <1>4, <1>5 DEF AgesOK
<1> QED
  BY <1>6 DEF b

\* A round passes.
LEMMA OlderLemma ==
  ASSUME NEW s \in Seq(Packet)
  PROVE  /\ Older(s) \in Seq(Packet) /\ Len(Older(s)) = Len(s)
         /\ \A i \in 1..Len(s) :
              /\ Older(s)[i].len = s[i].len
              /\ Older(s)[i].age = IF s[i].age < MaxAge THEN s[i].age + 1 ELSE s[i].age
         /\ Bytes(Older(s)) = Bytes(s)
<1>1. Len(s) \in Nat /\ DOMAIN s = 1..Len(s) /\ \A i \in 1..Len(s) : s[i] \in Packet /\ s[i].age \in Nat
  BY PacketLemma
<1>2. ASSUME NEW i \in 1..Len(s)
      PROVE  /\ Older(s)[i] \in Packet /\ Older(s)[i].len = s[i].len
             /\ Older(s)[i].age = IF s[i].age < MaxAge THEN s[i].age + 1 ELSE s[i].age
  BY <1>1, RingSimAssumption DEF Older, Packet
<1>3. Older(s) \in Seq(Packet) /\ Len(Older(s)) = Len(s)
  <2>1. Older(s) \in [1..Len(s) -> Packet]
    BY <1>1, <1>2 DEF Older
  <2> QED
    BY <1>1, <2>1
<1>4. Bytes(Older(s)) = Bytes(s)
  BY <1>2, <1>3, BytesSame
<1> QED
  BY <1>2, <1>3, <1>4

OlderRing(a) == [k \in Place |-> Older(a[k])]

LEMMA OlderRingOK ==
  ASSUME NEW a, NEW d, NEW tot, NEW gone, NEW turned, NEW lev,
         RingOK(a, d, tot, gone, turned, lev)
  PROVE  RingOK(OlderRing(a), d, tot, gone, turned, lev)
<1> DEFINE b == OlderRing(a)
<1>0. a \in Ring
  BY DEF RingOK
<1>1. \A k \in Place : a[k] \in Seq(Packet) /\ b[k] = Older(a[k])
  BY <1>0 DEF Ring, OlderRing
<1>2. \A k \in Place : b[k] \in Seq(Packet) /\ Bytes(b[k]) = Bytes(a[k])
  BY <1>1, OlderLemma
<1>3. b \in Ring
  BY <1>2 DEF Ring, OlderRing
<1>4. Weight(b) = Weight(a)
  BY <1>2 DEF Weight
<1>5. \A k \in Place : a[k] = << >> => b[k] = << >>
  <2> SUFFICES ASSUME NEW k \in Place, a[k] = << >> PROVE b[k] = << >>
    OBVIOUS
  <2>1. Len(b[k]) = 0 /\ b[k] \in Seq(Packet)
    BY <1>1, <1>2, OlderLemma
  <2> QED
    BY <2>1, EmptySeq
<1>6. \A k \in d+2..BLOCK : k \in Place
  BY RingSimAssumption DEF RingOK, Place
<1> HIDE DEF b
<1>7. \A k : Upto(b, k) = Upto(a, k)
  BY <1>4 DEF Upto
<1>8. RingOK(b, d, tot, gone, turned, lev)
  BY <1>3, <1>5, <1>6, <1>7 DEF RingOK
<1> QED
  BY <1>8 DEF b

LEMMA OlderAges ==
  ASSUME NEW a \in Ring, NEW turned, NEW q, NEW r \in Nat, AgesOK(a, turned, q, r)
  PROVE  AgesOK(OlderRing(a), turned, Older(q), r + 1)
<1> DEFINE b == OlderRing(a)
           w == Older(q)
           Next1(x) == IF x < MaxAge THEN x + 1 ELSE x
<1>0. /\ BLOCK \in Nat /\ ROUNDS \in Nat /\ LATENCY \in Nat /\ MaxAge \in Nat
      /\ q \in Seq(Packet)
  BY RingSimAssumption DEF AgesOK
<1>1. ASSUME NEW k \in Place
      PROVE  /\ a[k] \in Seq(Packet) /\ Len(b[k]) = Len(a[k])
             /\ \A i \in 1..Len(a[k]) : a[k][i].age \in Nat /\ b[k][i].age = Next1(a[k][i].age)
  <2>1. a[k] \in Seq(Packet) /\ b[k] = Older(a[k])
    BY DEF Ring, OlderRing
  <2> HIDE DEF b
  <2> QED
    BY <2>1, OlderLemma, PacketLemma
<1>2. /\ w \in Seq(Packet) /\ Len(w) = Len(q)
      /\ \A i \in 1..Len(q) : q[i].age \in Nat /\ w[i].age = Next1(q[i].age)
  BY <1>0, OlderLemma, PacketLemma
<1>3. \A x \in Nat, y \in Nat : x >= y => Next1(x) >= Next1(y)
  BY <1>0
<1>4. \A x \in Nat : Next1(x) <= x + 1
  BY <1>0
<1> HIDE DEF b, w, Next1
<1>5. Aged(w)
  BY <1>2, <1>3 DEF AgesOK, Aged
<1>6. ASSUME NEW k \in Place, NEW i \in 1..Len(b[k])
      PROVE  b[k][i].age <= LATENCY + (BLOCK - k) * ROUNDS + (r + 1)
  <2>1. a[k][i].age <= LATENCY + (BLOCK - k) * ROUNDS + r
    BY <1>1 DEF AgesOK
  <2>2. PICK y \in Nat : y = a[k][i].age
    BY <1>1
  <2>3. b[k][i].age = Next1(y) /\ Next1(y) <= y + 1 /\ Next1(y) \in Int
    <3>1. Next1(y) \in Int
      BY <1>0 DEF Next1
    <3> QED
      BY <1>1, <1>4, <2>2, <3>1
  <2>4. PICK x \in Int : x = (BLOCK - k) * ROUNDS
    BY <1>0 DEF Place
  <2>5. y <= LATENCY + x + r
    BY <2>1, <2>2, <2>4
  <2>6. Next1(y) <= LATENCY + x + (r + 1)
    BY <1>0, <2>3, <2>5
  <2> QED
    BY <2>3, <2>4, <2>6
<1>7. \A j \in 1..Len(w) : Eldest(b, w[j].age)
  BY <1>1, <1>2, <1>3 DEF AgesOK, Eldest
<1>8. AgedRing(a) => AgedRing(b)
  <2> SUFFICES ASSUME AgedRing(a), NEW k \in Place, NEW l \in Place, NEW i \in 1..Len(b[k]),
                      NEW j \in 1..Len(b[l]), k < l \/ (k = l /\ i <= j)
               PROVE  b[k][i].age >= b[l][j].age
    BY DEF AgedRing
  <2>1. i \in 1..Len(a[k]) /\ j \in 1..Len(a[l])
    BY <1>1
  <2>2. a[k][i].age >= a[l][j].age
    BY <2>1 DEF AgedRing
  <2>3. /\ a[k][i].age \in Nat /\ b[k][i].age = Next1(a[k][i].age)
        /\ a[l][j].age \in Nat /\ b[l][j].age = Next1(a[l][j].age)
    BY <1>1, <2>1
  <2> QED
    BY <1>3, <2>2, <2>3
<1>9. AgesOK(b, turned, w, r + 1)
  BY <1>2, <1>5, <1>6, <1>7, <1>8 DEF AgesOK
<1> QED
  BY <1>9 DEF b, w
--------------------------------------------------------------------------------
(***************************************************************************)
(* in_ring                                                                  *)
(***************************************************************************)
State == [slots : [Slot -> Seq(Packet)], pre : Slot, tot : Nat, queue : Seq(Packet),
          lost : Nat, wrapped : BOOLEAN, stop : BOOLEAN]

\* The state of the loop is as it should be, r rounds after the pointer moved.
StateOK(st, r) ==
  /\ st \in State
  /\ RingOK(View(st.slots, now_postion), cal_interval(now_postion, st.pre),
            st.tot, st.lost, st.wrapped, level)
  /\ AgesOK(View(st.slots, now_postion), st.wrapped, st.queue, r)

\* j packets of w have been taken: those to come are younger than all that is there.
Taken(st, w, j) ==
  /\ ~st.stop => st.queue = << >>
  /\ \A l \in j+1..Len(w) : /\ Eldest(View(st.slots, now_postion), w[l].age)
                            /\ \A i \in 1..Len(st.queue) : st.queue[i].age >= w[l].age

\* The slot in_ring computes is the k-th from now_postion.
LEMMA PlaceLemma ==
  ASSUME NEW p \in Slot, NEW pre \in Slot, NEW d, d = cal_interval(p, pre),
         NEW ahead \in Nat, ahead > d, ahead <= BLOCK,
         NEW k, k = IF ahead = BLOCK THEN 1 ELSE ahead + 1
  PROVE  /\ k \in Place /\ (pre + ahead - d) % BLOCK = At(p, k)
         /\ cal_interval(p, At(p, k)) = k - 1
<1>1. /\ BLOCK \in Nat \ {0} /\ p \in 0..BLOCK-1 /\ pre \in 0..BLOCK-1 /\ d \in 0..BLOCK-1
      /\ pre = IF p + d < BLOCK THEN p + d ELSE p + d - BLOCK
  BY RingSimAssumption DEF Slot, cal_interval
<1>2. PICK x \in 0..2*BLOCK-1 : x = pre + ahead - d
  BY <1>1
<1>3. x % BLOCK = IF x < BLOCK THEN x ELSE x - BLOCK
  BY ONLY <1>1
<1>4. k \in Place /\ k \in 1..BLOCK
  BY <1>1 DEF Place
<1>5. At(p, k) = IF p + k - 1 < BLOCK THEN p + k - 1 ELSE p + k - 1 - BLOCK
  BY <1>4, AtLemma
<1>6. /\ ahead \in Nat /\ ahead > d
      /\ \/ p + d < BLOCK /\ pre = p + d
         \/ p + d >= BLOCK /\ pre = p + d - BLOCK
  BY <1>1
<1>7. x % BLOCK = At(p, k)
  <2>1. CASE ahead = BLOCK
    <3>1. k = 1 /\ p + k - 1 = p
      BY <1>1, <2>1
    <3>2. At(p, k) = p
      BY <1>1, <1>5, <3>1
    <3>3. x = p + BLOCK \/ x = p
      BY ONLY <1>1, <1>2, <1>6, <2>1
    <3> QED
      BY <1>1, <1>3, <3>2, <3>3
  <2>2. CASE ahead # BLOCK
    <3>1. k = ahead + 1 /\ p + k - 1 = p + ahead
      BY <1>1, <2>2
    <3>2. At(p, k) = IF p + ahead < BLOCK THEN p + ahead ELSE p + ahead - BLOCK
      BY <1>5, <3>1
    <3>3. x = p + ahead \/ (x = p + ahead - BLOCK /\ p + ahead >= BLOCK)
      BY ONLY <1>1, <1>2, <1>6, <2>2
    <3>4. p + ahead < 2 * BLOCK
      BY <1>1, <2>2
    <3> QED
      BY <1>1, <1>2, <1>3, <3>2, <3>3, <3>4
  <2> QED
    BY <2>1, <2>2
<1> QED
  BY <1>2, <1>4, <1>7, SlotLemma

LEMMA PutType ==
  ASSUME NEW st \in State, NEW p \in Packet, now_postion \in Slot
  PROVE  Put(st, p) \in State
<1>0. /\ BLOCK \in Nat \ {0} /\ p.len \in Nat
      /\ st.slots \in [Slot -> Seq(Packet)] /\ st.pre \in Slot /\ st.tot \in Nat
      /\ st.queue \in Seq(Packet) /\ st.lost \in Nat /\ st.wrapped \in BOOLEAN
  BY RingSimAssumption DEF State, Packet
<1> DEFINE d == cal_interval(now_postion, st.pre)
           ahead == IntervalBlock(p.len, st.tot)
           at == (st.pre + ahead - d) % BLOCK
<1>1. ahead \in Int /\ d \in Int
  <2>1. st.tot \in Nat /\ p.len \in Nat /\ BLOCK \in Nat
    BY <1>0
  <2>2. ahead \in Nat
    BY ONLY <2>1, ChargeLemma
  <2>3. d \in 0..BLOCK-1
    BY <1>0, SlotLemma
  <2> QED
    BY <2>1, <2>2, <2>3
<1>2. at \in Slot
  <2> HIDE DEF ahead, d
  <2>1. PICK x \in Int : x = st.pre + ahead - d
    BY <1>0, <1>1 DEF Slot
  <2>2. x % BLOCK \in 0..BLOCK-1
    BY <1>0
  <2> QED
    BY <2>1, <2>2 DEF Slot
<1> HIDE DEF at, ahead, d
<1>3. st.tot + p.len \in Nat /\ st.lost + Bytes(st.slots[at]) \in Nat
  <2>1. st.slots[at] \in Seq(Packet)
    BY <1>0, <1>2
  <2>2. Bytes(st.slots[at]) \in Nat
    BY <2>1, BytesSum
  <2> QED
    BY <1>0, <2>2
<1>4. /\ [st.slots EXCEPT ![st.pre] = Append(@, p)] \in [Slot -> Seq(Packet)]
      /\ [st.slots EXCEPT ![at] = <<p>>] \in [Slot -> Seq(Packet)]
  BY <1>0, <1>2
<1>5. [st EXCEPT !.slots[st.pre] = Append(@, p), !.tot = @ + p.len] \in State
  BY <1>0, <1>3, <1>4 DEF State
<1>6. [st EXCEPT !.slots[at] = <<p>>, !.pre = at, !.tot = @ + p.len,
                 !.lost = @ + Bytes(st.slots[at]), !.wrapped = @ \/ ahead = BLOCK] \in State
  <2>1. (st.wrapped \/ ahead = BLOCK) \in BOOLEAN
    BY <1>0
  <2> QED
    BY <1>0, <1>2, <1>3, <1>4, <2>1 DEF State
<1> QED
  BY <1>5, <1>6 DEF Put, at, ahead, d
LEMMA TakeType ==
  ASSUME NEW st \in State, NEW p \in Packet, now_postion \in Slot
  PROVE  Take(st, p) \in State
<1>1. Append(st.queue, p) \in Seq(Packet)
  BY DEF State
<1>2. CASE st.stop
  <2>1. [st EXCEPT !.queue = Append(st.queue, p)] \in State
    BY <1>1 DEF State
  <2> QED
    BY <1>2, <2>1 DEF Take
<1>3. [st EXCEPT !.stop = TRUE] \in State
  BY DEF State
<1>4. [st EXCEPT !.queue = Append(st.queue, p), !.stop = TRUE] \in State
  BY <1>1 DEF State
<1>5. Put(st, p) \in State
  BY PutType
<1>6. CASE ~st.stop
  BY <1>3, <1>4, <1>5, <1>6 DEF Take
<1> QED
  BY <1>2, <1>6

LEMMA AppendAges ==
  ASSUME NEW a, NEW turned, NEW q, NEW r, AgesOK(a, turned, q, r),
         NEW p \in Packet, Eldest(a, p.age), \A i \in 1..Len(q) : q[i].age >= p.age
  PROVE  AgesOK(a, turned, Append(q, p), r)
<1> DEFINE w == Append(q, p)
<1>1. q \in Seq(Packet) /\ Len(q) \in Nat /\ p.age \in Nat
  BY DEF AgesOK, Packet
<1>2. /\ w \in Seq(Packet) /\ Len(w) = Len(q) + 1 /\ w[Len(q) + 1] = p
      /\ \A i \in 1..Len(q) : w[i] = q[i]
  BY <1>1
<1> HIDE DEF w
<1>3. \A i \in 1..Len(w) : i \in 1..Len(q) \/ i = Len(q) + 1
  BY <1>1, <1>2
<1>4. Aged(w)
  <2> SUFFICES ASSUME NEW i \in 1..Len(w), NEW j \in 1..Len(w), i <= j
               PROVE  w[i].age >= w[j].age
    BY DEF Aged
  <2>1. CASE j \in 1..Len(q)
    <3>1. i \in 1..Len(q)
      BY <1>1, <2>1
    <3> QED
      BY <1>2, <2>1, <3>1 DEF AgesOK, Aged
  <2>2. CASE j = Len(q) + 1
    BY <1>1, <1>2, <1>3, <2>2
  <2> QED
    BY <1>3, <2>1, <2>2
<1>5. \A j \in 1..Len(w) : Eldest(a, w[j].age)
  BY <1>2, <1>3 DEF AgesOK
<1>6. AgesOK(a, turned, w, r)
  BY <1>2, <1>4, <1>5 DEF AgesOK
<1> QED
  BY <1>6 DEF w

\* Every age no packet of a is below, nor x, no packet of b is below.
Keeps(a, b, x) == \A y \in Int : Eldest(a, y) /\ x >= y => Eldest(b, y)

\* A packet put on top of the slot last filled.
LEMMA PutOnTopOK ==
  ASSUME NEW n \in Slot, NEW slots \in [Slot -> Seq(Packet)], NEW a, a = View(slots, n),
         NEW d, NEW tot, NEW gone, NEW turned, NEW lev \in Nat, NEW r \in Nat,
         RingOK(a, d, tot, gone, turned, lev), AgesOK(a, turned, << >>, r),
         NEW p \in Packet, p.age <= LATENCY, Eldest(a, p.age),
         IntervalBlock(p.len, tot) <= d,
         NEW i, i = At(n, d + 1), NEW b, b = View(With(slots, i, Append(slots[i], p)), n)
  PROVE  /\ RingOK(b, d, tot + p.len, gone, turned, lev) /\ AgesOK(b, turned, << >>, r)
         /\ Keeps(a, b, p.age)
<1>1. BLOCK \in Nat \ {0} /\ d \in 0..BLOCK-1 /\ a \in Ring
  BY RingSimAssumption DEF RingOK
<1>2. PICK k : k = d + 1
  OBVIOUS
<1>3. k \in Place /\ k + 1 = d + 2 /\ k = d + 1
  BY <1>1, <1>2 DEF Place
<1>4. a[k] = slots[i] /\ a[k] \in Seq(Packet)
  BY <1>1, <1>3 DEF View, Ring
<1>5. PICK s : s = Append(a[k], p)
  OBVIOUS
<1>6. s \in Seq(Packet) /\ (s = Append(a[k], p) \/ s = <<p>>)
  BY <1>4, <1>5
<1>7. b = With(a, k, s)
  <2>1. At(n, k) = i /\ Append(slots[i], p) = s
    BY <1>3, <1>4, <1>5
  <2>2. k \in Place /\ s \in Seq(Packet)
    BY <1>3, <1>6
  <2>3. View(With(slots, At(n, k), s), n) = With(View(slots, n), k, s)
    BY ONLY <2>2, n \in Slot, slots \in [Slot -> Seq(Packet)], ViewExcept
  <2>4. View(With(slots, i, s), n) = With(a, k, s)
    BY <2>1, <2>3
  <2> QED
    BY <2>1, <2>4
<1>8. RingOK(b, d, tot + p.len, gone, turned, lev)
  <2>1. RingOK(With(a, d+1, Append(a[d+1], p)), d, tot + p.len, gone, turned, lev)
    <3>1. /\ lev \in Nat /\ RingOK(a, d, tot, gone, turned, lev) /\ p \in Packet
          /\ IntervalBlock(p.len, tot) <= d
      OBVIOUS
    <3> QED
      BY ONLY <3>1, PutOnTop
  <2>2. b = With(a, d+1, Append(a[d+1], p))
    BY <1>2, <1>5, <1>7
  <2> QED
    BY ONLY <2>1, <2>2
<1>9. ~turned => \A j \in k+1..BLOCK : a[j] = << >>
  BY <1>3 DEF RingOK
<1>10. /\ AgesOK(With(a, k, s), turned, << >>, r)
       /\ Keeps(a, With(a, k, s), p.age)
  <2>1. /\ a \in Ring /\ r \in Nat /\ AgesOK(a, turned, << >>, r) /\ p \in Packet
        /\ p.age <= LATENCY /\ Eldest(a, p.age) /\ k \in Place
        /\ (s = Append(a[k], p) \/ s = <<p>>)
    BY <1>1, <1>3, <1>6
  <2>2. PICK turned2 : turned2 = turned
    OBVIOUS
  <2>3. (turned => turned2) /\ (~turned2 => \A j \in k+1..BLOCK : a[j] = << >>)
    BY <1>9, <2>2
  <2>4. /\ AgesOK(With(a, k, s), turned2, << >>, r)
        /\ Keeps(a, With(a, k, s), p.age)
    BY ONLY <2>1, <2>3, PutAges DEF Keeps
  <2> QED
    BY <2>2, <2>4
<1> QED
  BY ONLY <1>7, <1>8, <1>10

\* A packet put alone in a later slot.
LEMMA PutAloneOK ==
  ASSUME NEW n \in Slot, NEW slots \in [Slot -> Seq(Packet)], NEW a, a = View(slots, n),
         NEW d, NEW tot, NEW gone, NEW turned, NEW lev \in Nat, NEW r \in Nat,
         RingOK(a, d, tot, gone, turned, lev), AgesOK(a, turned, << >>, r),
         NEW p \in Packet, p.age <= LATENCY, Eldest(a, p.age),
         NEW ahead, ahead = IntervalBlock(p.len, tot), ahead > d, ahead <= BLOCK,
         NEW k, k = IF ahead = BLOCK THEN 1 ELSE ahead + 1,
         NEW i, i = At(n, k), NEW b, b = View(With(slots, i, <<p>>), n),
         NEW e, e = k - 1, NEW tot2, tot2 = tot + p.len,
         NEW gone2, gone2 = gone + Bytes(slots[i]),
         NEW turned2, turned2 = (turned \/ ahead = BLOCK)
  PROVE  /\ RingOK(b, e, tot2, gone2, turned2, lev)
         /\ AgesOK(b, turned2, << >>, r)
         /\ Keeps(a, b, p.age)
<1>1. /\ BLOCK \in Nat \ {0} /\ d \in 0..BLOCK-1 /\ a \in Ring /\ tot \in Nat
      /\ turned \in BOOLEAN /\ p.len \in Nat
  BY RingSimAssumption DEF RingOK, Packet
<1>2. /\ k \in Place
      /\ RingOK(With(a, k, <<p>>), k - 1, tot + p.len, gone + Bytes(a[k]),
                turned \/ ahead = BLOCK, lev)
  <2>1. /\ lev \in Nat /\ RingOK(a, d, tot, gone, turned, lev) /\ p \in Packet
        /\ ahead = IntervalBlock(p.len, tot) /\ ahead > d /\ ahead <= BLOCK
        /\ k = IF ahead = BLOCK THEN 1 ELSE ahead + 1
    OBVIOUS
  <2> QED
    BY ONLY <2>1, PutAlone
<1>3. ahead \in Nat
  <2>1. tot \in Nat /\ p.len \in Nat /\ ahead = IntervalBlock(p.len, tot)
    BY <1>1
  <2> QED
    BY ONLY <2>1, ChargeLemma
<1>4. a[k] = slots[i] /\ <<p>> \in Seq(Packet) /\ (<<p>> = Append(a[k], p) \/ <<p>> = <<p>>)
  BY <1>2 DEF View
<1>5. b = With(a, k, <<p>>)
  <2>1. k \in Place /\ <<p>> \in Seq(Packet)
    BY <1>2, <1>4
  <2>2. View(With(slots, At(n, k), <<p>>), n) = With(View(slots, n), k, <<p>>)
    BY ONLY <2>1, n \in Slot, slots \in [Slot -> Seq(Packet)], ViewExcept
  <2> QED
    BY ONLY <2>2, a = View(slots, n), i = At(n, k), b = View(With(slots, i, <<p>>), n)
<1>6. RingOK(b, e, tot2, gone2, turned2, lev)
  <2>1. /\ turned2 = (turned \/ ahead = BLOCK) /\ a[k] = slots[i]
        /\ e = k - 1 /\ tot2 = tot + p.len /\ gone2 = gone + Bytes(slots[i])
    BY <1>4
  <2> QED
    BY ONLY <1>2, <1>5, <2>1
<1>7. ASSUME ~turned2, NEW j \in k+1..BLOCK
      PROVE  a[j] = << >>
  <2>1. ~turned /\ k = ahead + 1
    BY <1>7
  <2>2. j \in d+2..BLOCK
    <3>1. d \in Int /\ ahead \in Int /\ BLOCK \in Int /\ ahead > d /\ k = ahead + 1
      BY <1>1, <1>3, <2>1
    <3> QED
      BY ONLY <3>1, j \in k+1..BLOCK
  <2> QED
    BY <2>1, <2>2 DEF RingOK
<1>8. turned => turned2
  OBVIOUS
<1>9. /\ AgesOK(With(a, k, <<p>>), turned2, << >>, r)
      /\ Keeps(a, With(a, k, <<p>>), p.age)
  <2>1. PICK s : s = <<p>>
    OBVIOUS
  <2>2. /\ a \in Ring /\ r \in Nat /\ AgesOK(a, turned, << >>, r) /\ p \in Packet
        /\ p.age <= LATENCY /\ Eldest(a, p.age) /\ k \in Place
        /\ (s = Append(a[k], p) \/ s = <<p>>)
    BY <1>1, <1>2, <2>1
  <2>3. (turned => turned2) /\ (~turned2 => \A j \in k+1..BLOCK : a[j] = << >>)
    BY <1>7, <1>8
  <2>4. /\ AgesOK(With(a, k, s), turned2, << >>, r)
        /\ Keeps(a, With(a, k, s), p.age)
    BY ONLY <2>2, <2>3, PutAges DEF Keeps
  <2> QED
    BY <2>1, <2>4
<1> QED
  BY ONLY <1>5, <1>6, <1>9

\* One packet placed.
LEMMA PutOK ==
  ASSUME now_postion \in Slot, level \in Nat, NEW st, NEW r \in Nat, StateOK(st, r),
         st.queue = << >>, NEW p \in Packet, p.age <= LATENCY,
         Eldest(View(st.slots, now_postion), p.age),
         IntervalBlock(p.len, st.tot) <= BLOCK
  PROVE  /\ StateOK(Put(st, p), r)
         /\ Put(st, p).queue = << >> /\ Put(st, p).stop = st.stop
         /\ Keeps(View(st.slots, now_postion), View(Put(st, p).slots, now_postion), p.age)
<1>1. PICK n, a, d, tot, gone, turned, lev, slots, pre, ahead :
        /\ n = now_postion /\ a = View(slots, n) /\ d = cal_interval(n, pre)
        /\ tot = st.tot /\ gone = st.lost /\ turned = st.wrapped /\ lev = level
        /\ slots = st.slots /\ pre = st.pre /\ ahead = IntervalBlock(p.len, tot)
  OBVIOUS
<1>2. /\ st \in State /\ slots \in [Slot -> Seq(Packet)] /\ pre \in Slot
      /\ tot \in Nat /\ gone \in Nat /\ turned \in BOOLEAN /\ lev \in Nat /\ n \in Slot
      /\ RingOK(a, d, tot, gone, turned, lev) /\ AgesOK(a, turned, << >>, r)
      /\ Eldest(a, p.age) /\ ahead <= BLOCK
  BY <1>1 DEF StateOK, State
<1>3. PICK new : new = Put(st, p)
  OBVIOUS
<1>4. new \in State
  BY <1>2, <1>3, PutType
<1>5. /\ d \in 0..BLOCK-1 /\ At(n, d+1) = pre
  BY <1>1, <1>2, SlotLemma
<1>6. ahead \in Nat
  <2>1. p.len \in Nat /\ tot \in Nat
    BY <1>2, RingSimAssumption DEF Packet
  <2> QED
    BY ONLY <1>1, <2>1, ChargeLemma
<1>7. /\ RingOK(View(new.slots, n), cal_interval(n, new.pre), new.tot, new.lost, new.wrapped, lev)
      /\ AgesOK(View(new.slots, n), new.wrapped, << >>, r)
      /\ new.queue = << >> /\ new.stop = st.stop
      /\ Keeps(a, View(new.slots, n), p.age)
  <2>1. CASE ahead <= d
    <3>1. new = [st EXCEPT !.slots[st.pre] = Append(@, p), !.tot = @ + p.len]
      BY <1>1, <1>3, <2>1 DEF Put
    <3>2. /\ new.slots = With(slots, pre, Append(slots[pre], p))
          /\ new.pre = pre /\ new.tot = tot + p.len /\ new.queue = << >>
          /\ new.lost = gone /\ new.wrapped = turned /\ new.stop = st.stop
      BY <1>1, <1>2, <3>1 DEF State, With
    <3>3. PICK b : b = View(With(slots, pre, Append(slots[pre], p)), n)
      OBVIOUS
    <3>4. /\ RingOK(b, d, tot + p.len, gone, turned, lev) /\ AgesOK(b, turned, << >>, r)
          /\ Keeps(a, b, p.age)
      <4>1. /\ n \in Slot /\ slots \in [Slot -> Seq(Packet)] /\ a = View(slots, n)
            /\ lev \in Nat /\ r \in Nat /\ p \in Packet /\ p.age <= LATENCY
            /\ RingOK(a, d, tot, gone, turned, lev) /\ AgesOK(a, turned, << >>, r)
            /\ Eldest(a, p.age) /\ IntervalBlock(p.len, tot) <= d /\ pre = At(n, d + 1)
        BY <1>1, <1>2, <1>5, <2>1
      <4> QED
        BY ONLY <4>1, <3>3, PutOnTopOK
    <3> QED
      BY <1>1, <3>2, <3>3, <3>4
  <2>2. CASE ahead > d
    <3>1. PICK k : k = IF ahead = BLOCK THEN 1 ELSE ahead + 1
      OBVIOUS
    <3>2. PICK i : i = At(n, k)
      OBVIOUS
    <3>3. k \in Place /\ (pre + ahead - d) % BLOCK = i /\ cal_interval(n, i) = k - 1
      BY <1>1, <1>2, <1>6, <2>2, <3>1, <3>2, PlaceLemma
    <3>4. ~(ahead <= d)
      BY <1>5, <1>6, <2>2
    <3>5. new = [st EXCEPT !.slots[i] = <<p>>, !.pre = i, !.tot = @ + p.len,
                           !.lost = @ + Bytes(st.slots[i]), !.wrapped = @ \/ ahead = BLOCK]
      BY <1>1, <1>3, <3>3, <3>4 DEF Put
    <3>6. PICK turned2 : turned2 = (turned \/ ahead = BLOCK)
      OBVIOUS
    <3>7. /\ new.slots = With(slots, i, <<p>>)
          /\ new.pre = i /\ new.tot = tot + p.len /\ new.queue = << >>
          /\ new.lost = gone + Bytes(slots[i])
          /\ new.wrapped = turned2 /\ new.stop = st.stop
      BY <1>1, <1>2, <3>5, <3>6 DEF State, With
    <3>8. PICK b : b = View(With(slots, i, <<p>>), n)
      OBVIOUS
    <3>9. PICK e, tot2, gone2 :
            e = k - 1 /\ tot2 = tot + p.len /\ gone2 = gone + Bytes(slots[i])
      OBVIOUS
    <3>10. /\ RingOK(b, e, tot2, gone2, turned2, lev)
           /\ AgesOK(b, turned2, << >>, r)
           /\ Keeps(a, b, p.age)
      <4>1. /\ n \in Slot /\ slots \in [Slot -> Seq(Packet)] /\ a = View(slots, n)
            /\ lev \in Nat /\ r \in Nat /\ p \in Packet /\ p.age <= LATENCY
            /\ RingOK(a, d, tot, gone, turned, lev) /\ AgesOK(a, turned, << >>, r)
            /\ Eldest(a, p.age)
            /\ ahead = IntervalBlock(p.len, tot) /\ ahead > d /\ ahead <= BLOCK
        BY <1>1, <1>2, <2>2
      <4> QED
        BY ONLY <4>1, <3>1, <3>2, <3>6, <3>8, <3>9, PutAloneOK
    <3> QED
      BY <3>3, <3>7, <3>8, <3>9, <3>10
  <2> QED
    BY <1>5, <1>6, <2>1, <2>2
<1> QED
  BY <1>1, <1>3, <1>4, <1>7 DEF StateOK

\* One packet dealt with.
LEMMA TakeOK ==
  ASSUME now_postion \in Slot, level \in Nat, NEW st, NEW r \in Nat, StateOK(st, r),
         NEW w \in Seq(Packet), Aged(w), NEW j \in 1..Len(w), Taken(st, w, j-1)
  PROVE  StateOK(Take(st, w[j]), r) /\ Taken(Take(st, w[j]), w, j)
<1>1. PICK a, q, p, new : /\ a = View(st.slots, now_postion) /\ q = st.queue
                          /\ p = w[j] /\ new = Take(st, w[j])
  OBVIOUS
<1>2. /\ st \in State /\ a \in Ring /\ q \in Seq(Packet) /\ AgesOK(a, st.wrapped, q, r)
      /\ st.stop \in BOOLEAN /\ Len(q) \in Nat
  BY <1>1 DEF StateOK, State, RingOK
<1>3. /\ p \in Packet /\ Len(w) \in Nat /\ j \in Nat /\ p.age \in Nat
      /\ \A l \in 1..Len(w) : w[l] \in Packet /\ w[l].age \in Nat
  <2>1. Len(w) \in Nat /\ \A l \in 1..Len(w) : w[l] \in Packet /\ w[l].age \in Nat
    BY PacketLemma
  <2> QED
    BY <1>1, <2>1
<1>4. \A l \in j+1..Len(w) : l \in 1..Len(w) /\ l \in j..Len(w) /\ j <= l
  BY <1>3
<1>5. \A l \in j+1..Len(w) : p.age >= w[l].age
  BY <1>1, <1>4 DEF Aged
<1>6. /\ ~st.stop => q = << >>
      /\ \A l \in j..Len(w) : /\ Eldest(a, w[l].age)
                              /\ \A i \in 1..Len(q) : q[i].age >= w[l].age
  <2>1. (j-1) + 1 = j
    BY <1>3
  <2> QED
    BY <1>1, <2>1 DEF Taken
<1>7. /\ Eldest(a, p.age) /\ \A i \in 1..Len(q) : q[i].age >= p.age
  BY <1>1, <1>3, <1>6
<1>8. PICK q2 : q2 = Append(q, p)
  OBVIOUS
<1>9. /\ q2 \in Seq(Packet) /\ AgesOK(a, st.wrapped, q2, r)
      /\ \A l \in j+1..Len(w) : \A i \in 1..Len(q2) : q2[i].age >= w[l].age
  <2>1. AgesOK(a, st.wrapped, Append(q, p), r)
    BY <1>2, <1>3, <1>7, AppendAges
  <2>2. \A i \in 1..Len(q2) : q2[i] = p \/ (i \in 1..Len(q) /\ q2[i] = q[i])
    BY <1>2, <1>3, <1>8
  <2>3. \A l \in j+1..Len(w) : \A i \in 1..Len(q2) : q2[i].age >= w[l].age
    BY <1>4, <1>5, <1>6, <2>2
  <2> QED
    BY <1>2, <1>3, <1>8, <2>1, <2>3
<1>10. ASSUME NEW t, t.slots = st.slots, t.pre = st.pre, t.tot = st.tot, t.lost = st.lost,
              t.wrapped = st.wrapped, t.queue = q2, t.stop = TRUE, t \in State
       PROVE  StateOK(t, r) /\ Taken(t, w, j)
  <2>1. StateOK(t, r)
    BY <1>1, <1>9, <1>10 DEF StateOK
  <2>2. Taken(t, w, j)
    BY <1>1, <1>4, <1>6, <1>9, <1>10 DEF Taken
  <2> QED
    BY <2>1, <2>2
<1>11. CASE st.stop
  <2>1. new = [st EXCEPT !.queue = q2]
    BY <1>1, <1>8, <1>11 DEF Take
  <2>2. /\ new.slots = st.slots /\ new.pre = st.pre /\ new.tot = st.tot
        /\ new.lost = st.lost /\ new.wrapped = st.wrapped /\ new.queue = q2
        /\ new.stop = TRUE /\ new \in State
    BY <1>2, <1>9, <1>11, <2>1 DEF State
  <2> QED
    BY <1>1, <1>10, <2>2
<1>12. CASE ~st.stop /\ p.age > LATENCY
  <2>1. new = st
    BY <1>1, <1>12 DEF Take
  <2>2. Taken(st, w, j)
    BY <1>1, <1>4, <1>6 DEF Taken
  <2> QED
    BY <1>1, <2>1, <2>2
<1>13. CASE ~st.stop /\ ~(p.age > LATENCY) /\ p.len > CAP
  <2>1. new = [st EXCEPT !.stop = TRUE]
    BY <1>1, <1>13 DEF Take
  <2>2. /\ new.slots = st.slots /\ new.pre = st.pre /\ new.tot = st.tot
        /\ new.lost = st.lost /\ new.wrapped = st.wrapped /\ new.queue = st.queue
        /\ new.stop = TRUE /\ new \in State
    BY <1>2, <2>1 DEF State
  <2>3. StateOK(new, r)
    BY <2>2 DEF StateOK
  <2>4. Taken(new, w, j)
    BY <1>1, <1>4, <1>6, <2>2 DEF Taken
  <2> QED
    BY <1>1, <2>3, <2>4
<1>14. CASE ~st.stop /\ ~(p.age > LATENCY) /\ ~(p.len > CAP) /\ IntervalBlock(p.len, st.tot) > BLOCK
  <2>1. new = [st EXCEPT !.queue = q2, !.stop = TRUE]
    BY <1>1, <1>8, <1>14 DEF Take
  <2>2. /\ new.slots = st.slots /\ new.pre = st.pre /\ new.tot = st.tot
        /\ new.lost = st.lost /\ new.wrapped = st.wrapped /\ new.queue = q2
        /\ new.stop = TRUE /\ new \in State
    BY <1>2, <1>9, <2>1 DEF State
  <2> QED
    BY <1>1, <1>10, <2>2
<1>15. CASE ~st.stop /\ ~(p.age > LATENCY) /\ ~(p.len > CAP) /\ ~(IntervalBlock(p.len, st.tot) > BLOCK)
  <2>1. new = Put(st, p)
    BY <1>1, <1>15 DEF Take
  <2>2. /\ st.queue = << >> /\ p.age <= LATENCY /\ IntervalBlock(p.len, st.tot) <= BLOCK
    <3>1. IntervalBlock(p.len, st.tot) \in Nat
      <4>1. p.len \in Nat /\ st.tot \in Nat
        BY <1>2, <1>3, RingSimAssumption DEF Packet, State
      <4> QED
        BY ONLY <4>1, ChargeLemma
    <3> QED
      BY <1>1, <1>3, <1>6, <1>15, <3>1, RingSimAssumption
  <2>3. /\ StateOK(Put(st, p), r)
        /\ Put(st, p).queue = << >> /\ Put(st, p).stop = st.stop
        /\ Keeps(View(st.slots, now_postion), View(Put(st, p).slots, now_postion), p.age)
    <3>1. /\ now_postion \in Slot /\ level \in Nat /\ r \in Nat /\ StateOK(st, r)
          /\ p \in Packet /\ Eldest(View(st.slots, now_postion), p.age)
      BY <1>1, <1>3, <1>7
    <3> QED
      BY ONLY <2>2, <3>1, PutOK
  <2>4. Taken(new, w, j)
    <3>1. \A l \in j+1..Len(w) : Eldest(View(new.slots, now_postion), w[l].age)
      <4>1. \A l \in j+1..Len(w) : w[l].age \in Int /\ p.age >= w[l].age /\ Eldest(a, w[l].age)
        BY <1>3, <1>4, <1>5, <1>6
      <4> QED
        BY <1>1, <2>1, <2>3, <4>1 DEF Keeps
    <3>2. new.queue = << >> /\ Len(<< >>) = 0
      BY <2>1, <2>3
    <3>3. \A i \in 1..Len(new.queue) : FALSE
      BY <3>2
    <3> QED
      BY <3>1, <3>2, <3>3 DEF Taken
  <2> QED
    BY <1>1, <2>1, <2>3, <2>4
<1> QED
  BY <1>11, <1>12, <1>13, <1>14, <1>15

\* in_ring's loop.
LEMMA LoopOK ==
  ASSUME now_postion \in Slot, level \in Nat, NEW st, NEW r \in Nat, StateOK(st, r),
         NEW w \in Seq(Packet), Aged(w), Taken(st, w, 0)
  PROVE  StateOK(FoldLeft(Take, st, w), r)
<1> DEFINE n == Len(w)
           F(g) == g = [t \in SUBSET (DOMAIN w) |-> IF t = {} THEN st
                           ELSE Take(g[t \ {Max(t)}], w[Max(t)])]
           T == [x \in State \X (1..n) |-> Take(x[1], w[x[2]])]
<1>1. n \in Nat /\ DOMAIN w = 1..n /\ \A j \in 1..n : w[j] \in Packet
  BY PacketLemma
<1>2. FoldLeft(Take, st, w) = (CHOOSE g : F(g))[DOMAIN w]
  BY DEF FoldLeft, MapThenFoldSet
<1>3. T \in [State \X (1..n) -> State]
  <2>1. ASSUME NEW x \in State \X (1..n) PROVE Take(x[1], w[x[2]]) \in State
    <3>1. x[1] \in State /\ w[x[2]] \in Packet
      BY <1>1
    <3> QED
      BY <3>1, TakeType
  <2> QED
    BY <2>1
<1>4. st \in State
  BY DEF StateOK
<1>5. \A v \in State, j \in 1..n : T[<<v, j>>] = Take(v, w[j])
  OBVIOUS
<1> HIDE DEF T
<1>6. PICK g \in [SUBSET (1..n) -> State] : RunEq(g, T, st, n)
  BY ONLY <1>1, <1>3, <1>4, FoldRuns
<1>7. F(g)
  <2>1. ASSUME NEW t \in SUBSET (1..n), t # {}
        PROVE  T[<<g[t \ {Max(t)}], Max(t)>>] = Take(g[t \ {Max(t)}], w[Max(t)])
    <3>1. Max(t) \in t
      BY ONLY <1>1, <2>1, MaxPicks
    <3>2. Max(t) \in 1..n /\ t \ {Max(t)} \in SUBSET (1..n)
      BY <3>1
    <3>3. g[t \ {Max(t)}] \in State
      BY <3>2
    <3> QED
      BY <1>5, <3>2, <3>3
  <2> HIDE DEF n
  <2>2. [t \in SUBSET (1..n) |-> IF t = {} THEN st ELSE T[<<g[t \ {Max(t)}], Max(t)>>]]
          = [t \in SUBSET (1..n) |-> IF t = {} THEN st ELSE Take(g[t \ {Max(t)}], w[Max(t)])]
    BY <2>1
  <2> QED
    BY <1>1, <1>6, <2>2 DEF RunEq
<1>8. PICK h : h = (CHOOSE f : F(f))
  OBVIOUS
<1>9. F(h)
  BY <1>7, <1>8
<1> DEFINE P == {j \in Nat : j <= n => StateOK(h[1..j], r) /\ Taken(h[1..j], w, j)}
<1>10. 0 \in P
  <2>1. 1..0 = {} /\ {} \in SUBSET (DOMAIN w)
    BY <1>1
  <2>2. h[1..0] = st
    BY <1>9, <2>1
  <2> QED
    BY <2>2
<1>11. ASSUME NEW j \in Nat, j \in P PROVE j+1 \in P
  <2> SUFFICES ASSUME j+1 <= n
               PROVE  StateOK(h[1..j+1], r) /\ Taken(h[1..j+1], w, j+1)
    OBVIOUS
  <2>1. j <= n /\ j+1 \in 1..n /\ (j+1)-1 = j /\ 1..j+1 \in SUBSET (DOMAIN w) /\ j+1 \in 1..j+1
    BY <1>1
  <2>2. StateOK(h[1..j], r) /\ Taken(h[1..j], w, (j+1)-1)
    BY <1>11, <2>1
  <2>3. Max(1..j+1) = j+1 /\ (1..j+1) \ {j+1} = 1..j
    BY MaxOfInterval
  <2>4. h[1..j+1] = Take(h[1..j], w[j+1])
    <3>1. 1..j+1 # {}
      BY <2>1
    <3>2. PICK t : t = 1..j+1
      OBVIOUS
    <3>3. h[t] = Take(h[t \ {Max(t)}], w[Max(t)])
      BY <1>9, <2>1, <3>1, <3>2
    <3> QED
      BY ONLY <2>3, <3>2, <3>3
  <2>5. PICK v, k : v = h[1..j] /\ k = j+1
    OBVIOUS
  <2>6. StateOK(Take(v, w[k]), r) /\ Taken(Take(v, w[k]), w, k)
    <3>1. /\ StateOK(v, r) /\ Taken(v, w, k-1) /\ k \in 1..Len(w) /\ w \in Seq(Packet)
          /\ now_postion \in Slot /\ level \in Nat /\ r \in Nat /\ Aged(w)
      BY <2>1, <2>2, <2>5
    <3> QED
      BY ONLY <3>1, TakeOK
  <2> QED
    BY ONLY <2>4, <2>5, <2>6
<1> HIDE DEF P
<1>12. n \in P
  BY <1>1, <1>10, <1>11, NatSetInduction
<1>13. StateOK(h[1..n], r)
  BY <1>1, <1>12 DEF P
<1> QED
  BY <1>1, <1>2, <1>8, <1>13

\* A batch that has just arrived is taken.
LEMMA ArrivedOK ==
  ASSUME now_postion \in Slot, level \in Nat, pre_pointer \in Slot, round \in Nat,
         ring_queue \in [Slot -> Seq(Packet)], inque \in Seq(Packet),
         RingOK(View(ring_queue, now_postion), cal_interval(now_postion, pre_pointer),
                tot_bytes, lost, wrapped, level),
         AgesOK(View(ring_queue, now_postion), wrapped, inque, round),
         NEW batch \in Seq(Packet), \A i \in 1..Len(batch) : batch[i].age = 0
  PROVE  StateOK(Arrived(batch), round + 1)
<1>1. PICK n, a, q, q1, w, b, r1, st, slots :
        /\ n = now_postion /\ a = View(ring_queue, n) /\ q = inque /\ q1 = Older(q)
        /\ w = q1 \o batch /\ b = OlderRing(a) /\ r1 = round + 1
        /\ slots = [i \in Slot |-> Older(ring_queue[i])]
        /\ st = [slots |-> slots, pre |-> pre_pointer, tot |-> tot_bytes, queue |-> q1,
                 lost |-> lost, wrapped |-> wrapped, stop |-> FALSE]
  OBVIOUS
<1>2. /\ r1 \in Nat /\ n \in Slot /\ a \in Ring /\ tot_bytes \in Nat /\ lost \in Nat
      /\ wrapped \in BOOLEAN
  BY <1>1 DEF RingOK
<1>3. \A i \in Slot : Older(ring_queue[i]) \in Seq(Packet)
  <2>1. \A i \in Slot : ring_queue[i] \in Seq(Packet)
    OBVIOUS
  <2> QED
    BY <2>1, OlderLemma
<1>4. /\ slots \in [Slot -> Seq(Packet)]
      /\ View(slots, n) = b
  <2>1. slots \in [Slot -> Seq(Packet)]
    BY <1>1, <1>3
  <2>2. \A k \in Place : slots[At(n, k)] = Older(a[k])
    <3>1. \A k \in Place : At(n, k) \in Slot
      BY <1>2, SlotLemma
    <3> QED
      BY <1>1, <3>1 DEF View
  <2> QED
    BY <1>1, <2>1, <2>2 DEF View, OlderRing
<1>5. q1 \in Seq(Packet) /\ Len(q1) \in Nat
  BY <1>1, OlderLemma
<1>6. /\ RingOK(b, cal_interval(n, pre_pointer), tot_bytes, lost, wrapped, level)
      /\ AgesOK(b, wrapped, q1, r1)
  <2>1. RingOK(b, cal_interval(n, pre_pointer), tot_bytes, lost, wrapped, level)
    <3>1. RingOK(a, cal_interval(n, pre_pointer), tot_bytes, lost, wrapped, level)
      BY <1>1
    <3>2. RingOK(OlderRing(a), cal_interval(n, pre_pointer), tot_bytes, lost, wrapped, level)
      BY ONLY <3>1, OlderRingOK
    <3> QED
      BY <1>1, <3>2
  <2>2. AgesOK(b, wrapped, q1, r1)
    <3>1. a \in Ring /\ round \in Nat /\ AgesOK(a, wrapped, q, round)
      BY <1>1, <1>2
    <3>2. AgesOK(OlderRing(a), wrapped, Older(q), round + 1)
      BY ONLY <3>1, OlderAges
    <3> QED
      BY <1>1, <3>2
  <2> QED
    BY <2>1, <2>2
<1>7. CASE batch = << >>
  <2>1. Arrived(batch) = st
    BY <1>1, <1>7 DEF Arrived
  <2>2. st \in State
    BY <1>1, <1>2, <1>4, <1>5 DEF State
  <2> QED
    BY <1>1, <1>4, <1>6, <2>1, <2>2 DEF StateOK
<1>8. CASE batch # << >>
  <2>1. PICK s0 : s0 = [st EXCEPT !.queue = << >>, !.stop = FALSE]
    OBVIOUS
  <2>2. Arrived(batch) = FoldLeft(Take, s0, w)
    <3>1. Arrived(batch) = in_ring(st, w)
      <4>1. st.queue \o batch = w
        BY <1>1
      <4> DEFINE s1 == [slots |-> [i \in Slot |-> Older(ring_queue[i])], pre |-> pre_pointer,
                        tot |-> tot_bytes, queue |-> Older(inque), lost |-> lost,
                        wrapped |-> wrapped, stop |-> FALSE]
      <4>2. Arrived(batch) = in_ring(st, st.queue \o batch)
        <5>1. st = s1
          BY <1>1
        <5>2. Arrived(batch) = IF batch = << >> THEN s1 ELSE in_ring(s1, s1.queue \o batch)
          BY DEF Arrived
        <5> HIDE DEF s1
        <5> QED
          BY <1>8, <5>1, <5>2
      <4> QED
        BY ONLY <4>1, <4>2
    <3> QED
      BY <2>1, <3>1 DEF in_ring
  <2>3. /\ s0 \in State /\ s0.slots = slots /\ s0.pre = pre_pointer /\ s0.tot = tot_bytes
        /\ s0.queue = << >> /\ s0.lost = lost /\ s0.wrapped = wrapped /\ s0.stop = FALSE
    <3>1. << >> \in Seq(Packet)
      OBVIOUS
    <3>2. st \in State
      BY <1>1, <1>2, <1>4, <1>5 DEF State
    <3> QED
      BY <1>1, <2>1, <3>1, <3>2 DEF State
  <2>4. AgesOK(b, wrapped, << >>, r1)
    <3>1. << >> \in Seq(Packet) /\ Len(<< >>) = 0
      OBVIOUS
    <3>2. Aged(<< >>) /\ \A j \in 1..Len(<< >>) : FALSE
      BY <3>1 DEF Aged
    <3> QED
      BY <1>6, <3>1, <3>2 DEF AgesOK
  <2>5. StateOK(s0, r1)
    BY <1>1, <1>4, <1>6, <2>3, <2>4 DEF StateOK
  <2>6. /\ w \in Seq(Packet) /\ Len(w) \in Nat
        /\ \A i \in 1..Len(w) : \/ i \in 1..Len(q1) /\ w[i] = q1[i]
                                \/ ~(i \in 1..Len(q1)) /\ w[i].age = 0
    <3>1. /\ w \in Seq(Packet) /\ Len(w) = Len(q1) + Len(batch) /\ Len(batch) \in Nat
          /\ \A i \in 1..Len(w) : w[i] = IF i <= Len(q1) THEN q1[i] ELSE batch[i - Len(q1)]
      BY <1>1, <1>5
    <3>2. \A i \in 1..Len(w) : i > Len(q1) => i - Len(q1) \in 1..Len(batch)
      BY <1>5, <3>1
    <3>3. ASSUME NEW i \in 1..Len(w), i > Len(q1)
          PROVE  ~(i \in 1..Len(q1)) /\ w[i].age = 0
      <4>1. w[i] = batch[i - Len(q1)]
        BY <1>5, <3>1, <3>3
      <4>2. batch[i - Len(q1)].age = 0
        BY <3>2, <3>3
      <4> QED
        BY <1>5, <3>3, <4>1, <4>2
    <3>4. \A i \in 1..Len(w) : i <= Len(q1) => i \in 1..Len(q1) /\ w[i] = q1[i]
      BY <1>5, <3>1
    <3>5. \A i \in 1..Len(w) : i <= Len(q1) \/ i > Len(q1)
      BY <1>5, <3>1
    <3> QED
      BY ONLY <3>1, <3>3, <3>4, <3>5
  <2>7. ASSUME NEW k \in Place, NEW i \in 1..Len(b[k])
        PROVE  b[k][i].age \in Nat
    <3>1. b[k] \in Seq(Packet)
      BY <1>6 DEF RingOK, Ring
    <3> QED
      BY <3>1, PacketLemma
  <2>8. Aged(w)
    <3> SUFFICES ASSUME NEW i \in 1..Len(w), NEW j \in 1..Len(w), i <= j
                 PROVE  w[i].age >= w[j].age
      BY DEF Aged
    <3>1. w[i].age \in Nat
      BY <2>6, PacketLemma
    <3>2. CASE j \in 1..Len(q1) /\ w[j] = q1[j]
      <4>1. i \in 1..Len(q1)
        BY <1>5, <3>2
      <4> QED
        BY <1>6, <2>6, <3>2, <4>1 DEF AgesOK, Aged
    <3>3. CASE w[j].age = 0
      BY <3>1, <3>3
    <3> QED
      BY <2>6, <3>2, <3>3
  <2>9. Taken(s0, w, 0)
    <3>1. ASSUME NEW l \in 1..Len(w) PROVE Eldest(b, w[l].age)
      <4>1. CASE l \in 1..Len(q1) /\ w[l] = q1[l]
        BY <1>6, <4>1 DEF AgesOK
      <4>2. CASE w[l].age = 0
        BY <2>7, <4>2 DEF Eldest
      <4> QED
        BY <2>6, <4>1, <4>2
    <3>2. \A l \in 0+1..Len(w) : l \in 1..Len(w)
      BY <2>6
    <3>3. s0.queue = << >> /\ s0.slots = slots /\ \A i \in 1..Len(s0.queue) : FALSE
      <4>1. s0.queue = << >> /\ s0.slots = slots /\ Len(<< >>) = 0
        BY <2>3
      <4> QED
        BY <4>1
    <3> QED
      BY <1>1, <1>4, <3>1, <3>2, <3>3 DEF Taken
  <2>10. StateOK(FoldLeft(Take, s0, w), r1)
    <3>1. now_postion \in Slot /\ level \in Nat /\ r1 \in Nat /\ w \in Seq(Packet)
      BY <1>2, <2>6
    <3> QED
      BY ONLY <2>5, <2>8, <2>9, <3>1, LoopOK
  <2> QED
    BY <1>1, <2>2, <2>10
<1> QED
  BY <1>7, <1>8
--------------------------------------------------------------------------------
(***************************************************************************)
(* The invariant                                                            *)
(***************************************************************************)
RingInv ==
  /\ now_postion \in Slot /\ pre_pointer \in Slot /\ round \in 0..ROUNDS-1 /\ level \in Nat
  /\ ring_queue \in [Slot -> Seq(Packet)]
  /\ RingOK(View(ring_queue, now_postion), cal_interval(now_postion, pre_pointer),
            tot_bytes, lost, wrapped, level)
  /\ AgesOK(View(ring_queue, now_postion), wrapped, inque, round)

LEMMA EmptyUpto ==
  ASSUME NEW a \in Ring, \A k \in Place : a[k] = << >>
  PROVE  \A k \in 0..BLOCK : Upto(a, k) = 0
<1> DEFINE P == {k \in Nat : k <= BLOCK => Upto(a, k) = 0}
<1>1. BLOCK \in Nat \ {0}
  BY RingSimAssumption
<1>2. 0 \in P
  BY UptoLemma
<1>3. ASSUME NEW k \in Nat, k \in P PROVE k+1 \in P
  <2> SUFFICES ASSUME k+1 <= BLOCK PROVE Upto(a, k+1) = 0
    OBVIOUS
  <2>1. k \in 0..BLOCK-1 /\ k <= BLOCK /\ k+1 \in Place
    BY <1>1 DEF Place
  <2>2. Upto(a, k+1) = Upto(a, k) + Bytes(a[k+1]) /\ Upto(a, k) = 0
    BY <1>3, <2>1, UptoLemma
  <2> QED
    BY <2>1, <2>2, BytesEmpty
<1> HIDE DEF P
<1>4. Nat \subseteq P
  BY <1>2, <1>3, NatSetInduction
<1> QED
  BY <1>1, <1>4 DEF P

LEMMA InvInit == Init => RingInv
<1> SUFFICES ASSUME Init PROVE RingInv
  OBVIOUS
<1> DEFINE a == View(ring_queue, now_postion)
           d == cal_interval(now_postion, pre_pointer)
<1>1. /\ BLOCK \in Nat \ {0} /\ CAP \in Nat \ {0} /\ ROUNDS \in Nat \ {0} /\ LATENCY \in Nat
  BY RingSimAssumption
<1>2. /\ now_postion \in Slot /\ pre_pointer \in Slot /\ round \in 0..ROUNDS-1 /\ level \in Nat
      /\ level = 0 /\ tot_bytes = 0 /\ lost = 0 /\ round = 0 /\ wrapped = FALSE /\ inque = << >>
      /\ d = 0 /\ ring_queue = [i \in Slot |-> << >>]
  BY <1>1 DEF Init, Slot, cal_interval
<1>3. << >> \in Seq(Packet) /\ Len(<< >>) = 0
  OBVIOUS
<1>4. ring_queue \in [Slot -> Seq(Packet)]
  BY <1>2, <1>3
<1>5. a \in Ring /\ \A k \in Place : a[k] = << >>
  <2>1. \A k \in Place : At(now_postion, k) \in Slot
    BY <1>2, SlotLemma
  <2>2. \A k \in Place : ring_queue[At(now_postion, k)] = << >>
    BY <1>2, <2>1
  <2> QED
    BY <1>3, <2>2 DEF View, Ring
<1> HIDE DEF a, d
<1>6. \A k \in 0..BLOCK : Upto(a, k) = 0
  BY <1>5, EmptyUpto
<1>7. RingOK(a, d, tot_bytes, lost, wrapped, level)
  <2>1. tot_bytes * BLOCK < CAP * (BLOCK + 1)
    <3>1. CAP * (BLOCK + 1) > 0
      BY ONLY <1>1
    <3> QED
      BY <1>1, <1>2, <3>1
  <2>2. tot_bytes = Upto(a, BLOCK) + lost /\ tot_bytes < CAP /\ d \in 0..BLOCK-1
    BY <1>1, <1>2, <1>6
  <2>3. \A k \in d+2..BLOCK : a[k] = << >>
    BY <1>1, <1>2, <1>5 DEF Place
  <2>4. ASSUME NEW k \in 0..BLOCK PROVE level + BLOCK * Upto(a, k) <= CAP * (k + BLOCK - 1)
    <3>1. k + BLOCK - 1 \in Nat
      BY <1>1
    <3>2. CAP * (k + BLOCK - 1) \in Nat
      BY <1>1, <3>1
    <3> QED
      BY <1>1, <1>2, <1>6, <3>2
  <2> QED
    BY <1>2, <1>5, <2>1, <2>2, <2>3, <2>4 DEF RingOK
<1>8. AgesOK(a, wrapped, inque, round)
  <2>1. \A k \in Place : \A i \in 1..Len(a[k]) : FALSE
    BY <1>3, <1>5
  <2>2. \A j \in 1..Len(inque) : FALSE
    BY <1>2, <1>3
  <2> QED
    BY <1>2, <1>3, <2>1, <2>2 DEF AgesOK, Aged, AgedRing
<1> QED
  BY <1>2, <1>4, <1>7, <1>8 DEF RingInv, a, d

LEMMA BatchLemma ==
  ASSUME NEW batch \in Batch
  PROVE  batch \in Seq(Packet) /\ \A i \in 1..Len(batch) : batch[i].age = 0
<1> DEFINE S == [len : Lengths, age : {0}]
<1>1. batch \in UNION {[1..m -> S] : m \in 0..MaxBatch}
  BY DEF Batch, BoundedSeq, SeqOf
<1>2. \A x \in S : x \in Packet /\ x.age = 0
  BY DEF Packet
<1> HIDE DEF S
<1>3. PICK m \in 0..MaxBatch : batch \in [1..m -> S]
  BY <1>1
<1>4. m \in Nat /\ \A i \in 1..m : batch[i] \in Packet /\ batch[i].age = 0
  BY <1>2, <1>3, RingSimAssumption
<1>5. batch \in [1..m -> Packet]
  BY <1>3, <1>4
<1>6. batch \in Seq(Packet) /\ Len(batch) = m
  BY <1>4, <1>5
<1> QED
  BY <1>4, <1>6

\* The state after a batch has been taken.
LEMMA InvArrived ==
  ASSUME RingInv, NEW batch \in Batch
  PROVE  StateOK(Arrived(batch), round + 1)
<1>1. batch \in Seq(Packet) /\ \A i \in 1..Len(batch) : batch[i].age = 0
  BY BatchLemma
<1>2. /\ now_postion \in Slot /\ level \in Nat /\ pre_pointer \in Slot /\ round \in Nat
      /\ ring_queue \in [Slot -> Seq(Packet)] /\ inque \in Seq(Packet)
      /\ RingOK(View(ring_queue, now_postion), cal_interval(now_postion, pre_pointer),
                tot_bytes, lost, wrapped, level)
      /\ AgesOK(View(ring_queue, now_postion), wrapped, inque, round)
  BY DEF RingInv, AgesOK
<1> QED
  BY ONLY <1>1, <1>2, ArrivedOK

LEMMA InvTick ==
  ASSUME RingInv, NEW batch \in Batch, Tick(batch)
  PROVE  RingInv'
<1>1. PICK st : st = Arrived(batch)
  OBVIOUS
<1>2. StateOK(st, round + 1)
  BY <1>1, InvArrived
<1>3. /\ round + 1 < ROUNDS /\ ring_queue' = st.slots /\ pre_pointer' = st.pre
      /\ tot_bytes' = st.tot /\ inque' = st.queue /\ lost' = st.lost /\ wrapped' = st.wrapped
      /\ round' = round + 1 /\ now_postion' = now_postion /\ level' = level
  BY <1>1 DEF Tick
<1>4. round' \in 0..ROUNDS-1 /\ now_postion \in Slot /\ level \in Nat
  BY <1>3, RingSimAssumption DEF RingInv
<1>5. /\ st.slots \in [Slot -> Seq(Packet)] /\ st.pre \in Slot
      /\ RingOK(View(st.slots, now_postion), cal_interval(now_postion, st.pre),
                st.tot, st.lost, st.wrapped, level)
      /\ AgesOK(View(st.slots, now_postion), st.wrapped, st.queue, round + 1)
  BY <1>2 DEF StateOK, State
<1> QED
  BY <1>3, <1>4, <1>5 DEF RingInv

LEMMA InvTickSend ==
  ASSUME RingInv, NEW batch \in Batch, TickSend(batch)
  PROVE  RingInv'
<1>1. PICK st, n, a, d, sent, n2, slots2, pre2, lev2 :
        /\ st = Arrived(batch) /\ n = now_postion /\ a = View(st.slots, n)
        /\ d = cal_interval(n, st.pre) /\ sent = Bytes(st.slots[n]) /\ n2 = (n + 1) % BLOCK
        /\ slots2 = Emptied(st) /\ pre2 = MovedPointer(st) /\ lev2 = Leak(sent)
  OBVIOUS
<1>2. /\ round + 1 = ROUNDS /\ ring_queue' = slots2 /\ pre_pointer' = pre2
      /\ now_postion' = n2 /\ tot_bytes' = st.tot - sent /\ inque' = st.queue
      /\ lost' = st.lost /\ wrapped' = st.wrapped /\ level' = lev2 /\ round' = 0
  BY <1>1 DEF TickSend
<1>3. StateOK(st, ROUNDS)
  BY <1>1, <1>2, InvArrived
<1>4. /\ BLOCK \in Nat \ {0} /\ CAP \in Nat \ {0} /\ ROUNDS \in Nat \ {0} /\ MaxLoad \in Nat
  BY RingSimAssumption
<1>5. /\ n \in Slot /\ level \in Nat
      /\ st.slots \in [Slot -> Seq(Packet)] /\ st.pre \in Slot /\ st.tot \in Nat
      /\ RingOK(a, d, st.tot, st.lost, st.wrapped, level)
      /\ AgesOK(a, st.wrapped, st.queue, ROUNDS) /\ a \in Ring /\ d \in 0..BLOCK-1
  BY <1>1, <1>3 DEF StateOK, State, RingInv, RingOK
<1>6. /\ 1 \in Place /\ At(n, 1) = n /\ a[1] = st.slots[n] /\ sent = Bytes(a[1]) /\ sent \in Nat
  <2>1. 1 \in Place
    BY <1>4 DEF Place
  <2>2. At(n, 1) = n
    <3>1. At(n, 1) = IF n + 1 - 1 < BLOCK THEN n + 1 - 1 ELSE n + 1 - 1 - BLOCK
      BY <1>5, <2>1, AtLemma
    <3>2. n \in 0..BLOCK-1
      BY <1>5 DEF Slot
    <3> QED
      BY <1>4, <3>1, <3>2
  <2>3. a[1] = st.slots[n]
    BY <1>1, <2>1, <2>2 DEF View
  <2>4. a[1] \in Seq(Packet)
    BY <1>5, <2>1 DEF Ring
  <2> QED
    BY <1>1, <2>1, <2>2, <2>3, <2>4, BytesSum
<1>7. /\ slots2 \in [Slot -> Seq(Packet)] /\ View(slots2, n) = With(a, 1, << >>)
  <2>1. << >> \in Seq(Packet)
    OBVIOUS
  <2>2. slots2 = With(st.slots, At(n, 1), << >>)
    BY <1>1, <1>6 DEF Emptied, With
  <2>3. PICK q : q = st.slots
    OBVIOUS
  <2>4. q \in [Slot -> Seq(Packet)] /\ n \in Slot /\ 1 \in Place
    BY <1>5, <1>6, <2>3
  <2>5. /\ View(With(q, At(n, 1), << >>), n) = With(View(q, n), 1, << >>)
        /\ With(q, At(n, 1), << >>) \in [Slot -> Seq(Packet)]
    BY ONLY <2>1, <2>4, ViewExcept
  <2> QED
    BY <1>1, <2>2, <2>3, <2>5
<1>8. n2 \in Slot /\ View(slots2, n2) = Shifted(a)
  <2>1. /\ n2 \in Slot
        /\ View(slots2, n2) = [k \in Place |-> IF k < BLOCK THEN View(slots2, n)[k + 1]
                                                           ELSE View(slots2, n)[1]]
    BY <1>1, <1>5, <1>7, ViewNext
  <2>2. PICK c : c = With(a, 1, << >>)
    OBVIOUS
  <2>3. c[1] = << >> /\ \A k \in Place : k < BLOCK => c[k+1] = a[k+1]
    <3>1. \A k \in Place : k < BLOCK => k + 1 \in Place /\ k + 1 # 1
      BY <1>4 DEF Place
    <3> QED
      BY <1>5, <1>6, <2>2, <3>1 DEF With, Ring
  <2>4. View(slots2, n2) = [k \in Place |-> IF k < BLOCK THEN c[k + 1] ELSE c[1]]
    BY <1>7, <2>1, <2>2
  <2> QED
    BY <2>1, <2>3, <2>4 DEF Shifted
<1>9. pre2 \in Slot /\ cal_interval(n2, pre2) = IF d = 0 THEN 0 ELSE d - 1
  <2>1. cal_interval(n, n) = 0 /\ (d = 0 => st.pre = n)
    <3>1. cal_interval(n, n) = 0
      BY <1>4, <1>5 DEF Slot, cal_interval
    <3>2. At(n, d + 1) = st.pre
      BY <1>1, <1>5, SlotLemma
    <3> QED
      BY <1>6, <3>1, <3>2
  <2>2. /\ \A i \in Slot : i # n => cal_interval(n2, i) = cal_interval(n, i) - 1
        /\ cal_interval(n2, n2) = 0
    BY <1>1, <1>5, ViewNext
  <2>3. CASE d = 0
    <3>1. pre2 = n2
      BY <1>1, <2>1, <2>3 DEF MovedPointer
    <3> QED
      BY <1>8, <2>2, <2>3, <3>1
  <2>4. CASE d # 0
    <3>1. pre2 = st.pre /\ st.pre # n
      BY <1>1, <2>1, <2>4 DEF MovedPointer
    <3> QED
      BY <1>1, <1>5, <2>2, <2>4, <3>1
  <2> QED
    BY <2>3, <2>4
<1>10. lev2 \in Nat /\ (lev2 = 0 \/ lev2 <= level + sent * BLOCK - CAP)
  <2>1. PICK x : x = sent * BLOCK
    OBVIOUS
  <2>2. x \in Nat /\ MaxLevel \in Nat
    BY <1>4, <1>6, <2>1 DEF MaxLevel
  <2>3. lev2 = IF level + x - CAP < 0 THEN 0
               ELSE IF level + x - CAP > MaxLevel THEN MaxLevel ELSE level + x - CAP
    BY <1>1, <2>1 DEF Leak
  <2> QED
    BY <1>4, <1>5, <2>1, <2>2, <2>3
<1>11. RingOK(Shifted(a), IF d = 0 THEN 0 ELSE d - 1, st.tot - sent, st.lost, st.wrapped, lev2)
  <2>1. PICK tot, gone, turned, lev : /\ tot = st.tot /\ gone = st.lost /\ turned = st.wrapped
                                      /\ lev = level
    OBVIOUS
  <2>2. lev \in Nat /\ RingOK(a, d, tot, gone, turned, lev) /\ sent = Bytes(a[1])
        /\ lev2 \in Nat /\ (lev2 = 0 \/ lev2 <= lev + sent * BLOCK - CAP)
    BY <1>5, <1>6, <1>10, <2>1
  <2>3. RingOK(Shifted(a), IF d = 0 THEN 0 ELSE d - 1, tot - sent, gone, turned, lev2)
    BY ONLY <2>2, SendRing
  <2> QED
    BY <2>1, <2>3
<1>12. AgesOK(Shifted(a), st.wrapped, st.queue, 0)
  BY <1>5, SendAges
<1>13. round' \in 0..ROUNDS-1
  BY <1>2, <1>4
<1>14. /\ RingOK(View(slots2, n2), cal_interval(n2, pre2), st.tot - sent, st.lost, st.wrapped, lev2)
       /\ AgesOK(View(slots2, n2), st.wrapped, st.queue, 0)
  BY <1>8, <1>9, <1>11, <1>12
<1> QED
  BY <1>2, <1>7, <1>8, <1>9, <1>10, <1>13, <1>14 DEF RingInv

LEMMA InvStep == RingInv /\ [Next]_vars => RingInv'
<1> SUFFICES ASSUME RingInv, [Next]_vars PROVE RingInv'
  OBVIOUS
<1>1. ASSUME NEW batch \in Batch, Tick(batch) PROVE RingInv'
  BY <1>1, InvTick
<1>2. ASSUME NEW batch \in Batch, TickSend(batch) PROVE RingInv'
  BY <1>2, InvTickSend
<1>3. CASE UNCHANGED vars
  BY <1>3 DEF RingInv, vars
<1> QED
  BY <1>1, <1>2, <1>3 DEF Next

\* The invariant holds at all times.
THEOREM RingInvariance == Spec => []RingInv
<1> QED
  BY InvInit, InvStep, PTL DEF Spec
--------------------------------------------------------------------------------
(***************************************************************************)
(* The packets in sending order                                             *)
(***************************************************************************)
\* They are those in the places, with the bytes there and in the order there.
LEMMA FlatRing ==
  ASSUME NEW a \in Ring
  PROVE  /\ Flat(a, BLOCK) \in Seq(Packet) /\ Bytes(Flat(a, BLOCK)) = Upto(a, BLOCK)
         /\ \A m \in 1..Len(Flat(a, BLOCK)) :
              \E k \in Place, i \in Nat : i \in 1..Len(a[k]) /\ Flat(a, BLOCK)[m] = a[k][i]
         /\ AgedRing(a) => Aged(Flat(a, BLOCK))
<1> DEFINE In(k, x) == \E l \in Place, i \in Nat : l <= k /\ i \in 1..Len(a[l]) /\ x = a[l][i]
           P == {k \in Nat : k <= BLOCK =>
                   /\ Bytes(Flat(a, k)) = Upto(a, k)
                   /\ \A m \in 1..Len(Flat(a, k)) : In(k, Flat(a, k)[m])
                   /\ AgedRing(a) => Aged(Flat(a, k))}
<1>1. BLOCK \in Nat \ {0}
  BY RingSimAssumption
<1>2. \A k \in Place : a[k] \in Seq(Packet)
  BY DEF Ring
<1>3. /\ Flat(a, 0) = << >>
      /\ \A k \in 0..BLOCK : Flat(a, k) \in Seq(Packet)
      /\ \A k \in 0..BLOCK-1 : Flat(a, k+1) = Flat(a, k) \o a[k+1]
  <2>1. \A j \in 1..BLOCK : a[j] \in Seq(Packet)
    BY <1>2 DEF Place
  <2>2. BLOCK \in Nat
    BY <1>1
  <2> QED
    BY ONLY <2>1, <2>2, FlatStep
<1>4. 0 \in P
  <2>1. Len(<< >>) = 0 /\ Bytes(<< >>) = 0 /\ Upto(a, 0) = 0
    BY BytesEmpty, UptoLemma
  <2>2. Aged(<< >>)
    BY <2>1 DEF Aged
  <2> QED
    BY <1>3, <2>1, <2>2
<1>5. ASSUME NEW k \in Nat, k \in P PROVE k+1 \in P
  <2> SUFFICES ASSUME k+1 <= BLOCK
               PROVE  /\ Bytes(Flat(a, k+1)) = Upto(a, k+1)
                      /\ \A m \in 1..Len(Flat(a, k+1)) : In(k+1, Flat(a, k+1)[m])
                      /\ AgedRing(a) => Aged(Flat(a, k+1))
    OBVIOUS
  <2>1. k \in 0..BLOCK-1 /\ k \in 0..BLOCK /\ k+1 \in 0..BLOCK /\ k+1 \in Place /\ k <= BLOCK
    BY <1>1 DEF Place
  <2>2. PICK f, s, g : f = Flat(a, k) /\ s = a[k+1] /\ g = Flat(a, k+1)
    OBVIOUS
  <2>3. f \in Seq(Packet) /\ s \in Seq(Packet) /\ g \in Seq(Packet) /\ g = f \o s
    BY <1>2, <1>3, <2>1, <2>2
  <2>4. /\ Bytes(f) = Upto(a, k)
        /\ \A m \in 1..Len(f) : In(k, f[m])
        /\ AgedRing(a) => Aged(f)
    BY <1>5, <2>1, <2>2
  <2>5. Bytes(g) = Upto(a, k+1)
    <3>1. Bytes(g) = Bytes(f) + Bytes(s)
      BY <2>3, BytesConcat
    <3>2. Upto(a, k+1) = Upto(a, k) + Bytes(a[k+1])
      BY <2>1, UptoLemma
    <3> QED
      BY <2>2, <2>4, <3>1, <3>2
  <2>6. /\ Len(f) \in Nat /\ Len(s) \in Nat /\ Len(g) = Len(f) + Len(s)
        /\ \A m \in 1..Len(g) : g[m] = IF m <= Len(f) THEN f[m] ELSE s[m - Len(f)]
    BY <2>3
  <2>7. \A m \in 1..Len(g) : m > Len(f) => m - Len(f) \in 1..Len(s) /\ m - Len(f) \in Nat
    BY <2>6
  <2>8. \A m \in 1..Len(g) : In(k+1, g[m])
    <3> SUFFICES ASSUME NEW m \in 1..Len(g) PROVE In(k+1, g[m])
      OBVIOUS
    <3>1. CASE m <= Len(f)
      <4>1. m \in 1..Len(f) /\ g[m] = f[m]
        BY <2>6, <3>1
      <4>2. PICK l \in Place, i \in Nat : l <= k /\ i \in 1..Len(a[l]) /\ f[m] = a[l][i]
        BY <2>4, <4>1
      <4>3. l <= k + 1
        BY <1>1, <4>2 DEF Place
      <4> QED
        BY <4>1, <4>2, <4>3
    <3>2. CASE m > Len(f)
      <4>1. g[m] = a[k+1][m - Len(f)] /\ m - Len(f) \in 1..Len(a[k+1]) /\ m - Len(f) \in Nat
        <5>1. g[m] = s[m - Len(f)]
          BY <2>6, <3>2
        <5>2. m - Len(f) \in 1..Len(s) /\ m - Len(f) \in Nat
          BY <2>7, <3>2
        <5> QED
          BY <2>2, <5>1, <5>2
      <4>2. PICK l, i : l = k + 1 /\ i = m - Len(f)
        OBVIOUS
      <4>3. l \in Place /\ i \in Nat /\ l <= k + 1 /\ i \in 1..Len(a[l]) /\ g[m] = a[l][i]
        BY <2>1, <4>1, <4>2
      <4> QED
        BY <4>3
    <3> QED
      BY <2>6, <3>1, <3>2
  <2>9. ASSUME AgedRing(a) PROVE Aged(g)
    <3> SUFFICES ASSUME NEW m \in 1..Len(g), NEW j \in 1..Len(g), m <= j
                 PROVE  g[m].age >= g[j].age
      BY DEF Aged
    <3>1. CASE j <= Len(f)
      <4>1. m \in 1..Len(f) /\ j \in 1..Len(f) /\ g[m] = f[m] /\ g[j] = f[j]
        BY <2>6, <3>1
      <4> QED
        BY <2>4, <2>9, <4>1 DEF Aged
    <3>2. CASE m > Len(f)
      <4>1. /\ m - Len(f) \in 1..Len(a[k+1]) /\ j - Len(f) \in 1..Len(a[k+1])
            /\ m - Len(f) <= j - Len(f)
            /\ g[m] = a[k+1][m - Len(f)] /\ g[j] = a[k+1][j - Len(f)]
        <5>1. j > Len(f) /\ m - Len(f) <= j - Len(f)
          BY <2>6, <3>2
        <5>2. m - Len(f) \in 1..Len(s) /\ g[m] = s[m - Len(f)]
          BY <2>6, <2>7, <3>2
        <5>3. j - Len(f) \in 1..Len(s) /\ g[j] = s[j - Len(f)]
          BY <2>6, <2>7, <5>1
        <5> QED
          BY <2>2, <5>1, <5>2, <5>3
      <4> QED
        BY <2>1, <2>9, <4>1 DEF AgedRing
    <3>3. CASE m <= Len(f) /\ j > Len(f)
      <4>1. m \in 1..Len(f) /\ g[m] = f[m]
        BY <2>6, <3>3
      <4>2. PICK l \in Place, i \in Nat : l <= k /\ i \in 1..Len(a[l]) /\ f[m] = a[l][i]
        BY <2>4, <4>1
      <4>3. l < k + 1
        BY <1>1, <4>2 DEF Place
      <4>4. j - Len(f) \in 1..Len(a[k+1]) /\ g[j] = a[k+1][j - Len(f)]
        BY <2>2, <2>6, <2>7, <3>3
      <4> QED
        BY <2>1, <2>9, <4>1, <4>2, <4>3, <4>4 DEF AgedRing
    <3> QED
      BY <2>6, <3>1, <3>2, <3>3
  <2> HIDE DEF In
  <2> QED
    BY <2>2, <2>5, <2>8, <2>9
<1> HIDE DEF P
<1>6. BLOCK \in P
  BY <1>1, <1>4, <1>5, NatSetInduction
<1>7. BLOCK \in 0..BLOCK /\ BLOCK <= BLOCK
  BY <1>1
<1>8. /\ Bytes(Flat(a, BLOCK)) = Upto(a, BLOCK)
      /\ \A m \in 1..Len(Flat(a, BLOCK)) : In(BLOCK, Flat(a, BLOCK)[m])
      /\ AgedRing(a) => Aged(Flat(a, BLOCK))
  BY <1>6, <1>7 DEF P
<1> QED
  BY <1>3, <1>7, <1>8

LEMMA ContentsFlat == Contents = Flat(View(ring_queue, now_postion), BLOCK)
<1>1. [j \in 1..BLOCK |-> View(ring_queue, now_postion)[j]] = Sending
  BY DEF View, At, Place, Sending
<1> QED
  BY <1>1 DEF Contents, Flat

LEMMA InvType == RingInv => TypeOK
  BY DEF RingInv, RingOK, AgesOK, TypeOK

LEMMA InvConserved == RingInv => BytesConserved
  BY FlatRing, ContentsFlat DEF RingInv, RingOK, BytesConserved

LEMMA InvArc == RingInv => ArcHoldsAll
<1> SUFFICES ASSUME RingInv, ~wrapped PROVE
       /\ lost = 0
       /\ \A i \in Slot : ring_queue[i] # << >> =>
            cal_interval(now_postion, i) <= cal_interval(now_postion, pre_pointer)
  BY DEF ArcHoldsAll
<1>1. PICK n, a, d : /\ n = now_postion /\ a = View(ring_queue, n)
                     /\ d = cal_interval(n, pre_pointer)
  OBVIOUS
<1>2. /\ n \in Slot /\ d \in 0..BLOCK-1 /\ lost = 0 /\ \A k \in d+2..BLOCK : a[k] = << >>
  BY <1>1 DEF RingInv, RingOK
<1>3. ASSUME NEW i \in Slot, ring_queue[i] # << >>
      PROVE  cal_interval(n, i) <= d
  <2>1. PICK e : e = cal_interval(n, i)
    OBVIOUS
  <2>2. e \in 0..BLOCK-1 /\ At(n, e + 1) = i
    BY <1>2, <2>1, SlotLemma
  <2>3. BLOCK \in Nat \ {0} /\ e + 1 \in Place
    BY <2>2, RingSimAssumption DEF Place
  <2>4. a[e + 1] # << >>
    BY <1>1, <1>3, <2>2, <2>3 DEF View
  <2>5. ~(e + 1 \in d+2..BLOCK)
    BY <1>2, <2>4
  <2> QED
    BY <1>2, <2>1, <2>2, <2>3, <2>5
<1> QED
  BY <1>1, <1>2, <1>3

LEMMA InvOrder == RingInv => InOrder
<1> SUFFICES ASSUME RingInv, ~wrapped, NEW n \in 1..Len(Contents)-1
             PROVE  Contents[n].age >= Contents[n+1].age
  BY DEF InOrder
<1>1. PICK a : a = View(ring_queue, now_postion)
  OBVIOUS
<1>2. a \in Ring /\ AgedRing(a)
  BY <1>1 DEF RingInv, RingOK, AgesOK
<1>3. Contents = Flat(a, BLOCK)
  BY <1>1, ContentsFlat
<1>4. Contents \in Seq(Packet) /\ Aged(Contents)
  BY <1>2, <1>3, FlatRing
<1>5. n \in 1..Len(Contents) /\ n+1 \in 1..Len(Contents) /\ n <= n+1
  BY <1>4
<1> QED
  BY <1>4, <1>5 DEF Aged

LEMMA InvRate == RingInv => RateUnlessWrapped
<1> SUFFICES ASSUME RingInv, ~wrapped PROVE level <= CAP * (BLOCK - 1)
  BY DEF RateUnlessWrapped
<1>1. PICK a : a = View(ring_queue, now_postion)
  OBVIOUS
<1>2. BLOCK \in Nat \ {0} /\ CAP \in Nat \ {0} /\ level \in Nat
  BY RingSimAssumption DEF RingInv
<1>3. a \in Ring /\ \A k \in 0..BLOCK : level + BLOCK * Upto(a, k) <= CAP * (k + BLOCK - 1)
  BY <1>1 DEF RingInv, RingOK
<1>4. 0 \in 0..BLOCK /\ Upto(a, 0) = 0
  BY <1>2, <1>3, UptoLemma
<1>5. level + BLOCK * Upto(a, 0) <= CAP * (0 + BLOCK - 1)
  BY <1>3, <1>4
<1> QED
  BY <1>2, <1>4, <1>5

LEMMA InvSent == RingInv => SentInOneTurn
<1> SUFFICES ASSUME RingInv, NEW n \in DOMAIN Contents
             PROVE  Contents[n].age <= LATENCY + BLOCK * ROUNDS
  BY DEF SentInOneTurn
<1>1. PICK a : a = View(ring_queue, now_postion)
  OBVIOUS
<1>2. /\ BLOCK \in Nat \ {0} /\ ROUNDS \in Nat \ {0} /\ LATENCY \in Nat
      /\ a \in Ring /\ round \in 0..ROUNDS-1
      /\ \A k \in Place : \A i \in 1..Len(a[k]) :
            a[k][i].age <= LATENCY + (BLOCK - k) * ROUNDS + round
  BY <1>1, RingSimAssumption DEF RingInv, RingOK, AgesOK
<1>3. Contents = Flat(a, BLOCK)
  BY <1>1, ContentsFlat
<1>4. Contents \in Seq(Packet)
  BY <1>2, <1>3, FlatRing
<1>5. n \in 1..Len(Contents)
  BY <1>4
<1>6. PICK k \in Place, i \in Nat : i \in 1..Len(a[k]) /\ Contents[n] = a[k][i]
  BY <1>2, <1>3, <1>5, FlatRing
<1>7. PICK x : x = Contents[n].age
  OBVIOUS
<1>8. x \in Nat /\ x <= LATENCY + (BLOCK - k) * ROUNDS + round
  BY <1>2, <1>4, <1>5, <1>6, <1>7, PacketLemma
<1>9. (BLOCK - k) * ROUNDS + ROUNDS <= BLOCK * ROUNDS
  <2>1. k \in 1..BLOCK
    BY DEF Place
  <2>2. BLOCK - k \in Int /\ BLOCK - 1 \in Int /\ BLOCK - k <= BLOCK - 1 /\ ROUNDS \in Nat
    BY <1>2, <2>1
  <2>3. ROUNDS * (BLOCK - k) <= ROUNDS * (BLOCK - 1)
    BY ONLY <2>2, Monotone
  <2>4. /\ ROUNDS * (BLOCK - k) = (BLOCK - k) * ROUNDS
        /\ ROUNDS * (BLOCK - 1) = BLOCK * ROUNDS - ROUNDS
    BY <1>2, <2>1
  <2>5. (BLOCK - k) * ROUNDS \in Int /\ BLOCK * ROUNDS \in Int
    BY <1>2, <2>1
  <2> QED
    BY <1>2, <2>3, <2>4, <2>5
<1>10. (BLOCK - k) * ROUNDS \in Int /\ BLOCK * ROUNDS \in Int
  <2>1. BLOCK - k \in Int
    BY <1>2 DEF Place
  <2> QED
    BY <1>2, <2>1
<1> QED
  BY <1>2, <1>7, <1>8, <1>9, <1>10

--------------------------------------------------------------------------------
(***************************************************************************)
(* Theorems                                                                 *)
(***************************************************************************)
\* RingSim: every variable has its type, and in_ring never charges the ring with
\* more than its bytes and one slot's, whatever arrives.
THEOREM RingTypeCorrect == Spec => []TypeOK
<1> QED
  BY RingInvariance, InvType, PTL

\* RingSim: tot_bytes, charged by in_ring and given back by de_ring, counts the
\* packets in the ring and those overwritten there, in every state.
THEOREM ConservedCorrect == Spec => []BytesConserved
<1> QED
  BY RingInvariance, InvConserved, PTL

\* RingSim: until a packet is placed a whole turn ahead of now_postion, no packet
\* is overwritten and none lies outside the slots from now_postion to pre_pointer.
THEOREM ArcCorrect == Spec => []ArcHoldsAll
<1> QED
  BY RingInvariance, InvArc, PTL

\* RingSim: until then packets are sent in the order of their arrival.
THEOREM OrderCorrect == Spec => []InOrder
<1> QED
  BY RingInvariance, InvOrder, PTL

\* RingSim: until then no stretch of slots sends more than its share of CAP and
\* the share of all slots but one.
THEOREM RateCorrect == Spec => []RateUnlessWrapped
<1> QED
  BY RingInvariance, InvRate, PTL

\* RingSim: a packet that has reached the ring is sent within one turn of it, even
\* when packets are placed a whole turn ahead.
THEOREM SentCorrect == Spec => []SentInOneTurn
<1> QED
  BY RingInvariance, InvSent, PTL
================================================================================
