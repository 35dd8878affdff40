--------------------------- MODULE KfifoAccountProofs ---------------------------
(***************************************************************************)
(* What the time ring's nodes add up to, for rings of every depth, every    *)
(* rate and every set of packets: the spacing of the packets and the delay  *)
(* it bounds, the byte counts, and the queue that the nodes make together.  *)
(* All of it stands on the invariant of KfifoProofs.  The last part is about *)
(* the ring over pointers: it implements the ring, and the lists of KUnit,  *)
(* so its pointers thread its packets.                                      *)
(***************************************************************************)
EXTENDS KfifoHeap, KfifoProofs, SumTheorems

\* Spacing without counting back from node i: no node that lies less than g
\* places before i, seen from the reader, is in use.
Alone(i, g) ==
  \A m \in Node : Dist(pread, i) - g < Dist(pread, m) /\ Dist(pread, m) < Dist(pread, i)
                    => ~Used(m)

\* g places before i is the reader or a node in use: the one used before i.
Follows(i, g) ==
  \/ g = Dist(pread, i)
  \/ \E m \in Node : Used(m) /\ Dist(pread, m) = Dist(pread, i) - g

Spaced(i) == \E g \in 1..Dist(pread, i) :
                /\ sleep_time[i] + left_time[i] = g * UNIT_TIME
                /\ Alone(i, g)
                /\ Follows(i, g)

AllSpaced == \A i \in Node \ {pread} : Used(i) => Spaced(i)
--------------------------------------------------------------------------------
\* Less than a turn ahead of the reader is a node at that distance.
LEMMA AheadDistLemma ==
  ASSUME TypeOK, NEW d \in 0..total_time-1
  PROVE  Ahead(pread, d) \in Node /\ Dist(pread, Ahead(pread, d)) = d
<1>1. total_time \in Nat /\ total_time >= 2 /\ pread \in 0..total_time-1
  BY TypeFacts DEF Node
<1>2. /\ Ahead(pread, d) \in Node
      /\ Ahead(pread, d) = IF pread + d < total_time THEN pread + d
                                                     ELSE pread + d - total_time
  BY <1>1, AheadLemma
<1> QED
  BY <1>1, <1>2 DEF Dist

\* The two ways of saying how far apart packets are.
LEMMA SpacingForm ==
  ASSUME TypeOK, AllSpaced
  PROVE  Spacing
<1> SUFFICES ASSUME NEW i \in Node \ {pread}, Used(i)
             PROVE  \E g \in 1..Dist(pread, i) :
                       /\ sleep_time[i] + left_time[i] = g * UNIT_TIME
                       /\ \A k \in 1..g-1 : ~Used(Ahead(pread, Dist(pread, i) - k))
  BY DEF Spacing
<1>1. Dist(pread, i) \in 0..total_time-1
  BY DistLemma
<1>2. PICK g \in 1..Dist(pread, i) :
        sleep_time[i] + left_time[i] = g * UNIT_TIME /\ Alone(i, g)
  BY DEF AllSpaced, Spaced
<1>3. ASSUME NEW k \in 1..g-1
      PROVE  ~Used(Ahead(pread, Dist(pread, i) - k))
  <2>1. total_time \in Nat
    BY TypeFacts
  <2> DEFINE d == Dist(pread, i) - k
             m == Ahead(pread, d)
  <2>2. d \in 0..total_time-1 /\ Dist(pread, i) - g < d /\ d < Dist(pread, i)
    BY <1>1, <1>2, <1>3, <2>1
  <2> HIDE DEF d
  <2>3. m \in Node /\ Dist(pread, m) = d
    BY <2>2, AheadDistLemma
  <2> HIDE DEF m
  <2>4. ~Used(m)
    BY <1>2, <2>2, <2>3 DEF Alone
  <2> QED
    BY <2>4 DEF m, d
<1> QED
  BY <1>2, <1>3
--------------------------------------------------------------------------------
\* kfifo_enqueue on the node it stands on: charge and rest add up as before.
LEMMA HereSpaced ==
  ASSUME IInv, AllSpaced, NEW s \in Skb, EnqueueHere(s)
  PROVE  AllSpaced'
<1>1. TypeOK
  BY DEF IInv
<1>2. /\ total_time \in Nat /\ pread \in Node /\ pwrite \in Node
      /\ pkt \in [Node -> Nat] /\ sleep_time \in [Node -> Nat]
      /\ left_time \in [Node -> 0..UNIT_TIME] /\ UNIT_TIME \in Nat
  BY <1>1, TypeFacts
<1>3. SkbTime(s) \in Nat
  <2>1. SkbTime(s) \in 0..MaxTime /\ MaxTime \in Nat
    BY <1>1, TypeFacts, CostLemma
  <2> QED
    BY <2>1
<1>4. /\ left_time' = [left_time EXCEPT ![pwrite] = @ - SkbTime(s)]
      /\ sleep_time' = [sleep_time EXCEPT ![pwrite] = @ + SkbTime(s)]
      /\ pkt' = [pkt EXCEPT ![pwrite] = @ + 1]
      /\ UNCHANGED <<total_time, pread>>
  BY DEF EnqueueHere, Charge, ChargeTime
<1>5. Node' = Node /\ \A i, j : Dist(i, j)' = Dist(i, j)
  BY <1>4 DEF Node, Dist
<1>6. \A i \in Node : sleep_time'[i] + left_time'[i] = sleep_time[i] + left_time[i]
  BY <1>2, <1>3, <1>4
\* The writer's node was in use, or it is the reader's.
<1>7. \A i \in Node \ {pread} : pkt'[i] > 0 <=> pkt[i] > 0
  <2> SUFFICES ASSUME NEW i \in Node \ {pread} PROVE pkt'[i] > 0 <=> pkt[i] > 0
    OBVIOUS
  <2>1. CASE i = pwrite
    <3>1. pkt[i] > 0
      BY <2>1 DEF IInv, WriterOnUsedNode, Used
    <3> QED
      BY <1>2, <1>4, <2>1, <3>1
  <2>2. CASE i # pwrite
    BY <1>2, <1>4, <2>2
  <2> QED
    BY <2>1, <2>2
<1>8. SUFFICES ASSUME NEW i \in Node \ {pread}, pkt'[i] > 0 PROVE Spaced(i)'
  BY <1>4, <1>5 DEF AllSpaced, Used
<1>9. PICK g \in 1..Dist(pread, i) :
        /\ sleep_time[i] + left_time[i] = g * UNIT_TIME
        /\ Alone(i, g) /\ Follows(i, g)
  BY <1>7, <1>8 DEF AllSpaced, Spaced, Used
<1>10. Alone(i, g)'
  <2> SUFFICES ASSUME NEW m \in Node, Dist(pread, i) - g < Dist(pread, m),
                      Dist(pread, m) < Dist(pread, i)
               PROVE  ~(pkt'[m] > 0)
    BY <1>4, <1>5 DEF Alone, Used
  <2>1. ~(pkt[m] > 0)
    BY <1>9 DEF Alone, Used
  <2>2. m # pread
    <3>1. Dist(pread, i) \in 0..total_time-1 /\ Dist(pread, m) \in 0..total_time-1
      BY <1>1, DistLemma
    <3>2. Dist(pread, m) > 0
      BY <1>2, <1>9, <3>1
    <3>3. Dist(pread, pread) = 0
      BY <1>2 DEF Dist, Node
    <3> QED
      BY <3>2, <3>3
  <2> QED
    BY <1>7, <2>1, <2>2
<1>11. \A m \in Node : pkt[m] > 0 => pkt'[m] > 0
  BY <1>2, <1>4
<1>12. Follows(i, g)'
  BY <1>4, <1>5, <1>9, <1>11 DEF Follows, Used
<1> QED
  BY <1>4, <1>5, <1>6, <1>9, <1>10, <1>12 DEF Spaced

\* kfifo_enqueue after kfifo_write_forward: the node it comes to is fresh, so charge
\* and rest are the nodes moved, and the nodes jumped over were not in use.
LEMMA AheadSpaced ==
  ASSUME IInv, AllSpaced, NEW s \in Skb, EnqueueAhead(s)
  PROVE  AllSpaced'
<1> DEFINE n == Steps(s) + 1
           a == Ahead(pwrite, n)
<1>1. TypeOK
  BY DEF IInv
<1>2. /\ total_time \in Nat /\ pread \in Node /\ pwrite \in Node /\ rate \in Rates
      /\ pkt \in [Node -> Nat] /\ sleep_time \in [Node -> Nat]
      /\ left_time \in [Node -> 0..UNIT_TIME] /\ UNIT_TIME \in Nat
  BY <1>1, TypeFacts
<1>3. /\ SkbTime(s) \in 0..MaxTime /\ Steps(s) \in Nat /\ CostTime(s) \in 0..UNIT_TIME-1
      /\ CostTime(s) + Steps(s) * UNIT_TIME = SkbTime(s)
  BY <1>2, CostLemma
<1>4. n \in Nat \ {0} /\ ~Conflict(n)
  BY <1>3 DEF EnqueueAhead
<1>5. a \in Node /\ a # pread /\ Dist(pread, a) = Dist(pread, pwrite) + n
  BY <1>1, <1>4, ForwardLemma
<1>6. /\ left_time' = [left_time EXCEPT ![a] = @ - CostTime(s)]
      /\ sleep_time' = [sleep_time EXCEPT ![a] = @ + SkbTime(s)]
      /\ pkt' = [pkt EXCEPT ![a] = @ + 1]
      /\ UNCHANGED <<total_time, pread>>
  BY DEF EnqueueAhead, Charge, ChargeTime
<1>7. Node' = Node /\ \A i, j : Dist(i, j)' = Dist(i, j)
  BY <1>6 DEF Node, Dist
<1> HIDE DEF a
<1>8. /\ Dist(pread, pwrite) \in 0..total_time-1
      /\ \A m \in Node : Dist(pread, m) \in 0..total_time-1
  BY <1>1, <1>2, DistLemma
\* Beyond the writer nothing is in use.
<1>9. \A m \in Node : Dist(pread, m) > Dist(pread, pwrite) => ~(pkt[m] > 0)
  <2> SUFFICES ASSUME NEW m \in Node, pkt[m] > 0
               PROVE  ~(Dist(pread, m) > Dist(pread, pwrite))
    OBVIOUS
  <2>1. Dist(pread, m) <= Dist(pread, pwrite)
    BY DEF IInv, WindowHoldsAll, Used
  <2> QED
    BY <1>2, <1>8, <2>1
<1>10. ~(pkt[a] > 0) /\ left_time[a] = UNIT_TIME /\ sleep_time[a] = 0
  <2>1. Dist(pread, a) > Dist(pread, pwrite)
    BY <1>3, <1>5, <1>8
  <2>2. ~(pkt[a] > 0)
    BY <1>5, <1>9, <2>1
  <2> QED
    BY <1>5, <2>2 DEF IInv, EmptyNodesPristine, Used
<1>11. \A m \in Node : m # a => /\ pkt'[m] = pkt[m]
                                 /\ sleep_time'[m] = sleep_time[m]
                                 /\ left_time'[m] = left_time[m]
  BY <1>2, <1>6
<1>12. SUFFICES ASSUME NEW i \in Node \ {pread}, pkt'[i] > 0 PROVE Spaced(i)'
  BY <1>6, <1>7 DEF AllSpaced, Used
<1>13. CASE i = a
  <2>0. PICK c \in Nat : c = n
    BY <1>4
  <2>1. sleep_time'[i] = SkbTime(s) /\ left_time'[i] = UNIT_TIME - CostTime(s)
    <3>1. SkbTime(s) \in Nat
      BY <1>1, <1>3, TypeFacts
    <3> QED
      BY <1>2, <1>5, <1>6, <1>10, <1>13, <3>1
  <2>2. sleep_time'[i] + left_time'[i] = c * UNIT_TIME
    <3>1. Steps(s) * UNIT_TIME \in Nat /\ n * UNIT_TIME = Steps(s) * UNIT_TIME + UNIT_TIME
      BY <1>2, <1>3
    <3> QED
      BY <1>2, <1>3, <2>0, <2>1, <3>1
  <2>3. c \in 1..Dist(pread, i)
    BY <1>3, <1>5, <1>8, <1>13, <2>0
  <2>4. Alone(i, c)'
    <3> SUFFICES ASSUME NEW m \in Node, Dist(pread, i) - c < Dist(pread, m),
                        Dist(pread, m) < Dist(pread, i)
                 PROVE  ~(pkt'[m] > 0)
      BY <1>6, <1>7 DEF Alone, Used
    <3>1. Dist(pread, m) > Dist(pread, pwrite)
      BY <1>3, <1>5, <1>8, <1>13, <2>0
    <3>2. m # a
      BY <1>8, <1>13
    <3> QED
      BY <1>9, <1>11, <3>1, <3>2
  <2>5. Follows(i, c)'
    <3>1. Dist(pread, i) - c = Dist(pread, pwrite)
      BY <1>3, <1>5, <1>8, <1>13, <2>0
    <3>2. CASE pwrite = pread
      <4>1. Dist(pread, pwrite) = 0
        BY <1>2, <3>2 DEF Dist, Node
      <4>2. c = Dist(pread, i)
        BY <1>8, <2>0, <3>1, <4>1
      <4> QED
        BY <1>6, <1>7, <4>2 DEF Follows
    <3>3. CASE pwrite # pread
      <4>1. pkt[pwrite] > 0
        BY <3>3 DEF IInv, WriterOnUsedNode, Used
      <4>2. pkt'[pwrite] > 0
        BY <1>2, <1>10, <1>11, <4>1
      <4> QED
        BY <1>2, <1>6, <1>7, <3>1, <4>2 DEF Follows, Used
    <3> QED
      BY <3>2, <3>3
  <2> QED
    BY <1>6, <1>7, <2>2, <2>3, <2>4, <2>5 DEF Spaced
<1>14. CASE i # a
  <2>1. pkt[i] > 0 /\ sleep_time'[i] = sleep_time[i] /\ left_time'[i] = left_time[i]
    BY <1>11, <1>12, <1>14
  <2>2. PICK g \in 1..Dist(pread, i) :
          /\ sleep_time[i] + left_time[i] = g * UNIT_TIME
          /\ Alone(i, g) /\ Follows(i, g)
    BY <2>1 DEF AllSpaced, Spaced, Used
  <2>3. Alone(i, g)'
    <3> SUFFICES ASSUME NEW m \in Node, Dist(pread, i) - g < Dist(pread, m),
                        Dist(pread, m) < Dist(pread, i)
                 PROVE  ~(pkt'[m] > 0)
      BY <1>6, <1>7 DEF Alone, Used
    <3>1. ~(Dist(pread, i) > Dist(pread, pwrite))
      BY <1>9, <2>1
    <3>2. m # a
      <4>1. Dist(pread, a) > Dist(pread, pwrite)
        BY <1>3, <1>5, <1>8
      <4> QED
        BY <1>8, <3>1, <4>1
    <3>3. ~(pkt[m] > 0)
      BY <2>2 DEF Alone, Used
    <3> QED
      BY <1>11, <3>2, <3>3
  <2>4. \A m \in Node : pkt[m] > 0 => pkt'[m] > 0
    BY <1>10, <1>11
  <2>5. Follows(i, g)'
    BY <1>6, <1>7, <2>2, <2>4 DEF Follows, Used
  <2> QED
    BY <1>6, <1>7, <2>1, <2>2, <2>3, <2>5 DEF Spaced
<1> QED
  BY <1>13, <1>14

\* The node kfifo_dequeue reads from is the first in use, and the nodes in use are
\* as much nearer to it.
LEMMA ReadingLemma ==
  ASSUME TypeOK, NEW i \in Node, Reading(i)
  PROVE  /\ \A m \in Node : pkt[m] > 0 => Dist(pread, m) >= Dist(pread, i)
         /\ \A m \in Node : Dist(pread, m) >= Dist(pread, i) =>
                               Dist(i, m) = Dist(pread, m) - Dist(pread, i)
<1>1. total_time \in Nat /\ pread \in 0..total_time-1 /\ pwrite \in Node
  BY TypeFacts DEF Node
<1>2. \A m \in Node : Dist(pread, m) \in 0..total_time-1 /\ Ahead(pread, Dist(pread, m)) = m
  BY DistLemma
<1>3. PICK l \in 0..Dist(pread, pwrite) :
        i = Ahead(pread, l) /\ \A j \in 0..l-1 : pkt[Ahead(pread, j)] = 0
  BY DEF Reading
<1>4. l \in 0..total_time-1
  BY <1>1, <1>2, <1>3
<1>5. Dist(pread, i) = l
  BY <1>3, <1>4, AheadDistLemma
<1>6. ASSUME NEW m \in Node, ~(Dist(pread, m) >= l) PROVE ~(pkt[m] > 0)
  <2>1. Dist(pread, m) \in 0..l-1
    BY <1>2, <1>4, <1>6
  <2>2. pkt[m] = 0
    BY <1>2, <1>3, <2>1
  <2> QED
    BY <2>2
<1>7. ASSUME NEW m \in Node, Dist(pread, m) >= Dist(pread, i)
      PROVE  Dist(i, m) = Dist(pread, m) - Dist(pread, i)
  BY <1>1, <1>7 DEF Dist, Node
<1> QED
  BY <1>5, <1>6, <1>7

\* kfifo_dequeue with a packet: the reader comes to the first node in use, so none
\* of the nodes jumped over for a later packet lies behind it.
LEMMA DequeueSpaced ==
  ASSUME IInv, AllSpaced, DequeueSkb
  PROVE  AllSpaced'
<1>1. TypeOK
  BY DEF IInv
<1>2. /\ total_time \in Nat /\ pread \in 0..total_time-1 /\ pkt \in [Node -> Nat]
      /\ sleep_time \in [Node -> Nat] /\ left_time \in [Node -> 0..UNIT_TIME]
      /\ UNIT_TIME \in Nat /\ pwrite \in Node
  BY <1>1, TypeFacts DEF Node
<1>3. PICK i \in Node : /\ Reading(i) /\ pkt[i] > 0 /\ pread' = i
                        /\ pkt' = [pkt EXCEPT ![i] = @ - 1]
  BY DEF DequeueSkb
<1>4. UNCHANGED <<total_time, left_time, sleep_time>>
  BY DEF DequeueSkb
<1>5. Node' = Node /\ \A b, c : Dist(b, c)' = Dist(b, c)
  BY <1>4 DEF Node, Dist
<1>6. \A m \in Node : Dist(pread, m) \in 0..total_time-1 /\ Ahead(pread, Dist(pread, m)) = m
  BY <1>1, DistLemma
<1> DEFINE k == Dist(pread, i)
<1>7. \A m \in Node : pkt[m] > 0 => Dist(pread, m) >= k
  BY <1>1, <1>3, ReadingLemma
<1>8. \A m \in Node : Dist(pread, m) >= k => Dist(i, m) = Dist(pread, m) - k
  BY <1>1, <1>3, ReadingLemma
<1>9. ASSUME NEW m \in Node, Dist(i, m) < total_time - k
      PROVE  Dist(pread, m) = Dist(i, m) + k
  BY <1>2, <1>9 DEF Dist, Node
<1>10. k \in 0..total_time-1 /\ \A m \in Node : Dist(i, m) \in 0..total_time-1
  BY <1>2, <1>6 DEF Dist, Node
<1> HIDE DEF k
<1>11. SUFFICES ASSUME NEW m \in Node \ {i}, pkt[m] > 0
                PROVE  Spaced(m)'
  BY <1>2, <1>3, <1>5 DEF AllSpaced, Used
<1>12. Dist(pread, m) > k /\ Dist(i, m) = Dist(pread, m) - k
  <2>1. Dist(pread, m) >= k
    BY <1>7, <1>11
  <2>2. Dist(pread, m) # k
    BY <1>6, <1>11 DEF k
  <2> QED
    BY <1>6, <1>8, <1>10, <2>1, <2>2
<1>13. m # pread
  <2>1. Dist(pread, pread) = 0
    BY <1>2 DEF Dist
  <2> QED
    BY <1>10, <1>12, <2>1
<1>14. PICK g \in 1..Dist(pread, m) :
         /\ sleep_time[m] + left_time[m] = g * UNIT_TIME
         /\ Alone(m, g) /\ Follows(m, g)
  BY <1>11, <1>13 DEF AllSpaced, Spaced, Used
\* The node read from is in use, so it is not among those jumped over.
<1>15. g <= Dist(i, m)
  <2>1. ~(Dist(pread, m) - g < k)
    <3> SUFFICES ASSUME Dist(pread, m) - g < k PROVE FALSE
      OBVIOUS
    <3>1. ~(pkt[i] > 0)
      BY <1>12, <1>14 DEF Alone, Used, k
    <3> QED
      BY <1>3, <3>1
  <2> QED
    BY <1>6, <1>10, <1>12, <1>14, <2>1
<1>16. Alone(m, g)'
  <2> SUFFICES ASSUME NEW j \in Node, Dist(i, m) - g < Dist(i, j), Dist(i, j) < Dist(i, m)
               PROVE  ~(pkt'[j] > 0)
    BY <1>3, <1>5 DEF Alone, Used
  <2>1. Dist(pread, j) = Dist(i, j) + k
    <3>1. Dist(i, j) < total_time - k
      BY <1>2, <1>6, <1>10, <1>12
    <3> QED
      BY <1>9, <3>1
  <2>2. ~(pkt[j] > 0)
    BY <1>6, <1>10, <1>12, <1>14, <2>1 DEF Alone, Used
  <2> QED
    BY <1>2, <1>3, <2>2
<1>17. g \in 1..Dist(i, m)
  BY <1>6, <1>10, <1>12, <1>14, <1>15
<1>18. Follows(m, g)'
  <2> SUFFICES ASSUME g # Dist(i, m)
               PROVE  \E j \in Node : pkt'[j] > 0 /\ Dist(i, j) = Dist(i, m) - g
    BY <1>3, <1>5 DEF Follows, Used
  <2>1. g # Dist(pread, m)
    BY <1>6, <1>10, <1>12, <1>14, <1>15
  <2>2. PICK j \in Node : pkt[j] > 0 /\ Dist(pread, j) = Dist(pread, m) - g
    BY <1>14, <2>1 DEF Follows, Used
  <2>3. Dist(i, j) = Dist(pread, j) - k
    BY <1>7, <1>8, <2>2
  <2>4. j # i
    BY <1>6, <1>10, <1>12, <1>14, <2>2 DEF k
  <2>5. pkt'[j] > 0
    BY <1>2, <1>3, <2>2, <2>4
  <2>6. Dist(i, j) = Dist(i, m) - g
    BY <1>6, <1>10, <1>12, <1>14, <2>2, <2>3
  <2> QED
    BY <2>5, <2>6
<1> QED
  BY <1>3, <1>4, <1>5, <1>14, <1>16, <1>17, <1>18 DEF Spaced

\* Steps that leave the nodes and the reader alone.
LEMMA SameSpaced ==
  ASSUME AllSpaced, UNCHANGED <<total_time, pread, pkt, left_time, sleep_time>>
  PROVE  AllSpaced'
BY DEF AllSpaced, Spaced, Alone, Follows, Used, Dist, Node

\* kfifo_finish_node clears the reader's node, which Spacing says nothing of and
\* which has been empty.
LEMMA FinishSpaced ==
  ASSUME IInv, AllSpaced, FinishNode
  PROVE  AllSpaced'
<1>1. /\ pread \in Node /\ pkt \in [Node -> Nat] /\ sleep_time \in [Node -> Nat]
      /\ left_time \in [Node -> 0..UNIT_TIME]
  BY TypeFacts DEF IInv
<1>2. /\ pkt' = [pkt EXCEPT ![pread] = 0] /\ pkt[pread] = 0
      /\ left_time' = [left_time EXCEPT ![pread] = UNIT_TIME]
      /\ sleep_time' = [sleep_time EXCEPT ![pread] = 0]
      /\ UNCHANGED <<total_time, pread>>
  BY DEF FinishNode, ClearNode, Sleeping, ring
<1>3. Node' = Node /\ \A i, j : Dist(i, j)' = Dist(i, j)
  BY <1>2 DEF Node, Dist
<1>4. pkt' = pkt
  BY <1>1, <1>2
<1>5. \A i \in Node \ {pread} : sleep_time'[i] = sleep_time[i] /\ left_time'[i] = left_time[i]
  BY <1>1, <1>2
<1>6. ASSUME NEW i, NEW g PROVE Alone(i, g)' <=> Alone(i, g)
  BY <1>2, <1>3, <1>4 DEF Alone, Used
<1>7. ASSUME NEW i, NEW g PROVE Follows(i, g)' <=> Follows(i, g)
  BY <1>2, <1>3, <1>4 DEF Follows, Used
<1>8. ASSUME NEW i \in Node \ {pread}, Spaced(i) PROVE Spaced(i)'
  BY <1>2, <1>3, <1>5, <1>6, <1>7, <1>8 DEF Spaced
<1> QED
  BY <1>2, <1>3, <1>4, <1>8 DEF AllSpaced, Used

\* tsf_change leaves a ring without packets.
LEMMA ChangeSpaced ==
  ASSUME NEW t \in Times, NEW r \in Rates, Change(t, r)
  PROVE  AllSpaced'
<1>1. Node' = 0..t-1 /\ pkt' = [i \in 0..t-1 |-> 0]
  BY DEF Change, FreshNodes, Node
<1>2. \A i \in 0..t-1 : ~(pkt'[i] > 0)
  BY <1>1
<1> QED
  BY <1>1, <1>2 DEF AllSpaced, Used
--------------------------------------------------------------------------------
(***************************************************************************)
(* The delay in the ring                                                    *)
(***************************************************************************)
\* The milliseconds a node in use stands for, its own and those jumped over.
Weight(i) == IF Used(i) /\ i # pread THEN sleep_time[i] + left_time[i] ELSE 0
Weights == [i \in Node |-> Weight(i)]

\* Together they reach from the reader to the writer.
WeightsSpanWindow ==
  SumFunctionOnSet(Weights, Node) = Dist(pread, pwrite) * UNIT_TIME

LEMMA WeightsLemma ==
  ASSUME TypeOK
  PROVE  IsFiniteSet(Node) /\ \A i \in Node : Weights[i] \in Nat /\ Weights[i] = Weight(i)
<1>1. IsFiniteSet(Node)
  <2>1. total_time - 1 \in Int
    BY TypeFacts
  <2> QED
    BY <2>1, FS_Interval DEF Node
<1>2. ASSUME NEW i \in Node PROVE Weight(i) \in Nat
  <2>1. sleep_time[i] \in Nat /\ left_time[i] \in Nat
    BY TypeFacts
  <2>2. sleep_time[i] + left_time[i] \in Nat
    BY <2>1
  <2> QED
    BY <2>2 DEF Weight
<1> QED
  BY <1>1, <1>2 DEF Weights

\* A step that moves neither pointer and leaves every node's weight alone.
LEMMA SameWeights ==
  ASSUME TypeOK, WeightsSpanWindow, UNCHANGED <<total_time, pread, pwrite>>,
         \A i \in Node : Weight(i)' = Weight(i)
  PROVE  WeightsSpanWindow'
<1>1. Node' = Node /\ Dist(pread, pwrite)' = Dist(pread, pwrite)
  BY DEF Node, Dist
<1>2. Weights' = Weights
  BY <1>1 DEF Weights
<1> QED
  BY <1>1, <1>2 DEF WeightsSpanWindow

\* kfifo_enqueue on the node it stands on takes from left_time what it adds to
\* sleep_time.
LEMMA HereWeights ==
  ASSUME IInv, WeightsSpanWindow, NEW s \in Skb, EnqueueHere(s)
  PROVE  WeightsSpanWindow'
<1>1. TypeOK
  BY DEF IInv
<1>2. /\ pread \in Node /\ pwrite \in Node
      /\ pkt \in [Node -> Nat] /\ sleep_time \in [Node -> Nat]
      /\ left_time \in [Node -> 0..UNIT_TIME] /\ UNIT_TIME \in Nat
  BY <1>1, TypeFacts
<1>3. SkbTime(s) \in Nat
  <2>1. SkbTime(s) \in 0..MaxTime /\ MaxTime \in Nat
    BY <1>1, TypeFacts, CostLemma
  <2> QED
    BY <2>1
<1>4. /\ left_time' = [left_time EXCEPT ![pwrite] = @ - SkbTime(s)]
      /\ sleep_time' = [sleep_time EXCEPT ![pwrite] = @ + SkbTime(s)]
      /\ pkt' = [pkt EXCEPT ![pwrite] = @ + 1]
      /\ UNCHANGED <<total_time, pread, pwrite>>
  BY DEF EnqueueHere, Charge, ChargeTime
<1>5. ASSUME NEW i \in Node PROVE Weight(i)' = Weight(i)
  <2>1. sleep_time'[i] + left_time'[i] = sleep_time[i] + left_time[i]
    BY <1>2, <1>3, <1>4
  <2>2. CASE i = pread
    BY <1>4, <2>2 DEF Weight
  <2>3. CASE i # pread
    <3>1. pkt'[i] > 0 <=> pkt[i] > 0
      <4>1. CASE i = pwrite
        <5>1. pkt[i] > 0
          BY <2>3, <4>1 DEF IInv, WriterOnUsedNode, Used
        <5> QED
          BY <1>2, <1>4, <4>1, <5>1
      <4>2. CASE i # pwrite
        BY <1>2, <1>4, <4>2
      <4> QED
        BY <4>1, <4>2
    <3> QED
      BY <1>4, <2>1, <3>1 DEF Weight, Used
  <2> QED
    BY <2>2, <2>3
<1> QED
  BY <1>1, <1>4, <1>5, SameWeights

\* kfifo_enqueue after kfifo_write_forward: the fresh node weighs as much as the
\* writer has moved.
LEMMA AheadWeights ==
  ASSUME IInv, WeightsSpanWindow, NEW s \in Skb, EnqueueAhead(s)
  PROVE  WeightsSpanWindow'
<1> DEFINE n == Steps(s) + 1
<1>1. TypeOK
  BY DEF IInv
<1>2. /\ pread \in Node /\ pwrite \in Node /\ rate \in Rates
      /\ pkt \in [Node -> Nat] /\ sleep_time \in [Node -> Nat]
      /\ left_time \in [Node -> 0..UNIT_TIME] /\ UNIT_TIME \in Nat /\ total_time \in Nat
  BY <1>1, TypeFacts
<1>3. /\ SkbTime(s) \in 0..MaxTime /\ Steps(s) \in Nat /\ CostTime(s) \in 0..UNIT_TIME-1
      /\ CostTime(s) + Steps(s) * UNIT_TIME = SkbTime(s)
  BY <1>2, CostLemma
<1>4. n \in Nat \ {0} /\ ~Conflict(n)
  BY <1>3 DEF EnqueueAhead
<1>5. PICK a \in Node : /\ a = Ahead(pwrite, n) /\ a # pread
                         /\ Dist(pread, a) = Dist(pread, pwrite) + n
  BY <1>1, <1>4, ForwardLemma
<1>6. /\ left_time' = [left_time EXCEPT ![a] = @ - CostTime(s)]
      /\ sleep_time' = [sleep_time EXCEPT ![a] = @ + SkbTime(s)]
      /\ pkt' = [pkt EXCEPT ![a] = @ + 1]
      /\ pwrite' = a
      /\ UNCHANGED <<total_time, pread>>
  BY <1>5 DEF EnqueueAhead, Charge, ChargeTime
<1>7. Node' = Node /\ Dist(pread, pwrite)' = Dist(pread, pwrite) + n
  BY <1>5, <1>6 DEF Node, Dist
<1>8. Dist(pread, pwrite) \in 0..total_time-1
  BY <1>1, <1>2, DistLemma
<1>9. ~Used(a) /\ left_time[a] = UNIT_TIME /\ sleep_time[a] = 0
  <2>1. ~(Dist(pread, a) <= Dist(pread, pwrite))
    BY <1>3, <1>5, <1>8
  <2>2. ~Used(a)
    BY <1>5, <2>1 DEF IInv, WindowHoldsAll
  <2> QED
    BY <1>5, <2>2 DEF IInv, EmptyNodesPristine
<1>10. Weight(a) = 0
  BY <1>9 DEF Weight
<1>15. PICK w \in Nat : w = n * UNIT_TIME
  BY <1>2, <1>3
<1>11. Weight(a)' = w
  <2>1. pkt'[a] > 0
    BY <1>2, <1>5, <1>6
  <2>2. SkbTime(s) \in Nat
    BY <1>1, <1>3, TypeFacts
  <2>3. sleep_time'[a] = SkbTime(s) /\ left_time'[a] = UNIT_TIME - CostTime(s)
    BY <1>2, <1>5, <1>6, <1>9, <2>2
  <2>4. Steps(s) * UNIT_TIME \in Nat /\ n * UNIT_TIME = Steps(s) * UNIT_TIME + UNIT_TIME
    BY <1>2, <1>3
  <2>5. sleep_time'[a] + left_time'[a] = w
    BY <1>2, <1>3, <1>15, <2>2, <2>3, <2>4
  <2> QED
    BY <1>5, <1>6, <2>1, <2>5 DEF Weight, Used
<1>12. \A i \in Node \ {a} : Weight(i)' = Weight(i)
  BY <1>2, <1>6 DEF Weight, Used
<1>13. /\ IsFiniteSet(Node) /\ \A i \in Node : Weights[i] \in Nat /\ Weights[i] = Weight(i)
  BY <1>1, WeightsLemma
<1>14. \A i \in Node : Weights'[i] = Weight(i)'
  BY <1>7 DEF Weights
<1>16. SumFunctionOnSet(Weights', Node) = SumFunctionOnSet(Weights, Node) - Weights[a] + Weights'[a]
  <2>1. \A i \in Node : Weights[i] \in Int /\ Weights'[i] \in Int
    BY <1>11, <1>12, <1>13, <1>14
  <2>2. \A i \in Node \ {a} : Weights'[i] = Weights[i]
    BY <1>12, <1>13, <1>14
  <2> QED
    BY <1>5, <1>13, <2>1, <2>2, SumExcept
<1>17. Weights[a] = 0 /\ Weights'[a] = w
  BY <1>5, <1>10, <1>11, <1>13, <1>14
<1>18. SumFunctionOnSet(Weights, Node) = Dist(pread, pwrite) * UNIT_TIME
  BY DEF WeightsSpanWindow
<1>19. /\ Dist(pread, pwrite) * UNIT_TIME \in Nat
       /\ (Dist(pread, pwrite) + n) * UNIT_TIME = Dist(pread, pwrite) * UNIT_TIME + w
  <2>1. PICK d \in Nat, m \in Nat : d = Dist(pread, pwrite) /\ m = n
    BY <1>3, <1>8
  <2>2. (d + m) * UNIT_TIME = d * UNIT_TIME + m * UNIT_TIME /\ d * UNIT_TIME \in Nat
    BY <1>2
  <2> QED
    BY <1>15, <2>1, <2>2
<1>20. SumFunctionOnSet(Weights', Node) = (Dist(pread, pwrite) + n) * UNIT_TIME
  BY <1>15, <1>16, <1>17, <1>18, <1>19
<1> QED
  BY <1>7, <1>20 DEF WeightsSpanWindow

\* kfifo_dequeue takes the reader to the first node in use, which weighs as much as
\* the reader moves.
LEMMA DequeueWeights ==
  ASSUME IInv, AllSpaced, WeightsSpanWindow, DequeueSkb
  PROVE  WeightsSpanWindow'
<1>1. TypeOK
  BY DEF IInv
<1>2. /\ total_time \in Nat /\ pread \in Node /\ pwrite \in Node /\ pkt \in [Node -> Nat]
      /\ sleep_time \in [Node -> Nat] /\ left_time \in [Node -> 0..UNIT_TIME]
      /\ UNIT_TIME \in Nat
  BY <1>1, TypeFacts
<1>3. PICK i \in Node : /\ Reading(i) /\ pkt[i] > 0 /\ pread' = i
                        /\ pkt' = [pkt EXCEPT ![i] = @ - 1]
  BY DEF DequeueSkb
<1>4. UNCHANGED <<total_time, pwrite, left_time, sleep_time>>
  BY DEF DequeueSkb
<1>5. Node' = Node /\ Dist(pread, pwrite)' = Dist(i, pwrite)
  BY <1>3, <1>4 DEF Node, Dist
<1> DEFINE k == Dist(pread, i)
<1>6. /\ \A m \in Node : pkt[m] > 0 => Dist(pread, m) >= k
      /\ \A m \in Node : Dist(pread, m) >= k => Dist(i, m) = Dist(pread, m) - k
  BY <1>1, <1>3, ReadingLemma
<1>7. k \in 0..total_time-1 /\ Dist(pread, pwrite) \in 0..total_time-1
  BY <1>1, <1>2, DistLemma
<1>8. Dist(i, pwrite) = Dist(pread, pwrite) - k
  <2>1. k <= Dist(pread, pwrite)
    BY <1>3 DEF IInv, WindowHoldsAll, Used
  <2> QED
    BY <1>2, <1>6, <1>7, <2>1
<1>9. Weight(i) = k * UNIT_TIME
  <2>1. CASE i = pread
    <3>1. k = 0
      BY <1>2, <2>1 DEF Dist, Node
    <3> QED
      BY <1>2, <2>1, <3>1 DEF Weight
  <2>2. CASE i # pread
    <3>1. PICK g \in 1..k : sleep_time[i] + left_time[i] = g * UNIT_TIME /\ Follows(i, g)
      BY <1>3, <2>2 DEF AllSpaced, Spaced, Used
    <3>2. g = k
      <4> SUFFICES ASSUME NEW m \in Node, Used(m), Dist(pread, m) = k - g PROVE FALSE
        BY <3>1 DEF Follows
      <4>1. Dist(pread, m) >= k
        BY <1>6 DEF Used
      <4> QED
        BY <1>7, <3>1, <4>1
    <3> QED
      BY <1>3, <2>2, <3>1, <3>2 DEF Weight, Used
  <2> QED
    BY <2>1, <2>2
<1> HIDE DEF k
<1>10. Weight(i)' = 0
  BY <1>3 DEF Weight
<1>11. ASSUME NEW m \in Node \ {i} PROVE Weight(m)' = Weight(m)
  <2>1. pkt'[m] = pkt[m]
    BY <1>2, <1>3
  <2>2. CASE m # pread
    BY <1>3, <1>4, <2>1, <2>2 DEF Weight, Used
  <2>3. CASE m = pread
    <3>1. ~(pkt[m] > 0)
      <4>1. Dist(pread, m) = 0
        BY <1>2, <2>3 DEF Dist, Node
      <4>2. k # 0
        <5>1. Ahead(pread, k) = i /\ Ahead(pread, 0) = pread
          BY <1>1, <1>2, <4>1, <2>3, DistLemma DEF k
        <5> QED
          BY <2>3, <5>1
      <4> QED
        BY <1>6, <1>7, <4>1, <4>2
    <3> QED
      BY <2>1, <2>3, <3>1 DEF Weight, Used
  <2> QED
    BY <2>2, <2>3
<1>12. IsFiniteSet(Node) /\ \A m \in Node : Weights[m] \in Nat /\ Weights[m] = Weight(m)
  BY <1>1, WeightsLemma
<1>13. \A m \in Node : Weights'[m] = Weight(m)'
  BY <1>5 DEF Weights
<1>14. SumFunctionOnSet(Weights', Node) = SumFunctionOnSet(Weights, Node) - Weights[i] + Weights'[i]
  <2>1. \A m \in Node : Weights[m] \in Int /\ Weights'[m] \in Int
    BY <1>10, <1>11, <1>12, <1>13
  <2>2. \A m \in Node \ {i} : Weights'[m] = Weights[m]
    BY <1>11, <1>12, <1>13
  <2> QED
    BY <1>12, <2>1, <2>2, SumExcept
<1>15. Weights[i] = k * UNIT_TIME /\ Weights'[i] = 0
  BY <1>9, <1>10, <1>12, <1>13
<1>16. /\ k * UNIT_TIME \in Nat /\ Dist(pread, pwrite) * UNIT_TIME \in Nat
       /\ (Dist(pread, pwrite) - k) * UNIT_TIME = Dist(pread, pwrite) * UNIT_TIME - k * UNIT_TIME
  <2>1. PICK d \in Nat, m \in Nat : d = Dist(pread, pwrite) /\ m = k
    BY <1>7
  <2>2. (d - m) * UNIT_TIME = d * UNIT_TIME - m * UNIT_TIME /\ d * UNIT_TIME \in Nat
        /\ m * UNIT_TIME \in Nat
    BY <1>2
  <2> QED
    BY <2>1, <2>2
<1>17. SumFunctionOnSet(Weights', Node) = (Dist(pread, pwrite) - k) * UNIT_TIME
  BY <1>14, <1>15, <1>16 DEF WeightsSpanWindow
<1> QED
  BY <1>5, <1>8, <1>17 DEF WeightsSpanWindow

\* kfifo_finish_node touches the reader's node only, which weighs nothing.
LEMMA FinishWeights ==
  ASSUME IInv, WeightsSpanWindow, FinishNode
  PROVE  WeightsSpanWindow'
<1>1. TypeOK
  BY DEF IInv
<1>2. /\ pread \in Node /\ pkt \in [Node -> Nat] /\ sleep_time \in [Node -> Nat]
      /\ left_time \in [Node -> 0..UNIT_TIME]
  BY <1>1, TypeFacts
<1>3. /\ pkt' = [pkt EXCEPT ![pread] = 0]
      /\ left_time' = [left_time EXCEPT ![pread] = UNIT_TIME]
      /\ sleep_time' = [sleep_time EXCEPT ![pread] = 0]
      /\ UNCHANGED <<total_time, pread, pwrite>>
  BY DEF FinishNode, ClearNode, ring
<1>4. \A i \in Node : Weight(i)' = Weight(i)
  BY <1>2, <1>3 DEF Weight, Used
<1> QED
  BY <1>1, <1>3, <1>4, SameWeights

\* A new ring holds nothing and its pointers meet.
LEMMA ChangeWeights ==
  ASSUME NEW t \in Times, NEW r \in Rates, Change(t, r)
  PROVE  WeightsSpanWindow'
<1>1. t \in Nat /\ UNIT_TIME \in Nat
  BY TimesAssumption, UnitAssumption
<1>2. /\ Node' = 0..t-1 /\ pkt' = [i \in 0..t-1 |-> 0] /\ pread' = 0 /\ pwrite' = 0
  BY DEF Change, FreshNodes, Node
<1>3. Dist(pread, pwrite)' = 0
  BY <1>2 DEF Dist
<1>4. \A i \in 0..t-1 : Weights'[i] = 0
  <2>1. \A i \in 0..t-1 : Weight(i)' = 0
    BY <1>2 DEF Weight, Used
  <2> QED
    BY <1>2, <2>1 DEF Weights
<1>5. IsFiniteSet(0..t-1)
  BY <1>1, FS_Interval
<1>6. SumFunctionOnSet(Weights', 0..t-1) = 0
  BY <1>4, <1>5, SumZero
<1> QED
  BY <1>1, <1>2, <1>3, <1>6 DEF WeightsSpanWindow

\* A node in use has at least its sleep_time of its weight, and no other node but
\* the reader's has any.
LEMMA DelayFromWeights ==
  ASSUME IInv, WeightsSpanWindow
  PROVE  DelayBound
<1>1. TypeOK
  BY DEF IInv
<1>2. /\ pread \in Node /\ sleep_time \in [Node -> Nat] /\ left_time \in [Node -> 0..UNIT_TIME]
      /\ UNIT_TIME \in Nat
  BY <1>1, TypeFacts
<1> DEFINE other == [sleep_time EXCEPT ![pread] = 0]
<1>3. IsFiniteSet(Node) /\ \A i \in Node : Weights[i] \in Nat /\ Weights[i] = Weight(i)
  BY <1>1, WeightsLemma
<1>4. /\ \A i \in Node : sleep_time[i] \in Int /\ other[i] \in Int
      /\ \A i \in Node \ {pread} : other[i] = sleep_time[i]
      /\ other[pread] = 0 /\ sleep_time[pread] \in Nat
  BY <1>2
<1>5. ASSUME NEW i \in Node PROVE other[i] <= Weights[i]
  <2>1. CASE i = pread
    BY <1>3, <1>4, <2>1
  <2>2. CASE i # pread /\ ~Used(i)
    <3>1. sleep_time[i] = 0
      BY <2>2 DEF IInv, EmptyNodesPristine
    <3> QED
      BY <1>3, <1>4, <2>2, <3>1
  <2>3. CASE i # pread /\ Used(i)
    <3>1. Weights[i] = sleep_time[i] + left_time[i]
      BY <1>3, <2>3 DEF Weight
    <3>2. sleep_time[i] \in Nat /\ left_time[i] \in Nat
      BY <1>2
    <3> QED
      BY <1>4, <2>3, <3>1, <3>2
  <2> QED
    BY <2>1, <2>2, <2>3
<1> HIDE DEF other
<1>6. SumFunctionOnSet(other, Node) = SumFunctionOnSet(sleep_time, Node) - sleep_time[pread] + other[pread]
  BY <1>2, <1>3, <1>4, SumExcept
<1>7. SumFunctionOnSet(other, Node) <= SumFunctionOnSet(Weights, Node)
  <2>1. \A i \in Node : Weights[i] \in Int
    BY <1>3
  <2> QED
    BY <1>3, <1>4, <1>5, <2>1, SumMonotone
<1>8. SumFunctionOnSet(sleep_time, Node) \in Int
  BY <1>3, <1>4, SumStep
<1>9. SumFunction(sleep_time) = SumFunctionOnSet(sleep_time, Node)
  BY <1>2 DEF SumFunction
<1>10. SumFunctionOnSet(other, Node) = SumFunctionOnSet(sleep_time, Node) - sleep_time[pread]
  BY <1>4, <1>6, <1>8
<1> QED
  BY <1>7, <1>9, <1>10 DEF DelayBound, WeightsSpanWindow
--------------------------------------------------------------------------------
(***************************************************************************)
(* The byte counts                                                          *)
(***************************************************************************)
\* The bytes of a list of packets, and of its j-th packet.
ListBytes(k) == FoldLeft(LAMBDA b, u : b + PktLen[u.skb], 0, k)
Part(k) == [j \in 1..Len(k) |-> PktLen[k[j].skb]]

LEMMA ListBytesSum ==
  ASSUME NEW k \in Seq(Unit)
  PROVE  /\ \A j \in 1..Len(k) : Part(k)[j] \in Nat
         /\ ListBytes(k) = SumFunctionOnSet(Part(k), 1..Len(k))
         /\ ListBytes(k) \in Nat
<1> DEFINE n == Len(k)
           f == Part(k)
           F(g) == g = [s \in SUBSET (DOMAIN k) |-> IF s = {} THEN 0
                           ELSE g[s \ {Max(s)}] + PktLen[k[Max(s)].skb]]
<1>1. n \in Nat /\ DOMAIN k = 1..n /\ \A j \in 1..n : k[j] \in Unit
  OBVIOUS
<1>2. ASSUME NEW j \in 1..n PROVE f[j] \in Nat /\ f[j] = PktLen[k[j].skb]
  <2>1. k[j].skb \in Skb
    BY <1>1, UnitLemma
  <2>2. PktLen[k[j].skb] \in Nat
    BY <2>1, LengthAssumption
  <2> QED
    BY <2>2 DEF Part
<1>3. ListBytes(k) = (CHOOSE g : F(g))[DOMAIN k]
  BY DEF ListBytes, FoldLeft, MapThenFoldSet
<1> HIDE DEF f
<1>4. ASSUME NEW g PROVE F(g) <=> SeqFoldEq(g, f, n)
  <2>1. \A s \in SUBSET (1..n) : s # {} => f[Max(s)] = PktLen[k[Max(s)].skb]
    BY <1>1, <1>2, MaxPicks
  <2> HIDE DEF n
  <2>2. [s \in SUBSET (1..n) |-> IF s = {} THEN 0 ELSE g[s \ {Max(s)}] + PktLen[k[Max(s)].skb]]
          = [s \in SUBSET (1..n) |-> IF s = {} THEN 0 ELSE g[s \ {Max(s)}] + f[Max(s)]]
    BY <2>1
  <2> QED
    BY <1>1, <2>2 DEF SeqFoldEq
<1>5. \A j \in 1..n : f[j] \in Int
  BY <1>2
<1> HIDE DEF n, F
<1>6. /\ \E g : SeqFoldEq(g, f, n)
      /\ \A g : SeqFoldEq(g, f, n) => g[1..n] = SumFunctionOnSet(f, 1..n)
  BY <1>1, <1>5, SeqFoldIsSum
<1>7. \E g : F(g)
  BY <1>4, <1>6
<1>8. F(CHOOSE g : F(g))
  BY <1>7
<1>9. ListBytes(k) = SumFunctionOnSet(f, 1..n)
  BY <1>1, <1>3, <1>4, <1>6, <1>8
<1>10. IsFiniteSet(1..n)
  BY <1>1, FS_Interval
<1>11. SumFunctionOnSet(f, 1..n) \in Nat
  BY <1>2, <1>10, SumOfNat
<1> QED
  BY <1>2, <1>9, <1>11 DEF n, f

\* kunit_enqueue_tail adds the packet's bytes.
LEMMA AppendBytes ==
  ASSUME NEW k \in Seq(Unit), NEW u \in Unit
  PROVE  ListBytes(Append(k, u)) = ListBytes(k) + PktLen[u.skb]
<1> DEFINE n == Len(k)
           k2 == Append(k, u)
<1>1. n \in Nat /\ k2 \in Seq(Unit) /\ Len(k2) = n+1 /\ k2[n+1] = u
  OBVIOUS
<1>2. \A j \in 1..n : k2[j] = k[j]
  OBVIOUS
<1> HIDE DEF k2, n
<1>3. /\ \A j \in 1..n+1 : Part(k2)[j] \in Nat
      /\ ListBytes(k2) = SumFunctionOnSet(Part(k2), 1..n+1)
  BY <1>1, ListBytesSum
<1>4. /\ \A j \in 1..n : Part(k)[j] \in Nat
      /\ ListBytes(k) = SumFunctionOnSet(Part(k), 1..n)
  BY ListBytesSum DEF n
<1>5. SumFunctionOnSet(Part(k2), 1..n+1) = SumFunctionOnSet(Part(k2), 1..n) + Part(k2)[n+1]
  BY <1>1, <1>3, SumAppend
<1>6. SumFunctionOnSet(Part(k2), 1..n) = SumFunctionOnSet(Part(k), 1..n)
  <2>1. \A j \in 1..n : Part(k)[j] = Part(k2)[j]
    BY <1>1, <1>2 DEF Part, n
  <2>2. IsFiniteSet(1..n)
    BY <1>1, FS_Interval
  <2>3. \A j \in 1..n : Part(k)[j] \in Int
    BY <1>4
  <2> QED
    BY <2>1, <2>2, <2>3, SumEqual
<1>7. Part(k2)[n+1] = PktLen[u.skb]
  BY <1>1 DEF Part
<1> QED
  BY <1>3, <1>4, <1>5, <1>6, <1>7 DEF k2

\* kunit_dequeue_head takes the first packet's off.
LEMMA TailBytes ==
  ASSUME NEW k \in Seq(Unit), k # << >>
  PROVE  ListBytes(Tail(k)) = ListBytes(k) - PktLen[Head(k).skb]
<1> DEFINE k2 == Tail(k)
<1>1. PICK n \in Nat : Len(k) = n+1
  BY EmptySeq
<1>2. k2 \in Seq(Unit) /\ Len(k2) = n /\ Head(k) = k[1]
  BY <1>1
<1>3. \A j \in 1..n : k2[j] = k[j+1]
  BY <1>1
<1> HIDE DEF k2
<1>4. /\ \A j \in 1..n+1 : Part(k)[j] \in Nat
      /\ ListBytes(k) = SumFunctionOnSet(Part(k), 1..n+1)
  BY <1>1, ListBytesSum
<1>5. ListBytes(k2) = SumFunctionOnSet(Part(k2), 1..n)
  BY <1>2, ListBytesSum
<1>6. ASSUME NEW j \in 1..n PROVE Part(k2)[j] = Part(k)[j+1]
  <2>1. j+1 \in 1..n+1
    OBVIOUS
  <2> QED
    BY <1>1, <1>2, <1>3, <2>1 DEF Part
<1>7. SumFunctionOnSet(Part(k2), 1..n) = SumFunctionOnSet(Part(k), 1..n+1) - Part(k)[1]
  <2>1. \A j \in 1..n+1 : Part(k)[j] \in Int
    BY <1>4
  <2> QED
    BY <1>6, <2>1, SumTail
<1>8. Part(k)[1] = PktLen[k[1].skb]
  BY <1>1 DEF Part
<1> QED
  BY <1>2, <1>4, <1>5, <1>7, <1>8 DEF k2

LEMMA EmptyBytes == ListBytes(<< >>) = 0
<1>1. << >> \in Seq(Unit) /\ Len(<< >>) = 0 /\ 1..0 = {} /\ IsFiniteSet({})
  BY FS_EmptySet
<1>2. ListBytes(<< >>) = SumFunctionOnSet(Part(<< >>), {})
  BY <1>1, ListBytesSum
<1>3. \A x \in {} : Part(<< >>)[x] = 0
  OBVIOUS
<1> QED
  BY <1>1, <1>2, <1>3, SumZero

\* The part of CountersAgree that the other invariants do not give.
BytesAgree ==
  /\ \A i \in Node : node_slen[i] = ListBytes(kunit[i])
  /\ slen = stranded + SumFunctionOnSet(node_slen, Node)
  /\ stranded \in Nat

LEMMA BytesFacts ==
  ASSUME TypeOK, BytesAgree
  PROVE  /\ IsFiniteSet(Node)
         /\ node_slen \in [Node -> Int]
         /\ \A i \in Node : node_slen[i] \in Nat
         /\ SumFunctionOnSet(node_slen, Node) \in Nat
<1>1. IsFiniteSet(Node) /\ node_slen \in [Node -> Int] /\ kunit \in [Node -> Seq(Unit)]
  BY WeightsLemma DEF TypeOK
<1>2. \A i \in Node : node_slen[i] \in Nat
  BY <1>1, ListBytesSum DEF BytesAgree
<1> QED
  BY <1>1, <1>2, SumOfNat

\* A packet charged to a node is counted there and in the ring.
LEMMA ChargeBytes ==
  ASSUME TypeOK, BytesAgree, NEW i \in Node, NEW s \in Skb, NEW cost, Charge(i, s, cost)
  PROVE  BytesAgree'
<1> DEFINE u == [skb |-> s, time |-> SkbTime(s), tend |-> sleep_time[i] + SkbTime(s)]
<1>1. /\ sleep_time \in [Node -> Nat] /\ kunit \in [Node -> Seq(Unit)] /\ rate \in Rates
      /\ MaxTime \in Nat /\ slen \in Int
  BY TypeFacts DEF TypeOK
<1>2. u \in Unit /\ u.skb = s
  <2>1. SkbTime(s) \in 0..MaxTime
    BY <1>1, CostLemma
  <2>2. sleep_time[i] + SkbTime(s) \in Nat
    BY <1>1, <2>1
  <2> QED
    BY <2>1, <2>2 DEF Unit
<1>3. /\ kunit' = [kunit EXCEPT ![i] = Append(@, u)]
      /\ node_slen' = [node_slen EXCEPT ![i] = @ + PktLen[s]]
      /\ slen' = slen + PktLen[s]
      /\ UNCHANGED <<total_time, stranded>>
  BY DEF Charge, EnqueueTail
<1> HIDE DEF u
<1>4. Node' = Node
  BY <1>3 DEF Node
<1>5. /\ IsFiniteSet(Node) /\ node_slen \in [Node -> Int]
      /\ \A j \in Node : node_slen[j] \in Nat
      /\ SumFunctionOnSet(node_slen, Node) \in Nat
  BY BytesFacts
<1>6. PktLen[s] \in Nat
  BY LengthAssumption
<1>7. ASSUME NEW j \in Node PROVE node_slen'[j] = ListBytes(kunit'[j])
  <2>1. node_slen[j] = ListBytes(kunit[j])
    BY DEF BytesAgree
  <2>2. CASE j = i
    <3>1. kunit'[i] = Append(kunit[i], u) /\ node_slen'[i] = node_slen[i] + PktLen[s]
      BY <1>1, <1>3, <1>5
    <3>2. ListBytes(Append(kunit[i], u)) = ListBytes(kunit[i]) + PktLen[s]
      BY <1>1, <1>2, AppendBytes
    <3> QED
      BY <2>1, <2>2, <3>1, <3>2
  <2>3. CASE j # i
    BY <1>1, <1>3, <1>5, <2>1, <2>3
  <2> QED
    BY <2>2, <2>3
<1>8. SumFunctionOnSet(node_slen', Node)
        = SumFunctionOnSet(node_slen, Node) - node_slen[i] + node_slen'[i]
  <2>1. /\ \A j \in Node : node_slen[j] \in Int /\ node_slen'[j] \in Int
        /\ \A j \in Node \ {i} : node_slen'[j] = node_slen[j]
    BY <1>3, <1>5, <1>6
  <2> QED
    BY <1>5, <2>1, SumExcept
<1>9. node_slen[i] \in Nat /\ node_slen'[i] = node_slen[i] + PktLen[s]
  BY <1>3, <1>5
<1>10. slen = stranded + SumFunctionOnSet(node_slen, Node) /\ stranded \in Nat
  BY DEF BytesAgree
<1>11. slen' = stranded' + SumFunctionOnSet(node_slen', Node)
  BY <1>3, <1>5, <1>6, <1>8, <1>9, <1>10
<1> QED
  BY <1>3, <1>4, <1>7, <1>10, <1>11 DEF BytesAgree

\* A packet handed back is taken off both counts.
LEMMA DequeueBytes ==
  ASSUME IInv, BytesAgree, DequeueSkb
  PROVE  BytesAgree'
<1>1. TypeOK
  BY DEF IInv
<1>2. kunit \in [Node -> Seq(Unit)]
  BY <1>1 DEF TypeOK
<1>3. PICK i \in Node :
        /\ pkt[i] > 0
        /\ kunit' = [kunit EXCEPT ![i] = Tail(@)]
        /\ node_slen' = [node_slen EXCEPT ![i] = @ - PktLen[Head(kunit[i]).skb]]
        /\ slen' = slen - PktLen[Head(kunit[i]).skb]
  BY DEF DequeueSkb
<1>4. UNCHANGED <<total_time, stranded>>
  BY DEF DequeueSkb
<1>5. Node' = Node
  BY <1>4 DEF Node
<1>6. kunit[i] \in Seq(Unit) /\ kunit[i] # << >>
  <2>1. pkt[i] = Len(kunit[i]) /\ kunit[i] \in Seq(Unit)
    BY <1>2 DEF IInv, PktCountsList
  <2> QED
    BY <1>3, <2>1
<1>7. PICK b \in Nat : b = PktLen[Head(kunit[i]).skb]
  <2>1. Head(kunit[i]) \in Unit
    BY <1>6
  <2>2. Head(kunit[i]).skb \in Skb
    BY <2>1, UnitLemma
  <2> QED
    BY <2>2, LengthAssumption
<1>8. /\ IsFiniteSet(Node) /\ node_slen \in [Node -> Int]
      /\ \A j \in Node : node_slen[j] \in Nat
      /\ SumFunctionOnSet(node_slen, Node) \in Nat
  BY <1>1, BytesFacts
<1>9. ASSUME NEW j \in Node PROVE node_slen'[j] = ListBytes(kunit'[j])
  <2>1. node_slen[j] = ListBytes(kunit[j])
    BY DEF BytesAgree
  <2>2. CASE j = i
    <3>1. kunit'[i] = Tail(kunit[i]) /\ node_slen'[i] = node_slen[i] - b
      BY <1>2, <1>3, <1>7, <1>8
    <3>2. ListBytes(Tail(kunit[i])) = ListBytes(kunit[i]) - b
      BY <1>6, <1>7, TailBytes
    <3> QED
      BY <2>1, <2>2, <3>1, <3>2
  <2>3. CASE j # i
    BY <1>2, <1>3, <1>8, <2>1, <2>3
  <2> QED
    BY <2>2, <2>3
<1>10. SumFunctionOnSet(node_slen', Node)
         = SumFunctionOnSet(node_slen, Node) - node_slen[i] + node_slen'[i]
  <2>1. /\ \A j \in Node : node_slen[j] \in Int /\ node_slen'[j] \in Int
        /\ \A j \in Node \ {i} : node_slen'[j] = node_slen[j]
    BY <1>3, <1>7, <1>8
  <2> QED
    BY <1>8, <2>1, SumExcept
<1>11. node_slen[i] \in Nat /\ node_slen'[i] = node_slen[i] - b /\ slen' = slen - b
  BY <1>3, <1>7, <1>8
<1>12. slen = stranded + SumFunctionOnSet(node_slen, Node) /\ stranded \in Nat
  BY DEF BytesAgree
<1>13. slen' = stranded' + SumFunctionOnSet(node_slen', Node)
  BY <1>4, <1>8, <1>10, <1>11, <1>12
<1> QED
  BY <1>4, <1>5, <1>9, <1>12, <1>13 DEF BytesAgree

\* The node kfifo_finish_node clears has no packets left, so its count is zero.
LEMMA FinishBytes ==
  ASSUME IInv, BytesAgree, FinishNode
  PROVE  BytesAgree'
<1>1. /\ pread \in Node /\ kunit \in [Node -> Seq(Unit)] /\ node_slen \in [Node -> Int]
  BY DEF IInv, TypeOK
<1>2. pkt[pread] = 0
  BY DEF FinishNode, Sleeping
<1>3. kunit[pread] = << >>
  BY <1>1, <1>2, EmptyNodeLemma
<1>4. node_slen[pread] = 0
  BY <1>1, <1>3, EmptyBytes DEF BytesAgree
<1>5. /\ node_slen' = [node_slen EXCEPT ![pread] = 0] /\ kunit' = [kunit EXCEPT ![pread] = << >>]
      /\ UNCHANGED <<total_time, slen, stranded>>
  BY DEF FinishNode, ClearNode, ring
<1>6. node_slen' = node_slen /\ kunit' = kunit
  BY <1>1, <1>3, <1>4, <1>5
<1> QED
  BY <1>5, <1>6 DEF BytesAgree, Node

\* What the old ring was charged with is stranded, and the new one is empty.
LEMMA ChangeBytes ==
  ASSUME IInv, BytesAgree, NEW t \in Times, NEW r \in Rates, Change(t, r)
  PROVE  BytesAgree'
<1>1. t \in Nat /\ SumFunctionOnSet(node_slen, Node) \in Nat
  BY TimesAssumption, BytesFacts DEF IInv
<1>2. slen \in Nat
  BY <1>1 DEF BytesAgree
<1>3. /\ Node' = 0..t-1 /\ slen' = slen /\ stranded' = slen
      /\ node_slen' = [i \in 0..t-1 |-> 0] /\ kunit' = [i \in 0..t-1 |-> << >>]
  BY DEF Change, FreshNodes, InitialSlen, Node
<1>4. SumFunctionOnSet(node_slen', 0..t-1) = 0
  <2>1. IsFiniteSet(0..t-1) /\ \A i \in 0..t-1 : node_slen'[i] = 0
    BY <1>1, <1>3, FS_Interval
  <2> QED
    BY <2>1, SumZero
<1>5. \A i \in 0..t-1 : node_slen'[i] = ListBytes(kunit'[i])
  BY <1>3, EmptyBytes
<1> QED
  BY <1>2, <1>3, <1>4, <1>5 DEF BytesAgree
--------------------------------------------------------------------------------
(***************************************************************************)
(* The queue the nodes make together                                        *)
(***************************************************************************)
\* The lists of the t nodes of a ring, one turn from node p on; the packets of a
\* list.
Turn(k, p, t) == [j \in 1..t |-> k[(p + (j-1)) % t]]
Skbs(s) == [n \in 1..Len(s) |-> s[n].skb]

LEMMA SkbsAppend ==
  ASSUME NEW s \in Seq(Unit), NEW u \in Unit
  PROVE  Skbs(Append(s, u)) = Append(Skbs(s), u.skb)
<1> DEFINE s2 == Append(s, u)
<1>1. /\ s2 \in Seq(Unit) /\ Len(s2) = Len(s) + 1 /\ s2[Len(s) + 1] = u
      /\ \A n \in 1..Len(s) : s2[n] = s[n]
  OBVIOUS
<1>2. /\ Skbs(s) \in Seq({v.skb : v \in Unit}) /\ Len(Skbs(s)) = Len(s) /\ Len(s) \in Nat
      /\ \A n \in 1..Len(s) : Skbs(s)[n] = s[n].skb
  BY DEF Skbs
<1> HIDE DEF s2
<1>3. Skbs(s2) = [n \in 1..Len(s)+1 |-> s2[n].skb]
  BY <1>1 DEF Skbs
<1>4. Append(Skbs(s), u.skb) = [n \in 1..Len(s)+1 |-> IF n = Len(s)+1 THEN u.skb ELSE Skbs(s)[n]]
  BY <1>2
<1>5. \A n \in 1..Len(s)+1 : s2[n].skb = IF n = Len(s)+1 THEN u.skb ELSE Skbs(s)[n]
  BY <1>1, <1>2
<1> QED
  BY <1>3, <1>4, <1>5 DEF s2

LEMMA SkbsTail ==
  ASSUME NEW s \in Seq(Unit), s # << >>
  PROVE  Skbs(s) # << >> /\ Skbs(Tail(s)) = Tail(Skbs(s))
<1> DEFINE s2 == Tail(s)
<1>1. PICK m \in Nat : Len(s) = m+1
  BY EmptySeq
<1>2. s2 \in Seq(Unit) /\ Len(s2) = m /\ \A n \in 1..m : s2[n] = s[n+1]
  BY <1>1
<1>3. /\ Skbs(s) \in Seq({v.skb : v \in Unit}) /\ Len(Skbs(s)) = m+1
      /\ \A n \in 1..m+1 : Skbs(s)[n] = s[n].skb
  BY <1>1 DEF Skbs
<1> HIDE DEF s2
<1>4. Skbs(s2) = [n \in 1..m |-> s2[n].skb]
  BY <1>2 DEF Skbs
<1>5. Tail(Skbs(s)) = [n \in 1..m |-> Skbs(s)[n+1]]
  <2> DEFINE r == Skbs(s)
             t == Tail(r)
  <2> HIDE DEF r
  <2>1. r \in Seq({v.skb : v \in Unit}) /\ Len(r) = m+1
    BY <1>3 DEF r
  <2>2. /\ t \in Seq({v.skb : v \in Unit}) /\ Len(t) = m
        /\ \A n \in 1..m : t[n] = r[n+1]
    BY <2>1
  <2> HIDE DEF t
  <2>3. t = [n \in 1..m |-> t[n]]
    BY <2>2
  <2>4. t = [n \in 1..m |-> r[n+1]]
    BY <2>2, <2>3
  <2> QED
    BY <2>4 DEF r, t
<1>6. \A n \in 1..m : n+1 \in 1..m+1
  OBVIOUS
<1>7. \A n \in 1..m : s2[n].skb = Skbs(s)[n+1]
  BY <1>2, <1>3, <1>6
<1>8. Skbs(s) # << >>
  BY <1>3
<1> QED
  BY <1>4, <1>5, <1>7, <1>8 DEF s2

\* The ring's queue is made of the lists of the nodes from the reader to the
\* writer; every list of the turn behind the writer's is empty.
LEMMA ContentsLemma ==
  ASSUME IInv
  PROVE  LET a == Turn(kunit, pread, total_time)
             w == Dist(pread, pwrite) + 1 IN
         /\ Contents = Skbs(Flat(a, w))
         /\ w \in 1..total_time
         /\ \A j \in 1..total_time : a[j] \in Seq(Unit)
         /\ \A j \in w+1..total_time : a[j] = << >>
<1> DEFINE a == Turn(kunit, pread, total_time)
           w == Dist(pread, pwrite) + 1
<1>1. /\ total_time \in Nat /\ total_time >= 2 /\ pread \in Node /\ pwrite \in Node
      /\ kunit \in [Node -> Seq(Unit)] /\ pkt \in [Node -> Nat] /\ TypeOK
  BY TypeFacts DEF IInv
<1>2. w \in 1..total_time /\ Dist(pread, pwrite) \in Nat
  <2>1. Dist(pread, pwrite) \in 0..total_time-1
    BY <1>1, DistLemma
  <2> QED
    BY <1>1, <2>1
<1>3. ASSUME NEW j \in 1..total_time
      PROVE  /\ a[j] = kunit[Ahead(pread, j-1)]
             /\ Ahead(pread, j-1) \in Node
             /\ Dist(pread, Ahead(pread, j-1)) = j-1
  <2>1. j-1 \in 0..total_time-1
    BY <1>1
  <2>2. a[j] = kunit[Ahead(pread, j-1)]
    BY DEF Turn, Ahead
  <2> QED
    BY <1>1, <2>1, <2>2, AheadDistLemma
<1>4. Contents = Skbs(Flat(a, w))
  <2>1. FlattenSeq([k \in 1..w |-> kunit[Ahead(pread, k-1)]]) = Flat(a, w)
    <3>1. \A j \in 1..w : j \in 1..total_time
      BY <1>1, <1>2
    <3>2. [k \in 1..w |-> kunit[Ahead(pread, k-1)]] = [j \in 1..w |-> a[j]]
      BY <1>3, <3>1
    <3> QED
      BY <3>2 DEF Flat
  <2> QED
    BY <2>1 DEF Contents, Skbs
<1> HIDE DEF a
<1>5. ASSUME NEW j \in w+1..total_time
      PROVE  a[j] = << >>
  <2> DEFINE m == Ahead(pread, j-1)
  <2>1. j \in 1..total_time /\ j-1 > Dist(pread, pwrite)
    BY <1>1, <1>2
  <2>2. m \in Node /\ Dist(pread, m) = j-1 /\ a[j] = kunit[m]
    BY <1>3, <2>1
  <2> HIDE DEF m
  <2>3. ~(Dist(pread, m) <= Dist(pread, pwrite))
    BY <1>2, <2>1, <2>2
  <2>4. pkt[m] = 0
    BY <1>1, <2>2, <2>3 DEF IInv, WindowHoldsAll, Used
  <2> QED
    BY <2>2, <2>4, EmptyNodeLemma
<1>6. \A j \in 1..total_time : a[j] \in Seq(Unit)
  BY <1>1, <1>3
<1> QED
  BY <1>2, <1>4, <1>5, <1>6 DEF a

\* An accepted packet goes behind all those queued, whichever node it is charged to.
LEMMA ChargePushes ==
  ASSUME IInv, NEW i \in Node, NEW s \in Skb, NEW cost,
         Dist(pread, pwrite) <= Dist(pread, i),
         pwrite' = i, Charge(i, s, cost)
  PROVE  Fifo!Push(s)
<1> DEFINE u == [skb |-> s, time |-> SkbTime(s), tend |-> sleep_time[i] + SkbTime(s)]
           a == Turn(kunit, pread, total_time)
           b == Turn(kunit', pread, total_time)
           w == Dist(pread, pwrite) + 1
           d == Dist(pread, i)
<1>1. /\ total_time \in Nat /\ total_time >= 2 /\ kunit \in [Node -> Seq(Unit)] /\ TypeOK
      /\ sleep_time \in [Node -> Nat] /\ rate \in Rates /\ pread \in Node
  BY TypeFacts DEF IInv
<1>2. u \in Unit /\ u.skb = s
  <2>1. SkbTime(s) \in 0..MaxTime /\ MaxTime \in Nat
    BY <1>1, CostLemma, TimeAssumption
  <2>2. sleep_time[i] + SkbTime(s) \in Nat
    BY <1>1, <2>1
  <2> QED
    BY <2>1, <2>2 DEF Unit
<1>3. kunit' = [kunit EXCEPT ![i] = Append(@, u)] /\ UNCHANGED <<total_time, pread>>
  BY DEF Charge, EnqueueTail
<1> HIDE DEF u
<1>4. /\ Contents = Skbs(Flat(a, w)) /\ w \in 1..total_time
      /\ \A j \in 1..total_time : a[j] \in Seq(Unit)
      /\ \A j \in w+1..total_time : a[j] = << >>
  BY ContentsLemma
<1>5. ASSUME NEW j \in 1..total_time
      PROVE  /\ a[j] = kunit[Ahead(pread, j-1)] /\ b[j] = kunit'[Ahead(pread, j-1)]
             /\ Ahead(pread, j-1) \in Node
             /\ Dist(pread, Ahead(pread, j-1)) = j-1
  <2>1. j-1 \in 0..total_time-1
    BY <1>1
  <2>2. a[j] = kunit[Ahead(pread, j-1)] /\ b[j] = kunit'[Ahead(pread, j-1)]
    BY DEF Turn, Ahead
  <2> QED
    BY <1>1, <2>1, <2>2, AheadDistLemma
<1>6. d \in 0..total_time-1 /\ Ahead(pread, d) = i
  BY <1>1, DistLemma
<1>7. w \in Nat /\ w <= d+1 /\ d \in Nat /\ d+1 \in 1..total_time
  <2>1. Dist(pread, pwrite) \in Nat
    BY ContentsLemma, <1>1, DistLemma, TypeFacts
  <2> QED
    BY <1>1, <1>4, <1>6, <2>1
<1>8. Contents' = Skbs(Flat(b, d+1))
  <2>1. Dist(pread, pwrite)' = d /\ \A j : Ahead(pread, j-1)' = Ahead(pread, j-1)
    BY <1>3 DEF Dist, Ahead
  <2>2. \A j \in 1..d+1 : j \in 1..total_time
    BY <1>1, <1>7
  <2>3. [k \in 1..d+1 |-> kunit'[Ahead(pread, k-1)]] = [j \in 1..d+1 |-> b[j]]
    BY <1>5, <2>2
  <2>4. Contents' = Skbs(FlattenSeq([k \in 1..Dist(pread, pwrite)'+1 |->
                                         kunit'[Ahead(pread, k-1)']]))
    BY DEF Contents, Skbs
  <2>5. [k \in 1..Dist(pread, pwrite)'+1 |-> kunit'[Ahead(pread, k-1)']]
          = [k \in 1..d+1 |-> kunit'[Ahead(pread, k-1)]]
    BY <2>1
  <2> QED
    BY <2>3, <2>4, <2>5 DEF Flat
<1> HIDE DEF a, b, w, d
<1>9. \A j \in 1..d : b[j] = a[j]
  <2> SUFFICES ASSUME NEW j \in 1..d PROVE b[j] = a[j]
    OBVIOUS
  <2> DEFINE m == Ahead(pread, j-1)
  <2>1. j \in 1..total_time /\ j-1 # d
    BY <1>1, <1>6
  <2>2. m \in Node /\ Dist(pread, m) # d /\ a[j] = kunit[m] /\ b[j] = kunit'[m]
    BY <1>5, <2>1
  <2> HIDE DEF m
  <2>3. m # i
    BY <2>2 DEF d
  <2> QED
    BY <1>1, <1>3, <2>2, <2>3
<1>10. b[d+1] = Append(a[d+1], u) /\ a[d+1] \in Seq(Unit)
  <2>1. a[d+1] = kunit[i] /\ b[d+1] = kunit'[i]
    <3>1. (d+1)-1 = d
      BY <1>7
    <3> QED
      BY <1>5, <1>6, <1>7, <3>1
  <2> QED
    BY <1>1, <1>3, <2>1
<1>11. /\ \A j \in 1..d+1 : a[j] \in Seq(Unit)
       /\ \A j \in w+1..d+1 : a[j] = << >>
       /\ \A j \in 1..d+1 : b[j] \in Seq(Unit)
  <2>1. \A j \in 1..d+1 : j \in 1..total_time
    BY <1>1, <1>7
  <2>2. \A j \in w+1..d+1 : j \in w+1..total_time
    BY <1>1, <1>7
  <2>3. b[d+1] \in Seq(Unit)
    BY <1>2, <1>10
  <2>4. \A j \in 1..d+1 : j = d+1 \/ j \in 1..d
    BY <1>7
  <2> QED
    BY <1>4, <1>9, <2>1, <2>2, <2>3, <2>4
<1>12. Flat(a, d+1) = Flat(a, w)
  <2>1. PICK n \in Nat : n = d+1
    BY <1>7
  <2>2. /\ w \in Nat /\ w <= n
        /\ \A j \in 1..n : a[j] \in Seq(Unit)
        /\ \A j \in w+1..n : a[j] = << >>
    BY <1>7, <1>11, <2>1
  <2>3. Flat(a, n) = Flat(a, w)
    BY ONLY <2>2, n \in Nat, FlatEmptyEnd
  <2> QED
    BY <2>1, <2>3
<1>13. Flat(a, d+1) = Flat(a, d) \o a[d+1] /\ Flat(a, d) \in Seq(Unit) /\ Flat(a, d+1) \in Seq(Unit)
  <2>1. d+1 \in Nat /\ d \in 0..(d+1)-1 /\ d \in 0..d+1 /\ d+1 \in 0..d+1
    BY <1>7
  <2> QED
    BY <1>11, <2>1, FlatStep
<1>14. Flat(b, d+1) = Flat(b, d) \o b[d+1]
  <2>1. d+1 \in Nat /\ d \in 0..(d+1)-1
    BY <1>7
  <2> QED
    BY <1>11, <2>1, FlatStep
<1>15. Flat(b, d) = Flat(a, d)
  BY <1>7, <1>9, FlatSame
<1>16. Flat(b, d+1) = Append(Flat(a, d+1), u)
  <2>1. ASSUME NEW x \in Seq(Unit), NEW y \in Seq(Unit)
        PROVE  x \o Append(y, u) = Append(x \o y, u)
    BY <1>2
  <2> QED
    BY <1>10, <1>13, <1>14, <1>15, <2>1
<1>17. Contents' = Append(Contents, s)
  BY <1>2, <1>4, <1>8, <1>12, <1>13, <1>16, SkbsAppend
<1> QED
  BY <1>17 DEF Fifo!Push

\* kfifo_dequeue hands back the packet that has been queued longest.
LEMMA DequeuePops ==
  ASSUME IInv, DequeueSkb
  PROVE  Fifo!Pop
<1> DEFINE a == Turn(kunit, pread, total_time)
           w == Dist(pread, pwrite) + 1
<1>1. /\ total_time \in Nat /\ total_time >= 2 /\ kunit \in [Node -> Seq(Unit)] /\ TypeOK
      /\ pread \in 0..total_time-1 /\ pwrite \in Node
  BY TypeFacts DEF IInv, Node
<1>2. PICK i \in Node : /\ Reading(i) /\ pkt[i] > 0 /\ pread' = i
                        /\ kunit' = [kunit EXCEPT ![i] = Tail(@)]
  BY DEF DequeueSkb
<1>3. UNCHANGED <<total_time, pwrite>>
  BY DEF DequeueSkb
<1>4. /\ Contents = Skbs(Flat(a, w)) /\ w \in 1..total_time
      /\ \A j \in 1..total_time : a[j] \in Seq(Unit)
  BY ContentsLemma
<1> DEFINE k == Dist(pread, i)
           n == Dist(i, pwrite) + 1
           a1 == [j \in 1..n |-> a[k+j]]
           b == [j \in 1..n |-> kunit'[Ahead(i, j-1)]]
<1>5. /\ k \in 0..total_time-1 /\ Ahead(pread, k) = i
      /\ \A m \in Node : pkt[m] > 0 => Dist(pread, m) >= k
      /\ \A m \in Node : Dist(pread, m) >= k => Dist(i, m) = Dist(pread, m) - k
  BY <1>1, <1>2, DistLemma, ReadingLemma
<1>6. k <= Dist(pread, pwrite)
  BY <1>2 DEF IInv, WindowHoldsAll, Used
<1>7. n \in Nat /\ n >= 1 /\ k \in Nat /\ k + n = w
  <2>1. Dist(pread, pwrite) \in 0..total_time-1
    BY <1>1, DistLemma
  <2>2. n = Dist(pread, pwrite) - k + 1
    BY <1>1, <1>5, <1>6, <2>1
  <2> HIDE DEF k, n
  <2> QED
    BY <1>1, <1>5, <1>6, <2>1, <2>2
<1>8. ASSUME NEW j \in 1..total_time
      PROVE  /\ a[j] = kunit[Ahead(pread, j-1)]
             /\ Ahead(pread, j-1) \in Node
             /\ Dist(pread, Ahead(pread, j-1)) = j-1
  <2>1. j-1 \in 0..total_time-1
    BY <1>1
  <2>2. a[j] = kunit[Ahead(pread, j-1)]
    BY DEF Turn, Ahead
  <2> QED
    BY <1>1, <2>1, <2>2, AheadDistLemma
<1>9. Contents' = Skbs(Flat(b, n))
  <2>1. Dist(pread, pwrite)' = Dist(i, pwrite) /\ \A j : Ahead(pread, j-1)' = Ahead(i, j-1)
    BY <1>2, <1>3 DEF Dist, Ahead
  <2>2. Contents' = Skbs(FlattenSeq([j \in 1..Dist(pread, pwrite)'+1 |->
                                         kunit'[Ahead(pread, j-1)']]))
    BY DEF Contents, Skbs
  <2>3. [j \in 1..Dist(pread, pwrite)'+1 |-> kunit'[Ahead(pread, j-1)']]
          = [j \in 1..n |-> kunit'[Ahead(i, j-1)]]
    BY <2>1
  <2>4. [j \in 1..n |-> kunit'[Ahead(i, j-1)]] = [j \in 1..n |-> b[j]]
    OBVIOUS
  <2> QED
    BY <2>2, <2>3, <2>4 DEF Flat
\* j places on from the new reader is k+j places on from the old one.
<1>10. ASSUME NEW j \in 1..n
       PROVE  /\ a1[j] = kunit[Ahead(i, j-1)] /\ b[j] = kunit'[Ahead(i, j-1)]
              /\ Ahead(i, j-1) \in Node /\ (Ahead(i, j-1) = i <=> j = 1)
              /\ a1[j] \in Seq(Unit)
  <2> DEFINE m == Ahead(pread, (k+j)-1)
  <2>1. k+j \in 1..total_time /\ j-1 \in 0..total_time-1 /\ (k+j)-1 \in Nat /\ (k+j)-1 >= k
    <3> HIDE DEF k, n
    <3> QED
      BY <1>1, <1>4, <1>5, <1>7
  <2>2. m \in Node /\ Dist(pread, m) = (k+j)-1 /\ a1[j] = kunit[m]
    BY <1>8, <2>1
  <2> HIDE DEF m, a1, b
  <2>3. Dist(i, m) = j-1
    <3>1. Dist(i, m) = Dist(pread, m) - k
      BY <1>5, <2>1, <2>2
    <3> HIDE DEF k
    <3> QED
      BY <1>5, <2>1, <2>2, <3>1
  <2>4. Ahead(i, j-1) = m
    <3>1. i \in 0..total_time-1 /\ m \in 0..total_time-1 /\ j-1 \in Nat
      BY <2>1, <2>2 DEF Node
    <3>2. Ahead(i, j-1) = IF i + (j-1) < total_time THEN i + (j-1) ELSE i + (j-1) - total_time
      BY <1>1, <2>1, <3>1, AheadLemma
    <3> HIDE DEF k, n
    <3>3. CASE m >= i
      <4>1. j-1 = m-i
        BY <2>3, <3>3 DEF Dist
      <4> QED
        BY <1>1, <3>1, <3>2, <4>1
    <3>4. CASE ~(m >= i)
      <4>1. j-1 = m-i+total_time
        BY <2>3, <3>4 DEF Dist
      <4> QED
        BY <1>1, <3>1, <3>2, <3>4, <4>1
    <3> QED
      BY <3>3, <3>4
  <2>5. m = i <=> j = 1
    <3>1. Dist(i, i) = 0
      BY <1>1 DEF Dist, Node
    <3>2. m # i => Dist(i, m) # 0
      BY <1>1, <2>2 DEF Dist, Node
    <3> QED
      BY <2>3, <3>1, <3>2
  <2>6. b[j] = kunit'[Ahead(i, j-1)]
    BY DEF b
  <2> QED
    BY <1>1, <2>2, <2>4, <2>5, <2>6
<1>11. \A j \in 1..k : a[j] = << >>
  <2> SUFFICES ASSUME NEW j \in 1..k PROVE a[j] = << >>
    OBVIOUS
  <2> DEFINE m == Ahead(pread, j-1)
  <2>1. j \in 1..total_time /\ ~(j-1 >= k)
    BY <1>1, <1>5
  <2>2. m \in Node /\ Dist(pread, m) = j-1 /\ a[j] = kunit[m]
    BY <1>8, <2>1
  <2> HIDE DEF m
  <2>3. pkt[m] = 0
    <3>1. ~(pkt[m] > 0) /\ pkt[m] \in Nat
      BY <1>1, <1>5, <2>1, <2>2 DEF TypeOK
    <3> QED
      BY <3>1
  <2> QED
    BY <2>2, <2>3, EmptyNodeLemma
<1>12. \A j \in 1..n : a1[j] = a[k+j]
  OBVIOUS
<1> HIDE DEF a, a1, b, w, k, n
<1>13. Flat(a1, n) = Flat(a, w)
  <2>1. \A j \in 1..k+n : a[j] \in Seq(Unit)
    BY <1>1, <1>4, <1>7
  <2>2. Flat(a1, n) = Flat(a, k+n)
    BY <1>7, <1>11, <1>12, <2>1, FlatEmptyStart
  <2> QED
    BY <1>7, <2>2
<1>14. kunit[i] # << >> /\ kunit[i] \in Seq(Unit)
  <2>1. pkt[i] = Len(kunit[i]) /\ kunit[i] \in Seq(Unit)
    BY <1>1 DEF IInv, PktCountsList
  <2> QED
    BY <1>2, <2>1
<1>15. /\ a1[1] # << >> /\ b[1] = Tail(a1[1])
       /\ \A j \in 2..n : b[j] = a1[j]
       /\ \A j \in 1..n : a1[j] \in Seq(Unit)
  <2>1. 1 \in 1..n /\ \A j \in 2..n : j \in 1..n /\ j # 1
    BY <1>7
  <2>2. a1[1] = kunit[i] /\ b[1] = kunit'[i]
    BY <1>10, <2>1
  <2>3. ASSUME NEW j \in 2..n PROVE b[j] = a1[j]
    <3>1. Ahead(i, j-1) # i /\ Ahead(i, j-1) \in Node
      BY <1>10, <2>1
    <3>2. kunit'[Ahead(i, j-1)] = kunit[Ahead(i, j-1)]
      BY <1>1, <1>2, <3>1
    <3> QED
      BY <1>10, <2>1, <3>2
  <2> QED
    BY <1>1, <1>2, <1>10, <1>14, <2>2, <2>3
<1>16. Flat(a1, n) # << >> /\ Flat(b, n) = Tail(Flat(a1, n))
  BY <1>7, <1>15, FlatTail
<1>17. Flat(a1, n) \in Seq(Unit)
  <2>1. n \in 0..n
    BY <1>7
  <2> QED
    BY <1>7, <1>15, <2>1, FlatStep
<1>18. Contents # << >> /\ Contents' = Tail(Contents)
  BY <1>4, <1>9, <1>13, <1>16, <1>17, SkbsTail
<1> QED
  BY <1>18 DEF Fifo!Pop

\* A ring kfifo_init has just built holds nothing.
LEMMA EmptyRing == Skbs(FlattenSeq([k \in 1..1 |-> << >>])) = << >>
<1> DEFINE a == [k \in 1..1 |-> << >>]
<1>1. [k \in 1..1 |-> << >>] = [k \in 1..1 |-> a[k]]
  OBVIOUS
<1>2. /\ \A j \in 1..1 : a[j] \in Seq(Unit)
      /\ \A j \in 0+1..1 : a[j] = << >>
  OBVIOUS
<1> HIDE DEF a
<1>3. Flat(a, 1) = Flat(a, 0)
  BY <1>2, FlatEmptyEnd
<1>4. Flat(a, 0) = << >>
  BY <1>2, FlatStep
<1>5. Skbs(<< >>) = << >>
  BY DEF Skbs
<1> QED
  BY <1>1, <1>3, <1>4, <1>5 DEF Flat
--------------------------------------------------------------------------------
(***************************************************************************)
(* Spacing and delay                                                        *)
(***************************************************************************)
\* The nodes' charges stay spaced, and span the window, whatever comes between.
THEOREM AccountInvariance == Spec => [](IInv /\ AllSpaced /\ WeightsSpanWindow)
<1>1. Init => AllSpaced /\ WeightsSpanWindow
  <2> SUFFICES ASSUME Init PROVE AllSpaced /\ WeightsSpanWindow
    OBVIOUS
  <2>1. AllSpaced
    BY DEF Init, AllSpaced, Used, Node
  <2>2. IsFiniteSet(Node) /\ UNIT_TIME \in Nat
    BY InitIInv, WeightsLemma, UnitAssumption DEF IInv
  <2>3. \A i \in Node : Weights[i] = 0
    BY DEF Init, Weights, Weight, Used, Node
  <2>4. SumFunctionOnSet(Weights, Node) = 0
    BY <2>2, <2>3, SumZero
  <2>5. Dist(pread, pwrite) = 0
    BY DEF Init, Dist
  <2> QED
    BY <2>1, <2>2, <2>4, <2>5 DEF WeightsSpanWindow
<1>2. IInv /\ AllSpaced /\ WeightsSpanWindow /\ [Next]_vars => AllSpaced' /\ WeightsSpanWindow'
  <2> SUFFICES ASSUME IInv, AllSpaced, WeightsSpanWindow, [Next]_vars
               PROVE  AllSpaced' /\ WeightsSpanWindow'
    OBVIOUS
  <2>1. ASSUME UNCHANGED <<total_time, pread, pwrite, pkt, left_time, sleep_time>>
        PROVE  AllSpaced' /\ WeightsSpanWindow'
    <3>1. \A i \in Node : Weight(i)' = Weight(i)
      BY <2>1 DEF Weight, Used
    <3> QED
      BY <2>1, <3>1, SameSpaced, SameWeights DEF IInv
  <2>2. CASE UNCHANGED vars
    BY <2>1, <2>2 DEF vars, ring, nodes
  <2>3. CASE \E s \in Skb : EnqueueHere(s)
    BY <2>3, HereSpaced, HereWeights
  <2>4. CASE \E s \in Skb : EnqueueAhead(s)
    BY <2>4, AheadSpaced, AheadWeights
  <2>5. CASE \E s \in Skb : EnqueueDrop(s)
    BY <2>1, <2>5 DEF EnqueueDrop, vars, ring, nodes
  <2>6. CASE DequeueSkb
    BY <2>6, DequeueSpaced, DequeueWeights
  <2>7. CASE DequeueNull
    <3>1. UNCHANGED vars
      BY <2>7, NullStutters
    <3> QED
      BY <2>1, <3>1 DEF vars, ring, nodes
  <2>8. CASE FinishNode
    BY <2>8, FinishSpaced, FinishWeights
  <2>9. CASE \E t \in Times, r \in Rates : Change(t, r)
    BY <2>9, ChangeSpaced, ChangeWeights
  <2>10. CASE \E r \in Rates : ChangeNoMem(r)
    BY <2>1, <2>10 DEF ChangeNoMem, nodes
  <2> QED
    BY <2>2, <2>3, <2>4, <2>5, <2>6, <2>7, <2>8, <2>9, <2>10 DEF Next, Dequeue
<1> QED
  BY <1>1, <1>2, Invariance, PTL DEF Spec

\* What kfifo_enqueue charges to a node beyond the node's own millisecond is
\* exactly the nodes kfifo_write_forward jumped over for it, and these stay
\* empty until the reader has passed them, whatever comes between.
THEOREM SpacingCorrect == Spec => []Spacing
<1>1. IInv /\ AllSpaced => Spacing
  BY SpacingForm DEF IInv
<1> QED
  BY <1>1, AccountInvariance, PTL

\* A packet accepted now waits at most one millisecond for each node between the
\* reader and the writer: that is all the time stored beyond the reader's node.
THEOREM DelayCorrect == Spec => []DelayBound
<1>1. IInv /\ WeightsSpanWindow => DelayBound
  BY DelayFromWeights
<1> QED
  BY <1>1, AccountInvariance, PTL

\* kfifo_enqueue, kfifo_dequeue and kfifo_finish_node keep the packet count and the
\* byte counts of the nodes and of the ring in step with the lists.
THEOREM CountersCorrect == Spec => []CountersAgree
<1>1. Init => BytesAgree
  <2> SUFFICES ASSUME Init PROVE BytesAgree
    OBVIOUS
  <2>1. IsFiniteSet(Node)
    BY InitIInv, WeightsLemma DEF IInv
  <2>2. SumFunctionOnSet(node_slen, Node) = 0
    <3>1. \A i \in Node : node_slen[i] = 0
      BY DEF Init
    <3> QED
      BY <2>1, <3>1, SumZero
  <2>3. \A i \in Node : node_slen[i] = ListBytes(kunit[i])
    BY EmptyBytes DEF Init
  <2> QED
    BY <2>2, <2>3 DEF Init, BytesAgree
<1>2. IInv /\ BytesAgree /\ [Next]_vars => BytesAgree'
  <2> SUFFICES ASSUME IInv, BytesAgree, [Next]_vars PROVE BytesAgree'
    OBVIOUS
  <2>1. ASSUME UNCHANGED <<total_time, slen, node_slen, kunit, stranded>>
        PROVE  BytesAgree'
    BY <2>1 DEF BytesAgree, Node
  <2>2. CASE UNCHANGED vars
    BY <2>1, <2>2 DEF vars, ring, nodes
  <2>3. CASE \E s \in Skb : EnqueueHere(s)
    <3>1. PICK s \in Skb : EnqueueHere(s)
      BY <2>3
    <3>2. pwrite \in Node
      BY DEF IInv, TypeOK
    <3> QED
      BY <3>1, <3>2, ChargeBytes DEF EnqueueHere, IInv
  <2>4. CASE \E s \in Skb : EnqueueAhead(s)
    <3>1. PICK s \in Skb : EnqueueAhead(s)
      BY <2>4
    <3>2. Ahead(pwrite, Steps(s) + 1) \in Node
      <4>1. Steps(s) + 1 \in Nat
        BY CostLemma DEF IInv, TypeOK
      <4>2. pwrite \in 0..total_time-1 /\ total_time \in Nat /\ total_time >= 2
        BY TypeFacts DEF IInv, Node
      <4> QED
        BY <4>1, <4>2, AheadLemma
    <3> QED
      BY <3>1, <3>2, ChargeBytes DEF EnqueueAhead, IInv
  <2>5. CASE \E s \in Skb : EnqueueDrop(s)
    BY <2>1, <2>5 DEF EnqueueDrop, vars, ring, nodes
  <2>6. CASE DequeueSkb
    BY <2>6, DequeueBytes
  <2>7. CASE DequeueNull
    <3>1. UNCHANGED vars
      BY <2>7, NullStutters
    <3> QED
      BY <2>1, <3>1 DEF vars, ring, nodes
  <2>8. CASE FinishNode
    BY <2>8, FinishBytes
  <2>9. CASE \E t \in Times, r \in Rates : Change(t, r)
    BY <2>9, ChangeBytes
  <2>10. CASE \E r \in Rates : ChangeNoMem(r)
    BY <2>1, <2>10 DEF ChangeNoMem, nodes
  <2> QED
    BY <2>2, <2>3, <2>4, <2>5, <2>6, <2>7, <2>8, <2>9, <2>10 DEF Next, Dequeue
<1>3. IInv /\ BytesAgree => CountersAgree
  <2> SUFFICES ASSUME IInv, BytesAgree PROVE CountersAgree
    OBVIOUS
  <2>1. PktCountsList /\ DOMAIN node_slen = Node
    BY DEF IInv, TypeOK
  <2>2. \A i \in Node : node_slen[i] = NodeBytes(i)
    BY DEF BytesAgree, NodeBytes, ListBytes
  <2>3. slen = stranded + RingLoad /\ stranded >= 0
    BY <2>1 DEF BytesAgree, RingLoad, SumFunction
  <2> QED
    BY <2>1, <2>2, <2>3 DEF CountersAgree
<1> QED
  BY <1>1, <1>2, <1>3, Invariance, PTL DEF Spec
\* The safety part of RingIsFifo: whatever nodes the packets are spread over,
\* kfifo_enqueue puts a packet behind all the others, kfifo_dequeue takes the first,
\* and no other step changes the queue, except that kfifo_init on a live ring throws
\* it away.
THEOREM FifoCorrect == Spec => Fifo!Init /\ [][Fifo!Next]_Contents
<1>1. Init => Fifo!Init
  <2> SUFFICES ASSUME Init PROVE Contents = << >>
    BY DEF Fifo!Init
  <2>1. IInv
    BY InitIInv
  <2>2. total_time \in Nat /\ total_time >= 2
    BY <2>1, TypeFacts DEF IInv
  <2>3. [k \in 1..Dist(pread, pwrite)+1 |-> kunit[Ahead(pread, k-1)]] = [k \in 1..1 |-> << >>]
    <3>1. Dist(pread, pwrite) + 1 = 1
      BY DEF Init, Dist
    <3>2. ASSUME NEW k \in 1..1 PROVE kunit[Ahead(pread, k-1)] = << >>
      <4>1. Ahead(pread, k-1) \in Node
        BY <2>2 DEF Init, Ahead, Node
      <4> QED
        BY <4>1 DEF Init
    <3> QED
      BY <3>1, <3>2
  <2> QED
    BY <2>3, EmptyRing DEF Contents, Skbs
<1>2. IInv /\ [Next]_vars => [Fifo!Next]_Contents
  <2> SUFFICES ASSUME IInv, [Next]_vars PROVE [Fifo!Next]_Contents
    OBVIOUS
  <2>1. ASSUME UNCHANGED <<total_time, pread, pwrite, kunit>> PROVE Contents' = Contents
    BY <2>1 DEF Contents, Ahead, Dist
  <2>2. CASE UNCHANGED vars
    BY <2>1, <2>2 DEF vars, ring, nodes
  <2>3. CASE \E s \in Skb : EnqueueHere(s)
    <3>1. PICK s \in Skb : EnqueueHere(s)
      BY <2>3
    <3>2. pwrite \in Node /\ Dist(pread, pwrite) \in Int
      BY DistLemma DEF IInv, TypeOK
    <3>3. Fifo!Push(s)
      BY <3>1, <3>2, ChargePushes DEF EnqueueHere
    <3> QED
      BY <3>3 DEF Fifo!Next
  <2>4. CASE \E s \in Skb : EnqueueAhead(s)
    <3>1. PICK s \in Skb : EnqueueAhead(s)
      BY <2>4
    <3>2. PICK n \in Nat \ {0} : n = Steps(s) + 1
      BY CostLemma DEF IInv, TypeOK
    <3>3. /\ Ahead(pwrite, n) \in Node
          /\ Dist(pread, Ahead(pwrite, n)) = Dist(pread, pwrite) + n
      BY <3>1, <3>2, ForwardLemma DEF EnqueueAhead, IInv
    <3>4. Dist(pread, pwrite) \in 0..total_time-1 /\ total_time \in Nat
      BY DistLemma, TypeFacts DEF IInv
    <3>5. Dist(pread, pwrite) <= Dist(pread, Ahead(pwrite, n))
      BY <3>3, <3>4
    <3>6. Fifo!Push(s)
      BY <3>1, <3>2, <3>3, <3>5, ChargePushes DEF EnqueueAhead
    <3> QED
      BY <3>6 DEF Fifo!Next
  <2>5. CASE \E s \in Skb : EnqueueDrop(s)
    BY <2>1, <2>5 DEF EnqueueDrop, vars, ring, nodes
  <2>6. CASE DequeueSkb
    BY <2>6, DequeuePops DEF Fifo!Next
  <2>7. CASE DequeueNull
    <3>1. UNCHANGED vars
      BY <2>7, NullStutters
    <3> QED
      BY <2>1, <3>1 DEF vars, ring, nodes
  <2>8. CASE FinishNode
    <3>1. kunit \in [Node -> Seq(Unit)] /\ pread \in Node /\ pkt[pread] = 0
      BY <2>8 DEF IInv, TypeOK, FinishNode, Sleeping
    <3>2. kunit[pread] = << >>
      BY <3>1, EmptyNodeLemma
    <3>3. kunit' = [kunit EXCEPT ![pread] = << >>] /\ UNCHANGED <<total_time, pread, pwrite>>
      BY <2>8 DEF FinishNode, ClearNode, ring
    <3>4. kunit' = kunit
      BY <3>1, <3>2, <3>3
    <3> QED
      BY <2>1, <3>3, <3>4
  <2>9. CASE \E t \in Times, r \in Rates : Change(t, r)
    <3>1. PICK t \in Times, r \in Rates : Change(t, r)
      BY <2>9
    <3>2. t \in Nat /\ t >= 2
      BY TimesAssumption
    <3>3. total_time' = t /\ pread' = 0 /\ pwrite' = 0 /\ kunit' = [i \in 0..t-1 |-> << >>]
      BY <3>1 DEF Change, FreshNodes
    <3>4. [k \in 1..Dist(pread, pwrite)'+1 |-> kunit'[Ahead(pread, k-1)']]
            = [k \in 1..1 |-> << >>]
      <4>1. Dist(pread, pwrite)' + 1 = 1
        BY <3>3 DEF Dist
      <4>2. ASSUME NEW k \in 1..1 PROVE kunit'[Ahead(pread, k-1)'] = << >>
        <5>1. Ahead(pread, k-1)' \in 0..t-1
          BY <3>2, <3>3 DEF Ahead
        <5> QED
          BY <3>3, <5>1
      <4> QED
        BY <4>1, <4>2
    <3>5. Contents' = Skbs(FlattenSeq([k \in 1..Dist(pread, pwrite)'+1 |->
                                           kunit'[Ahead(pread, k-1)']]))
      BY DEF Contents, Skbs
    <3>6. Contents' = << >>
      BY <3>4, <3>5, EmptyRing
    <3> QED
      BY <3>6 DEF Fifo!Next, Fifo!Flush
  <2>10. CASE \E r \in Rates : ChangeNoMem(r)
    BY <2>1, <2>10 DEF ChangeNoMem, nodes
  <2> QED
    BY <2>2, <2>3, <2>4, <2>5, <2>6, <2>7, <2>8, <2>9, <2>10 DEF Next, Dequeue
<1> QED
  BY <1>1, <1>2, Invariance, PTL DEF Spec
--------------------------------------------------------------------------------
(***************************************************************************)
(* The ring over the linked lists                                           *)
(***************************************************************************)
P == INSTANCE KUnitProofs WITH Nodes <- Nat, list <- [i \in Node |-> Packets(kunit[i])]

\* What the simulation needs of the ring, and the one fact about the pointers.
Shape == TypeOK /\ PktCountsList /\ DOMAIN head = Node

\* The lists the pointers stand for.
Lists == [i \in Node |-> Packets(kunit[i])]
--------------------------------------------------------------------------------
\* The packets of a list of units.
LEMMA PacketsAppend ==
  ASSUME NEW k \in Seq(Unit), NEW u \in Unit
  PROVE  Packets(Append(k, u)) = Append(Packets(k), u.skb)
<1> DEFINE n == Len(k)
<1>1. n \in Nat /\ Len(Append(k, u)) = n + 1
  OBVIOUS
<1>2. Packets(k) \in Seq(Skb) /\ Len(Packets(k)) = n
  <2>1. \A i \in 1..n : k[i] \in Unit
    OBVIOUS
  <2>2. \A v \in Unit : v.skb \in Skb
    BY DEF Unit
  <2> QED
    BY <2>1, <2>2, <1>1 DEF Packets
<1>3. \A i \in 1..n+1 : Append(k, u)[i].skb = IF i = n + 1 THEN u.skb ELSE k[i].skb
  BY <1>1
<1>4. Packets(Append(k, u)) = [i \in 1..n+1 |-> IF i = n + 1 THEN u.skb ELSE k[i].skb]
  BY <1>1, <1>3 DEF Packets
<1>5. Append(Packets(k), u.skb) = [i \in 1..n+1 |-> IF i = n + 1 THEN u.skb ELSE k[i].skb]
  <2>1. u.skb \in Skb
    BY DEF Unit
  <2>2. Append(Packets(k), u.skb) \in Seq(Skb)
    BY <2>1, <1>2
  <2> QED
    BY <2>1, <2>2, <1>1, <1>2 DEF Packets
<1> QED
  BY <1>4, <1>5

LEMMA PacketsTail ==
  ASSUME NEW k \in Seq(Unit), k # << >>
  PROVE  Packets(Tail(k)) = Tail(Packets(k))
<1> DEFINE n == Len(k)
<1>1. n \in Nat \ {0} /\ Len(Tail(k)) = n - 1
  OBVIOUS
<1>2. Packets(k) \in Seq(Skb) /\ Len(Packets(k)) = n /\ Packets(k) # << >>
  <2>1. \A i \in 1..n : k[i] \in Unit
    OBVIOUS
  <2>2. \A v \in Unit : v.skb \in Skb
    BY DEF Unit
  <2> QED
    BY <2>1, <2>2, <1>1 DEF Packets
<1>3. Packets(Tail(k)) = [i \in 1..n-1 |-> k[i+1].skb]
  BY <1>1 DEF Packets
<1>4. Tail(Packets(k)) = [i \in 1..n-1 |-> k[i+1].skb]
  BY <1>1, <1>2 DEF Packets
<1> QED
  BY <1>3, <1>4

LEMMA PacketsEmpty == Packets(<< >>) = << >>
BY DEF Packets
--------------------------------------------------------------------------------
\* The ring over pointers is the ring, so every theorem about Spec holds of it.
LEMMA HeapIsRing == HeapSpec => Spec
<1>1. HeapInit => Init
  BY DEF HeapInit
<1>2. [HeapNext]_heapVars => [Next]_vars
  BY DEF HeapNext, HeapEnqueue, HeapDrop, HeapPoll, HeapDequeue, HeapDequeueNull, HeapFinish,
         HeapChange, HeapChangeNoMem, Next, Dequeue, heapVars
<1> QED
  BY <1>1, <1>2, PTL DEF HeapSpec, Spec

\* There is a head pointer for every node.
LEMMA HeadsPreserved ==
  ASSUME TypeOK, DOMAIN head = Node, [HeapNext]_heapVars
  PROVE  DOMAIN head' = Node'
<1>1. CASE UNCHANGED heapVars
  BY <1>1 DEF heapVars, vars, ring, pointers, Node
<1>2. ASSUME NEW s \in Skb, HeapEnqueue(s) PROVE DOMAIN head' = Node'
  BY <1>2 DEF HeapEnqueue, EnqueueHere, EnqueueAhead, Charge, Node,
              Heap!PutTail, Heap!PutFirst, Heap!PutNext
<1>3. ASSUME NEW s \in Skb, HeapDrop(s) PROVE DOMAIN head' = Node'
  BY <1>3 DEF HeapDrop, EnqueueDrop, vars, ring, pointers, Node
<1>4. CASE HeapDequeue
  BY <1>4 DEF HeapDequeue, DequeueSkb, Node, Heap!TakeHead
<1>5. CASE HeapDequeueNull
  BY <1>5 DEF HeapDequeueNull, DequeueNull, Node, pointers
<1>6. CASE HeapFinish
  BY <1>6 DEF HeapFinish, FinishNode, ring, Node, Heap!InitHead
<1>7. ASSUME NEW t \in Times, NEW r \in Rates, HeapChange(t, r) PROVE DOMAIN head' = Node'
  BY <1>7 DEF HeapChange, Change, Node, Heap!InitHeads
<1>8. ASSUME NEW r \in Rates, HeapChangeNoMem(r) PROVE DOMAIN head' = Node'
  BY <1>8 DEF HeapChangeNoMem, ChangeNoMem, Node, pointers
<1> QED
  BY <1>1, <1>2, <1>3, <1>4, <1>5, <1>6, <1>7, <1>8 DEF HeapNext, HeapPoll

\* What the ring does to a node's list of units it does to its list of packets.
LEMMA ListsChange ==
  ASSUME total_time' = total_time, NEW i \in Node, NEW k,
         kunit \in [Node -> Seq(Unit)], kunit' = [kunit EXCEPT ![i] = k]
  PROVE  Lists' = [Lists EXCEPT ![i] = Packets(k)]
BY DEF Lists, Node

\* kfifo_enqueue is kunit_enqueue_tail at the node the writer has moved to.
LEMMA EnqueueSimulates ==
  ASSUME Shape, Shape', NEW s \in Skb, HeapEnqueue(s)
  PROVE  Heap!Next
<1> DEFINE i == pwrite'
           u == [skb |-> s, time |-> SkbTime(s), tend |-> sleep_time[i] + SkbTime(s)]
<1>1. /\ i \in Node /\ total_time' = total_time
      /\ ~Heap!Queued(s) /\ Heap!PutTail(i, s)
  BY DEF Shape, TypeOK, HeapEnqueue, EnqueueHere, EnqueueAhead, Charge, Node
<1>2. kunit' = [kunit EXCEPT ![i] = Append(kunit[i], u)]
  <2>1. CASE EnqueueHere(s)
    BY <2>1 DEF EnqueueHere, Charge, EnqueueTail
  <2>2. CASE EnqueueAhead(s)
    BY <2>2 DEF EnqueueAhead, Charge, EnqueueTail
  <2> QED
    BY <2>1, <2>2 DEF HeapEnqueue
<1>3. kunit \in [Node -> Seq(Unit)] /\ kunit[i] \in Seq(Unit)
  BY <1>1 DEF Shape, TypeOK
<1>4. u \in Unit
  <2>1. kunit'[i] \in Seq(Unit) /\ kunit'[i] = Append(kunit[i], u)
    BY <1>1, <1>2, <1>3 DEF Shape, TypeOK, Node
  <2> HIDE DEF u
  <2>2. Len(kunit[i]) + 1 \in 1..Len(kunit'[i]) /\ kunit'[i][Len(kunit[i]) + 1] = u
    BY <2>1, <1>3
  <2> QED
    BY <2>1, <2>2
<1>5. Packets(Append(kunit[i], u)) = Append(Packets(kunit[i]), s)
  BY <1>3, <1>4, PacketsAppend
<1>6. Lists' = [Lists EXCEPT ![i] = Append(Lists[i], s)]
  <2>1. Lists[i] = Packets(kunit[i])
    BY <1>1 DEF Lists
  <2> HIDE DEF u
  <2> QED
    BY <2>1, <1>1, <1>2, <1>3, <1>5, ListsChange
<1>7. Heap!Put(i, s)
  BY <1>1, <1>6 DEF Heap!Put, Lists
<1> QED
  BY <1>1, <1>7 DEF Heap!Next, Shape

\* kfifo_dequeue is kunit_dequeue_head at the node the reader has moved to.
LEMMA DequeueSimulates ==
  ASSUME Shape, HeapDequeue
  PROVE  Heap!Next
<1> DEFINE i == pread'
<1>1. /\ i \in Node /\ total_time' = total_time /\ pkt[i] > 0
      /\ kunit' = [kunit EXCEPT ![i] = Tail(kunit[i])]
      /\ Heap!TakeHead(i)
  BY DEF HeapDequeue, DequeueSkb
<1>2. /\ kunit \in [Node -> Seq(Unit)] /\ kunit[i] \in Seq(Unit)
      /\ kunit[i] # << >>
  BY <1>1 DEF Shape, TypeOK, PktCountsList
<1>3. Packets(Tail(kunit[i])) = Tail(Packets(kunit[i]))
  BY <1>2, PacketsTail
<1>4. Lists' = [Lists EXCEPT ![i] = Tail(Lists[i])]
  <2>1. Lists[i] = Packets(kunit[i])
    BY <1>1 DEF Lists
  <2> QED
    BY <2>1, <1>1, <1>2, <1>3, ListsChange
<1>5. Heap!Take(i)
  BY <1>1, <1>4 DEF Heap!Take, Lists
<1> QED
  BY <1>1, <1>5 DEF Heap!Next, Shape

\* kfifo_finish_node resets the head of the reader's node.
LEMMA FinishSimulates ==
  ASSUME Shape, HeapFinish
  PROVE  Heap!Next
<1>1. /\ pread \in Node /\ total_time' = total_time
      /\ kunit' = [kunit EXCEPT ![pread] = << >>]
      /\ Heap!InitHead(pread)
  BY DEF Shape, TypeOK, HeapFinish, FinishNode, ClearNode, ring
<1>2. Lists' = [Lists EXCEPT ![pread] = << >>]
  BY <1>1, ListsChange, PacketsEmpty DEF Shape, TypeOK
<1>3. Heap!Clear(pread)
  BY <1>1, <1>2 DEF Heap!Clear, Lists
<1> QED
  BY <1>1, <1>3 DEF Heap!Next, Shape

\* kfifo_init resets the heads of a new array.
LEMMA ChangeSimulates ==
  ASSUME NEW t \in Times, NEW r \in Rates, HeapChange(t, r)
  PROVE  Heap!Next
<1>1. t \in Nat
  BY TimesAssumption
<1>2. (0..t-1) \in SUBSET Nat
  BY <1>1
<1>3. /\ Node' = 0..t-1 /\ kunit' = [j \in 0..t-1 |-> << >>]
      /\ Heap!InitHeads(0..t-1)
  BY DEF HeapChange, Change, FreshNodes, Node
<1>4. Lists' = [j \in 0..t-1 |-> << >>]
  BY <1>3, PacketsEmpty DEF Lists
<1>5. Heap!Build(0..t-1)
  BY <1>3, <1>4 DEF Heap!Build, Heap!Empty, Lists
<1> QED
  BY <1>2, <1>5 DEF Heap!Next

\* Every step of the ring is a step of the lists or leaves them alone.
LEMMA StepSimulates ==
  ASSUME Shape, Shape', [HeapNext]_heapVars
  PROVE  [Heap!Next]_Heap!vars
<1>1. ASSUME UNCHANGED <<total_time, kunit, pointers>> PROVE UNCHANGED Heap!vars
  BY <1>1 DEF Heap!vars, Heap!pointers, pointers, Node
<1>2. CASE UNCHANGED heapVars
  BY <1>1, <1>2 DEF heapVars, vars, ring, nodes
<1>3. ASSUME NEW s \in Skb, HeapEnqueue(s) PROVE Heap!Next
  BY <1>3, EnqueueSimulates
<1>4. ASSUME NEW s \in Skb, HeapDrop(s) PROVE UNCHANGED Heap!vars
  BY <1>1, <1>4 DEF HeapDrop, EnqueueDrop, vars, ring, nodes
<1>5. CASE HeapDequeue
  BY <1>5, DequeueSimulates
<1>6. CASE HeapDequeueNull
  BY <1>1, <1>6 DEF HeapDequeueNull, DequeueNull, nodes
<1>7. CASE HeapFinish
  BY <1>7, FinishSimulates
<1>8. ASSUME NEW t \in Times, NEW r \in Rates, HeapChange(t, r) PROVE Heap!Next
  BY <1>8, ChangeSimulates
<1>9. ASSUME NEW r \in Rates, HeapChangeNoMem(r) PROVE UNCHANGED Heap!vars
  BY <1>1, <1>9 DEF HeapChangeNoMem, ChangeNoMem, nodes
<1> QED
  BY <1>2, <1>3, <1>4, <1>5, <1>6, <1>7, <1>8, <1>9 DEF HeapNext, HeapPoll
--------------------------------------------------------------------------------
\* The ring over pointers implements the lists by themselves: no path of
\* sch_kfifo.c touches a list but through kunit_enqueue_tail,
\* kunit_dequeue_head and kunit_skb_head_init.
THEOREM HeapImplementsLists == HeapSpec => Heap!Spec
<1>1. HeapInit => Heap!Init
  <2> SUFFICES ASSUME HeapInit PROVE Heap!Init
    OBVIOUS
  <2>1. Node \in SUBSET Nat
    BY TimesAssumption DEF HeapInit, Init, Node
  <2>2. Lists = [i \in Node |-> << >>]
    BY PacketsEmpty DEF HeapInit, Init, Lists
  <2> QED
    BY <2>1, <2>2 DEF HeapInit, Heap!Init, Heap!Empty, Lists
<1>2. IInv => TypeOK /\ PktCountsList
  BY DEF IInv
<1>3. HeapInit => DOMAIN head = Node
  BY DEF HeapInit
<1>4. TypeOK /\ DOMAIN head = Node /\ [HeapNext]_heapVars => (DOMAIN head = Node)'
  BY HeadsPreserved
<1>5. TypeOK /\ PktCountsList /\ DOMAIN head = Node => Shape
  BY DEF Shape
<1>6. Shape /\ Shape' /\ [HeapNext]_heapVars => [Heap!Next]_Heap!vars
  BY StepSimulates
<1> QED
  BY <1>1, <1>2, <1>3, <1>4, <1>5, <1>6, HeapIsRing, Invariance, PTL DEF HeapSpec, Heap!Spec

\* The pointers of every node thread the packets the ring has put there.
THEOREM ListsCorrect == HeapSpec => []ListsRepresent
<1>1. P!NullAssumption
  BY NullPointerAssumption DEF P!NullAssumption, Heap!NullAssumption
<1>2. P!Spec => []P!ListsRepresent
  BY <1>1, P!ListsCorrect
<1>3. Heap!Init => P!Init
  BY DEF Heap!Init, P!Init, Heap!Empty, P!Empty
<1>4. [Heap!Next]_Heap!vars => [P!Next]_P!vars
  BY DEF Heap!Next, P!Next, Heap!vars, P!vars, Heap!pointers, P!pointers,
         Heap!Put, P!Put, Heap!Queued, P!Queued, Heap!PutTail, P!PutTail,
         Heap!PutFirst, P!PutFirst, Heap!PutNext, P!PutNext, Heap!HandedOver, P!HandedOver,
         Heap!Take, P!Take, Heap!TakeHead, P!TakeHead, Heap!Clear, P!Clear,
         Heap!InitHead, P!InitHead, Heap!Build, P!Build, Heap!InitHeads, P!InitHeads,
         Heap!Empty, P!Empty
<1>5. P!ListsRepresent => ListsRepresent
  BY DEF P!ListsRepresent, P!Threaded, ListsRepresent, Heap!ListsRepresent, Heap!Threaded
<1> QED
  BY <1>2, <1>3, <1>4, <1>5, HeapImplementsLists, PTL DEF Heap!Spec, P!Spec
================================================================================
