------------------------------- MODULE KfifoHeap -------------------------------
(***************************************************************************)
(* The time ring of Kfifo over the pointers of KUnit: Skb are now packets,  *)
(* each in the ring at most once, and every action of the ring changes the  *)
(* head, tail and next pointers as sch_kfifo.c does.                        *)
(***************************************************************************)
EXTENDS Kfifo

CONSTANT NULL

VARIABLES head, tail, next

Packets(k) == [n \in 1..Len(k) |-> k[n].skb]

Heap == INSTANCE KUnit WITH Nodes <- Nat, list <- [i \in Node |-> Packets(kunit[i])]

ASSUME NullPointerAssumption == Heap!NullAssumption

pointers == <<head, tail, next>>

\* A packet that kfifo_init has lost with the old array never comes back; its
\* name may stand for another packet.
HeapEnqueue(s) ==
  /\ ~Heap!Queued(s)
  /\ EnqueueHere(s) \/ EnqueueAhead(s)
  /\ Heap!PutTail(pwrite', s)

HeapDrop(s) == ~Heap!Queued(s) /\ EnqueueDrop(s) /\ UNCHANGED pointers

\* kfifo_dequeue takes what the head pointer of pread leads to.
HeapDequeue == DequeueSkb /\ Heap!TakeHead(pread')

HeapDequeueNull == DequeueNull /\ UNCHANGED pointers

HeapFinish == FinishNode /\ Heap!InitHead(pread)

HeapChange(t, r) == Change(t, r) /\ Heap!InitHeads(0..t-1)

HeapChangeNoMem(r) == ChangeNoMem(r) /\ UNCHANGED pointers
--------------------------------------------------------------------------------
HeapInit ==
  /\ Init
  /\ head = [i \in Node |-> NULL] /\ tail = head
  /\ next = [s \in Skb |-> NULL]

HeapPoll == HeapDequeue \/ HeapDequeueNull \/ HeapFinish

HeapNext == \/ \E s \in Skb : HeapEnqueue(s)
            \/ \E s \in Skb : HeapDrop(s)
            \/ HeapPoll
            \/ \E t \in Times, r \in Rates : HeapChange(t, r)
            \/ \E r \in Rates : HeapChangeNoMem(r)

heapVars == <<vars, pointers>>

\* The same fairness as FairSpec of Kfifo.
HeapSpec == HeapInit /\ [][HeapNext]_heapVars /\ WF_heapVars(HeapPoll)
--------------------------------------------------------------------------------
\* The pointers of every node thread the packets the ring has put there, whatever
\* the ring does: no packet is reached from two nodes, none is out of reach.
ListsRepresent == Heap!ListsRepresent
================================================================================
