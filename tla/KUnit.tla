-------------------------------- MODULE KUnit --------------------------------
(***************************************************************************)
(* The lists of packets of RateLimiter/sch_kfifo.h.  A node of the ring     *)
(* keeps its packets in a list threaded through the packets' own next       *)
(* pointers, with a head and a tail pointer in the node.                    *)
(*                                                                          *)
(* kunit_enqueue_tail does not clear next when the list is empty, and       *)
(* kunit_dequeue_head does not clear that of the packet it takes: the       *)
(* lists rely on packets being handed over with next cleared.               *)
(***************************************************************************)
EXTENDS Integers, Sequences

CONSTANTS Nodes,        \* the nodes a ring may have
          Skb,          \* packets
          NULL

\* The null pointer points to no packet.
NullAssumption == NULL \notin Skb

VARIABLES
  head, tail,   \* per node: kuh->head, kuh->tail
  next,         \* per packet: skb->next
  \* History variable: no other variable depends on it.
  list          \* per node: the packets put in it and not yet taken

pointers == <<head, tail, next>>
vars == <<pointers, list>>

\* Packet s is in a list.
Queued(s) == \E i \in DOMAIN list : \E k \in 1..Len(list[i]) : list[i][k] = s
--------------------------------------------------------------------------------
\* The kernel hands a packet over with its next pointer cleared.
HandedOver(s) == [next EXCEPT ![s] = NULL]

\* kunit_skb_head_init of every node of a new array, and of one node.
InitHeads(N) ==
  /\ head' = [i \in N |-> NULL]
  /\ tail' = [i \in N |-> NULL]
  /\ UNCHANGED next

InitHead(i) ==
  /\ head' = [head EXCEPT ![i] = NULL]
  /\ tail' = [tail EXCEPT ![i] = NULL]
  /\ UNCHANGED next

\* kunit_enqueue_tail
PutFirst(i, s) ==
  /\ tail[i] = NULL
  /\ next' = HandedOver(s)
  /\ head' = [head EXCEPT ![i] = s]
  /\ tail' = [tail EXCEPT ![i] = s]

PutNext(i, s) ==
  /\ tail[i] # NULL
  /\ next' = [HandedOver(s) EXCEPT ![tail[i]] = s]
  /\ tail' = [tail EXCEPT ![i] = s]
  /\ UNCHANGED head

PutTail(i, s) == PutFirst(i, s) \/ PutNext(i, s)

\* Plausible bug: the tail pointer of an emptied list stays.
MutTakeHead(i) ==
  /\ head[i] # NULL
  /\ head' = [head EXCEPT ![i] = next[head[i]]]
  /\ UNCHANGED <<tail, next>>

\* kunit_dequeue_head: the packet taken keeps its pointer into the list.
TakeHead(i) ==
  /\ head[i] # NULL
  /\ head' = [head EXCEPT ![i] = next[head[i]]]
  /\ tail' = IF next[head[i]] = NULL THEN [tail EXCEPT ![i] = NULL] ELSE tail
  /\ UNCHANGED next
--------------------------------------------------------------------------------
(***************************************************************************)
(* The lists by themselves                                                  *)
(***************************************************************************)
Empty(N) == [i \in N |-> << >>]

Init == /\ \E N \in SUBSET Nodes :
             /\ head = [i \in N |-> NULL]
             /\ tail = [i \in N |-> NULL]
             /\ list = Empty(N)
        /\ next = [s \in Skb |-> NULL]

Put(i, s) ==
  /\ ~Queued(s)
  /\ PutTail(i, s)
  /\ list' = [list EXCEPT ![i] = Append(@, s)]

Take(i) == TakeHead(i) /\ list' = [list EXCEPT ![i] = Tail(@)]

Clear(i) == InitHead(i) /\ list' = [list EXCEPT ![i] = << >>]

Build(N) == InitHeads(N) /\ list' = Empty(N)

Next == \/ \E i \in DOMAIN head, s \in Skb : Put(i, s)
        \/ \E i \in DOMAIN head : Take(i)
        \/ \E i \in DOMAIN head : Clear(i)
        \/ \E N \in SUBSET Nodes : Build(N)

Spec == Init /\ [][Next]_vars
--------------------------------------------------------------------------------
\* The head pointer of node i and the next pointers lead through its packets, in
\* order, to the packet under its tail pointer.
Threaded(i) ==
  IF list[i] = << >>
  THEN head[i] = NULL /\ tail[i] = NULL
  ELSE /\ head[i] = list[i][1]
       /\ tail[i] = list[i][Len(list[i])]
       /\ next[tail[i]] = NULL
       /\ \A k \in 1..Len(list[i])-1 : next[list[i][k]] = list[i][k+1]

\* What kunit_enqueue_tail and kunit_dequeue_head rely on: every list is threaded
\* through its own packets and no packet is in two places.
ListsRepresent ==
  /\ \A i \in DOMAIN list : Threaded(i)
  /\ \A i, j \in DOMAIN list : \A k \in 1..Len(list[i]), l \in 1..Len(list[j]) :
        list[i][k] = list[j][l] => i = j /\ k = l
================================================================================
