------------------------------- MODULE FifoQueue -------------------------------
(***************************************************************************)
(* What the ring of sch_kfifo.c promises its caller: a first-in first-out   *)
(* queue of packets.  A packet that is not accepted leaves no trace, an     *)
(* accepted one is handed back exactly once and in its turn, and only a     *)
(* reconfiguration (kfifo_init on a live ring) throws the queue away.       *)
(***************************************************************************)
EXTENDS Sequences

CONSTANT Skb                    \* the packets

VARIABLE queue                  \* the accepted packets, oldest first

Init == queue = <<>>

Push(s) == queue' = Append(queue, s)

Pop == queue # <<>> /\ queue' = Tail(queue)

Flush == queue' = <<>>

Next == \/ \E s \in Skb : Push(s)
        \/ Pop
        \/ Flush

\* The caller polls for ever, so a queued packet is eventually handed back.
Spec == Init /\ [][Next]_queue /\ WF_queue(Pop)
================================================================================
