---------------------------------- MODULE Tsf ----------------------------------
(***************************************************************************)
(* The TSF queueing discipline of RateLimiter/sch_tsf.c: a token bucket in  *)
(* front of the time ring of Kfifo, an inner queue for the packets that do  *)
(* not conform, a test queue for the traffic that is not limited, and a     *)
(* watchdog that wakes the device after a sleep.                            *)
(*                                                                          *)
(* The kernel takes the root lock around each call.  A call that handles    *)
(* several packets is several steps here; job holds its local variables and *)
(* nothing else runs while job is not Idle.  Time is counted in ticks:      *)
(* "elapsed" is now - t_c, "watchdog" a time from now.                      *)
(*                                                                          *)
(* The build is the one of the repository: DEBUG is defined.  q->limit and  *)
(* q->buffer are Depth, q->tlen is positive.  The statistics (qlen,         *)
(* backlog, drops) are left out.                                            *)
(***************************************************************************)
EXTENDS Integers, SequencesExt

CONSTANTS UNIT_TIME, MSEC, U32, Times, Rates, Skb, PktLen, MaxTime, L2T,
          HZ,           \* the kernel's tick rate: q->buffer is rate64 / HZ
          Gso,          \* kinds of packets longer than the mtu
          Segments,     \* what skb_gso_segment cuts each into
          TestLen,      \* length of a packet of the test queue
          Failures,     \* {TRUE, FALSE} if allocations may fail, else {FALSE}
          Resets        \* whether the device is taken down (tsf_reset)

ASSUME HzAssumption == HZ \in Nat \ {0} /\ TestLen \in Nat \ {0}
ASSUME SegmentsAssumption == Segments \in [Gso -> Seq(Skb) \ {<< >>}]

VARIABLES
  rate, total_time, total_len, slen, pread, pwrite,
  pkt, left_time, sleep_time, node_slen, kunit, debt, stranded,
  tokens,       \* q->tokens
  elapsed,      \* time since q->t_c, as far as it matters
  inner,        \* q->qdisc, a bfifo
  test,         \* q->test_qdisc, a bfifo: what is known of each packet's source
  watchdog,     \* time to the watchdog, -1 when it is not set
  run,          \* the qdisc is scheduled: the kernel will call dequeue
  job,          \* the tsf_enqueue in progress
  status,       \* "up", "oops": a NULL packet was dereferenced, "locked":
                \* tsf_change returned with the tree lock held, "destroyed"
  \* History variable: no other variable depends on it.
  slept         \* how the last tsf_dequeue that found nothing waits: "no_timer"
                \* when it spun, or tsf_reset has cancelled the watchdog

ring == <<rate, total_time, total_len, slen, pread, pwrite,
          pkt, left_time, sleep_time, node_slen, kunit, debt, stranded>>
bucket == <<tokens, elapsed>>
timers == <<watchdog, run, slept>>
vars == <<ring, bucket, timers, inner, test, job, status>>

Ring == INSTANCE Kfifo
ASSUME RingAssumption == /\ Ring!UnitAssumption /\ Ring!TimesAssumption /\ Ring!RatesAssumption
                         /\ Ring!LengthAssumption /\ Ring!TimeAssumption

Least(a, b) == IF a < b THEN a ELSE b
Most(a, b) == IF a > b THEN a ELSE b

Depth == rate \div HZ
MaxDepth == CHOOSE d \in {r \div HZ : r \in Rates} : \A r \in Rates : r \div HZ <= d
\* There is a largest rate: it bounds elapsed.
ASSUME DepthAssumption == MaxDepth \in Nat /\ \A r \in Rates : r \div HZ \in 0..MaxDepth

Cost(s) == L2T[rate][s]

\* Plausible bug: the sum is not cut at q->buffer.
MutLevel == Least(elapsed, Depth) + tokens

\* The tokens a packet finds: kept ones and those of the time since t_c.
Level == Least(Depth, Least(elapsed, Depth) + tokens)

Idle == [pc |-> "idle"]
Ready == job = Idle /\ status = "up"

\* bfifo_enqueue, with a limit in bytes.
Bytes(q) == FoldLeft(LAMBDA b, s : b + PktLen[s], 0, q)
BfifoPut(q, s) == IF Bytes(q) + PktLen[s] <= Depth THEN Append(q, s) ELSE q

RingTakes(s) == Ring!EnqueueHere(s) \/ Ring!EnqueueAhead(s)
RingRefuses(s) == Ring!EnqueueDrop(s)
--------------------------------------------------------------------------------
(***************************************************************************)
(* tsf_enqueue                                                              *)
(***************************************************************************)
\* Plausible bug: t_c keeps its old value.
MutSpend(left) == tokens' = left /\ UNCHANGED elapsed

\* t_c = now, tokens = what is left.
Spend(left) == tokens' = left /\ elapsed' = 0

\* The call returns; the kernel then runs the qdisc.
Return == job' = Idle /\ run' = TRUE

\* With an empty inner queue the loop is entered on the new packet's tokens and
\* hands the NULL it dequeues to kfifo_enqueue.
EnqueueOops(s) ==
  /\ Ready
  /\ inner = << >> /\ Level >= 0
  /\ status' = "oops"
  /\ UNCHANGED <<ring, bucket, timers, inner, test, job>>

EnqueueBegin(s) ==
  /\ Ready
  /\ inner # << >>
  /\ job' = [pc |-> "drain", skb |-> s, toks |-> Level, toks2 |-> Level - Cost(Head(inner))]
  /\ UNCHANGED <<ring, bucket, timers, inner, test, status>>

\* Plausible bug: toks keeps its value, the new packet finds the tokens spent.
MutDrain ==
  /\ job.pc = "drain" /\ job.toks2 >= 0
  /\ RingTakes(Head(inner))
  /\ inner' = Tail(inner)
  /\ Spend(job.toks2)
  /\ job' = IF Len(inner) = 1
            THEN [pc |-> "new", skb |-> job.skb, toks |-> job.toks, late |-> 0]
            ELSE [job EXCEPT !.toks2 = @ - Cost(inner[2])]
  /\ UNCHANGED <<timers, test, status>>

\* One turn of the loop: the inner queue's head conforms and the ring takes it.
Drain ==
  /\ job.pc = "drain" /\ job.toks2 >= 0
  /\ RingTakes(Head(inner))
  /\ inner' = Tail(inner)
  /\ Spend(job.toks2)
  /\ job' = IF Len(inner) = 1
            THEN [pc |-> "new", skb |-> job.skb, toks |-> job.toks2, late |-> 0]
            ELSE [job EXCEPT !.toks = job.toks2, !.toks2 = @ - Cost(inner[2])]
  /\ UNCHANGED <<timers, test, status>>

\* The ring refuses it: the call returns with neither packet queued anywhere.
DrainRefused ==
  /\ job.pc = "drain" /\ job.toks2 >= 0
  /\ RingRefuses(Head(inner))
  /\ inner' = Tail(inner)
  /\ Return
  /\ UNCHANGED <<bucket, watchdog, slept, test, status>>

DrainEnd ==
  /\ job.pc = "drain" /\ job.toks2 < 0
  /\ job' = [pc |-> "new", skb |-> job.skb, toks |-> job.toks, late |-> job.toks2]
  /\ UNCHANGED <<ring, bucket, timers, inner, test, status>>

\* The new packet conforms; its tokens are spent even if the ring refuses it.
NewToRing ==
  /\ job.pc = "new" /\ job.toks >= Cost(job.skb)
  /\ RingTakes(job.skb) \/ RingRefuses(job.skb)
  /\ Spend(job.toks - Cost(job.skb))
  /\ Return
  /\ UNCHANGED <<watchdog, slept, inner, test, status>>

\* It does not: the watchdog is set to when the head of the queue, or the packet
\* itself, would conform.
NewToInner ==
  /\ job.pc = "new" /\ job.toks < Cost(job.skb)
  /\ inner' = BfifoPut(inner, job.skb)
  /\ watchdog' = IF job.late < 0 THEN -job.late ELSE Cost(job.skb) - job.toks
  /\ Return
  /\ UNCHANGED <<ring, bucket, slept, test, status>>

(***************************************************************************)
(* tsf_segment                                                              *)
(***************************************************************************)
SegmentBegin(g) ==
  /\ Ready
  /\ job' = [pc |-> "seg", segs |-> Segments[g]]
  /\ UNCHANGED <<ring, bucket, timers, inner, test, status>>

\* skb_gso_segment fails and the packet is dropped.
SegmentFails(g) ==
  /\ Ready
  /\ TRUE \in Failures
  /\ Return
  /\ UNCHANGED <<ring, bucket, watchdog, slept, inner, test, status>>

NextSegment ==
  /\ job' = IF Len(job.segs) = 1 THEN Idle ELSE [job EXCEPT !.segs = Tail(@)]
  /\ run' = (run \/ Len(job.segs) = 1)

SegmentToRing ==
  /\ job.pc = "seg"
  /\ LET s == Head(job.segs) IN
       /\ Level >= Cost(s)
       /\ RingTakes(s) \/ RingRefuses(s)
       /\ Spend(Level - Cost(s))
  /\ NextSegment
  /\ UNCHANGED <<watchdog, slept, inner, test, status>>

\* No watchdog is set here.
SegmentToInner ==
  /\ job.pc = "seg"
  /\ Level < Cost(Head(job.segs))
  /\ inner' = BfifoPut(inner, Head(job.segs))
  /\ NextSegment
  /\ UNCHANGED <<ring, bucket, watchdog, slept, test, status>>

\* A packet whose destination is not DEIP; src tells whether its source is.
EnqueueTest(src) ==
  /\ Ready
  /\ test' = IF (Len(test) + 1) * TestLen <= Depth THEN Append(test, src) ELSE test
  /\ run' = TRUE
  /\ UNCHANGED <<ring, bucket, watchdog, slept, inner, job, status>>
--------------------------------------------------------------------------------
(***************************************************************************)
(* Time, tsf_delay and tsf_dequeue                                          *)
(***************************************************************************)
PassTime(d) ==
  /\ elapsed' = Least(elapsed + d, MaxDepth)
  /\ watchdog' = IF watchdog < 0 THEN watchdog ELSE Most(watchdog - d, 0)

\* A due watchdog goes off before time passes.
Tick ==
  /\ Ready
  /\ watchdog # 0
  /\ PassTime(1)
  /\ UNCHANGED <<ring, tokens, run, slept, inner, test, job, status>>

Watchdog ==
  /\ Ready
  /\ watchdog = 0
  /\ watchdog' = -1
  /\ run' = TRUE
  /\ UNCHANGED <<ring, bucket, slept, inner, test, job, status>>

Polled == Ready /\ run
TestHead == test # << >> /\ Head(test) # "DEIP"

DequeueTest ==
  /\ Polled /\ TestHead
  /\ test' = Tail(test)
  /\ UNCHANGED <<ring, bucket, timers, inner, job, status>>

DequeueRing ==
  /\ Polled /\ ~TestHead
  /\ Ring!DequeueSkb
  /\ UNCHANGED <<bucket, timers, inner, test, job, status>>

DequeueNothing ==
  /\ Polled /\ ~TestHead
  /\ Ring!DequeueNull
  /\ run' = FALSE
  /\ slept' = "not"
  /\ UNCHANGED <<bucket, watchdog, inner, test, job, status>>

Finish == Ring!FinishNode

\* Plausible bug: the watchdog is not set.
MutDequeueSleep ==
  /\ Polled /\ ~TestHead
  /\ Finish
  /\ sleep_time[pread] > UNIT_TIME
  /\ watchdog' = watchdog
  /\ run' = FALSE
  /\ slept' = "watchdog"
  /\ UNCHANGED <<bucket, inner, test, job, status>>

\* Plausible bug: the watchdog is set for one unit, whatever the sleep.
MutDequeueNap ==
  /\ Polled /\ ~TestHead
  /\ Finish
  /\ sleep_time[pread] > UNIT_TIME
  /\ watchdog' = UNIT_TIME
  /\ run' = FALSE
  /\ slept' = "watchdog"
  /\ UNCHANGED <<bucket, inner, test, job, status>>

\* A sleep of more than a millisecond is left to the watchdog.
DequeueSleep ==
  /\ Polled /\ ~TestHead
  /\ Finish
  /\ sleep_time[pread] > UNIT_TIME
  /\ watchdog' = sleep_time[pread]
  /\ run' = FALSE
  /\ slept' = "watchdog"
  /\ UNCHANGED <<bucket, inner, test, job, status>>

\* A shorter one is waited for with the lock held.
DequeueSpin ==
  /\ Polled /\ ~TestHead
  /\ Finish
  /\ sleep_time[pread] <= UNIT_TIME
  /\ PassTime(sleep_time[pread])
  /\ run' = FALSE
  /\ slept' = "no_timer"
  /\ UNCHANGED <<tokens, inner, test, job, status>>

Dequeue == DequeueTest \/ DequeueRing \/ DequeueNothing \/ DequeueSleep \/ DequeueSpin
--------------------------------------------------------------------------------
(***************************************************************************)
(* tsf_change, tsf_reset, tsf_destroy                                       *)
(***************************************************************************)
\* Both children are replaced, their packets with them, and the ring is built
\* anew.
Change(t, r) ==
  /\ Ready
  /\ Ring!Change(t, r)
  /\ inner' = << >> /\ test' = << >>
  /\ UNCHANGED <<bucket, timers, job, status>>

\* There is no memory for a new ring, and the old one stays.
ChangeNoMem(r) ==
  /\ Ready
  /\ TRUE \in Failures
  /\ Ring!ChangeNoMem(r)
  /\ inner' = << >> /\ test' = << >>
  /\ UNCHANGED <<bucket, timers, job, status>>

\* A child cannot be created: the call returns with the tree lock held.  The
\* test queue may have been replaced.
ChangeFails(r) ==
  /\ Ready
  /\ TRUE \in Failures
  /\ Ring!ChangeNoMem(r)
  /\ test' \in {test, << >>}
  /\ status' = "locked"
  /\ UNCHANGED <<bucket, timers, inner, job>>

Reset ==
  /\ Ready
  /\ Resets
  /\ watchdog' = -1
  /\ slept' = "no_timer"
  /\ UNCHANGED <<ring, bucket, run, inner, test, job, status>>

\* The array is freed and the packets in it are not; the children are not put.
Destroy ==
  /\ Ready
  /\ status' = "destroyed"
  /\ watchdog' = -1
  /\ run' = FALSE
  /\ UNCHANGED <<ring, bucket, slept, inner, test, job>>
--------------------------------------------------------------------------------
\* tsf_init on zeroed private data: t_c is 0, so the first packet finds a full
\* bucket.
Init ==
  /\ Ring!Init
  /\ tokens = 0 /\ elapsed = MaxDepth
  /\ inner = << >> /\ test = << >>
  /\ watchdog = -1 /\ run = FALSE /\ slept = "not"
  /\ job = Idle /\ status = "up"

Working == Drain \/ DrainRefused \/ DrainEnd \/ NewToRing \/ NewToInner
             \/ SegmentToRing \/ SegmentToInner

\* The calls that neither release a packet of the ring nor wait.
Untimed ==
  \/ \E s \in Skb : EnqueueOops(s)
  \/ \E s \in Skb : EnqueueBegin(s)
  \/ \E g \in Gso : SegmentBegin(g)
  \/ \E g \in Gso : SegmentFails(g)
  \/ \E src \in {"DEIP", "other"} : EnqueueTest(src)
  \/ Working
  \/ Watchdog
  \/ DequeueTest
  \/ DequeueNothing
  \/ \E r \in Rates : ChangeNoMem(r)
  \/ \E r \in Rates : ChangeFails(r)
  \/ Reset
  \/ Destroy

Next ==
  \/ Untimed
  \/ Tick
  \/ DequeueRing \/ DequeueSleep \/ DequeueSpin
  \/ \E t \in Times, r \in Rates : Change(t, r)

Spec == Init /\ [][Next]_vars

\* A call in progress goes on, time passes, the hrtimer goes off, and the
\* kernel calls dequeue of a qdisc that is scheduled.  Packets need not arrive.
FairSpec == /\ Spec
            /\ WF_vars(Working) /\ WF_vars(Tick) /\ WF_vars(Watchdog) /\ WF_vars(Dequeue)
--------------------------------------------------------------------------------
(***************************************************************************)
(* Properties                                                               *)
(***************************************************************************)
\* Every variable of the discipline has its type.
TypeOK ==
  /\ Ring!TypeOK
  /\ tokens \in 0..MaxDepth /\ elapsed \in 0..MaxDepth
  /\ inner \in Seq(Skb) /\ test \in Seq({"DEIP", "other"})
  /\ watchdog \in {-1} \cup Nat
  /\ slept \in {"not", "watchdog", "no_timer"}
  /\ run \in BOOLEAN /\ status \in {"up", "oops", "locked", "destroyed"}
  /\ \/ job = Idle
     \/ job \in [pc : {"drain"}, skb : Skb, toks : Int, toks2 : Int]
     \/ job \in [pc : {"new"}, skb : Skb, toks : Int, late : Int]
     \/ job \in [pc : {"seg"}, segs : Seq(Skb) \ {<< >>}]

\* tsf_enqueue computes the tokens once and updates copies of them, while the
\* loop spends q->tokens: the copies it goes on with are never stale, and the
\* loop goes on only with a packet at the head of the inner queue.
LocalsFresh ==
  /\ job.pc = "drain" => /\ inner # << >>
                         /\ job.toks = Level
                         /\ job.toks2 = Level - Cost(Head(inner))
  /\ job.pc = "new" => /\ job.toks = Level
                       /\ job.late < 0 <=> inner # << >>

RingBusy == \E i \in 0..total_time-1 : pkt[i] > 0

Woken == run \/ ~RingBusy \/ slept = "no_timer" \/ status # "up"

\* A ring whose reader sleeps on the watchdog is polled again, whatever tsf_enqueue
\* uses the same watchdog for in the meantime, unless tsf_reset cancels it.
SleepingRingWakes == RingBusy /\ slept # "no_timer" ~> Woken

\* Comment at sch_tsf.c:143, "dequeue qdis skb": what the loop dequeues from the
\* inner queue is a packet.
LoopDequeuesSkb == status # "oops"

\* Comment at sch_kfifo.c:216, "the skb is pushed out one by one, then watchdog
\* sleep left time": after the packets of a node and its sleep the ring is polled
\* again, and the packets of the next node are pushed out.
RingPolledAgain == RingBusy ~> run \/ ~RingBusy \/ status # "up"
================================================================================
