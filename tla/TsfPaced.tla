------------------------------- MODULE TsfPaced -------------------------------
(***************************************************************************)
(* The discipline of Tsf as the wire sees it.  The time ring counts what it *)
(* releases against sleep_time and leaves the waiting to tsf_delay; here a  *)
(* leaky bucket on the wire measures what really leaves, and when; and the  *)
(* time each step takes is kept apart from t_c, which tsf_enqueue moves.    *)
(*                                                                          *)
(* All variables here are history: no action of Tsf depends on them.        *)
(***************************************************************************)
EXTENDS Tsf

VARIABLES
  nap,          \* time left of the sleep tsf_delay has left to the watchdog
  wire,         \* level of a bucket that packets leaving the ring fill with
                \* their transmission time and that leaks one tick a tick;
                \* Early once a packet has left the ring before its nap ended
  passed        \* time the last step took

pacing == <<nap, wire>>
pacedVars == <<vars, pacing, passed>>
Early == -1

Paced(n, w) == IF wire = Early THEN UNCHANGED pacing ELSE nap' = n /\ wire' = w

Leak(d) == passed' = d /\ Paced(Most(nap - d, 0), Most(wire - d, 0))

\* Nothing marks the ring as sleeping: any dequeue before the watchdog is due
\* releases the next packet.
PacedRelease ==
  /\ DequeueRing
  /\ passed' = 0
  /\ IF nap > 0 THEN Paced(0, Early) ELSE Paced(0, wire + (debt' - debt))

PacedSleep == DequeueSleep /\ passed' = 0 /\ Paced(watchdog', wire)

PacedSpin == DequeueSpin /\ Leak(sleep_time[pread])

PacedTick == Tick /\ Leak(1)

\* A new ring has released nothing yet.
PacedChange(t, r) == Change(t, r) /\ passed' = 0 /\ nap' = 0 /\ wire' = 0

PacedInit == Init /\ nap = 0 /\ wire = 0 /\ passed = 0

PacedNext ==
  \/ PacedRelease
  \/ PacedSleep
  \/ PacedSpin
  \/ PacedTick
  \/ \E t \in Times, r \in Rates : PacedChange(t, r)
  \/ Untimed /\ passed' = 0 /\ UNCHANGED pacing

PacedSpec == PacedInit /\ [][PacedNext]_pacedVars
--------------------------------------------------------------------------------
\* The limit the discipline is for: as long as no dequeue comes during a sleep
\* left to the watchdog, what is on the wire never exceeds the configured rate by
\* more than one node's budget and one packet, over any stretch of time.
WireRate == wire <= UNIT_TIME + MaxTime

\* What the wire has still to send was released by the node being emptied or is
\* being slept for.
WireIsAccounted == wire <= debt + nap

\* The bucket tsf_enqueue keeps in tokens and t_c, filled only when a packet comes, is
\* one filled at every instant: whatever path lets a packet into the ring, it has paid
\* its whole time with tokens earned by time that has passed, each instant once.
Bucket == INSTANCE TokenBucket WITH level <- Level, load <- slen, MaxWait <- UNIT_TIME
BucketIsFilledByTime == Bucket!Spec
================================================================================
