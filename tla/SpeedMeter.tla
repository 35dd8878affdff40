------------------------------ MODULE SpeedMeter -------------------------------
(***************************************************************************)
(* The rate meter of MeasureRate/speed.cpp: pcap calls handle_IP for each   *)
(* captured packet, and the packets themselves drive the clock.  A packet   *)
(* that comes an interval or more after the start of the window closes the  *)
(* window and adds its bytes to the last QUEUE_SIZE samples, from which     *)
(* get_ratio makes one figure; one that comes two intervals or more after   *)
(* it starts afresh.                                                        *)
(*                                                                          *)
(* Time is counted in ticks; a sample is kept as the bytes of its window,   *)
(* which the program divides by the interval.  Packets that are truncated   *)
(* or not IPv4 change nothing and are left out.                             *)
(* gettimeofday is taken not to be set back.                                *)
(***************************************************************************)
EXTENDS Integers, SequencesExt

CONSTANTS interval,     \* length of a window
          QUEUE_SIZE,   \* samples kept
          Payload,      \* values of len-PACKET_HEADER
          TickBytes     \* bound on the bytes captured in one tick

ASSUME SpeedAssumption ==
  interval \in Nat \ {0} /\ QUEUE_SIZE \in Nat \ {0, 1} /\ Payload \subseteq Int

VARIABLES
  started,      \* start # -1
  since,        \* time since start, up to 2*interval
  tot_ippkt_len,
  q,            \* the samples, oldest first
  \* History variable: no other variable depends on it.
  past          \* bytes captured n ticks ago

speedVars == <<started, since, tot_ippkt_len, q, past>>
--------------------------------------------------------------------------------
(***************************************************************************)
(* get_ratio: the mean of the densest range of samples that is at least the *)
(* average gap wide.  Fractions are compared after multiplying out; widths   *)
(* of the ranges compared are positive.                                     *)
(***************************************************************************)
Spread(s) == s[Len(s)] - s[1]
Width(s, r) == s[r[2]] - s[r[1]]
Count(r) == r[2] - r[1] + 1

Wide(s, r) == Width(s, r) * (Len(s) - 1) >= Spread(s)

\* Plausible bug: the number of samples is not squared.
MutDenser(s, r, t) == Count(r) * Width(s, t) > Count(t) * Width(s, r)
Denser(s, r, t) == Count(r) * Count(r) * Width(s, t) > Count(t) * Count(t) * Width(s, r)

\* The body of the loops, and the two loops: the first of the densest ranges.
Better(s, r, best) == r[1] < r[2] /\ Wide(s, r) /\ (best = << >> \/ Denser(s, r, best))
Take(s, best, r) == IF Better(s, r, best) THEN r ELSE best

Indices(s) == [n \in DOMAIN s |-> n]
Row(s, best, i) == FoldLeft(LAMBDA b, j : Take(s, b, <<i, j>>), best, Indices(s))
Densest(s) == FoldLeft(LAMBDA b, i : Row(s, b, i), << >>, Indices(s))

\* The range of the sorted samples that is averaged.
Chosen(s) == IF Spread(s) = 0 THEN <<1, 1>> ELSE Densest(s)

\* sort, by insertion.
Place(s, v) == Cardinality({i \in DOMAIN s : s[i] <= v}) + 1
Insert(s, v) == InsertAt(s, Place(s, v), v)
Sorted(samples) == FoldLeft(Insert, << >>, samples)
--------------------------------------------------------------------------------
(***************************************************************************)
(* handle_IP                                                                *)
(***************************************************************************)
\* Plausible bug: the oldest sample is never dropped.
MutSample(bytes) == q' = Append(q, bytes)
Sample(bytes) == q' = Append(IF Len(q) < QUEUE_SIZE THEN q ELSE Tail(q), bytes)

Capture(p) == /\ past[0] + p \in TickBytes
              /\ past' = [past EXCEPT ![0] = @ + p]

\* The first packet, or one after two intervals without any: what the window
\* held is thrown away.
Start(p) ==
  /\ ~started \/ since >= 2 * interval
  /\ started' = TRUE /\ since' = 0
  /\ tot_ippkt_len' = p
  /\ q' = q
  /\ Capture(p)

\* Plausible bug: the packet that closes a window is counted in it.
MutClose(p) ==
  /\ started /\ since < 2 * interval
  /\ since >= interval
  /\ Sample(tot_ippkt_len + p)
  /\ since' = since - interval
  /\ tot_ippkt_len' = 0
  /\ Capture(p)
  /\ UNCHANGED started

\* The packet closes the window and is the first of the next one.
Close(p) ==
  /\ started /\ since < 2 * interval
  /\ since >= interval
  /\ Sample(tot_ippkt_len)
  /\ since' = since - interval
  /\ tot_ippkt_len' = p
  /\ Capture(p)
  /\ UNCHANGED started

CountPacket(p) ==
  /\ started /\ since < interval
  /\ tot_ippkt_len' = tot_ippkt_len + p
  /\ Capture(p)
  /\ UNCHANGED <<started, since, q>>

Tick ==
  /\ since' = IF started /\ since < 2 * interval THEN since + 1 ELSE since
  /\ past' = [n \in DOMAIN past |-> IF n = 0 THEN 0 ELSE past[n - 1]]
  /\ UNCHANGED <<started, tot_ippkt_len, q>>
--------------------------------------------------------------------------------
SpeedInit ==
  /\ started = FALSE /\ since = 0 /\ tot_ippkt_len = 0 /\ q = << >>
  /\ past = [n \in 0..2*interval-1 |-> 0]

SpeedNext == \/ \E p \in Payload : Start(p)
             \/ \E p \in Payload : Close(p)
             \/ \E p \in Payload : CountPacket(p)
             \/ Tick

SpeedSpec == SpeedInit /\ [][SpeedNext]_speedVars
--------------------------------------------------------------------------------
(***************************************************************************)
(* Properties                                                               *)
(***************************************************************************)
\* Bytes captured from..to ticks ago.
CapturedIn(from, to) == SumFunctionOnSet(past, from..to)

\* Every variable has its type, and no more than QUEUE_SIZE samples are kept.
SpeedTypeOK ==
  /\ started \in BOOLEAN /\ since \in 0..2*interval
  /\ tot_ippkt_len \in Int
  /\ q \in Seq(Int) /\ Len(q) <= QUEUE_SIZE
  /\ past \in [0..2*interval-1 -> Int]

\* Moving start by one interval at a time, whenever packets happen to come, cuts
\* time into adjacent windows: each sample is the bytes of one whole interval, the
\* one that ends where the new window begins.
SampleIsOneWindow ==
  [][q' # q => q'[Len(q')] = CapturedIn(since - interval + 1, since)]_speedVars

\* The figure get_ratio computes is the mean of a range no other range wide
\* enough is denser than; such a range exists whenever the samples differ.
RatioFromDensestRange ==
  q # << >> =>
    LET s == Sorted(q)
        all == {r \in (DOMAIN s) \X (DOMAIN s) :
                  r[1] < r[2] /\ (s[r[2]] - s[r[1]]) * (Len(s) - 1) >= s[Len(s)] - s[1]}
        size(r) == r[2] - r[1] + 1
        c == Chosen(s)
    IN IF s[1] = s[Len(s)] THEN c = <<1, 1>>
       ELSE /\ c \in all
            /\ \A r \in all : size(r) * size(r) * (s[c[2]] - s[c[1]])
                                <= size(c) * size(c) * (s[r[2]] - s[r[1]])
================================================================================
