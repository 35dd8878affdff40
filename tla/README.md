# A verification project for Measurement-Limiter

Measurement-Limiter is a collection of programs around one idea: a rate limiter
for Linux that spaces packets on a *time ring*, and the tools to measure what it
and other limiters do.  The limiter is a kernel queueing discipline
(`RateLimiter/sch_tsf.c`, `sch_kfifo.c`), prototyped by a user-space simulator
(`RateLimiter/ring/main.cpp`).  The tools are `pcap` programs that compute rates,
intervals and losses from captured packets, parsers of what tools print, and a script
that runs them side by side with `iperf3`.

This directory holds TLA+ models of the parts with logic of their own, TLC
configurations that check them, and proofs that TLAPS checks.

    tlc -config MCKfifoHeap.cfg MCKfifoHeap    # one run
    tlapm KfifoProofs.tla                      # one module of proofs

## 1. Inventory

### The time ring (`sch_kfifo.c`, `sch_kfifo.h`)

*State.* An array of nodes linked into a circle, one per millisecond of depth; two
pointers, `pread` and `pwrite`; a byte count `slen` with a limit `total_len`.  Each
node has a packet count, a time budget `left_time`, the `sleep_time` gathered from
its packets, a byte count and a list of packets: a head and a tail pointer in the node,
the packets' own `next` pointers between them.

*Operations.* `kfifo_enqueue` charges a packet its transmission time, to the node
under `pwrite` or, if that has too little time left, to a node as many places ahead
as the packet has whole milliseconds, plus one.  `kfifo_dequeue` takes packets from
the node under `pread`; the caller clears an emptied node (`kfifo_finish_node`) and
sleeps for its `sleep_time`.  `kfifo_init` builds a ring, also on top of a live one.
`kunit_enqueue_tail` and `kunit_dequeue_head` work the lists.

*Hard.* The two pointers move at different paces around a circle; nodes are reused
without being cleared when the reader has merely passed them; time is counted in
unsigned arithmetic; a reconfiguration replaces some fields and not others; pointers of
packets that have left a list still point into it.

*Correct when* nothing accepted is lost, duplicated or overtaken; the sleeps are
exactly the time of the packets released; never more than one node and one packet is
released beyond what has been slept for; a reused node is as good as new; the pointers
are the lists.

### The TSF queueing discipline (`sch_tsf.c`)

*State.* A lazily filled token bucket (`tokens`, `t_c`, `buffer`), the time ring, an
inner byte-limited queue for packets that do not conform, a test queue for traffic
that is not limited, a watchdog timer.

*Operations.* `tsf_enqueue` first moves packets from the inner queue to the ring as
tokens allow, then the new packet; `tsf_segment` cuts a large packet and treats each
piece alone; `tsf_dequeue` serves the test queue, then the ring, and sleeps for an
emptied node, by the watchdog or in a busy wait; `tsf_change` reconfigures, and may
fail half-way; `tsf_reset` cancels the watchdog; `tsf_destroy` frees the ring.

*Hard.* Local copies of the bucket live across a loop with several exits; one
watchdog serves two purposes; the kernel polls the discipline only when something
schedules it; every allocation may fail.

*Correct when* each packet that enters the ring has paid its time, whatever path let
it in, with tokens earned by time that has passed; a ring that sleeps is woken;
what is on the wire stays within the configured rate.

### The ring simulator (`ring/main.cpp`)

*State.* 1000 slots, `now_postion` (next to be sent), `pre_pointer` (last filled),
the charge `tot_bytes`, the queue `inque`.  *Operation.* A signal handler, run every
0.1 ms, takes due packets, places them (`in_ring`) and at every tenth run empties a
slot (`de_ring`, `status_update`).  *Hard.* Places are computed from pointer
differences modulo the ring and from the charge; the boundary of a full ring.
*Correct when* the charge is what the ring holds, packets leave in order, in time and
at the rate.

### The rate meter (`speed.cpp`, the same in `speedtest/`, `speed2file.cpp`)

*State.* The start of a window, its bytes, four samples.  *Operations.* Each packet
may close the window; `get_ratio` picks the densest range of samples.  *Hard.* The
packets themselves are the clock.  *Correct when* windows are adjacent and exact, and
the range found is a densest one.

### The meter of many streams (`nstream.cpp`, `count_burst.cpp`)

*State.* A stream number per pair of ports, a byte count per stream.  *Operations.*
`handle_IP` counts; a signal handler samples and zeroes every count.  *Hard.* The
signal is not masked: it interrupts `handle_IP` anywhere, an addition included.
`count_burst.cpp` prints the sum of the counts, and complaints about packets to the same
output; `countTotContinuousByte.cpp` reads it and adds consecutive numbers up to bursts, in
ints, one of which starts with no value.
*Correct when* streams stay distinct and no byte is lost, from the counts to the bursts.

### The packet loggers (`retransmission_loss.cpp`, `5tuple.cpp`, `count_interval.c`)

*State.* The sequence numbers met and two counts; the time of the last packet;
nothing.  *Operation.* A callback takes each frame apart by offsets.  *Hard.* Lengths
are unsigned; frames of several connections, protocols and versions are mixed, and
tests come after the effects.  *Correct when* counts follow from the frames whatever
their order.

### The benchmark (`sender.sh`) and the parsers (`tcp_Retr.cpp`, `jitter.cpp`)

*State.* The files of the working directory, three background processes under timeouts,
the directories of results.  *Operations.* The script starts the tools, sleeps, reads
`send.pcap`, parses iperf3's output, replaces a directory and moves the files there.
*Hard.* Nothing waits for the tools but the sleep; an interrupt stops the script and not
the tools; a file of an earlier run may be taken for one of this run; the parsers tell
lines and columns by counting words.  *Correct when* the results of an undisturbed run are
whole and its own, and the parsed figures are those of the output beside them, each in its
place.

### Not modelled

* Installers and one-off monitoring scripts: command lines around the package
  manager, `sar`, `tc` and others, without state.
* The kernel's statistics in `sch_tsf.c` (`qlen`, `backlog`, drops), which nothing in
  the repository reads, and `tsf_dump`, which changes nothing; `kfifo_reset` and
  `kunit_enqueue_head`, which have no caller.
* Who frees the memory of refused packets; writing beyond `now_qlen`'s array of the
  simulator; rings of fewer than two nodes.  The first is in no state of the program, the
  others are undefined and have no outcomes to choose from.
* Formatting of addresses and of output, unless a parser depends on it.

### How the components interact

    kernel --enqueue/dequeue/change, root lock held--> Tsf --calls--> Kfifo
      ^                                                 |
      +----------- watchdog schedules the qdisc --------+

    interface --frames--> SpeedMeter, StreamMeter (+ SIGPROF), Capture
    count_burst --output--> countTotContinuousByte           (BurstMeter)
    sender.sh --starts--> iperf3, speed, tcpdump --files--> tcp_Retr, jitter
    in.txt    --packets-> RingSim (SIGPROF only)

The limiter and the tools meet only on the wire, so each tool is checked alone.

## 2. Modules

| module | what it is |
|---|---|
| `FifoQueue` | abstract specification: what the time ring promises its caller |
| `TokenBucket` | abstract specification: a bucket filled at every instant |
| `Kfifo` | the time ring |
| `KUnit` | the linked lists of its nodes |
| `KfifoHeap` | the ring over the lists: both together |
| `Tsf` | the discipline, with `Ring == INSTANCE Kfifo` |
| `TsfPaced` | the discipline and the wire it sends on |
| `RingSim` | the simulator |
| `SpeedMeter` | the rate meter |
| `StreamMeter` | the meter of many streams |
| `BurstMeter` | the same meter printing sums, and the parser of its output |
| `Capture` | the packet loggers |
| `ResultParsers` | the parsers of iperf3's output, as functions |
| `Benchmark` | the script, its tools and files, with `ResultParsers` |
| `SumTheorems` | laws of sums over sets and sequences, of folds and of strung-together sequences |
| `KfifoProofs`, `KfifoAccountProofs` | the theorems of the ring: its invariant, what its nodes add up to, and the ring over the lists |
| `KUnitProofs` | the theorems of the lists |
| `TsfProofs` | the theorems of `Tsf` and `TsfPaced` |
| `ToolProofs` | the theorems of `StreamMeter`, `BurstMeter`, `ResultParsers` and `Benchmark` |
| `RingSimProofs` | the theorems of `RingSim` |
| `PcapProofs` | the theorems of `Capture` and `SpeedMeter` |
| `MC...` | constants for TLC; one `.cfg` per run |

How they fit together:

    FifoQueue <-- Kfifo <-- KfifoHeap --> KUnit
                    ^
                    |               A <-- B: B implements A
    TokenBucket <-- TsfPaced --> Tsf
                            StreamMeter <-- BurstMeter      ResultParsers in Benchmark

`Kfifo` implements `FifoQueue` (`RingIsFifo`, with the lists of the nodes between reader
and writer strung together as the queue).  `TsfPaced` implements `TokenBucket`
(`BucketIsFilledByTime`, with the tokens a packet would find now as the level, and the time
each step takes beside them).  These two say something of the code.  The other arrows are
how the modules are built: `Tsf` is made of the actions of `Kfifo`, `KfifoHeap` of those of
`Kfifo` and `KUnit`, and `TsfPaced` of those of `Tsf`, so that each implements what it is
made of by its form.  Those implications are lemmas of the proofs and no claims.

Definitions named `Mut...` stand before the definition they vary: each is the same
step with a plausible mistake in it, and takes part in no specification.  Replacing
the definition by its variant must make TLC report the property listed with it in
`PROJECT.json`; this is how we know each property can fail.

### State and actions against the code

**Kfifo.** Nodes are offsets from `pbase`; the fields of a node are functions of it
(`pkt`, `left_time`, `sleep_time`, `node_slen`, `kunit`), those of the ring are
`rate`, `total_time`, `total_len`, `slen`, `pread`, `pwrite`.  The kernel holds the
root lock around each call, so a call is one action: `EnqueueHere`, `EnqueueAhead`,
`EnqueueDrop` are the outcomes of `kfifo_enqueue`; `DequeueSkb` and `DequeueNull` of
`kfifo_dequeue`, with the search of `kfifo_read_forward` inside them; `FinishNode` is
what `tsf_dequeue` does with an emptied node; `Change` and `ChangeNoMem` are
`kfifo_init` on a live ring, with and without memory.  Two history variables feed
properties only: `debt`, the time released and not yet slept for, and `stranded`, the
bytes in arrays that were replaced.  `total_len` wraps like the `u32` product it is
computed from (`RingBytes`).

**KUnit, KfifoHeap.** `head` and `tail` are functions of the node, `next` of the packet.
`KfifoHeap` conjoins each action of `Kfifo` with what the same lines of code do to the
pointers; the sequences of `Kfifo` remain beside them, and `ListsRepresent` says that the
pointers are those sequences.  The kernel hands a packet to a discipline with its `next`
pointer cleared (`HandedOver`): `kunit_enqueue_tail` needs it, because it does not clear
`next` itself when the list is empty, and `kunit_dequeue_head` leaves it set.

**Tsf.** `tsf_enqueue` handles several packets in a call, so it is several steps, with
its local variables in `job`; nothing else runs until `job` is `Idle` again.  Time is
relative: `elapsed` is `now - t_c`, `watchdog` the time until it goes off.  `run` says
that the kernel will call `dequeue`, which it does until it gets `NULL`.  `status` is
"up" until a `NULL` is dereferenced ("oops"), `tsf_change` returns with the tree lock held
("locked") or the discipline is removed ("destroyed"); nothing more happens then, which
is why deadlock is not checked in these runs.  `Change`, `ChangeNoMem` and `ChangeFails`
are the three ways through `tsf_change`.  The build
is the repository's, with `DEBUG` defined: the test queue exists.

**TsfPaced.** Three history variables beside `Tsf`.  `nap`: what is left of the sleep that
`tsf_delay` has left to the watchdog.  `wire`: a leaky bucket that packets leaving the
ring fill with their transmission time.  The ring counts sleeps asked for; this module
counts time that has passed.  A packet that leaves the ring during a nap, because
something else polled the discipline, sets `wire` to `Early` and nothing is claimed until
the ring is built anew.  `passed`: the time the last step took, one tick or a busy wait.  It
is not computed from `t_c`, so that `TokenBucket` measures the lazy bucket against time
itself: between two changes of the rate its level grows by the time passed, no more and no
less.

**RingSim.** A signal handler is one action, because the main thread only spins and the
signal is masked while its handler runs.  The packets due are chosen when the handler
runs; ages replace arrival times, up to `MaxAge`.

**SpeedMeter.** Time in ticks since `start`; a sample is the bytes of its window, which
the program divides by a constant.  `past` remembers what was captured tick by tick
and serves the properties only.  Its `SpeedInit`, `SpeedNext`, `SpeedSpec` and
`SpeedTypeOK` carry the program's name because `PcapProofs` extends this module and
`Capture` both.

**StreamMeter.** `handle_IP` is split where the signal matters: `Lookup` (the increment
of `stream_id`), `Assign` (the store into `mp`), and the addition as one instruction
(`AddInPlace`) or as `Load` and `Store`; the build decides which, the model allows
both.  `TestFunc` may come at any time.

**BurstMeter.** The same actions with the output they produce: `noise` says that the last
line printed has not ended, and each line is handed to `Parse`, the body of the parser's
loop, as it is completed.  Frames the meter does not count (`NotIp`, `NotCounted`) and the
complaints on frames it does count (`CountedBadHlen`, `CountedTruncated`) go to the same
output.  `now` and `tot` are ints of any width: `Wrap` is the addition of the build, and
`over` remembers that it wrapped.  `now` starts with any value of `Unset`, because the
program gives it none.

**Benchmark.** One action per command of the script, and per thing that can happen to a
tool: it starts, gives up, prints, ends, hangs, is timed out.  A file is a sequence of
lines, each tagged with the run that printed it; two processes on one file leave a text
nobody can use.  Runs follow one another, also after `Interrupt`.  `alone` is a history
variable.  `ToolProofs` extends this module and `BurstMeter` both, so what either would call
`Init`, `Next`, `Spec`, `TypeOK` or `Parse` is `BenchInit`, `BenchNext`, `BenchSpec`,
`BenchTypeOK` and `ParseOutput` here.

**ResultParsers.** A line is its kind and the figure in its last column; what the parsers
ask of a line is the word "ID]" and what its eighth and ninth words are.  A stream's id below
100 is a word of its own behind the bracket; a longer one fills the brackets, as `[SUM]`
does, and the columns of its row are counted one short (`"wide"`).

**Capture.** A frame is a record of the fields the programs read.  The three programs
share nothing, so they take a frame in one step.  The length test uses `len`, not
`caplen`, as the code does; `CaptureAssumption` says how the two are related: a frame is
cut at the snapshot length the programs ask for (`BUFSIZ`).  The word at the offset of the
sequence number is an option or the ports when the IP header carries options; a
retransmission repeats these too.

## 3. Runs

| run | what it shows | distinct states |
|---|---|---|
| `kfifo` | the ring over its linked lists, through all interleavings of enqueue, dequeue, sleep and reconfiguration: nine invariants, a reader that leaves no debt, a FIFO queue that hands back every packet | 139 000 |
| `tsf` | local copies fresh, the bucket is one filled by the time that passes, the wire kept to the rate | 1 681 000 |
| `tsf_live` | a reader sleeping on the watchdog is polled again | 129 000 |
| `tsf_oops` | **violated**: the loop over the inner queue dequeues a packet | - |
| `tsf_stall` | **violated**: after every sleep the ring is polled again | - |
| `ring_sim` | the charge is exact; until a packet wraps around, order, a bounded excess over the rate, and sending within one turn | 162 000 |
| `ring_sim_rate` | **violated**: the rate is kept | - |
| `speed_meter` | a sample is the traffic of one window, the range found is a densest one | 470 000 |
| `stream_meter` | streams distinct, no byte lost wherever the signal comes, every printed byte in a burst of the parser until an int overflows | 126 000 |
| `capture` | loss counts, intervals and ports follow from the frames | 48 000 |
| `benchmark` | the results of an undisturbed run are its own, whole, and parsed figure by figure | 1 289 000 |
| `benchmark_retr` | **violated**: the figures of `retr.txt` are retransmission numbers | - |

### Bounds, and why they are enough

* `kfifo`: rings of two and four nodes, two rates (at one of which every time is half of
  what it is at the other), and three packets that are told apart: of half a unit, one, and
  two and a half, which jumps over nodes while the writer can still go round.  Two nodes is
  the smallest ring `kfifo_init` finishes building, and four has nodes that are neither the
  reader's nor the writer's.  A packet is in the ring at most once, which is what bounds
  the state.
* `tsf`: a bucket of one packet, inner queue and ring of a few; two packet lengths, so
  that a head can wait while a shorter packet conforms; a large packet of two segments,
  the first of which takes the tokens; two rates, hence two bucket depths; three nodes,
  so that the ring holds more time than the limit allows on the wire at once and a sleep
  that does not happen shows.  Test packets only cause polls: `tsf_live` queues them.
  The states are told apart by all variables but `slept`, which no property of this run
  reads but `TypeOK`.
* `tsf_live`: the smallest discipline in which every action takes part, all failures
  included: a tick is one millisecond, a whole node of the ring, and one packet costs exactly
  that.  Liveness is dear; what the lengths of packets do is in `tsf`.
* `ring_sim`: three slots of two bytes, handler runs two to a slot, packets shorter
  than, longer than and far beyond a slot, bursts up to beyond the capacity
  (`MaxLoad`).  `MaxAge` is above the largest age a property mentions.
* `speed_meter`: windows of two ticks, four samples as in the code, a payload shorter
  than the assumed header among them; gaps are unbounded.
* `stream_meter`: three interchangeable streams and one entry to spare; up to
  `MaxReceived` bytes per stream; an int that holds an interval of all of them and not every
  burst; `now` unset, negative, or a number of bytes at first.  The theorems of section 5
  lift these bounds.
* `capture`: four frames of ten kinds in every order, three values of the clock.
* `benchmark`: two runs, each of TCP or of UDP, into one directory or two; times that
  keep the order of the script's (the test, iperf3's limit, the tools' limit, the sleep,
  here 2, 3, 4 and 6 ticks); a tool starts within `MaxDelay`; two streams, one with a short
  id and one with a long one (`TwoDigit`, below 100 in life, is 1 here).  A file left by a run is
  met by the next, so a third run meets nothing new.

### What the violations show

* `tsf_oops`: with an empty inner queue `toks2` is never negative and the loop hands
  `NULL` to `kfifo_enqueue`.  `Tsf` goes on modelling the rest of the discipline from
  states where the queue is not empty: segments, which reach it first, lead there.
* `tsf_stall`: a sleep of a millisecond or less is spun for, no watchdog is set, and the
  ring is not polled again until a packet arrives.
* `ring_sim_rate`: a packet that brings the charge to the capacity wraps around onto the
  slot about to be sent; overwritten bytes stay charged, and further packets of the same
  kind are sent at once, above the rate.
* `benchmark_retr`: `tcp_Retr` prints the ninth word of each row.  A SUM row has eight, so
  that `ans`, which nothing initialises, is printed; and on the row of a stream whose id has
  three digits the ninth word is the congestion window.  The repository's own experiments
  run 100 streams.

Five properties that pass carry their exception in the statement.  `RateUnlessWrapped`
is the counterpart of `ring_sim_rate`: until a packet wraps around, a stretch of slots
sends at most its share of `CAP` and that of `BLOCK - 1` slots more.  One slot's share
more, which one would expect of a ring that spaces packets, is not kept even then when a
packet is longer than the share of two slots (1500 bytes against 131 in the code):
`in_ring` spaces by the bytes still charged, so packets placed behind one that has just
been sent may join it.  `WireRate` holds as long as nothing polls the
discipline during a sleep left to the watchdog: nothing in the code marks the ring as
sleeping, and an enqueue followed by a poll takes the next packet early.  `OwnResults`
leaves out the latencies of a run whose tcpdump did not start: `send.pcap` is never
removed, and the script parses the one of an earlier run.  `EveryByteAccounted` holds until
a burst overflows the parser's int, and tells apart what a blank line adds: `now` again, or,
before the first number, whatever it held.  `ParsedFaithfully` says of the rows `benchmark_retr`
is about only that each has a figure, so that they do not shift those of the others.

## 4. Fairness

`Kfifo!FairSpec` assumes weak fairness of `Dequeue`: the caller keeps polling.  This is
an assumption about the caller, and `Tsf` is where it is examined.  `Tsf!FairSpec`
assumes that a call in progress goes on, that time passes, that a timer that is due
goes off, and that the kernel calls `dequeue` of a scheduled discipline; these are the
kernel's own promises.  It assumes neither that packets arrive nor that allocations
succeed.  `tsf_stall` shows that under it the assumption of `Kfifo!FairSpec` is *not*
met after a short sleep; `SleepingRingWakes` shows that it is after a long one, unless
`tsf_reset` has cancelled the watchdog.  The variable `slept` remembers which of these
happened last and takes part in no guard.

## 5. Proofs

`KfifoProofs` proves, for every set of depths of at least two, every rate, every set of
packets and every bound on their times:

* `TypeCorrect`, `WindowCorrect` (`WindowHoldsAll`), `PristineCorrect`, `SleepCorrect`,
  `RateCorrect` as invariants,
* `ReaderCorrect`: `ReaderLeavesNoDebt`, an action property.

The inductive invariant `IInv` adds to the checked properties `WriterOnUsedNode`,
`PktCountsList`, `NodeBudget` and `ChainsBounded`.  The argument: a used node lies
between reader and writer (`WindowHoldsAll`), so a node the writer comes to is empty and,
being empty and not the reader's, fresh (`EmptyNodesPristine`); so its budget is whole,
and what is charged to it is the cost of one packet and then what fits.  Each node's list
is a chain in which each packet ends where the one before it ended plus its own time,
starting from `debt` on the reader's node; when the list has been emptied the chain has
shrunk to a point, so `debt` is `sleep_time`, and the sleep pays it off.  Released and
unpaid time is at most a node's `sleep_time`, which its budget bounds: that is the rate
limit.  `ChainsBounded` states for any two packets of a list what the chain says of
neighbours, so that no induction over the list is needed.

`KfifoAccountProofs` proves what the nodes of the ring add up to:

* `SpacingCorrect` (`Spacing`).  The node the writer comes to is fresh, so its charge and
  rest are the nodes moved; the nodes jumped over lie beyond the writer and are in no use,
  and they stay so because the writer only goes forward; and the reader, which stops at
  the first node in use, cannot come to rest among them.  The proof speaks of distances
  from the reader (`Alone`) rather than of places counted back from a node, and shows that
  this is `Spacing` (`SpacingForm`).
* `DelayCorrect` (`DelayBound`).  `AllSpaced` adds to the spacing that the gap a node was
  charged for ends at the reader or at the node used before it (`Follows`).  The gaps
  therefore make up the way from reader to writer, which is `WeightsSpanWindow`: the
  weights of the nodes sum to the distance of the two pointers.  That sum is kept by each
  step of writer and reader, and by a reconfiguration, which starts with an empty ring.
* `CountersCorrect` (`CountersAgree`), from `BytesAgree`: `slen` is the sum of what the
  nodes hold and each node's count the sum of its list.
* `FifoCorrect`: the initial states of `Kfifo` are those of `FifoQueue` and each step is a
  step of it or leaves the queue alone.  Strung together from the reader on, the nodes are
  empty before the one a packet is taken from and after the one a packet is added to
  (`FlatStep`), so the packet is at the end of the whole queue and not only of its list.

`KUnitProofs` proves that `head`, `tail` and `next` thread the packets put in and not yet
taken (`ListsCorrect`), with the invariant that a packet in no list has a cleared `next`
or one that nobody follows.  The last part of `KfifoAccountProofs` carries every theorem
above over to the ring over pointers (the lemma `HeapIsRing`, which holds by construction)
and shows that it keeps the rules of `KUnit` (`HeapImplementsLists`), from which
`ListsCorrect` for the ring follows: the ring never gives a list a packet that is in one, and
takes from the list the reader stands on.

`TsfProofs` proves of the discipline:

* `JobInvariance`: what `job` holds between two steps are packets, and the loop goes on only
  with a non-empty inner queue.  With that its steps are steps of `Kfifo` (the lemma
  `RingProtocol`, by construction), and the theorems of the ring give `RingCorrect`.
* `Invariance`, and with it `TypeCorrect` and `LocalsCorrect`: types and fresh copies are
  proved together, because a stale copy could exceed the bucket.

Of `TsfPaced` it proves `WireRateCorrect` and `BucketCorrect`.

* `WireRateCorrect`.  The invariant, `NapIsDebt`: when a nap begins the ring's debt has been
  paid with sleep that is still to come, so `debt` is 0 during a nap and `wire` is at most
  `debt + nap`; time takes from both sides alike, and when the nap is over the bound of the
  ring (`RateLimit`) is the bound of the wire.
* `BucketCorrect`: the refinement of `TokenBucket`, one step per action.  Waiting `d` fills
  the level by `d` and no more because filling lazily in two stretches is filling once
  (`FillLemma`); a packet let in takes what it costs out of the level whichever exit of the
  loop it takes; a refused one, or one sent to the inner queue, leaves the level alone
  (`QuietLemma`); and with another rate the level moves only as far as the time since `t_c`
  that the old bucket had no room for (`ResizeLemma`).

`ToolProofs` proves of the meter of streams, for every finite set of port pairs smaller than `qn`, all
payloads and every bound, that stream numbers stay within the arrays
(`StreamTypeCorrect`), that they are distinct (`StreamsDistinctCorrect`) and that no byte
is lost (`NoByteLostCorrect`).  The invariant adds what a packet in progress has been
given and that the sum about to be stored covers its stream (`SumCovers`), which survives
the signal because the signal only moves bytes from the count to the report.  That a new
number fits (`RoomLemma`) is a counting argument: the numbers given map one to one to
port pairs other than the new one.  Of `BurstMeter` it proves that every printed byte is in
a burst of the parser until one overflows its int, for ints of any width and whatever the
uninitialised `now` holds (`BytesCorrect`), and that a burst ends on a readable number only
after an interval without a packet (`BurstsCorrect`); the latter needs `SinceInCounts`:
bytes counted since the signal last came are still in the counts it is about to sum.

Of `Benchmark`, `ToolProofs` proves every property that `benchmark` checks, for every set
of tests, any number of runs, any number of streams and all durations in the script's
order: `BenchTypeCorrect`, `OwnResultsCorrect`, `CompleteCorrect` and `ParsedCorrect`.
None of the four is inductive: they speak of the directories, and a directory is only as
good as the working files moved there.  `BenchInv` follows the files back to the tools.

* `InTime`: what a tool may still take, a late start and the timeout included
  (`Deadline`), is less than what is left of the sleep.  So no tool is alive, of any run,
  once the script has gone on.
* `NoOthers`: while a run that began alone is under way only its own tools are alive.  So
  nothing is `Shared`, and each file it writes has one writer.
* `OwnFiles`: the working files of such a run are what its tools have written so far
  (`OwnText`), then what the script has made of them.  A file of iperf3 is `Cut`, the
  opening lines and rows, or `Summed`, with the summary behind them; the other tools have
  written a figure for each tick.  A file found from an earlier run matters only until
  the tool has started, and is excused when tcpdump never did.
* `Filling` and `KeptOwn`: the directory being filled holds nothing of an earlier run, and
  a directory that is kept satisfies `OwnText` for good, because its tools are `Dead`.

A tick lets all running tools write at once, as a fold over a set of processes:
`FoldWritten` shows that each file has got the figure of its tool and nothing else
(`FoldPicks`, below).  The parsers are folds over the lines.  `RetrRuns` and `JitterRuns`
give their state after each line by induction.  On a `Cut` or `Summed` text the first header
comes before every row and a second one, if any, before the summary's (`HeadersOf`,
`TextOrder`), so `tcp_Retr` prints while one header has passed and `jitter` when two have.
`Printed` concludes that their figures are as many as the rows `Results` picks, each in its
place; for a row with a two-digit id that place holds the row's own figure.  For the others
there is nothing to prove, and `benchmark_retr` shows what is printed there.

`RingSimProofs` proves every property that `ring_sim` checks, for every number of slots,
capacity, rate and set of packets: `RingTypeCorrect`, `ConservedCorrect`, `ArcCorrect`,
`OrderCorrect`, `RateCorrect` and `SentCorrect`.  The slots are renumbered from
`now_postion` on (`View`), so that a turn of the ring moves every list one place down.
`RingInv` has two parts.  `RingOK`: the charge is what the slots hold and what was
overwritten; until a packet wraps around nothing lies beyond the last slot filled, and the
bytes up to each place, together with what was sent, stay below the share of the slots
before it.  `AgesOK`: packets are ordered along the view, and a packet's age is bounded by
the turns it has still to wait.  `in_ring` places a batch by a fold, so the invariant is
carried through the fold by an induction over the packets taken (`FoldRuns`).

`PcapProofs` proves every property that `capture` checks, for every finite set of
frames, every clock and any number of frames captured: `CaptureTypeCorrect`,
`LossesCorrect`, `RetransmissionsCounted`, `IntervalsCorrect` and `PortsCorrect`.
`ReadLemma` shows that the unsigned length test reads exactly the frames that hold both
headers, because the Ethernet test before it turns away those whose length would wrap.
`mp` is the set of the words of the frames captured (`WordsSeen`); a segment captured
before therefore has its word in `mp`, whatever else shares that word (`AgainCounted`), and
the sum over the segments grows by one only in steps that count a loss.  `PortLemma` is
about `big2small`: eight bits added up with their weights are the number modulo 256
(`OctetLemma`), and the two halves exchanged twice are the port again.

Of `SpeedMeter`, `PcapProofs` proves every property that `speed_meter` checks, for every
interval, size of the queue, set of payloads and bound: `SpeedTypeCorrect`,
`WindowsCorrect` and `RatioCorrect`.  The windows need an invariant of two parts.
`WindowExact`: the count is the sum of what was captured since `start`.  `QuietSinceFull`:
nothing was captured in the ticks in which a packet would have closed the window, so a
window closed late still holds the bytes of its first interval only (`FullWindow`).
`RatioCorrect` holds in any state whose samples are integers.  It follows `get_ratio`:
the sort leaves the samples in order (`SortedLemma`); the inner loop, whatever it starts
from, keeps the best of the ranges seen so far and of its row (`RowLemma`); the outer loop
does so for all rows (`DensestLemma`).  A range replaces the best one when the cross
products say so, and that this order is transitive (`CrossLemma`) is where the widths
being positive matters.  `sort` is written as an insertion by a fold, which can be
reasoned about; an `ASSUME` of `MCSpeedMeter` has TLC compare it with `SortSeq`.

`SumTheorems` holds the facts about sums and folds these proofs use.  They need induction,
and the library's rules take a predicate as a parameter, which no installed prover
instantiates; `NatSetInduction` takes a set instead, and each use names the set of the
numbers for which its claim holds.  A recursive function is first shown to exist, as its
definition chooses one.  `FoldPicks` shows that a fold over any finite
set, with values of any kind, has a function behind it that gives its value for every
subset; `FoldRuns` is its case for folds over a sequence.

The assumptions are the `ASSUME`s of the modules, evaluated by TLC in every run; in
`KUnitProofs` that `NULL` is no packet is a hypothesis of the theorems (`NullAssumption`),
and `KfifoHeap`'s assumption discharges it.

Every invariant and every action property that a passing run checks is one of these
theorems.  *Only model-checked:* liveness (`SleepingRingWakes`, and of `RingIsFifo` that
the queue is emptied), because liveness under fairness and `ENABLED` are beyond the provers
used; and the four violations, which are counterexamples.

## 6. Assumptions and limits

* Rings have at least two nodes: on smaller ones the code reads uninitialised memory.
* The root lock serialises the discipline's calls, as the kernel does; `kfifo`'s own
  lock is taken inside it and adds nothing.
* `qn` exceeds the number of streams, as `readme.md` asks of the user.
* A port pair identifies a stream; addresses are not part of the key in the code.
* `speed.cpp` reads the time of day (`speed.cpp:185`), which may be set back; in
  `SpeedMeter` it only goes on.  `Capture`, where it is read too, lets it go back.
* A frame of an IP length below the assumed headers makes `len-PACKET_HEADER` of
  `nstream.cpp:349` negative; `StreamMeter`'s `Payload` are natural numbers.  The bytes of
  one stream, and of all streams together, within one interval fit an int.
* Between two ticks speed and tcpdump write one figure each: how many lines they write is a
  convention of `Benchmark`, from which a file is known to be whole.  A tool fails when it
  starts, hangs or is timed out; that it dies in mid-run is not modelled.
* A packet handed to the discipline has its `next` pointer cleared (`HandedOver`): the stale
  pointer `kunit_dequeue_head` leaves is assumed away by it, not shown to be harmless.
* `CountersAgree` allows what `slen` keeps of a ring that was replaced (`stranded`), so a
  `slen` that never returns to 0 after a reconfiguration does not violate it.
* The code's double arithmetic in `get_ratio` and `in_ring` is exact in the models:
  fractions are compared after multiplying out, or cut to integers.

## 7. Plan

1. *Done:* the ring, its lists, its specification and proofs; the discipline, the bucket
   it implements and the wire it sends on, with proofs; the simulator; the meters and the
   parser of bursts; the packet loggers; the script and its parsers.
2. *Done:* proofs of the ring's accounts and its refinement of the queue, of the parser of
   bursts, of the simulator, of the packet loggers, of the rate meter and of the benchmark.
3. A second caller: a parent discipline that polls `Tsf` on its own schedule, to say how
   far `WireRate` fails when a sleep is cut short.
