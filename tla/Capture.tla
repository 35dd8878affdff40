-------------------------------- MODULE Capture --------------------------------
(***************************************************************************)
(* The packet loggers: benchmark/retransmission_loss.cpp, which counts      *)
(* retransmissions, RateLimiter/5tuple.cpp, which prints addresses and      *)
(* ports, and MeasureRate/count_interval.c, which prints the time between   *)
(* packets.  Each is a pcap_loop whose callback takes a frame apart by      *)
(* offsets, with the same tests of its length.                              *)
(*                                                                          *)
(* The three programs share nothing: a frame is given to all of them in one *)
(* step.  Frames carry TCP segments; what the programs print of a frame     *)
(* beyond the numbers below is left out.                                    *)
(***************************************************************************)
EXTENDS Integers, FiniteSets, FiniteSetsExt

CONSTANTS Frames,    \* records of a frame's fields, see FrameFields
          Word,      \* values of a u_int, 2^32
          Clock,     \* values of gettimeofday, in ms
          MaxFrames  \* bound on the frames captured

ETHER_HDRLEN == 14
MY_IP == 20
ETHERTYPE_IP == 2048

\* What the programs ask pcap to capture of a frame at most.
BUFSIZ == 8192

\* The values of an unsigned short.
UShort == 0..2^16-1

\* type: the Ethernet type; len, caplen: bytes on the wire and captured; version,
\* hlen: of the IP header; option: the second word of its options; sport, dport,
\* seq: of the TCP header.
FrameFields == [type : UShort, len : Nat, caplen : Nat, version : 0..15, hlen : 0..15,
                option : Nat, sport : UShort, dport : UShort, seq : Nat]

ASSUME CaptureAssumption ==
  /\ IsFiniteSet(Frames) /\ Frames \subseteq FrameFields /\ Word \in Nat
  /\ \A f \in Frames : /\ f.caplen = IF f.len < BUFSIZ THEN f.len ELSE BUFSIZ
                       /\ f.len < Word
  /\ Clock \subseteq Nat /\ 0 \in Clock /\ MaxFrames \in Nat

VARIABLES
  mp, tot_packet1, loss_packet,  \* retransmission_loss
  start,                         \* count_interval; -1 before the first packet
  printed,                       \* 5tuple: the ports of the last line, << >> before it
  now,                           \* gettimeofday
  \* History variables: no other variable depends on them.
  arrived,                       \* per frame: how often it was captured
  last,                          \* the frame 5tuple printed last
  gaps                           \* count_interval: first time, sum and number of its lines

retransVars == <<mp, tot_packet1, loss_packet>>
intervalVars == <<start, gaps>>
tupleVars == <<printed, last>>
vars == <<retransVars, intervalVars, tupleVars, now, arrived>>
--------------------------------------------------------------------------------
(***************************************************************************)
(* Taking a frame apart                                                     *)
(***************************************************************************)
\* Plausible bug: a frame too short for its Ethernet header is not turned away.
MutHandleEthernet(f) == f.type

\* The Ethernet type; -1 in a u_int16_t for a frame without one.
HandleEthernet(f) == IF f.caplen < ETHER_HDRLEN THEN (-1) % 65536 ELSE f.type

\* handle_IP goes past its test of the length: unsigned, it may wrap.
LongEnough(f) == (f.len - ETHER_HDRLEN) % Word >= MY_IP

\* handle_IP is called and reads the headers.
HeadersRead(f) == HandleEthernet(f) = ETHERTYPE_IP /\ LongEnough(f)

\* The four bytes at offset 24 of the IP packet: the sequence number, or the ports
\* when one word of options comes before the TCP header, or the second such word.
SeqWord(f) == IF f.hlen <= 5 THEN f.seq
              ELSE IF f.hlen = 6 THEN f.sport * 65536 + f.dport ELSE f.option

\* A u_short that holds the port in network order, as a little-endian host reads it.
NetworkOrder(p) == (p % 256) * 256 + p \div 256

Bit(x, i) == (x \div 2^i) % 2

\* The number that the lower eight bits make.
Octet(x) == SumFunctionOnSet([i \in 0..7 |-> Bit(x, i) * 2^i], 0..7)

\* Plausible bug: the bits are added up in the order they were pushed.
MutBig2small(x) == Octet(x) + 256 * Octet(x \div 256)

\* The 16 bits of x added up anew, the upper eight first.
Big2small(x) == Octet(x \div 256) + 256 * Octet(x)
--------------------------------------------------------------------------------
(***************************************************************************)
(* The callbacks                                                            *)
(***************************************************************************)
\* Plausible bug: mp[*dstp] is cleared again when it was set.
MutCountSeq(f) ==
  IF SeqWord(f) \notin mp
  THEN /\ mp' = mp \cup {SeqWord(f)}
       /\ tot_packet1' = tot_packet1 + 1
       /\ UNCHANGED loss_packet
  ELSE /\ mp' = mp \ {SeqWord(f)}
       /\ loss_packet' = loss_packet + 1
       /\ UNCHANGED tot_packet1

\* retransmission_loss: a sequence number met before is counted as a loss.  The
\* version is tested afterwards, and the test has no effect on the counts.
CountSeq(f) ==
  IF SeqWord(f) \notin mp
  THEN /\ mp' = mp \cup {SeqWord(f)}
       /\ tot_packet1' = tot_packet1 + 1
       /\ UNCHANGED loss_packet
  ELSE /\ loss_packet' = loss_packet + 1
       /\ UNCHANGED <<mp, tot_packet1>>

RetransCallback(f) ==
  IF HeadersRead(f) THEN CountSeq(f) ELSE UNCHANGED retransVars

\* Plausible bug: start stays at the first packet.
MutPrintInterval ==
  IF start = -1
  THEN start' = now /\ gaps' = [gaps EXCEPT !.first = now]
  ELSE /\ gaps' = [gaps EXCEPT !.sum = @ + (now - start), !.lines = @ + 1]
       /\ UNCHANGED start

\* Plausible bug: start is given the interval printed.
MutStart ==
  IF start = -1
  THEN start' = now /\ gaps' = [gaps EXCEPT !.first = now]
  ELSE /\ gaps' = [gaps EXCEPT !.sum = @ + (now - start), !.lines = @ + 1]
       /\ start' = now - start

\* count_interval: the time since the packet before, from the second on.
PrintInterval ==
  IF start = -1
  THEN start' = now /\ gaps' = [gaps EXCEPT !.first = now]
  ELSE /\ gaps' = [gaps EXCEPT !.sum = @ + (now - start), !.lines = @ + 1]
       /\ start' = now

IntervalCallback(f) ==
  IF HeadersRead(f) /\ f.version = 4 THEN PrintInterval ELSE UNCHANGED intervalVars

\* 5tuple: the ports, read behind an IP header without options, and printed
\* before the version is tested.
PrintTuple(f) ==
  /\ printed' = IF f.hlen = 5 THEN <<Big2small(NetworkOrder(f.sport)),
                                     Big2small(NetworkOrder(f.dport))>>
                \* the option word, which is of no use
                ELSE <<0, 0>>
  /\ last' = f

TupleCallback(f) ==
  IF HeadersRead(f) THEN PrintTuple(f) ELSE UNCHANGED tupleVars
--------------------------------------------------------------------------------
RetransInit == mp = {} /\ tot_packet1 = 0 /\ loss_packet = 0
IntervalInit == start = -1 /\ gaps = [first |-> 0, sum |-> 0, lines |-> 0]
TupleInit == printed = << >> /\ last = << >>

Init == /\ RetransInit /\ IntervalInit /\ TupleInit
        /\ now = 0
        /\ arrived = [f \in Frames |-> 0]

Times(S) == SumFunctionOnSet(arrived, S)

\* pcap_loop calls back with a frame.
Captured(f) ==
  /\ Times(Frames) < MaxFrames
  /\ RetransCallback(f) /\ IntervalCallback(f) /\ TupleCallback(f)
  /\ arrived' = [arrived EXCEPT ![f] = @ + 1]
  /\ UNCHANGED now

\* The time of the day moves on, or is set back.
SetClock(t) == now' = t /\ UNCHANGED <<retransVars, intervalVars, tupleVars, arrived>>

Next == \/ \E f \in Frames : Captured(f)
        \/ \E t \in Clock : SetClock(t)

Spec == Init /\ [][Next]_vars
--------------------------------------------------------------------------------
(***************************************************************************)
(* Properties                                                               *)
(***************************************************************************)
\* Frames that hold an IP header, and those of version 4, as a reader of the capture
\* would tell them.
Whole(f) == f.type = ETHERTYPE_IP /\ f.caplen >= ETHER_HDRLEN + MY_IP
IPv4(f) == Whole(f) /\ f.version = 4

\* Every variable has its type.
TypeOK ==
  /\ mp \subseteq Nat /\ tot_packet1 \in Nat /\ loss_packet \in Nat
  /\ start \in Clock \cup {-1} /\ now \in Clock
  /\ gaps \in [first : Clock, sum : Int, lines : Nat]
  /\ \/ printed = << >> /\ last = << >>
     \/ printed \in UShort \X UShort /\ last \in Frames
  /\ arrived \in [Frames -> 0..MaxFrames]

\* loss_packet and tot_packet1 are the repeated and the different sequence words
\* of the frames that hold an IP header, in whatever order they came: none is
\* counted because its length wrapped in handle_IP.
LossesAreRepeats ==
  /\ loss_packet + tot_packet1 = Times({f \in Frames : Whole(f)})
  /\ tot_packet1 = Cardinality({SeqWord(f) : f \in {g \in Frames : Whole(g) /\ arrived[g] > 0}})

\* What a retransmission repeats, the IP options included.
Segment(f) == <<f.sport, f.dport, f.seq, f.hlen, f.option>>

\* The loss count never falls short: each IPv4 segment captured n times, with other
\* connections and other protocol versions in between, is at least n-1 losses.
NoRetransmissionMissed ==
  LET segments == {Segment(f) : f \in {g \in Frames : IPv4(g) /\ arrived[g] > 0}}
      again == [s \in segments |-> Times({f \in Frames : IPv4(f) /\ Segment(f) = s}) - 1]
  IN  loss_packet >= SumFunctionOnSet(again, segments)

\* The intervals printed add up to the time from the first IPv4 packet to the
\* last, one line for each packet but the first, even when the clock is set back.
IntervalsAddUp ==
  start # -1 => /\ gaps.sum = start - gaps.first
                /\ gaps.lines = Times({f \in Frames : IPv4(f)}) - 1

\* The ports printed are those of the packet, for a header without options.
PortsAsSent ==
  printed # << >> /\ last.hlen = 5 => printed = <<last.sport, last.dport>>
================================================================================
