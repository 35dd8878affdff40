------------------------------ MODULE BurstMeter ------------------------------
(***************************************************************************)
(* The burst meter: MeasureRate/count_burst.cpp, which is the meter of many *)
(* streams printing the bytes of all streams once an interval, and the      *)
(* parser of its output, countTotContinuousByte.cpp, which adds consecutive *)
(* intervals with traffic up to bursts.                                     *)
(*                                                                          *)
(* Complaints about packets go to the same output.  Some end their line and *)
(* some do not; a number printed after one that does not is unreadable.     *)
(* The parser runs later on the whole output; it goes through it once, line *)
(* by line, so each line is parsed here when it is complete.                *)
(*                                                                          *)
(* The parser's now and tot are ints.  An interval of more bytes than an    *)
(* int holds is beyond the bounds of this module; a burst may be that long, *)
(* for nothing ends it but an interval without bytes.                       *)
(***************************************************************************)
EXTENDS StreamMeter, FiniteSetsExt

CONSTANTS
  INT_MAX,      \* the largest int
  Unset         \* what the uninitialised now may hold

CInt == -INT_MAX-1..INT_MAX
ASSUME IntAssumption == INT_MAX \in Nat /\ Unset \subseteq CInt

VARIABLES
  noise,        \* the output ends in text without a newline
  parser,       \* now, tot and the sum of byte, of the parser
  \* History variables: no other variable depends on them.
  since,        \* bytes received since the last signal
  dup,          \* bytes counted again: loaded before a signal, stored after it
  again,        \* what blank lines added: the parser keeps now over them, be it a
                \* number read before or, with nothing read yet, what now held
  lost,         \* bytes printed behind text
  over          \* a burst has grown beyond an int

output == <<noise, parser>>
accounts == <<since, dup, again, lost, over>>
burstVars == <<vars, output, accounts>>

--------------------------------------------------------------------------------
(***************************************************************************)
(* countTotContinuousByte.cpp                                               *)
(***************************************************************************)
\* tot+=now, as the build wraps it.
Wrap(x) == IF x \in CInt THEN x
           ELSE IF x > 0 THEN x - 2 * (INT_MAX + 1) ELSE x + 2 * (INT_MAX + 1)

\* Lines that are not a number; numbers of bytes are not negative.
Text == -1
Blank == -2

\* ss>>now of a line: text is read as 0, a blank line leaves now as it is.
Read(p, line) == CASE line = Text -> 0
                   [] line = Blank -> p.now
                   [] OTHER -> line

\* Plausible bug: tot is not reset when a burst ends.
MutParse(p, line) ==
  LET n == Read(p, line)
  IN  IF n = 0 /\ p.tot # 0
      THEN [now |-> n, tot |-> p.tot, byte |-> p.byte + p.tot]
      ELSE [now |-> n, tot |-> Wrap(p.tot + n), byte |-> p.byte]

\* A line without bytes ends the burst.
Parse(p, line) ==
  LET n == Read(p, line)
  IN  IF n = 0 /\ p.tot # 0
      THEN [now |-> n, tot |-> 0, byte |-> p.byte + p.tot]
      ELSE [now |-> n, tot |-> Wrap(p.tot + n), byte |-> p.byte]

Overflows(p, line) == p.tot + Read(p, line) \notin CInt

\* The output line in progress, ended by line.
EndLine(line) == IF noise THEN Text ELSE line
--------------------------------------------------------------------------------
(***************************************************************************)
(* count_burst.cpp                                                          *)
(***************************************************************************)
\* Plausible bug: the loop over the streams stops one short.
MutTotal == MapThenSumSet(LAMBDA i : tot_ippkt_len[i], {i \in Stream : i < stream_id})

\* tot_byte
Total == MapThenSumSet(LAMBDA i : tot_ippkt_len[i], {i \in Stream : i <= stream_id})

Signal ==
  /\ TestFunc
  /\ Total <= INT_MAX            \* bound
  /\ parser' = Parse(parser, EndLine(Total))
  /\ over' = (over \/ Overflows(parser, EndLine(Total)))
  /\ noise' = FALSE
  /\ since' = 0
  /\ lost' = IF noise THEN lost + Total ELSE lost
  /\ UNCHANGED <<dup, again>>

\* A frame that is not IP, "(ARP)", "(RARP)" or "(?)", or too short for an IP
\* header: what is printed does not end the line.
NotIp ==
  /\ packet = Idle
  /\ noise' = TRUE
  /\ UNCHANGED <<vars, parser, accounts>>

\* A frame too short for Ethernet, or of another IP version: a line of text.
NotCounted ==
  /\ packet = Idle
  /\ parser' = Parse(parser, Text)
  /\ noise' = FALSE
  /\ UNCHANGED <<vars, accounts>>

Counted(k, n) == Lookup(k, n) /\ UNCHANGED <<output, accounts>>

\* "bad-hlen": a line of text, and the packet is counted all the same.
CountedBadHlen(k, n) ==
  /\ Lookup(k, n)
  /\ parser' = Parse(parser, Text)
  /\ noise' = FALSE
  /\ UNCHANGED accounts

\* "truncated IP": its line of text begins on a new line.
CountedTruncated(k, n) ==
  /\ Lookup(k, n)
  /\ parser' = Parse(Parse(parser, EndLine(Blank)), Text)
  /\ again' = IF noise THEN again ELSE again + parser.now
  /\ over' = (over \/ Overflows(parser, EndLine(Blank)))
  /\ noise' = FALSE
  /\ UNCHANGED <<since, dup, lost>>

BurstAssign == Assign /\ UNCHANGED <<output, accounts>>
BurstLoad == Load /\ UNCHANGED <<output, accounts>>

BurstAdd ==
  /\ AddInPlace
  /\ since' = since + packet.len
  /\ UNCHANGED <<output, dup, again, lost, over>>

BurstStore ==
  /\ Store
  /\ since' = since + packet.len
  /\ dup' = dup + (packet.sum - packet.len) - tot_ippkt_len[packet.id]
  /\ UNCHANGED <<output, again, lost, over>>
--------------------------------------------------------------------------------
\* now is not initialised: a blank first line adds whatever it holds.
BurstInit ==
  /\ Init
  /\ noise = FALSE
  /\ parser \in [now : Unset, tot : {0}, byte : {0}]
  /\ since = 0 /\ dup = 0 /\ again = 0 /\ lost = 0 /\ over = FALSE

BurstNext ==
  \/ \E k \in Ports, n \in Payload : Counted(k, n)
  \/ \E k \in Ports, n \in Payload : CountedBadHlen(k, n)
  \/ \E k \in Ports, n \in Payload : CountedTruncated(k, n)
  \/ BurstAssign \/ BurstAdd \/ BurstLoad \/ BurstStore
  \/ NotIp
  \/ NotCounted
  \/ Signal

BurstSpec == BurstInit /\ [][BurstNext]_burstVars
--------------------------------------------------------------------------------
(***************************************************************************)
(* Properties                                                               *)
(***************************************************************************)
InCounts == MapThenSumSet(LAMBDA i : tot_ippkt_len[i], Stream)
ReceivedInAll == MapThenSumSet(LAMBDA i : received[i], Stream)

\* As long as no burst has overflowed the parser's int: every byte handle_IP has
\* counted is in a burst, in the burst being added up or in a count not yet printed,
\* unless its number was printed behind text; and beside these the bursts hold just
\* the bytes counted twice and what blank lines repeat, which is not even a number of
\* bytes when a blank line comes before any number.
EveryByteAccounted ==
  over \/ ReceivedInAll + dup + again = parser.byte + parser.tot + InCounts + lost

\* A burst ends on a readable number only after an interval in which no packet of
\* any stream was counted, wherever in handle_IP the signals came.
BurstEndsWhenQuiet ==
  [][Signal /\ ~noise /\ parser'.byte # parser.byte => since = 0]_burstVars
================================================================================
