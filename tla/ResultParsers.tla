----------------------------- MODULE ResultParsers -----------------------------
(***************************************************************************)
(* The parsers of iperf3's output that benchmark/sender.sh runs:            *)
(* tcp_Retr.cpp and jitter.cpp.  Both count the header lines, the only ones *)
(* with a word "ID]", and print the ninth word of the lines they take for   *)
(* results.                                                                 *)
(*                                                                          *)
(* A line is its kind and the figure in its last column:                    *)
(*   "text", "dash": fewer than eight words, or "-" for the eighth;         *)
(*   "head":         [ ID] Interval ...;                                    *)
(*   "local":        [  5] local ... connected to ...;                      *)
(*   "row":          [  5] ..., the id being a word of its own;             *)
(*   "wide", "sum":  [100] ... and [SUM] ..., which are one word shorter.   *)
(***************************************************************************)
EXTENDS Integers, SequencesExt

\* What a variable holds that was never assigned, and a figure of the column
\* after the retransmissions: neither is a retransmission number.
Garbage == -1
Cwnd == -2

\* Lines that have an eighth word.
Long == {"local", "row", "wide", "sum"}

\* The ninth word, as int.  There is none on a SUM line and ans stays as it was.
NinthInt(l) == CASE l.kind = "sum" -> Garbage [] l.kind = "wide" -> Cwnd [] OTHER -> l.val

\* As double: the word of the shorter lines is "ms" and is read as 0.
NinthDouble(l) == IF l.kind \in {"wide", "sum"} THEN 0 ELSE l.val

\* Plausible bug: id is set by a header line and never cleared.
MutRetrLine(p, l) ==
  CASE l.kind = "head"             -> [p EXCEPT !.id = TRUE]
    [] l.kind \in Long /\ p.id -> [p EXCEPT !.out = Append(@, NinthInt(l))]
    [] OTHER                       -> p

\* The body of the loop of tcp_Retr.cpp: a header line turns printing on or off.
RetrLine(p, l) ==
  CASE l.kind = "head"             -> [p EXCEPT !.id = ~@]
    [] l.kind \in Long /\ p.id -> [p EXCEPT !.out = Append(@, NinthInt(l))]
    [] OTHER                       -> p

Retr(lines) == FoldLeft(RetrLine, [id |-> FALSE, out |-> << >>], lines).out

\* The body of the loop of jitter.cpp: the lines after the second header.
JitterLine(p, l) ==
  CASE l.kind = "head"                           -> [p EXCEPT !.id = @ + 1]
    [] l.kind \in Long /\ p.id = 2 -> [p EXCEPT !.out = Append(@, NinthDouble(l))]
    [] OTHER                                     -> p

Jitter(lines) == FoldLeft(JitterLine, [id |-> 0, out |-> << >>], lines).out
================================================================================
