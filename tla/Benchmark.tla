------------------------------- MODULE Benchmark -------------------------------
(***************************************************************************)
(* The benchmark of benchmark/sender.sh.  A run of the script starts three  *)
(* tools in the background, each under a timeout, sleeps for a time that    *)
(* should outlast them, and turns the files they left in the working        *)
(* directory into a directory of results.                                   *)
(*                                                                          *)
(* timeout puts each tool in a process group of its own, so the interrupt   *)
(* that ends the script leaves them running, beside the next run's and on   *)
(* the same files.  Time is in ticks that keep the order of the script's    *)
(* durations: 30 s for iperf3's test, 31, 35 and 45 s.                      *)
(***************************************************************************)
EXTENDS FiniteSets, ResultParsers

CONSTANTS Tests,        \* calls of the script: [proto, streams, dir]
          MaxRuns,      \* bound on the number of runs
          TwoDigit,     \* streams of a run whose ids are below 100
          TestTime,     \* -t of the iperf command (30)
          IperfLimit,   \* timeout of iperf3 (31)
          ToolLimit,    \* timeout of speed and of tcpdump (35)
          SleepTime,    \* the script's sleep (45)
          MaxDelay      \* bound on the time a background tool takes to start

ASSUME TestsAssumption ==
  {MaxRuns, TwoDigit} \subseteq Nat /\ \A c \in Tests : c.streams \in Nat \ {0}

ASSUME TimeAssumption ==
  /\ {TestTime, IperfLimit, ToolLimit, SleepTime} \subseteq Nat \ {0} /\ MaxDelay \in Nat
  /\ TestTime < IperfLimit /\ IperfLimit <= ToolLimit
  /\ MaxDelay + ToolLimit < SleepTime

Tool == {"iperf", "speed", "tcpdump"}
Run == 1..MaxRuns

VARIABLES
  calls,        \* the runs started, by their test
  script,       \* the last of them: its next command, and the time left to sleep
  proc,         \* per run and tool: its process
  file,         \* the files of the working directory
  results,      \* per directory: the files moved there, and by which run
  \* History variable: no other variable depends on it.
  alone         \* the runs that began when no tool of another was alive

benchVars == <<calls, script, proc, file, results, alone>>

run == Len(calls)
test == calls[run]

NoFile == [made |-> FALSE, data |-> << >>]
File(d) == [made |-> TRUE, data |-> d]
Names == {"iperf_send", "speed_data", "send_pcap", "latency", "retr", "jitter"}

Output(t) == CASE t = "iperf" -> "iperf_send" [] t = "speed" -> "speed_data"
               [] t = "tcpdump" -> "send_pcap"
Parsed(c) == IF c.proto = "TCP" THEN "retr" ELSE "jitter"

Off == [st |-> "off", left |-> 0]
Alive(p) == p.st \in {"starting", "running", "hung"}
--------------------------------------------------------------------------------
(***************************************************************************)
(* What iperf3 prints, each line tagged with its run.                       *)
(***************************************************************************)
Line(k, v, r) == [kind |-> k, val |-> v, run |-> r]
Opening(n, r) == <<Line("text", 0, r)>> \o [i \in 1..n |-> Line("local", 0, r)]
                   \o <<Line("head", 0, r)>>
Rows(n, v, r) == [i \in 1..n |-> Line(IF i <= TwoDigit THEN "row" ELSE "wide", v, r)]
                     \o (IF n > 1 THEN <<Line("sum", v, r)>> ELSE << >>)
Summary(n, r) == <<Line("dash", 0, r), Line("head", 0, r)>> \o Rows(n, TestTime + 1, r)

\* Several streams' intervals, but the first, are set apart by a line of dashes.
Interval(n, v, r) ==
  (IF n > 1 /\ v # TestTime THEN <<Line("dash", 0, r)>> ELSE << >>) \o Rows(n, v, r)

\* Two processes on one file write over one another: what they leave is a text
\* no property says anything of.
Shared(t, r) == \E s \in Run \ {r} : proc[s][t].st \in {"running", "hung"}
Written(f, t, r, d) ==
  [f EXCEPT ![Output(t)].data = IF Shared(t, r) THEN <<Line("text", 0, r)>> ELSE @ \o d]
--------------------------------------------------------------------------------
(***************************************************************************)
(* The tools                                                                *)
(***************************************************************************)
Launch(t, r) == IF t = "iperf" THEN Opening(calls[r].streams, r) ELSE << >>

\* Plausible bug: >> for >.
MutStart(t, r) ==
  /\ proc[r][t].st = "starting"
  /\ proc' = [proc EXCEPT ![r][t] =
       [st |-> "running", left |-> IF t = "iperf" THEN TestTime ELSE ToolLimit]]
  /\ file' = [file EXCEPT ![Output(t)] = File(@.data \o Launch(t, r))]
  /\ UNCHANGED <<calls, script, results, alone>>

\* The tool starts, and its file is created or emptied.
Start(t, r) ==
  /\ proc[r][t].st = "starting"
  /\ proc' = [proc EXCEPT ![r][t] =
       [st |-> "running", left |-> IF t = "iperf" THEN TestTime ELSE ToolLimit]]
  /\ file' = [file EXCEPT ![Output(t)] = File(Launch(t, r))]
  /\ UNCHANGED <<calls, script, results, alone>>

\* It starts and gives up.  iperf3's file has been emptied by the shell, and
\* speed opens its own before the device; tcpdump touches none.
StartFails(t, r) ==
  /\ proc[r][t].st = "starting"
  /\ proc' = [proc EXCEPT ![r][t] = [st |-> "failed", left |-> 0]]
  /\ file' = IF t = "tcpdump" THEN file ELSE [file EXCEPT ![Output(t)] = File(<< >>)]
  /\ UNCHANGED <<calls, script, results, alone>>

\* iperf3's test is over: it prints its summary and exits,
IperfEnds(r) ==
  /\ proc[r]["iperf"] = [st |-> "running", left |-> 0]
  /\ proc' = [proc EXCEPT ![r]["iperf"].st = "done"]
  /\ file' = Written(file, "iperf", r, Summary(calls[r].streams, r))
  /\ UNCHANGED <<calls, script, results, alone>>

\* or goes on waiting for the receiver, until its timeout ends it.
IperfHangs(r) ==
  /\ proc[r]["iperf"] = [st |-> "running", left |-> 0]
  /\ proc' = [proc EXCEPT ![r]["iperf"] = [st |-> "hung", left |-> IperfLimit - TestTime]]
  /\ UNCHANGED <<calls, script, file, results, alone>>

\* timeout ends the tool.  iperf3 may print its summary on the signal; speed
\* has flushed each of its lines.
TimedOut(t, r) ==
  /\ proc[r][t].left = 0
  /\ proc[r][t].st = IF t = "iperf" THEN "hung" ELSE "running"
  /\ proc' = [proc EXCEPT ![r][t].st = "killed"]
  /\ \/ UNCHANGED file
     \/ t = "iperf" /\ file' = Written(file, t, r, Summary(calls[r].streams, r))
  /\ UNCHANGED <<calls, script, results, alone>>
--------------------------------------------------------------------------------
(***************************************************************************)
(* Time: each running tool adds the figure of the tick to its file.  No two  *)
(* ticks have the same figure.                                              *)
(***************************************************************************)
Figure(t, r) == LET v == proc[r][t].left IN
  IF t = "iperf" THEN Interval(calls[r].streams, v, r) ELSE <<Line("data", v, r)>>

\* Plausible bug: the time left to sleep is not bounded below.
MutTick ==
  /\ \E r \in Run, t \in Tool : Alive(proc[r][t])
  /\ \A r \in Run, t \in Tool : Alive(proc[r][t]) => proc[r][t].left > 0
  /\ proc' = [r \in Run |-> [t \in Tool |->
                IF Alive(proc[r][t]) THEN [proc[r][t] EXCEPT !.left = @ - 1] ELSE proc[r][t]]]
  /\ file' = FoldSet(LAMBDA p, f : Written(f, p[2], p[1], Figure(p[2], p[1])), file,
                     {p \in Run \X Tool : proc[p[1]][p[2]].st = "running"})
  /\ script' = [script EXCEPT !.left = @ - 1]
  /\ UNCHANGED <<calls, results, alone>>

\* A tool that takes its whole time to start, or is due to end, does so now.
Tick ==
  /\ script.left > 0 \/ \E r \in Run, t \in Tool : Alive(proc[r][t])
  /\ \A r \in Run, t \in Tool : Alive(proc[r][t]) => proc[r][t].left > 0
  /\ proc' = [r \in Run |-> [t \in Tool |->
                IF Alive(proc[r][t]) THEN [proc[r][t] EXCEPT !.left = @ - 1] ELSE proc[r][t]]]
  /\ file' = FoldSet(LAMBDA p, f : Written(f, p[2], p[1], Figure(p[2], p[1])), file,
                     {p \in Run \X Tool : proc[p[1]][p[2]].st = "running"})
  /\ script' = [script EXCEPT !.left = IF @ > 0 THEN @ - 1 ELSE 0]
  /\ UNCHANGED <<calls, results, alone>>
--------------------------------------------------------------------------------
(***************************************************************************)
(* The script, one command after the other                                  *)
(***************************************************************************)
At(pc) == script.pc = pc /\ script.left = 0
GoTo(pc) == script' = [script EXCEPT !.pc = pc]

\* Plausible bug: the script sleeps no longer than the test takes.
MutBegin(c) ==
  /\ At("idle") /\ run < MaxRuns
  /\ calls' = Append(calls, c)
  /\ script' = [pc |-> "tshark", left |-> TestTime]
  /\ proc' = [proc EXCEPT ![run + 1] = [t \in Tool |-> [st |-> "starting", left |-> MaxDelay]]]
  /\ alone' = IF \E r \in Run, t \in Tool : Alive(proc[r][t]) THEN alone
              ELSE alone \cup {run + 1}
  /\ UNCHANGED <<file, results>>

\* (iperf3 &); (testspeed &); (latency &) and sleep 45.
Begin(c) ==
  /\ At("idle") /\ run < MaxRuns
  /\ calls' = Append(calls, c)
  /\ script' = [pc |-> "tshark", left |-> SleepTime]
  /\ proc' = [proc EXCEPT ![run + 1] = [t \in Tool |-> [st |-> "starting", left |-> MaxDelay]]]
  /\ alone' = IF \E r \in Run, t \in Tool : Alive(proc[r][t]) THEN alone
              ELSE alone \cup {run + 1}
  /\ UNCHANGED <<file, results>>

\* tshark reads whatever send.pcap there is.
Tshark ==
  /\ At("tshark") /\ GoTo("parse")
  /\ file' = [file EXCEPT !["latency"] = File(file["send_pcap"].data)]
  /\ UNCHANGED <<calls, proc, results, alone>>

ParseOutput ==
  /\ At("parse") /\ GoTo("replace")
  /\ LET lines == file["iperf_send"].data IN
     file' = [file EXCEPT ![Parsed(test)] =
                File(IF test.proto = "TCP" THEN Retr(lines) ELSE Jitter(lines))]
  /\ UNCHANGED <<calls, proc, results, alone>>

\* rm -rf and mkdir: the results of an earlier run are gone.
Replace ==
  /\ At("replace") /\ GoTo("move")
  /\ results' = [results EXCEPT ![test.dir] = [by |-> run, file |-> [n \in Names |-> NoFile]]]
  /\ UNCHANGED <<calls, proc, file, alone>>

Mv(names) ==
  /\ results' = [results EXCEPT ![test.dir].file =
                   [n \in Names |-> IF n \in names /\ file[n].made THEN file[n] ELSE @[n]]]
  /\ file' = [n \in Names |-> IF n \in names THEN NoFile ELSE file[n]]
  /\ UNCHANGED <<calls, proc, alone>>

\* mv reports the cpu.txt nothing has made, and moves the others.
Move == At("move") /\ GoTo("move_parsed") /\ Mv({"iperf_send", "latency", "speed_data"})
MoveParsed == At("move_parsed") /\ GoTo("clean") /\ Mv({Parsed(test)})

\* rm *.txt; send.pcap makes the test for .cap true, and *.cap is not its name.
Clean ==
  /\ At("clean") /\ GoTo("idle")
  /\ file' = [n \in Names |-> IF n = "send_pcap" THEN file[n] ELSE NoFile]
  /\ UNCHANGED <<calls, proc, results, alone>>

\* The user stops the script, and its files stay.
Interrupt ==
  /\ script.pc # "idle"
  /\ script' = [pc |-> "idle", left |-> 0]
  /\ UNCHANGED <<calls, proc, file, results, alone>>
--------------------------------------------------------------------------------
Dirs == {c.dir : c \in Tests}

BenchInit ==
  /\ calls = << >>
  /\ script = [pc |-> "idle", left |-> 0]
  /\ proc = [r \in Run |-> [t \in Tool |-> Off]]
  /\ file = [n \in Names |-> NoFile]
  /\ results = [d \in Dirs |-> [by |-> 0, file |-> [n \in Names |-> NoFile]]]
  /\ alone = {}

BenchNext ==
  \/ \E c \in Tests : Begin(c)
  \/ \E r \in Run, t \in Tool : Start(t, r) \/ StartFails(t, r) \/ TimedOut(t, r)
  \/ \E r \in Run : IperfEnds(r) \/ IperfHangs(r)
  \/ Tick
  \/ Tshark \/ ParseOutput \/ Replace \/ Move \/ MoveParsed \/ Clean \/ Interrupt

BenchSpec == BenchInit /\ [][BenchNext]_benchVars
--------------------------------------------------------------------------------
(***************************************************************************)
(* Properties                                                               *)
(***************************************************************************)
\* Every variable has its type.
BenchTypeOK ==
  /\ calls \in Seq(Tests) /\ run <= MaxRuns
  /\ script.pc \in {"idle", "tshark", "parse", "replace", "move", "move_parsed", "clean"}
  /\ script.left \in 0..SleepTime
  /\ \A r \in Run, t \in Tool :
       /\ proc[r][t].st \in {"off", "starting", "running", "hung", "done", "failed", "killed"}
       /\ proc[r][t].left \in 0..SleepTime
  /\ \A n \in Names : file[n].made \in BOOLEAN /\ (file[n].made \/ file[n].data = << >>)
  /\ \A d \in Dirs : results[d].by \in 0..run
  /\ alone \subseteq 1..run

\* The directories of runs nothing else ran beside.
Sound == {d \in Dirs : results[d].by \in alone}
Kept(d, n) == results[d].file[n].data
Ended(d, t) == proc[results[d].by][t].st

\* Whatever earlier runs were interrupted, and wherever, the tools' output in a
\* directory of results is that of the run that made it.  The latencies are the
\* exception when that run's tcpdump did not start: send.pcap is never removed.
OwnResults ==
  \A d \in Sound :
    \A n \in {"iperf_send", "speed_data", "latency"} :
      \A i \in DOMAIN Kept(d, n) :
        \/ Kept(d, n)[i].run = results[d].by
        \/ n = "latency" /\ Ended(d, "tcpdump") = "failed"

\* Headers up to line i: one before the intervals, a second before the summary.
Headers(lines, i) == Cardinality({j \in 1..i : lines[j].kind = "head"})

\* The sleep outlasts every tool: a file that was moved is whole.
ResultsComplete ==
  \A d \in Sound :
    /\ results[d].file["iperf_send"].made /\ Ended(d, "iperf") # "failed" =>
         /\ ~Alive(proc[results[d].by]["iperf"])
         /\ Ended(d, "iperf") = "done" =>
              Headers(Kept(d, "iperf_send"), Len(Kept(d, "iperf_send"))) = 2
    /\ \A t \in {"speed", "tcpdump"} :
         LET n == IF t = "speed" THEN "speed_data" ELSE "latency" IN
         results[d].file[n].made /\ Ended(d, t) # "failed" =>
           Len(Kept(d, n)) = ToolLimit

\* The results iperf printed after the n-th header.
Results(lines, n) ==
  FlattenSeq([i \in 1..Len(lines) |->
                IF lines[i].kind \in {"row", "wide", "sum"} /\ Headers(lines, i) = n
                THEN <<lines[i]>> ELSE << >>])

\* A figure for each result, in its place.  Nothing is said of the figures of
\* the SUM rows and of the streams whose ids have three digits.
InPlace(figures, rows) ==
  /\ Len(figures) = Len(rows)
  /\ \A i \in DOMAIN rows : rows[i].kind = "row" => figures[i] = rows[i].val

\* The parsed figures are those of the iperf output beside them: tcp_Retr's of
\* the intervals, jitter's of the summary, with the exceptions above.
ParsedFaithfully ==
  \A d \in Sound :
    /\ results[d].file["retr"].made =>
         InPlace(Kept(d, "retr"), Results(Kept(d, "iperf_send"), 1))
    /\ results[d].file["jitter"].made =>
         InPlace(Kept(d, "jitter"), Results(Kept(d, "iperf_send"), 2))

\* benchmark/test/README.md: retr.txt holds retransmission numbers.  It does not:
\* tcp_Retr prints a variable it never set for a SUM row, and the congestion
\* window of a stream whose id has three digits.
RetrIsRetransmissions ==
  \A d \in Sound : \A i \in DOMAIN Kept(d, "retr") :
    \E row \in ToSet(Results(Kept(d, "iperf_send"), 1)) : Kept(d, "retr")[i] = row.val
================================================================================
