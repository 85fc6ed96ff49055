----------------------------- MODULE GoldenReview -----------------------------
(***************************************************************************)
(* The hand review of the golden cases: a threaded server on localhost     *)
(* that appends each judgment to a log and keeps the current ones in a map *)
(* all its threads read, the summary file, and the kill and restart of the *)
(* server between any two steps of a handler.                              *)
(***************************************************************************)
EXTENDS Naturals, Sequences, FiniteSets

CONSTANTS
  Order,       \* the cases of the manifest, in its order
  Handlers,    \* handler threads at work at once
  MaxRecords   \* bound: records in the log

ASSUME OrderAssumption ==
  /\ Len(Order) \in Nat \ {0} /\ DOMAIN Order = 1..Len(Order)
  /\ \A i, j \in DOMAIN Order : Order[i] = Order[j] => i = j
ASSUME MaxRecordsAssumption == MaxRecords \in Nat

VARIABLES
  log,         \* the verdict log, one record a line
  judgments,   \* the map of the server, of the cases judged so far
  server,      \* "down", "serving", or "closing" once interrupted
  lock,        \* is ReviewServer.lock held
  request,     \* what each thread is handling, and how far it has come
  told,        \* has a browser been sent to /summary: the review is over
  summary      \* the verdicts the summary file was computed from

reviewVars == <<log, judgments, server, lock, request, told, summary>>

ReviewCases == {Order[i] : i \in DOMAIN Order}
Verdicts == {"pass", "fail"}
Nothing == [c \in {} |-> "pass"]
Idle == [pc |-> "idle"]

\* load_judgments: the last record of a case wins.
Judged(l) == {l[i].case : i \in DOMAIN l}
LastFor(l, c) == CHOOSE i \in DOMAIN l : l[i].case = c /\ \A j \in DOMAIN l : l[j].case = c => j <= i
Current(l) == [c \in Judged(l) |-> l[LastFor(l, c)].verdict]

Put(f, c, v) == [x \in DOMAIN f \union {c} |-> IF x = c THEN v ELSE f[x]]

Positions == 1..(Len(Order) + 1)   \* of a scan of the cases, the end included

Judging == [pc : {"wait", "record", "publish"}, at : DOMAIN Order,
            verdict : Verdicts \union {"malformed"}]
Scanning == [pc : {"next", "first"}, at : Positions]
Summarising == [pc : {"summarise"}, at : Positions,
                seen : UNION {[S -> Verdicts] : S \in SUBSET ReviewCases}]

ReviewTypeOK ==
  /\ log \in Seq([case : ReviewCases, verdict : Verdicts])
  /\ DOMAIN judgments \subseteq ReviewCases
  /\ \A c \in DOMAIN judgments : judgments[c] \in Verdicts
  /\ server \in {"down", "serving", "closing"}
  /\ lock \in BOOLEAN /\ told \in BOOLEAN
  /\ request \in [Handlers -> {Idle} \union Judging \union Scanning \union Summarising]
  /\ DOMAIN summary \subseteq ReviewCases

ReviewInit ==
  /\ log = <<>> /\ judgments = Nothing /\ server = "down" /\ lock = FALSE
  /\ request = [t \in Handlers |-> Idle] /\ told = FALSE /\ summary = Nothing

Goes(t, r) == request' = [request EXCEPT ![t] = r]
NotYetJudged(at) == at <= Len(Order) /\ Order[at] \notin DOMAIN judgments

\* cmd_golden_review: the map starts as what the log says.
Serve ==
  /\ server = "down"
  /\ server' = "serving" /\ judgments' = Current(log)
  /\ UNCHANGED <<log, lock, request, told, summary>>

\* A judgment comes in; an unknown case is refused before any of this.
PostJudge(t) ==
  /\ server = "serving" /\ request[t] = Idle
  /\ \E i \in DOMAIN Order, v \in Verdicts \union {"malformed"} :
       Goes(t, [pc |-> "wait", at |-> i, verdict |-> v])
  /\ UNCHANGED <<log, judgments, server, lock, told, summary>>

\* Mutant: the log and the map are not written under one lock.
AcquireUnlocked(t) ==
  /\ request[t].pc = "wait"
  /\ Goes(t, [request[t] EXCEPT !.pc = "record"])
  /\ UNCHANGED <<log, judgments, server, lock, told, summary>>

Acquire(t) ==
  /\ request[t].pc = "wait" /\ ~lock
  /\ lock' = TRUE /\ Goes(t, [request[t] EXCEPT !.pc = "record"])
  /\ UNCHANGED <<log, judgments, server, told, summary>>

\* record raises on a malformed verdict: 400, and nothing is written.
Refuse(t) ==
  /\ request[t].pc = "record" /\ request[t].verdict = "malformed"
  /\ lock' = FALSE /\ Goes(t, Idle)
  /\ UNCHANGED <<log, judgments, server, told, summary>>

Record(t) ==
  LET r == request[t] IN
  /\ r.pc = "record" /\ r.verdict # "malformed" /\ Len(log) < MaxRecords
  /\ log' = Append(log, [case |-> Order[r.at], verdict |-> r.verdict])
  /\ Goes(t, [r EXCEPT !.pc = "publish"])
  /\ UNCHANGED <<judgments, server, lock, told, summary>>

Publish(t) ==
  LET r == request[t] IN
  /\ r.pc = "publish"
  /\ judgments' = Put(judgments, Order[r.at], r.verdict)
  /\ lock' = FALSE /\ Goes(t, [pc |-> "next", at |-> r.at + 1])
  /\ UNCHANGED <<log, server, told, summary>>

GetRoot(t) ==
  /\ server = "serving" /\ request[t] = Idle
  /\ Goes(t, [pc |-> "first", at |-> 1])
  /\ UNCHANGED <<log, judgments, server, lock, told, summary>>

\* _next_unjudged and first_unjudged look at one case after another, without
\* the lock: from the next one to the end, then all of them.
Redirect(t) ==
  LET r == request[t] IN
  /\ r.pc \in {"next", "first"} /\ NotYetJudged(r.at)
  /\ Goes(t, Idle)
  /\ UNCHANGED <<log, judgments, server, lock, told, summary>>

ScanOn(t) ==
  LET r == request[t] IN
  /\ r.pc \in {"next", "first"} /\ r.at <= Len(Order) /\ ~NotYetJudged(r.at)
  /\ Goes(t, [r EXCEPT !.at = @ + 1])
  /\ UNCHANGED <<log, judgments, server, lock, told, summary>>

\* Mutant: a scan that reached the end does not start over.
WrapAroundSkipped(t) ==
  /\ request[t].pc = "next" /\ request[t].at > Len(Order)
  /\ Goes(t, Idle) /\ told' = TRUE
  /\ UNCHANGED <<log, judgments, server, lock, summary>>

WrapAround(t) ==
  /\ request[t].pc = "next" /\ request[t].at > Len(Order)
  /\ Goes(t, [pc |-> "first", at |-> 1])
  /\ UNCHANGED <<log, judgments, server, lock, told, summary>>

RedirectToSummary(t) ==
  /\ request[t].pc = "first" /\ request[t].at > Len(Order)
  /\ Goes(t, Idle) /\ told' = TRUE
  /\ UNCHANGED <<log, judgments, server, lock, summary>>

GetSummary(t) ==
  /\ server = "serving" /\ request[t] = Idle
  /\ Goes(t, [pc |-> "summarise", at |-> 1, seen |-> Nothing])
  /\ UNCHANGED <<log, judgments, server, lock, told, summary>>

\* summarize reads the map case by case, while others may change it.
Summarise(t) ==
  LET r == request[t]
      c == Order[r.at]
  IN  /\ r.pc = "summarise" /\ r.at <= Len(Order)
      /\ Goes(t, [pc |-> "summarise", at |-> r.at + 1,
                  seen |-> IF c \in DOMAIN judgments THEN Put(r.seen, c, judgments[c])
                           ELSE r.seen])
      /\ UNCHANGED <<log, judgments, server, lock, told, summary>>

\* Mutant: the summary is written however many cases are unjudged.
WritePartialSummary(t) ==
  LET r == request[t] IN
  /\ r.pc = "summarise" /\ r.at > Len(Order)
  /\ summary' = r.seen
  /\ Goes(t, Idle)
  /\ UNCHANGED <<log, judgments, server, lock, told>>

WriteSummary(t) ==
  LET r == request[t] IN
  /\ r.pc = "summarise" /\ r.at > Len(Order)
  /\ summary' = IF DOMAIN r.seen = ReviewCases THEN r.seen ELSE summary
  /\ Goes(t, Idle)
  /\ UNCHANGED <<log, judgments, server, lock, told>>

\* Ctrl-C: no request is accepted any more, and the daemon threads go on until
\* the process ends.
Interrupt ==
  /\ server = "serving" /\ server' = "closing"
  /\ UNCHANGED <<log, judgments, lock, request, told, summary>>

ProcessEnds ==
  /\ server' = "down" /\ lock' = FALSE
  /\ request' = [t \in Handlers |-> Idle]
  /\ UNCHANGED <<log, judgments, told>>

Summarised == IF Judged(log) = ReviewCases THEN Current(log) ELSE summary

\* cmd_golden_summary ends the review command, and is a command of its own.
Close == server = "closing" /\ summary' = Summarised /\ ProcessEnds

SummaryCommand ==
  /\ summary' = Summarised
  /\ UNCHANGED <<log, judgments, server, lock, request, told>>

Kill == server # "down" /\ ProcessEnds /\ UNCHANGED summary

Handle(t) ==
  \/ PostJudge(t) \/ Acquire(t) \/ Refuse(t) \/ Record(t) \/ Publish(t)
  \/ GetRoot(t) \/ Redirect(t) \/ ScanOn(t) \/ WrapAround(t) \/ RedirectToSummary(t)
  \/ GetSummary(t) \/ Summarise(t) \/ WriteSummary(t)

ReviewNext ==
  \/ Serve \/ Interrupt \/ Close \/ SummaryCommand \/ Kill
  \/ \E t \in Handlers : Handle(t)

ReviewSpec == ReviewInit /\ [][ReviewNext]_reviewVars

(***************************************************************************)
(* Properties.                                                             *)
(***************************************************************************)
\* What the threads decide on is what a restart would read back: whenever
\* nobody holds the lock of do_POST, the map of a server that is up is the log
\* with its last record of each case, rejudgments in any order included.
MapIsTheLog == server # "down" /\ ~lock => judgments = Current(log)

\* The browser is sent to /summary only when the review is complete on disk: a
\* kill at any moment finds every case in the log, though do_GET and do_POST
\* scan the map without the lock while other threads judge.
SummaryMeansAllJudged == told => Judged(log) = ReviewCases

\* The summary file never has a pass rate over a part of the cases, and each
\* verdict in it is one the reviewer gave and the log still has, whichever of
\* the threads and commands that write it came last.
SummaryIsOfTheLog ==
  summary # Nothing =>
    \A c \in ReviewCases :
      /\ c \in DOMAIN summary
      /\ \E i \in DOMAIN log : log[i] = [case |-> c, verdict |-> summary[c]]
==============================================================================
