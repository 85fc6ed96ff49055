----------------------------- MODULE DailyVerdict -----------------------------
(***************************************************************************)
(* The file latest.json as its readers see it: what publish_latest promises *)
(* and what GET /daily/latest and check-daily make of it.  DailyGate shows *)
(* that the DAG writes it this way; PrGate composes it with the workflow   *)
(* that reads it.                                                          *)
(*                                                                         *)
(* age is now - completed_at.  The readers only compare it with MaxAge, so *)
(* it stops growing just above.                                            *)
(***************************************************************************)
EXTENDS Naturals

CONSTANT MaxAge   \* MAX_DAILY_AGE_H

ASSUME VerdictAssumption == MaxAge \in Nat

VARIABLE latest

Verdict == {"pass", "fail", "unknown"}

LatestOK ==
  latest \in [file: {"absent", "torn", "ok"}, verdict: Verdict, age: 0..(MaxAge + 1)]

NoLatest == [file |-> "absent", verdict |-> "unknown", age |-> 0]

Init == latest = NoLatest

(* Path.write_text: truncate, then write.  A crash in between leaves a file *)
(* that does not parse.                                                     *)
Truncate ==
  \E v \in Verdict : latest' = [file |-> "torn", verdict |-> v, age |-> 0]

Write == latest.file = "torn" /\ latest' = [latest EXCEPT !.file = "ok"]

Older(l) ==
  IF l.file = "absent" \/ l.age > MaxAge THEN l ELSE [l EXCEPT !.age = @ + 1]

Age == latest' = Older(latest)

Next == Truncate \/ Write \/ Age

Spec == Init /\ [][Next]_latest

(***************************************************************************)
(* The readers.                                                            *)
(***************************************************************************)
\* GET /daily/latest answers with the payload of a file that parses and has
\* completed_at, and with 503 otherwise.
Served(l) == l.file = "ok"

\* Mutant: only the verdict is checked.
CheckVerdictOnly(l) == l.verdict = "pass"

\* evalgate-eval check-daily: both conditions, or exit 1.
CheckDaily(l) == l.age <= MaxAge /\ l.verdict = "pass"

Allows(l) == Served(l) /\ CheckDaily(l)
==============================================================================
