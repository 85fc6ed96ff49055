----------------------------- MODULE PromotedRuns -----------------------------
(***************************************************************************)
(* The comparison along the life of a suite: candidates get better, worse, *)
(* crash or lose results from one run to the next, and a candidate that    *)
(* passes may be promoted and is what the next ones are compared with.     *)
(***************************************************************************)
EXTENDS Diff

CONSTANT Suites   \* the suites tried, accepted by the schema or not

ASSUME SuitesAssumption == Suites \subseteq Suite

VARIABLES suite, base, cand

vars == <<suite, base, cand>>

TypeOK == suite \in Suite /\ base \in Run /\ cand \in Run

AllRight == [c \in Cases |-> [error |-> FALSE, score |-> Full]]

\* A suite the schema refuses never reaches compare().
Init ==
  /\ suite \in {s \in Suites : Accepted(s)}
  /\ base \in [results: {AllRight}, backend: Origins \union {"unknown"}]
  /\ cand = base

SetResult(c, r) ==
  /\ cand' = [cand EXCEPT !.results = [x \in DOMAIN @ \union {c} |-> IF x = c THEN r ELSE @[x]]]
  /\ UNCHANGED <<suite, base>>

\* run_case turns an exception of the model or of a scorer into an error.
Crashes(c) ==
  \E s \in 0..Full : c \in DOMAIN cand.results /\ SetResult(c, [error |-> TRUE, score |-> s])

Worse(c) ==
  /\ c \in DOMAIN cand.results /\ ~cand.results[c].error
  /\ \E s \in 0..Full : s < cand.results[c].score /\ SetResult(c, [error |-> FALSE, score |-> s])

\* Mutant: the weighted sum of the scorers is not divided by the weights.
BetterUnnormalised(c) ==
  \E s \in 0..(Full + 1) : s > ScoreIn(cand, c) /\ SetResult(c, [error |-> FALSE, score |-> s])

Better(c) ==
  \E s \in 0..Full : s > ScoreIn(cand, c) /\ SetResult(c, [error |-> FALSE, score |-> s])

\* A run of a suite that lacks the case.
Missing(c) ==
  /\ cand' = [cand EXCEPT !.results = Restrict(@, DOMAIN @ \ {c})]
  /\ UNCHANGED <<suite, base>>

Moves(o) == cand' = [cand EXCEPT !.backend = o] /\ UNCHANGED <<suite, base>>

verdict == Verdict(suite, base, cand)

Promotes ==
  /\ verdict = "pass"
  /\ base' = cand /\ UNCHANGED <<suite, cand>>

Next ==
  \/ \E c \in Cases : Crashes(c) \/ Worse(c) \/ Better(c) \/ Missing(c)
  \/ \E o \in Origins \union {"unknown"} : Moves(o)
  \/ Promotes

Spec == Init /\ [][Next]_vars

(***************************************************************************)
(* Properties.                                                             *)
(***************************************************************************)
\* "An errored case scores 0 rather than being skipped, so a crashing model
\* cannot improve": no crash and no lower score turns a failing run into a
\* passing one, in any category and on any threshold.
CrashNeverHelps ==
  [][(\E c \in Cases : Crashes(c) \/ Worse(c)) /\ verdict # "pass" => verdict' # "pass"]_vars

\* A refusal "no aggregate should be allowed to average away": promoting only
\* what passes never gives up a case of a zero-tolerance category, one
\* comparison at a time or over many.
RefusalsRatchet ==
  [][\A k \in DOMAIN suite.zero_tolerance :
       suite.zero_tolerance[k] = 0 =>
         \A c \in OfCategory(Cases, k) : ScoreIn(base', c) >= ScoreIn(base, c)]_base

\* What the schema accepts as a tolerance tolerates something: where both runs
\* hold every case, one lost case does not breach a category threshold above 0.
AcceptedLimitsTolerateACase ==
  \A k \in DOMAIN suite.category_thresholds :
    LET t == suite.category_thresholds[k]
        S == OfCategory(Cases, k)
    IN  /\ DOMAIN base.results = Cases /\ DOMAIN cand.results = Cases
        /\ t.max_drop > 0 /\ t.min_score = 0
        /\ Cardinality(Regressed(base, cand, S)) <= 1
        => ~BreachesCategory(suite, base, cand, k)

\* The run that defines "good" passes the gate it is the baseline of, whatever
\* its errors and missing cases, unless it is below a floor.
Floors == {suite.threshold.min_score}
            \union {suite.category_thresholds[k].min_score : k \in DOMAIN suite.category_thresholds}
BaselinePassesItself == cand = base /\ Floors = {0} => verdict = "pass"
==============================================================================
