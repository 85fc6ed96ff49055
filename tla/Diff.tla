--------------------------------- MODULE Diff ---------------------------------
(***************************************************************************)
(* The comparison of two runs and its verdict: evalcore.diff.compare over  *)
(* the suites schema.py accepts.                                           *)
(*                                                                         *)
(* A case scores 0..Full; limits are counted in units of 1/Unit.  Means    *)
(* are exact fractions <<n, d>>: the code's tolerance of 1e-9 stands for   *)
(* the rounding that exact arithmetic does not have.                       *)
(***************************************************************************)
EXTENDS Integers, FiniteSets, Functions

CONSTANTS
  Cases, Categories, CategoryOf,  \* the golden suite
  Full,                           \* the score of a case that is fully right
  Unit,                           \* thresholds are multiples of 1/Unit
  Origins                         \* backends and builds a run may declare

ASSUME DiffAssumption ==
  /\ IsFiniteSet(Cases) /\ CategoryOf \in [Cases -> Categories]
  /\ Full \in Nat \ {0} /\ Unit \in Nat \ {0}
  /\ "unknown" \notin Origins

(***************************************************************************)
(* Suites.  A min_score of 0 is no floor.                                  *)
(***************************************************************************)
Threshold == [max_drop: 0..Unit, min_score: 0..Unit]

PartialFunctions(S, T) == UNION {[D -> T] : D \in SUBSET S}

Suite == [threshold: Threshold,
          category_thresholds: PartialFunctions(Categories, Threshold),
          zero_tolerance: PartialFunctions(Categories, 0..Cardinality(Cases))]

OfCategory(S, k) == {c \in S : CategoryOf[c] = k}

\* Mutant: the quantum of the category is not looked at.
AcceptedWithoutQuantum(s) ==
  DOMAIN s.category_thresholds \intersect DOMAIN s.zero_tolerance = {}

\* Suite._check: one rule per category, and no limit below its quantum.
Accepted(s) ==
  /\ DOMAIN s.category_thresholds \intersect DOMAIN s.zero_tolerance = {}
  /\ \A k \in DOMAIN s.category_thresholds :
       LET n == Cardinality(OfCategory(Cases, k))
           d == s.category_thresholds[k].max_drop
       IN  n > 0 /\ d > 0 => d * n >= Unit

ThresholdFor(s, k) ==
  IF k \in DOMAIN s.category_thresholds THEN s.category_thresholds[k] ELSE s.threshold

(***************************************************************************)
(* Runs.                                                                   *)
(***************************************************************************)
CaseResult == [error: BOOLEAN, score: 0..Full]
Run == [results: PartialFunctions(Cases, CaseResult),
        backend: Origins \union {"unknown"}]

\* CaseResult.score: an errored case scores 0.
CaseScore(r) == IF r.error THEN 0 ELSE r.score

ScoreIn(run, c) == IF c \in DOMAIN run.results THEN CaseScore(run.results[c]) ELSE 0

Mean(run, S) ==
  IF S = {} THEN <<0, 1>>
  ELSE <<SumFunctionOnSet([c \in S |-> ScoreIn(run, c)], S), Full * Cardinality(S)>>

\* Mutant: errored cases are skipped.
ScoreOfAnswered(run) == Mean(run, {c \in DOMAIN run.results : ~run.results[c].error})

\* RunResult.score: over the run's own results.
Score(run) == Mean(run, DOMAIN run.results)

(***************************************************************************)
(* compare().                                                              *)
(***************************************************************************)
Comparable(base, cand) ==
  "unknown" \in {base.backend, cand.backend} \/ base.backend = cand.backend

\* Mutant: a drop of exactly the limit breaches.
BreachesAtLimit(base, cand, t) ==
  \/ Unit * (base[1] * cand[2] - cand[1] * base[2]) >= t.max_drop * base[2] * cand[2]
  \/ Unit * cand[1] < t.min_score * cand[2]

\* _check: two means against a threshold.
BreachesThreshold(base, cand, t) ==
  \/ Unit * (base[1] * cand[2] - cand[1] * base[2]) > t.max_drop * base[2] * cand[2]
  \/ Unit * cand[1] < t.min_score * cand[2]

Compared(base, cand) == DOMAIN base.results \union DOMAIN cand.results
Regressed(base, cand, S) == {c \in S : ScoreIn(cand, c) < ScoreIn(base, c)}

\* Mutant: a zero-tolerance category is judged by its mean.
BreachesOnMean(s, base, cand, k) ==
  LET S == OfCategory(Compared(base, cand), k)
  IN  S # {} /\ BreachesThreshold(Mean(base, S), Mean(cand, S), ThresholdFor(s, k))

\* One category: by the number of regressed cases, or by its means over the
\* cases of either run.
BreachesCategory(s, base, cand, k) ==
  LET S == OfCategory(Compared(base, cand), k)
  IN  /\ S # {}
      /\ IF k \in DOMAIN s.zero_tolerance
         THEN Cardinality(Regressed(base, cand, S)) > s.zero_tolerance[k]
         ELSE BreachesThreshold(Mean(base, S), Mean(cand, S), ThresholdFor(s, k))

Verdict(s, base, cand) ==
  IF ~Comparable(base, cand) THEN "refused"
  ELSE IF \/ BreachesThreshold(Score(base), Score(cand), s.threshold)
          \/ \E k \in Categories : BreachesCategory(s, base, cand, k)
       THEN "fail" ELSE "pass"
==============================================================================
