----------------------------- MODULE MCComponents -----------------------------
(* Small instances of the components that share no state and no process with  *)
(* each other: one of them runs, the others stay at their initial state.      *)
EXTENDS PromotedRuns, SuiteRun, GoldenReview, CorpusParse, CorpusEmbed,
        Allocation, Questions, RetryApply, TLC

(* PromotedRuns: an answering category of two cases, whose quantum is two     *)
(* quarters, and a refusing one of one case.                                  *)
MCCases == {"a1", "a2", "r1"}
MCCategoryOf == [c \in MCCases |-> IF c = "r1" THEN "refuse" ELSE "answer"]
T(d, m) == [max_drop |-> d, min_score |-> m]
None == [k \in {} |-> 0]
RefuseNone == <<None, "refuse" :> 0>>
LoseOne == <<"answer" :> T(2, 0), "refuse" :> 0>>
Rules == {<<"answer" :> T(1, 0), "refuse" :> 0>>, LoseOne, <<"refuse" :> T(2, 1), None>>}
MCSuites ==
  {[threshold |-> r[1], category_thresholds |-> r[2][1], zero_tolerance |-> r[2][2]] :
     r \in ({T(4, 0)} \X Rules) \union ({T(0, 0)} \X {RefuseNone, LoseOne})}

(* SuiteRun: a case a rule and the judge score, and one of the judge alone.   *)
MCSuiteCases == <<"c1", "c2">>
MCScorersOf == [c \in {"c1", "c2"} |-> IF c = "c1" THEN <<"rule", "judge">> ELSE <<"judge">>]

(* GoldenReview *)
MCOrder == <<"g1", "g2">>

(* Questions: a leaking question, two with one text, two cells.               *)
Question(id, cell, text, leaks) == [id |-> id, cell |-> cell, text |-> text, leaks |-> leaks]
MCGenerated ==
  {Question(1, "adv", 1, TRUE), Question(2, "adv", 2, FALSE), Question(3, "adv", 3, FALSE),
   Question(4, "adv", 2, FALSE), Question(5, "fact", 3, FALSE)}
MCTarget == "adv" :> 2 @@ "fact" :> 2
MCOvershoot == "adv" :> 17 @@ "fact" :> 14

----------------------------------------------------------------------------
VARIABLE component   \* the one that runs

Components == {"promoted_runs", "suite_run", "golden_review", "corpus_parse",
               "corpus_embed", "allocation", "questions", "retry_apply"}

(* Where several initial states are, only the component that runs has them.   *)
ComponentsInit ==
  /\ component \in Components
  /\ Init /\ RunInit /\ ReviewInit /\ ParseInit
  /\ CorpusInit /\ AllocationInit /\ QuestionsInit /\ RetryInit
  /\ component # "promoted_runs" =>
       /\ suite = CHOOSE s \in Suites : Accepted(s)
       /\ base.backend = "unknown"
  /\ component # "corpus_parse" => headings[1] = NoHeading

RunsAlone(c) ==
  /\ component = c /\ component' = c
  /\ IF c = "promoted_runs" THEN Next ELSE UNCHANGED vars
  /\ IF c = "suite_run" THEN RunNext ELSE UNCHANGED runVars
  /\ IF c = "golden_review" THEN ReviewNext ELSE UNCHANGED reviewVars
  /\ IF c = "corpus_parse" THEN ParseNext ELSE UNCHANGED parseVars
  /\ IF c = "corpus_embed" THEN CorpusNext ELSE UNCHANGED corpusVars
  /\ IF c = "allocation" THEN AllocationNext ELSE UNCHANGED allocationVars
  /\ IF c = "questions" THEN QuestionsNext ELSE UNCHANGED questionVars
  /\ IF c = "retry_apply" THEN RetryNext ELSE UNCHANGED retryVars

ComponentsNext == \E c \in Components : RunsAlone(c)

ComponentsSpec ==
  ComponentsInit /\ [][ComponentsNext]_<<component, vars, runVars, reviewVars, parseVars,
                                         corpusVars, allocationVars, questionVars, retryVars>>

(* No liveness property is checked under it.                                  *)
Symmetry == Permutations(Outputs) \union Permutations(Handlers)

(* The component that runs keeps its types.                                   *)
TypesOK ==
  CASE component = "promoted_runs" -> TypeOK
    [] component = "suite_run" -> RunTypeOK
    [] component = "golden_review" -> ReviewTypeOK
    [] component = "corpus_parse" -> ParseTypeOK
    [] component = "corpus_embed" -> CorpusTypeOK
    [] component = "questions" -> QuestionsTypeOK
    [] component = "retry_apply" -> RetryTypeOK
    [] component = "allocation" -> AllocationTypeOK
==============================================================================
