------------------------------- MODULE MCEvalApi -------------------------------
(* Small instance of EvalApi: a branch of each of two suites, and the          *)
(* comparison of Diff over runs of a single case.                              *)
EXTENDS EvalApi, Naturals, TLC

MCBranches == {[suite |-> "s1", branch |-> "main"], [suite |-> "s2", branch |-> "main"]}

D == INSTANCE Diff WITH Cases <- {"x"}, Categories <- {"k"}, CategoryOf <- [c \in {"x"} |-> "k"],
                        Full <- 2, Unit <- 2, Origins <- {"cpu"}

OneCase(s) == [results |-> [c \in {"x"} |-> [error |-> FALSE, score |-> s]], backend |-> "cpu"]
Drop(d) == [threshold |-> [max_drop |-> d, min_score |-> 0],
            category_thresholds |-> [k \in {} |-> 0], zero_tolerance |-> [k \in {} |-> 0]]

MCMeasurements == {OneCase(s) : s \in 1..2}
MCRules == {Drop(0), Drop(1)}
MCCompare(s, b, c) == D!Verdict(s, b, c)

Of(s, n) == [suite |-> s, content |-> OneCase(n)]

\* A run_id is posted again with another measurement, as a rerun of one night's DAG
\* does; of the other suite there is none.
MCPosts == "r1" :> {Of("s1", 1), Of("s1", 2)} @@ "r2" :> {Of("s1", 2)}
==============================================================================
