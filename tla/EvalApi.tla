-------------------------------- MODULE EvalApi --------------------------------
(***************************************************************************)
(* The EvalGate API over PostgresStore: suites, runs and the baseline      *)
(* table, behind handlers that run in a thread pool.  A handler is a       *)
(* sequence of database statements; each get_ or put_ is a transaction of  *)
(* its own and promote is one transaction at READ COMMITTED, so another    *)
(* request's commit may fall between any two of them.                      *)
(*                                                                         *)
(* What a run or a suite contains matters only to Compare.                 *)
(***************************************************************************)
EXTENDS FiniteSets

CONSTANTS
  Branches,    \* the (suite, branch) pairs baselines are kept for
  Rules,       \* contents a suite may be registered with
  RunIds,
  Measurements,      \* what a RunResult measured
  Posts,       \* the bodies clients post under a run_id
  Clients,     \* requests in flight at a time
  Compare(_, _, _),  \* compare(suite, baseline, candidate): verdict or BackendMismatch
  None               \* no row, or nothing read yet

SuiteIds == {k.suite : k \in Branches}
Body == [suite: SuiteIds, content: Measurements]
GateVerdicts == {"pass", "fail", "refused"}

ASSUME ApiAssumption ==
  /\ \A k \in Branches : DOMAIN k = {"suite", "branch"}
  /\ Branches # {} /\ RunIds # {}
  /\ Posts \in [RunIds -> SUBSET Body]
  /\ \A s \in Rules, b, c \in Measurements : Compare(s, b, c) \in GateVerdicts
  /\ None \notin Body \union Rules \union GateVerdicts
  /\ None \notin [run: RunIds, score: Measurements]
                \union [key: Branches, run: RunIds, score: Measurements]
ASSUME NoBaselineAssumption == None # "no baseline"

VARIABLES
  suites,     \* suite_id -> body
  runs,       \* run_id -> body
  baselines,  \* (suite_id, branch) -> run_id and score; the score column is the
              \* content it is computed from
  req         \* the requests being handled

apiVars == <<suites, runs, baselines, req>>

Baseline == [run: RunIds, score: Measurements]

(* A request, what its handler has read, and, of a gate request, the rules, *)
(* the baselines and the rows of runs there were since it arrived.          *)
Request ==
  [at: {"idle", "put_run", "upsert", "get_suite", "get_base", "get_cand", "answered"},
   key: Branches, run: RunIds, body: Body \union {None},
   rules: Rules \union {None}, base: Baseline \union {None}, content: Measurements \union {None},
   answer: GateVerdicts \union {None, "no baseline"},
   sawRules: SUBSET (Rules \union {None}), sawBase: SUBSET (Baseline \union {None}),
   sawRuns: SUBSET (RunIds \X Body)]

\* The rows of these runs, by their run_id.
Rows(table, ids) == {<<r, table[r]>> : r \in {x \in ids : table[x] # None}}

ApiTypeOK ==
  /\ suites \in [SuiteIds -> Rules \union {None}]
  /\ runs \in [RunIds -> Body \union {None}]
  /\ baselines \in [Branches -> Baseline \union {None}]
  /\ req \in [Clients -> Request]

EmptyRequest(k, r) ==
  [at |-> "idle", key |-> k, run |-> r, body |-> None, rules |-> None, base |-> None,
   content |-> None, answer |-> None, sawRules |-> {}, sawBase |-> {}, sawRuns |-> {}]

NoRequest == EmptyRequest(CHOOSE k \in Branches : TRUE, CHOOSE r \in RunIds : TRUE)

ApiInit ==
  /\ suites = [s \in SuiteIds |-> None]
  /\ runs = [r \in RunIds |-> None]
  /\ baselines = [k \in Branches |-> None]
  /\ req = [c \in Clients |-> NoRequest]

(***************************************************************************)
(* What a commit shows the gate requests in flight.                        *)
(***************************************************************************)
InGate(q) == q.at \in {"get_suite", "get_base", "get_cand"}

Watching(q) ==
  IF ~InGate(q) THEN q
  ELSE [q EXCEPT !.sawRules = @ \union {suites'[q.key.suite]},
                 !.sawBase = @ \union {baselines'[q.key]},
                 !.sawRuns = @ \union Rows(runs', {q.run, q.base.run})]

Handles(c, q) == req' = [d \in Clients |-> IF d = c THEN q ELSE Watching(req[d])]

\* The handler raised, or the pod was killed; its transaction is rolled back.
Ends(c) == Handles(c, NoRequest)

(***************************************************************************)
(* PUT /suites, POST /runs, POST /suites/../baseline.                      *)
(***************************************************************************)
RegisterSuite(c) ==
  /\ req[c].at = "idle"
  /\ \E s \in SuiteIds, r \in Rules : suites' = [suites EXCEPT ![s] = r]
  /\ UNCHANGED <<runs, baselines>>
  /\ Ends(c)

\* submit_run: 404 without the suite ...
SubmitRun(c) ==
  /\ req[c].at = "idle"
  /\ UNCHANGED <<suites, runs, baselines>>
  /\ \E r \in RunIds : \E b \in Posts[r] :
       IF suites[b.suite] = None THEN Ends(c)
       ELSE Handles(c, [NoRequest EXCEPT !.at = "put_run", !.run = r, !.body = b])

\* Mutant: the newest run of a suite becomes its baseline.
PutRunAndPromote(c) ==
  /\ req[c].at = "put_run"
  /\ runs' = [runs EXCEPT ![req[c].run] = req[c].body]
  /\ baselines' = [k \in Branches |-> IF k.suite # req[c].body.suite THEN baselines[k]
                                 ELSE [run |-> req[c].run, score |-> req[c].body.content]]
  /\ UNCHANGED suites
  /\ Ends(c)

\* ... and an upsert that replaces the whole row.
PutRun(c) ==
  /\ req[c].at = "put_run"
  /\ runs' = [runs EXCEPT ![req[c].run] = req[c].body]
  /\ UNCHANGED <<suites, baselines>>
  /\ Ends(c)

\* Mutant: the run's suite is not compared with the path's.
PromoteAcrossSuites(c) ==
  /\ req[c].at = "idle"
  /\ UNCHANGED <<suites, runs, baselines>>
  /\ \E k \in Branches, r \in RunIds :
       IF runs[r] = None THEN Ends(c)
       ELSE Handles(c, [NoRequest EXCEPT !.at = "upsert", !.key = k, !.run = r,
                          !.content = runs[r].content])

\* promote: KeyError (404), ValueError (400), or the score it selected ...
Promote(c) ==
  /\ req[c].at = "idle"
  /\ UNCHANGED <<suites, runs, baselines>>
  /\ \E k \in Branches, r \in RunIds :
       IF runs[r] = None \/ (runs[r] # None /\ runs[r].suite # k.suite) THEN Ends(c)
       ELSE Handles(c, [NoRequest EXCEPT !.at = "upsert", !.key = k, !.run = r,
                          !.content = runs[r].content])

\* Mutant: the selected row goes into the column, not its score.
UpsertRow(c) ==
  /\ req[c].at = "upsert"
  /\ baselines' = [baselines EXCEPT ![req[c].key] = [run |-> req[c].run, score |-> runs[req[c].run]]]
  /\ UNCHANGED <<suites, runs>>
  /\ Ends(c)

\* Mutant: run_id is missing from the DO UPDATE.
UpsertScoreOnly(c) ==
  /\ req[c].at = "upsert"
  /\ baselines' = [baselines EXCEPT ![req[c].key] =
                     [run |-> IF @ = None THEN req[c].run ELSE @.run, score |-> req[c].content]]
  /\ UNCHANGED <<suites, runs>>
  /\ Ends(c)

\* ... goes into the row.
Upsert(c) ==
  /\ req[c].at = "upsert"
  /\ baselines' = [baselines EXCEPT ![req[c].key] = [run |-> req[c].run, score |-> req[c].content]]
  /\ UNCHANGED <<suites, runs>>
  /\ Ends(c)

(***************************************************************************)
(* POST /suites/../gate, and from get_suite on GET /diff.                  *)
(***************************************************************************)
Answers(c, k, a) == Handles(c, [NoRequest EXCEPT !.at = "answered", !.key = k, !.answer = a])

Compares(c, k, r, b) ==
  Handles(c, [NoRequest EXCEPT !.at = "get_suite", !.key = k, !.run = r, !.base = b,
                !.sawRules = {suites[k.suite]}, !.sawBase = {baselines[k]},
                !.sawRuns = Rows(runs, {r, b.run})])

\* A missing baseline passes.
Gate(c) ==
  /\ req[c].at = "idle"
  /\ UNCHANGED <<suites, runs, baselines>>
  /\ \E k \in Branches, r \in RunIds :
       IF baselines[k] = None THEN Answers(c, k, "no baseline") ELSE Compares(c, k, r, baselines[k])

GetSuite(c) ==
  /\ req[c].at = "get_suite"
  /\ UNCHANGED <<suites, runs, baselines>>
  /\ LET s == suites[req[c].key.suite]
     IN  IF s = None THEN Ends(c) ELSE Handles(c, [req[c] EXCEPT !.at = "get_base", !.rules = s])

GetBase(c) ==
  /\ req[c].at = "get_base"
  /\ UNCHANGED <<suites, runs, baselines>>
  /\ LET b == runs[req[c].base.run]
     IN  IF b = None THEN Ends(c)
         ELSE Handles(c, [req[c] EXCEPT !.at = "get_cand", !.content = b.content])

\* Mutant: the candidate is the baseline of the comparison.
GetCandSwapped(c) ==
  /\ req[c].at = "get_cand"
  /\ UNCHANGED <<suites, runs, baselines>>
  /\ LET b == runs[req[c].run]
     IN  IF b = None THEN Ends(c)
         ELSE Answers(c, req[c].key, Compare(req[c].rules, b.content, req[c].content))

\* compare() raises BackendMismatch, which no handler maps to a status.
GetCand(c) ==
  /\ req[c].at = "get_cand"
  /\ UNCHANGED <<suites, runs, baselines>>
  /\ LET b == runs[req[c].run]
     IN  IF b = None THEN Ends(c)
         ELSE Answers(c, req[c].key, Compare(req[c].rules, req[c].content, b.content))

\* A new request takes the place of an answered or a lost one.
Done(c) ==
  /\ req[c].at # "idle"
  /\ UNCHANGED <<suites, runs, baselines>>
  /\ Ends(c)

ApiNext ==
  \E c \in Clients :
    \/ RegisterSuite(c) \/ SubmitRun(c) \/ PutRun(c)
    \/ Promote(c) \/ Upsert(c)
    \/ Gate(c) \/ GetSuite(c) \/ GetBase(c) \/ GetCand(c) \/ Done(c)

ApiSpec == ApiInit /\ [][ApiNext]_apiVars

(***************************************************************************)
(* Properties.                                                             *)
(***************************************************************************)
\* "Both must behave identically": the statements of PostgresStore, however those of
\* several requests interleave, add up to what MemoryStore would do under threads: no
\* run of a suite that is not there, and no baseline but of a run of its suite, with
\* the score that run had when the promotion looked.
Memory ==
  INSTANCE MemoryStore WITH
    promoting <- [c \in Clients |->
                    IF req[c].at = "upsert"
                    THEN [key |-> req[c].key, run |-> req[c].run, score |-> req[c].content]
                    ELSE None]
ImplementsMemoryStore == Memory!StoreSpec

\* The row of a baseline is one measurement: a run that is there, and the score of a
\* body posted under its run_id for the baseline's own suite, however posts, posts
\* again under one run_id and promotions interleave.
BaselineIsOneMeasurement ==
  \A k \in Branches : baselines[k] # None =>
    LET b == baselines[k]
    IN  runs[b.run] # None /\ [suite |-> k.suite, content |-> b.score] \in Posts[b.run]

Good(k) == IF baselines[k] = None THEN None ELSE runs[baselines[k].run]

\* "Promotion is explicit, so a bad run cannot become the baseline just by being
\* newest": what the gate compares with changes when a promotion commits, and at
\* no other step.
BaselineMovesByPromotion ==
  [][\A k \in Branches : Good(k)' # Good(k) => \E c \in Clients : Upsert(c) /\ req[c].key = k]_apiVars

Reposts(c, k) == PutRun(c) /\ baselines[k] # None /\ baselines[k].run = req[c].run

\* A post moves what the gate compares with only where it is one more body under the
\* very run_id that was promoted: no other run becomes the baseline by being newest.
OnlyItsOwnRunMovesABaseline ==
  [][\A k \in Branches : Good(k)' # Good(k) =>
       \E c \in Clients : (Upsert(c) /\ req[c].key = k) \/ Reposts(c, k)]_apiVars

\* The answer a to q is one for rules, a baseline and two rows of runs there were
\* since q arrived.
AnswersFor(q, a) ==
  \E s \in q.sawRules \ {None}, b \in q.sawBase \ {None}, x, y \in q.sawRuns :
    x[1] = b.run /\ y[1] = q.run /\ a = Compare(s, x[2].content, y[2].content)

\* A gate answers for its own request: the baseline it compared with stood while
\* it was handled, and so did the rules, the run it points at and the candidate;
\* "no baseline" is the answer of a branch that has none.  Commits in between may
\* mix the rules of one moment with the baseline and the runs of another.
GateAnswersForItsRequest ==
  [][\A c \in Clients : req'[c].at = "answered" /\ req[c].at # "answered" =>
       LET a == req'[c].answer
       IN  IF a = "no baseline" THEN baselines[req'[c].key] = None ELSE AnswersFor(req[c], a)]_apiVars
==============================================================================
