---------------------------- MODULE EvalApi_proofs ----------------------------
(***************************************************************************)
(* The tables of the API under any number of branches, runs, clients and   *)
(* replicas, any bodies posted under a run_id and any comparison: a        *)
(* baseline is one measurement, a gate answers for its request, a post     *)
(* moves only the baseline of its own run_id, and PostgresStore implements *)
(* MemoryStore.                                                            *)
(***************************************************************************)
EXTENDS EvalApi, TLAPS

(* What a request holds, of the tables s of suites and t of runs.           *)
\* submit_run found the suite of the run it is about to insert.
Submits(q, s) == q.at = "put_run" => q.body \in Posts[q.run] /\ s[q.body.suite] # None

\* promote selected a measurement posted for the suite, of a run that is there.
Selected(q, t) ==
  q.at = "upsert" =>
    t[q.run] # None /\ [suite |-> q.key.suite, content |-> q.content] \in Posts[q.run]

\* What a gate has read was there while it was handled.
GateHolds(q) ==
  /\ InGate(q) => q.base # None /\ q.base \in q.sawBase
  /\ q.at \in {"get_base", "get_cand"} => q.rules # None /\ q.rules \in q.sawRules
  /\ q.at = "get_cand" => \E x \in Body : <<q.base.run, x>> \in q.sawRuns /\ q.content = x.content

\* The rules and the rows there are now are among those it has seen.
SeesNow(q, s, t) ==
  InGate(q) => s[q.key.suite] \in q.sawRules /\ Rows(t, {q.run, q.base.run}) \subseteq q.sawRuns

Sound(q, s, t) == Submits(q, s) /\ Selected(q, t) /\ GateHolds(q) /\ SeesNow(q, s, t)

\* A stored run is one that was posted.
RunsArePosted(t) == \A r \in RunIds : t[r] # None => t[r] \in Posts[r]

Inv ==
  /\ ApiTypeOK
  /\ RunsArePosted(runs)
  /\ BaselineIsOneMeasurement
  /\ \A c \in Clients : Sound(req[c], suites, runs)

(***************************************************************************)
(* Requests.                                                               *)
(***************************************************************************)
LEMMA NoRequestTyped == NoRequest \in Request /\ NoRequest.at = "idle"
<1> DEFINE k == CHOOSE x \in Branches : TRUE
           r == CHOOSE x \in RunIds : TRUE
<1>1. k \in Branches /\ r \in RunIds
  BY ApiAssumption
<1>2. EmptyRequest(k, r) \in Request /\ EmptyRequest(k, r).at = "idle"
  <2> HIDE DEF k, r
  <2> QED BY <1>1 DEF EmptyRequest, Request
<1> QED BY <1>2 DEF NoRequest

LEMMA NoRequestSound ==
  ASSUME NEW s, NEW t
  PROVE  Sound(NoRequest, s, t)
BY NoRequestTyped DEF Sound, Submits, Selected, GateHolds, SeesNow, InGate

LEMMA RowsTyped ==
  ASSUME NEW t \in [RunIds -> Body \union {None}], NEW ids \in SUBSET RunIds
  PROVE  Rows(t, ids) \in SUBSET (RunIds \X Body)
<1> SUFFICES ASSUME NEW r \in ids, t[r] # None PROVE <<r, t[r]>> \in RunIds \X Body
  BY DEF Rows
<1> QED OBVIOUS

\* What a step leaves of the tables.
TablesKept ==
  /\ suites' \in [SuiteIds -> Rules \union {None}]
  /\ runs' \in [RunIds -> Body \union {None}]
  /\ baselines' \in [Branches -> Baseline \union {None}]
  /\ \A s \in SuiteIds : suites[s] # None => suites'[s] # None
  /\ \A r \in RunIds : runs[r] # None => runs'[r] # None
  /\ RunsArePosted(runs')
  /\ BaselineIsOneMeasurement'

\* A commit leaves a request it does not end as it is, but for what it saw.
LEMMA WatchingKept ==
  ASSUME NEW q \in Request
  PROVE  /\ Watching(q).at = q.at /\ Watching(q).key = q.key /\ Watching(q).run = q.run
         /\ Watching(q).body = q.body /\ Watching(q).rules = q.rules
         /\ Watching(q).base = q.base /\ Watching(q).content = q.content
         /\ q.sawRules \subseteq Watching(q).sawRules
         /\ q.sawBase \subseteq Watching(q).sawBase
         /\ q.sawRuns \subseteq Watching(q).sawRuns
BY DEF Watching, Request

LEMMA WatchingTyped ==
  ASSUME NEW q \in Request, GateHolds(q), TablesKept
  PROVE  Watching(q) \in Request /\ SeesNow(Watching(q), suites', runs')
<1>1. CASE ~InGate(q)
  BY <1>1 DEF Watching, SeesNow
<1>2. CASE InGate(q)
  <2> DEFINE rs == q.sawRules \union {suites'[q.key.suite]}
             bs == q.sawBase \union {baselines'[q.key]}
             xs == q.sawRuns \union Rows(runs', {q.run, q.base.run})
             w == [q EXCEPT !.sawRules = rs, !.sawBase = bs, !.sawRuns = xs]
  <2>1. Watching(q) = w
    BY <1>2 DEF Watching
  <2>2. rs \in SUBSET (Rules \union {None}) /\ suites'[q.key.suite] \in rs
    <3>1. q.key.suite \in SuiteIds /\ q.sawRules \in SUBSET (Rules \union {None})
      BY DEF Request, SuiteIds
    <3>2. suites'[q.key.suite] \in Rules \union {None}
      BY <3>1 DEF TablesKept
    <3> QED BY <3>1, <3>2
  <2>3. bs \in SUBSET (Baseline \union {None})
    BY DEF Request, TablesKept
  <2>4. q.run \in RunIds /\ q.base.run \in RunIds
    BY <1>2 DEF Request, GateHolds, Baseline
  <2>5. Rows(runs', {q.run, q.base.run}) \in SUBSET (RunIds \X Body)
    BY <2>4, RowsTyped DEF TablesKept
  <2>6. xs \in SUBSET (RunIds \X Body) /\ Rows(runs', {q.run, q.base.run}) \subseteq xs
    BY <2>5 DEF Request
  <2> HIDE DEF rs, bs, xs
  <2>7. /\ w \in Request /\ w.key = q.key /\ w.run = q.run /\ w.base = q.base
        /\ w.sawRules = rs /\ w.sawRuns = xs
    BY <2>2, <2>3, <2>6 DEF Request
  <2> QED BY <2>1, <2>2, <2>6, <2>7 DEF SeesNow
<1> QED BY <1>1, <1>2

\* So it stays sound.
LEMMA WatchingSound ==
  ASSUME NEW q \in Request, Sound(q, suites, runs), TablesKept
  PROVE  Watching(q) \in Request /\ Sound(Watching(q), suites', runs')
<1>1. Watching(q) \in Request /\ SeesNow(Watching(q), suites', runs')
  BY WatchingTyped DEF Sound
<1>2. PICK w \in Request : w = Watching(q)
  BY <1>1
<1>3. /\ w.at = q.at /\ w.key = q.key /\ w.run = q.run /\ w.body = q.body
      /\ w.rules = q.rules /\ w.base = q.base /\ w.content = q.content
      /\ q.sawRules \subseteq w.sawRules /\ q.sawBase \subseteq w.sawBase
      /\ q.sawRuns \subseteq w.sawRuns
  BY <1>2, WatchingKept
<1>4. Submits(w, suites')
  <2> SUFFICES ASSUME q.at = "put_run" PROVE Submits(w, suites')
    BY <1>3 DEF Submits
  <2>1. q.body \in Posts[q.run] /\ suites[q.body.suite] # None
    BY DEF Sound, Submits
  <2>2. q.body.suite \in SuiteIds
    BY <2>1, ApiAssumption DEF Request, Body
  <2> QED BY <1>3, <2>1, <2>2 DEF Submits, TablesKept
<1>5. Selected(w, runs')
  BY <1>3 DEF Sound, Selected, TablesKept, Request
<1>6. GateHolds(w)
  BY <1>3 DEF Sound, GateHolds, InGate
<1> QED BY <1>1, <1>2, <1>4, <1>5, <1>6 DEF Sound

\* What is left to show of a step: the tables, and the request it leaves c with.
LEMMA StepKeeps ==
  ASSUME Inv, NEW c \in Clients, NEW q \in Request, Handles(c, q), TablesKept,
         Sound(q, suites', runs')
  PROVE  Inv'
<1>1. ASSUME NEW d \in Clients
      PROVE  req'[d] \in Request /\ Sound(req'[d], suites', runs')
  <2>1. req'[d] = IF d = c THEN q ELSE Watching(req[d])
    BY DEF Handles
  <2>2. req[d] \in Request /\ Sound(req[d], suites, runs)
    BY DEF Inv, ApiTypeOK
  <2> QED BY <2>1, <2>2, WatchingSound
<1>2. req' \in [Clients -> Request]
  BY <1>1 DEF Handles
<1>3. ApiTypeOK'
  BY <1>2 DEF ApiTypeOK, TablesKept
<1> QED BY <1>1, <1>3 DEF Inv, TablesKept, RunsArePosted

LEMMA ReadKeeps ==
  ASSUME Inv, NEW c \in Clients, UNCHANGED <<suites, runs, baselines>>,
         NEW q \in Request, Handles(c, q), Sound(q, suites, runs)
  PROVE  Inv'
<1>1. TablesKept
  BY DEF Inv, ApiTypeOK, TablesKept, BaselineIsOneMeasurement
<1>2. Sound(q, suites', runs')
  OBVIOUS
<1> QED BY <1>1, <1>2, StepKeeps

LEMMA EndKeeps ==
  ASSUME Inv, NEW c \in Clients, Ends(c), TablesKept
  PROVE  Inv'
BY NoRequestTyped, NoRequestSound, StepKeeps DEF Ends

LEMMA LostKeeps ==
  ASSUME Inv, NEW c \in Clients, UNCHANGED <<suites, runs, baselines>>, Ends(c)
  PROVE  Inv'
BY NoRequestTyped, NoRequestSound, ReadKeeps DEF Ends

LEMMA AnswerKeeps ==
  ASSUME Inv, NEW c \in Clients, UNCHANGED <<suites, runs, baselines>>,
         NEW k \in Branches, NEW a \in GateVerdicts \union {"no baseline"}, Answers(c, k, a)
  PROVE  Inv'
<1> DEFINE q == [NoRequest EXCEPT !.at = "answered", !.key = k, !.answer = a]
<1>1. q \in Request /\ q.at = "answered"
  BY NoRequestTyped DEF Request
<1>2. Handles(c, q)
  BY DEF Answers
<1> HIDE DEF q
<1>3. Sound(q, suites, runs)
  BY <1>1 DEF Sound, Submits, Selected, GateHolds, SeesNow, InGate
<1> QED BY <1>1, <1>2, <1>3, ReadKeeps

(***************************************************************************)
(* PUT /suites, POST /runs, POST /suites/../baseline.                      *)
(***************************************************************************)
LEMMA RegisterSuiteKeeps ==
  ASSUME Inv, NEW c \in Clients, RegisterSuite(c)
  PROVE  Inv'
<1>1. PICK s \in SuiteIds, r \in Rules : suites' = [suites EXCEPT ![s] = r]
  BY DEF RegisterSuite
<1>2. r # None
  BY ApiAssumption
<1>3. UNCHANGED <<runs, baselines>> /\ Ends(c)
  BY DEF RegisterSuite
<1>4. TablesKept
  BY <1>1, <1>2, <1>3 DEF Inv, ApiTypeOK, TablesKept, BaselineIsOneMeasurement
<1> QED BY <1>3, <1>4, EndKeeps

LEMMA SubmitRunKeeps ==
  ASSUME Inv, NEW c \in Clients, SubmitRun(c)
  PROVE  Inv'
<1>1. UNCHANGED <<suites, runs, baselines>>
  BY DEF SubmitRun
<1>2. PICK r \in RunIds : \E b \in Posts[r] :
        IF suites[b.suite] = None THEN Ends(c)
        ELSE Handles(c, [NoRequest EXCEPT !.at = "put_run", !.run = r, !.body = b])
  BY DEF SubmitRun
<1>3. PICK b \in Posts[r] :
        IF suites[b.suite] = None THEN Ends(c)
        ELSE Handles(c, [NoRequest EXCEPT !.at = "put_run", !.run = r, !.body = b])
  BY <1>2
<1>4. CASE suites[b.suite] = None
  BY <1>1, <1>3, <1>4, LostKeeps
<1>5. CASE suites[b.suite] # None
  <2> DEFINE q == [NoRequest EXCEPT !.at = "put_run", !.run = r, !.body = b]
  <2>1. b \in Body
    BY ApiAssumption
  <2>2. q \in Request /\ q.at = "put_run" /\ q.run = r /\ q.body = b
    BY <2>1, NoRequestTyped DEF Request
  <2>3. Handles(c, q)
    BY <1>3, <1>5
  <2> HIDE DEF q
  <2>4. Sound(q, suites, runs)
    BY <1>5, <2>2 DEF Sound, Submits, Selected, GateHolds, SeesNow, InGate
  <2> QED BY <1>1, <2>2, <2>3, <2>4, ReadKeeps
<1> QED BY <1>4, <1>5

LEMMA PutRunKeeps ==
  ASSUME Inv, NEW c \in Clients, PutRun(c)
  PROVE  Inv'
<1>1. PICK q \in Request : q = req[c] /\ Sound(q, suites, runs)
  BY DEF Inv, ApiTypeOK
<1>2. q.body \in Posts[q.run] /\ q.run \in RunIds
  BY <1>1 DEF PutRun, Sound, Submits, Request
<1>3. q.body \in Body /\ q.body # None
  BY <1>2, ApiAssumption
<1>4. runs' = [runs EXCEPT ![q.run] = q.body] /\ UNCHANGED <<suites, baselines>> /\ Ends(c)
  BY <1>1 DEF PutRun
<1>5. \A r \in RunIds : /\ runs[r] # None => runs'[r] # None
                        /\ runs'[r] # None => runs'[r] \in Posts[r]
  BY <1>2, <1>3, <1>4 DEF Inv, ApiTypeOK, RunsArePosted
<1>6. BaselineIsOneMeasurement'
  BY <1>4, <1>5 DEF Inv, ApiTypeOK, Baseline, BaselineIsOneMeasurement
<1>7. runs' \in [RunIds -> Body \union {None}]
  BY <1>2, <1>3, <1>4 DEF Inv, ApiTypeOK
<1>8. TablesKept
  BY <1>4, <1>5, <1>6, <1>7 DEF Inv, ApiTypeOK, TablesKept, RunsArePosted
<1> QED BY <1>4, <1>8, EndKeeps

LEMMA PromoteKeeps ==
  ASSUME Inv, NEW c \in Clients, Promote(c)
  PROVE  Inv'
<1>1. UNCHANGED <<suites, runs, baselines>>
  BY DEF Promote
<1>2. PICK k \in Branches, r \in RunIds :
        IF runs[r] = None \/ (runs[r] # None /\ runs[r].suite # k.suite) THEN Ends(c)
        ELSE Handles(c, [NoRequest EXCEPT !.at = "upsert", !.key = k, !.run = r,
                           !.content = runs[r].content])
  BY DEF Promote
<1>3. CASE runs[r] = None \/ (runs[r] # None /\ runs[r].suite # k.suite)
  BY <1>1, <1>2, <1>3, LostKeeps
<1>4. CASE runs[r] # None /\ runs[r].suite = k.suite
  <2> DEFINE q == [NoRequest EXCEPT !.at = "upsert", !.key = k, !.run = r,
                                    !.content = runs[r].content]
  <2>1. runs[r] \in Body /\ runs[r] \in Posts[r]
    BY <1>4 DEF Inv, ApiTypeOK, RunsArePosted
  <2>2. runs[r].content \in Measurements
    BY <2>1 DEF Body
  <2>3. /\ q \in Request /\ q.at = "upsert" /\ q.key = k /\ q.run = r
        /\ q.content = runs[r].content
    BY <2>2, NoRequestTyped DEF Request
  <2>4. Handles(c, q)
    BY <1>2, <1>4
  <2> HIDE DEF q
  <2>5. runs[r] = [suite |-> k.suite, content |-> runs[r].content]
    BY <1>4, <2>1 DEF Body
  <2>6. Sound(q, suites, runs)
    BY <1>4, <2>1, <2>3, <2>5 DEF Sound, Submits, Selected, GateHolds, SeesNow, InGate
  <2> QED BY <1>1, <2>3, <2>4, <2>6, ReadKeeps
<1> QED BY <1>3, <1>4

LEMMA UpsertKeeps ==
  ASSUME Inv, NEW c \in Clients, Upsert(c)
  PROVE  Inv'
<1>1. PICK q \in Request : q = req[c] /\ Sound(q, suites, runs)
  BY DEF Inv, ApiTypeOK
<1>2. /\ runs[q.run] # None /\ q.run \in RunIds /\ q.key \in Branches
      /\ [suite |-> q.key.suite, content |-> q.content] \in Posts[q.run]
  BY <1>1 DEF Upsert, Sound, Selected, Request
<1>3. q.content \in Measurements
  <2>1. [suite |-> q.key.suite, content |-> q.content] \in Body
    BY <1>2, ApiAssumption
  <2> QED BY <2>1 DEF Body
<1> DEFINE row == [run |-> q.run, score |-> q.content]
<1>4. /\ baselines' = [baselines EXCEPT ![q.key] = row]
      /\ UNCHANGED <<suites, runs>> /\ Ends(c)
  BY <1>1 DEF Upsert
<1>5. row \in Baseline /\ row.run = q.run /\ row.score = q.content
  BY <1>2, <1>3 DEF Baseline
<1> HIDE DEF row
<1>6. ASSUME NEW k \in Branches, baselines'[k] # None
      PROVE  /\ runs[baselines'[k].run] # None
             /\ [suite |-> k.suite, content |-> baselines'[k].score] \in Posts[baselines'[k].run]
  <2>1. CASE k = q.key
    BY <1>2, <1>4, <1>5, <2>1 DEF Inv, ApiTypeOK
  <2>2. CASE k # q.key
    BY <1>4, <1>6, <2>2 DEF Inv, ApiTypeOK, BaselineIsOneMeasurement
  <2> QED BY <2>1, <2>2
<1>7. BaselineIsOneMeasurement'
  BY <1>4, <1>6 DEF BaselineIsOneMeasurement
<1>8. baselines' \in [Branches -> Baseline \union {None}]
  BY <1>2, <1>4, <1>5 DEF Inv, ApiTypeOK
<1>9. TablesKept
  BY <1>4, <1>7, <1>8 DEF Inv, ApiTypeOK, TablesKept
<1> QED BY <1>4, <1>9, EndKeeps

(***************************************************************************)
(* The gate's reads.                                                       *)
(***************************************************************************)
LEMMA GateKeeps ==
  ASSUME Inv, NEW c \in Clients, Gate(c)
  PROVE  Inv'
<1>1. UNCHANGED <<suites, runs, baselines>>
  BY DEF Gate
<1>2. PICK k \in Branches, r \in RunIds :
        IF baselines[k] = None THEN Answers(c, k, "no baseline") ELSE Compares(c, k, r, baselines[k])
  BY DEF Gate
<1>3. CASE baselines[k] = None
  BY <1>1, <1>2, <1>3, AnswerKeeps
<1>4. CASE baselines[k] # None
  <2> DEFINE b == baselines[k]
             ss == {suites[k.suite]}
             bs == {b}
             xs == Rows(runs, {r, b.run})
             q == [NoRequest EXCEPT !.at = "get_suite", !.key = k, !.run = r, !.base = b,
                     !.sawRules = ss, !.sawBase = bs, !.sawRuns = xs]
  <2>1. b \in Baseline /\ b.run \in RunIds
    BY <1>4 DEF Inv, ApiTypeOK, Baseline
  <2>2. xs \in SUBSET (RunIds \X Body)
    BY <2>1, RowsTyped DEF Inv, ApiTypeOK
  <2>3. ss \in SUBSET (Rules \union {None}) /\ suites[k.suite] \in ss
    BY DEF Inv, ApiTypeOK, SuiteIds
  <2>4. bs \in SUBSET (Baseline \union {None}) /\ b \in bs
    BY <2>1
  <2>5. Handles(c, q)
    BY <1>2, <1>4 DEF Compares
  <2>6. xs = Rows(runs, {r, b.run})
    OBVIOUS
  <2>7. b # None
    BY <1>4
  <2> HIDE DEF b, ss, bs, xs
  <2>8. /\ q \in Request /\ q.at = "get_suite" /\ q.key = k /\ q.run = r /\ q.base = b
        /\ q.sawRules = ss /\ q.sawBase = bs /\ q.sawRuns = xs
    BY <2>1, <2>2, <2>3, <2>4, NoRequestTyped DEF Request
  <2> HIDE DEF q
  <2>9. Sound(q, suites, runs)
    BY <2>3, <2>4, <2>6, <2>7, <2>8 DEF Sound, Submits, Selected, GateHolds, SeesNow
  <2> QED BY <1>1, <2>5, <2>8, <2>9, ReadKeeps
<1> QED BY <1>3, <1>4

LEMMA GetSuiteKeeps ==
  ASSUME Inv, NEW c \in Clients, GetSuite(c)
  PROVE  Inv'
<1>1. UNCHANGED <<suites, runs, baselines>>
  BY DEF GetSuite
<1>2. PICK p \in Request : p = req[c] /\ Sound(p, suites, runs) /\ p.at = "get_suite"
  BY DEF Inv, ApiTypeOK, GetSuite
<1>3. PICK s \in Rules \union {None} : s = suites[p.key.suite]
  BY DEF Inv, ApiTypeOK, SuiteIds, Request
<1>4. CASE s = None
  BY <1>1, <1>2, <1>3, <1>4, LostKeeps DEF GetSuite
<1>5. CASE s # None
  <2> DEFINE q == [p EXCEPT !.at = "get_base", !.rules = s]
  <2>1. Handles(c, q)
    BY <1>2, <1>3, <1>5 DEF GetSuite
  <2>2. /\ q \in Request /\ q.at = "get_base" /\ q.rules = s /\ q.key = p.key /\ q.run = p.run
        /\ q.base = p.base /\ q.sawBase = p.sawBase /\ q.sawRules = p.sawRules
        /\ q.sawRuns = p.sawRuns
    BY DEF Request
  <2> HIDE DEF q
  <2>3. SeesNow(q, suites, runs)
    BY <1>2, <2>2 DEF Sound, SeesNow, InGate
  <2>4. s \in p.sawRules
    BY <1>2, <1>3 DEF Sound, SeesNow, InGate
  <2>5. GateHolds(q)
    BY <1>2, <1>5, <2>2, <2>4 DEF Sound, GateHolds, InGate
  <2>6. Sound(q, suites, runs)
    BY <2>2, <2>3, <2>5 DEF Sound, Submits, Selected
  <2> QED BY <1>1, <2>1, <2>2, <2>6, ReadKeeps
<1> QED BY <1>4, <1>5

\* A row of a gate's runs is one it has seen.
LEMMA RowSeen ==
  ASSUME Inv, NEW q \in Request, Sound(q, suites, runs), InGate(q),
         NEW r \in {q.run, q.base.run}, runs[r] # None
  PROVE  <<r, runs[r]>> \in q.sawRuns
BY DEF Sound, SeesNow, Rows

LEMMA GetBaseKeeps ==
  ASSUME Inv, NEW c \in Clients, GetBase(c)
  PROVE  Inv'
<1>1. UNCHANGED <<suites, runs, baselines>>
  BY DEF GetBase
<1>2. PICK p \in Request : p = req[c] /\ Sound(p, suites, runs) /\ p.at = "get_base"
  BY DEF Inv, ApiTypeOK, GetBase
<1>3. p.base.run \in RunIds
  BY <1>2 DEF Sound, GateHolds, InGate, Request, Baseline
<1>4. PICK b \in Body \union {None} : b = runs[p.base.run]
  BY <1>3 DEF Inv, ApiTypeOK
<1>5. CASE b = None
  BY <1>1, <1>2, <1>4, <1>5, LostKeeps DEF GetBase
<1>6. CASE b # None
  <2> DEFINE q == [p EXCEPT !.at = "get_cand", !.content = b.content]
  <2>1. Handles(c, q)
    BY <1>2, <1>4, <1>6 DEF GetBase
  <2>2. b \in Body /\ b.content \in Measurements
    BY <1>6 DEF Body
  <2>3. /\ q \in Request /\ q.at = "get_cand" /\ q.content = b.content /\ q.key = p.key
        /\ q.run = p.run /\ q.base = p.base /\ q.rules = p.rules
        /\ q.sawBase = p.sawBase /\ q.sawRules = p.sawRules /\ q.sawRuns = p.sawRuns
    BY <2>2 DEF Request
  <2> HIDE DEF q
  <2>4. SeesNow(q, suites, runs)
    BY <1>2, <2>3 DEF Sound, SeesNow, InGate
  <2>5. <<p.base.run, b>> \in p.sawRuns
    BY <1>2, <1>4, <1>6, RowSeen DEF InGate
  <2>6. GateHolds(q)
    BY <1>2, <2>2, <2>3, <2>5 DEF Sound, GateHolds, InGate
  <2>7. Sound(q, suites, runs)
    BY <2>3, <2>4, <2>6 DEF Sound, Submits, Selected
  <2> QED BY <1>1, <2>1, <2>3, <2>7, ReadKeeps
<1> QED BY <1>5, <1>6

\* The last read of a gate: what it answers, if it answers.
LEMMA GetCandAnswers ==
  ASSUME Inv, NEW c \in Clients, GetCand(c)
  PROVE  \/ Ends(c)
         \/ \E a \in GateVerdicts : Answers(c, req[c].key, a) /\ AnswersFor(req[c], a)
<1>1. PICK p \in Request : p = req[c] /\ Sound(p, suites, runs) /\ p.at = "get_cand"
  BY DEF Inv, ApiTypeOK, GetCand
<1>2. PICK x \in Body : <<p.base.run, x>> \in p.sawRuns /\ p.content = x.content
  BY <1>1 DEF Sound, GateHolds
<1>3. /\ p.base # None /\ p.base \in p.sawBase
      /\ p.rules # None /\ p.rules \in p.sawRules /\ p.rules \in Rules
  BY <1>1 DEF Sound, GateHolds, InGate, Request
<1>4. PICK b \in Body \union {None} : b = runs[p.run]
  BY DEF Inv, ApiTypeOK, Request
<1>5. CASE b = None
  BY <1>1, <1>4, <1>5 DEF GetCand
<1>6. CASE b # None
  <2> DEFINE a == Compare(p.rules, p.content, b.content)
  <2>1. Answers(c, p.key, a)
    BY <1>1, <1>4, <1>6 DEF GetCand
  <2>2. x.content \in Measurements /\ b.content \in Measurements
    BY <1>6 DEF Body
  <2>3. a \in GateVerdicts
    BY <1>2, <1>3, <2>2, ApiAssumption
  <2>4. <<p.run, b>> \in p.sawRuns
    BY <1>1, <1>4, <1>6, RowSeen DEF InGate
  <2> DEFINE u == <<p.base.run, x>>
             v == <<p.run, b>>
  <2>5. u[1] = p.base.run /\ v[1] = p.run /\ a = Compare(p.rules, u[2].content, v[2].content)
    BY <1>2
  <2>6. u \in p.sawRuns /\ v \in p.sawRuns
    BY <1>2, <2>4
  <2> HIDE DEF a, u, v
  <2>7. AnswersFor(p, a)
    BY <1>3, <2>5, <2>6 DEF AnswersFor
  <2> QED BY <1>1, <2>1, <2>3, <2>7
<1> QED BY <1>5, <1>6

LEMMA GetCandKeeps ==
  ASSUME Inv, NEW c \in Clients, GetCand(c)
  PROVE  Inv'
<1>1. UNCHANGED <<suites, runs, baselines>>
  BY DEF GetCand
<1>2. req[c].key \in Branches
  BY DEF Inv, ApiTypeOK, Request
<1> QED BY <1>1, <1>2, GetCandAnswers, LostKeeps, AnswerKeeps

(***************************************************************************)
(* The specification.                                                      *)
(***************************************************************************)
LEMMA InitInv == ApiInit => Inv
<1> SUFFICES ASSUME ApiInit PROVE Inv
  OBVIOUS
<1>1. ApiTypeOK
  BY NoRequestTyped DEF ApiInit, ApiTypeOK
<1>2. BaselineIsOneMeasurement /\ RunsArePosted(runs)
  BY DEF ApiInit, BaselineIsOneMeasurement, RunsArePosted
<1>3. \A c \in Clients : Sound(req[c], suites, runs)
  BY NoRequestSound DEF ApiInit
<1> QED BY <1>1, <1>2, <1>3 DEF Inv

LEMMA NextInv == Inv /\ [ApiNext]_apiVars => Inv'
<1> SUFFICES ASSUME Inv, [ApiNext]_apiVars PROVE Inv'
  OBVIOUS
<1>1. CASE UNCHANGED apiVars
  BY <1>1 DEF apiVars, Inv, ApiTypeOK, BaselineIsOneMeasurement
<1>2. ASSUME NEW c \in Clients, Done(c) PROVE Inv'
  BY <1>2, LostKeeps DEF Done
<1> QED
  BY <1>1, <1>2, RegisterSuiteKeeps, SubmitRunKeeps, PutRunKeeps, PromoteKeeps, UpsertKeeps,
     GateKeeps, GetSuiteKeeps, GetBaseKeeps, GetCandKeeps DEF ApiNext

\* The inductive invariant: what promote selected was posted for the suite, and
\* what a gate has read was there while it was handled.
THEOREM Invariance == ApiSpec => []Inv
BY InitInv, NextInv, PTL DEF ApiSpec

\* Requests, and rows, are well formed at every step.
THEOREM TypeCorrect == ApiSpec => []ApiTypeOK
<1>1. Inv => ApiTypeOK
  BY DEF Inv
<1> QED BY <1>1, Invariance, PTL

\* However posts, posts again under one run_id and promotions interleave, a baseline
\* row is a run that is there and the score of a body posted for its suite.
THEOREM OneMeasurement == ApiSpec => []BaselineIsOneMeasurement
<1>1. Inv => BaselineIsOneMeasurement
  BY DEF Inv
<1> QED BY <1>1, Invariance, PTL

(***************************************************************************)
(* Answers.                                                                *)
(***************************************************************************)
AnswersNow(c) ==
  req'[c].at = "answered" /\ req[c].at # "answered" =>
    LET a == req'[c].answer
    IN  IF a = "no baseline" THEN baselines[req'[c].key] = None ELSE AnswersFor(req[c], a)

\* A step of another client, or one that leaves d elsewhere, answers nothing.
LEMMA OthersAnswerNothing ==
  ASSUME Inv, NEW c \in Clients, NEW d \in Clients, NEW q, Handles(c, q), q.at # "answered" \/ d # c
  PROVE  AnswersNow(d)
<1>1. req'[d] = IF d = c THEN q ELSE Watching(req[d])
  BY DEF Handles
<1>2. Watching(req[d]).at = req[d].at
  BY WatchingKept DEF Inv, ApiTypeOK
<1> QED BY <1>1, <1>2 DEF AnswersNow

LEMMA EndsAnswersNothing ==
  ASSUME Inv, NEW c \in Clients, NEW d \in Clients, Ends(c)
  PROVE  AnswersNow(d)
BY NoRequestTyped, OthersAnswerNothing DEF Ends

LEMMA AnswerGiven ==
  ASSUME Inv, NEW c \in Clients, NEW d \in Clients, NEW k \in Branches,
         NEW a \in GateVerdicts \union {"no baseline"}, Answers(c, k, a),
         IF a = "no baseline" THEN baselines[k] = None ELSE AnswersFor(req[c], a)
  PROVE  AnswersNow(d)
<1> DEFINE q == [NoRequest EXCEPT !.at = "answered", !.key = k, !.answer = a]
<1>1. q.at = "answered" /\ q.key = k /\ q.answer = a
  BY NoRequestTyped DEF Request
<1>2. Handles(c, q)
  BY DEF Answers
<1> HIDE DEF q
<1>3. CASE d # c
  BY <1>2, <1>3, OthersAnswerNothing
<1>4. CASE d = c
  <2>1. req'[d] = q
    BY <1>2, <1>4 DEF Handles
  <2> QED BY <1>1, <1>4, <2>1 DEF AnswersNow
<1> QED BY <1>3, <1>4

LEMMA StepAnswers ==
  ASSUME Inv, [ApiNext]_apiVars, NEW d \in Clients
  PROVE  AnswersNow(d)
<1>1. ASSUME NEW c \in Clients, SubmitRun(c) PROVE AnswersNow(d)
  <2>1. PICK r \in RunIds : \E b \in Posts[r] :
          IF suites[b.suite] = None THEN Ends(c)
          ELSE Handles(c, [NoRequest EXCEPT !.at = "put_run", !.run = r, !.body = b])
    BY <1>1 DEF SubmitRun
  <2>2. PICK b \in Posts[r] :
          \/ Ends(c)
          \/ Handles(c, [NoRequest EXCEPT !.at = "put_run", !.run = r, !.body = b])
    BY <2>1
  <2> DEFINE q == [NoRequest EXCEPT !.at = "put_run", !.run = r, !.body = b]
  <2>3. q.at = "put_run"
    BY NoRequestTyped DEF Request
  <2>4. Ends(c) \/ Handles(c, q)
    BY <2>2
  <2> HIDE DEF q
  <2> QED BY <2>3, <2>4, EndsAnswersNothing, OthersAnswerNothing
<1>2. ASSUME NEW c \in Clients, Promote(c) PROVE AnswersNow(d)
  <2>1. PICK k \in Branches, r \in RunIds :
          \/ Ends(c)
          \/ Handles(c, [NoRequest EXCEPT !.at = "upsert", !.key = k, !.run = r,
                           !.content = runs[r].content])
    BY <1>2 DEF Promote
  <2> DEFINE q == [NoRequest EXCEPT !.at = "upsert", !.key = k, !.run = r, !.content = runs[r].content]
  <2>2. q.at = "upsert"
    BY NoRequestTyped DEF Request
  <2>3. Ends(c) \/ Handles(c, q)
    BY <2>1
  <2> HIDE DEF q
  <2> QED BY <2>2, <2>3, EndsAnswersNothing, OthersAnswerNothing
<1>3. ASSUME NEW c \in Clients, Gate(c) PROVE AnswersNow(d)
  <2>1. PICK k \in Branches, r \in RunIds :
          IF baselines[k] = None THEN Answers(c, k, "no baseline") ELSE Compares(c, k, r, baselines[k])
    BY <1>3 DEF Gate
  <2>2. CASE baselines[k] = None
    BY <2>1, <2>2, AnswerGiven
  <2>3. CASE baselines[k] # None
    <3> DEFINE q == [NoRequest EXCEPT !.at = "get_suite", !.key = k, !.run = r,
                       !.base = baselines[k], !.sawRules = {suites[k.suite]},
                       !.sawBase = {baselines[k]}, !.sawRuns = Rows(runs, {r, baselines[k].run})]
    <3>1. q.at = "get_suite"
      BY NoRequestTyped DEF Request
    <3>2. Handles(c, q)
      BY <2>1, <2>3 DEF Compares
    <3> HIDE DEF q
    <3> QED BY <3>1, <3>2, OthersAnswerNothing
  <2> QED BY <2>2, <2>3
<1>4. ASSUME NEW c \in Clients, GetSuite(c) PROVE AnswersNow(d)
  <2>1. PICK p \in Request : p = req[c]
    BY DEF Inv, ApiTypeOK
  <2> DEFINE q == [p EXCEPT !.at = "get_base", !.rules = suites[req[c].key.suite]]
  <2>2. Ends(c) \/ Handles(c, q)
    BY <1>4, <2>1 DEF GetSuite
  <2>3. q.at = "get_base"
    BY DEF Request
  <2> HIDE DEF q
  <2> QED BY <2>2, <2>3, EndsAnswersNothing, OthersAnswerNothing
<1>5. ASSUME NEW c \in Clients, GetBase(c) PROVE AnswersNow(d)
  <2>1. PICK p \in Request : p = req[c]
    BY DEF Inv, ApiTypeOK
  <2> DEFINE q == [p EXCEPT !.at = "get_cand", !.content = runs[req[c].base.run].content]
  <2>2. Ends(c) \/ Handles(c, q)
    BY <1>5, <2>1 DEF GetBase
  <2>3. q.at = "get_cand"
    BY DEF Request
  <2> HIDE DEF q
  <2> QED BY <2>2, <2>3, EndsAnswersNothing, OthersAnswerNothing
<1>6. ASSUME NEW c \in Clients, GetCand(c) PROVE AnswersNow(d)
  <2>1. req[c].key \in Branches
    BY DEF Inv, ApiTypeOK, Request
  <2>2. \A a \in GateVerdicts : a # "no baseline"
    BY DEF GateVerdicts
  <2>3. CASE Ends(c)
    BY <2>3, EndsAnswersNothing
  <2>4. ASSUME NEW a \in GateVerdicts, Answers(c, req[c].key, a), AnswersFor(req[c], a)
        PROVE  AnswersNow(d)
    BY <2>1, <2>2, <2>4, AnswerGiven
  <2> QED BY <1>6, <2>3, <2>4, GetCandAnswers
<1>7. ASSUME NEW c \in Clients, RegisterSuite(c) \/ PutRun(c) \/ Upsert(c) \/ Done(c)
      PROVE  AnswersNow(d)
  BY <1>7, EndsAnswersNothing DEF RegisterSuite, PutRun, Upsert, Done
<1>8. CASE UNCHANGED apiVars
  BY <1>8 DEF apiVars, AnswersNow
<1> QED BY <1>1, <1>2, <1>3, <1>4, <1>5, <1>6, <1>7, <1>8 DEF ApiNext

\* The four reads of a gate add up to an answer about rules, a baseline and two rows
\* of runs that were there while it was handled, whatever commits in between.
THEOREM AnswersForItsRequest == ApiSpec => GateAnswersForItsRequest
<1>1. Inv /\ [ApiNext]_apiVars =>
        [\A c \in Clients : req'[c].at = "answered" /\ req[c].at # "answered" =>
           LET a == req'[c].answer
           IN  IF a = "no baseline" THEN baselines[req'[c].key] = None
               ELSE AnswersFor(req[c], a)]_apiVars
  BY StepAnswers DEF AnswersNow
<1> QED BY <1>1, Invariance, PTL DEF ApiSpec, GateAnswersForItsRequest

(***************************************************************************)
(* Promotion is explicit.                                                  *)
(***************************************************************************)
LEMMA StepMoves ==
  ASSUME Inv, [ApiNext]_apiVars, NEW k \in Branches, Good(k)' # Good(k)
  PROVE  \E c \in Clients : (Upsert(c) /\ req[c].key = k) \/ Reposts(c, k)
<1>1. ~UNCHANGED <<runs, baselines>>
  BY DEF Good
<1>2. ASSUME NEW c \in Clients, PutRun(c) PROVE Reposts(c, k)
  <2>1. UNCHANGED baselines /\ runs' = [runs EXCEPT ![req[c].run] = req[c].body]
    BY <1>2 DEF PutRun
  <2>2. baselines[k] # None
    BY <2>1 DEF Good
  <2>3. baselines[k].run = req[c].run
    BY <2>1, <2>2 DEF Good, Inv, ApiTypeOK, Baseline
  <2> QED BY <1>2, <2>2, <2>3 DEF Reposts
<1>3. ASSUME NEW c \in Clients, Upsert(c) PROVE req[c].key = k
  <2>1. UNCHANGED runs /\ baselines' = [baselines EXCEPT ![req[c].key] =
                                          [run |-> req[c].run, score |-> req[c].content]]
    BY <1>3 DEF Upsert
  <2> QED BY <2>1 DEF Good, Inv, ApiTypeOK
<1>4. \/ UNCHANGED <<runs, baselines>>
      \/ \E c \in Clients : PutRun(c) \/ Upsert(c)
  BY DEF ApiNext, apiVars, RegisterSuite, SubmitRun, Promote, Gate, GetSuite, GetBase, GetCand, Done
<1> QED BY <1>1, <1>2, <1>3, <1>4

\* What a gate compares with changes by a promotion, or by a post under the run_id
\* that was promoted: no other run becomes the baseline.
THEOREM OnlyItsOwnRunMoves == ApiSpec => OnlyItsOwnRunMovesABaseline
<1>1. Inv /\ [ApiNext]_apiVars =>
        [\A k \in Branches : Good(k)' # Good(k) =>
           \E c \in Clients : (Upsert(c) /\ req[c].key = k) \/ Reposts(c, k)]_apiVars
  BY StepMoves
<1> QED BY <1>1, Invariance, PTL DEF ApiSpec, OnlyItsOwnRunMovesABaseline

(***************************************************************************)
(* PostgresStore implements MemoryStore.                                   *)
(***************************************************************************)
\* What a request is about to write as a baseline.
Promoting(q) ==
  IF q.at = "upsert" THEN [key |-> q.key, run |-> q.run, score |-> q.content] ELSE None

promotions == [c \in Clients |-> Promoting(req[c])]

LEMMA OnlyItsPromotion ==
  ASSUME Inv, NEW c \in Clients, NEW q, Handles(c, q)
  PROVE  promotions' = [promotions EXCEPT ![c] = Promoting(q)]
<1>1. ASSUME NEW d \in Clients, d # c
      PROVE  Promoting(req'[d]) = Promoting(req[d])
  <2>1. PICK p \in Request : p = req[d]
    BY DEF Inv, ApiTypeOK
  <2>2. req'[d] = Watching(p)
    BY <1>1, <2>1 DEF Handles
  <2> QED BY <2>1, <2>2, WatchingKept DEF Promoting
<1>2. Promoting(req'[c]) = Promoting(q)
  BY DEF Handles
<1> QED BY <1>1, <1>2 DEF promotions

\* A request that neither promotes nor did leaves the promotions as they are.
LEMMA NoPromotion ==
  ASSUME Inv, NEW c \in Clients, NEW q, Handles(c, q), req[c].at # "upsert", q.at # "upsert"
  PROVE  UNCHANGED promotions
<1>1. promotions' = [promotions EXCEPT ![c] = Promoting(q)]
  BY OnlyItsPromotion
<1>2. promotions[c] = None /\ Promoting(q) = None
  BY DEF promotions, Promoting
<1> QED BY <1>1, <1>2 DEF promotions

LEMMA EndPromotesNothing ==
  ASSUME Inv, NEW c \in Clients, Ends(c)
  PROVE  promotions' = [promotions EXCEPT ![c] = None]
<1>1. Promoting(NoRequest) = None
  BY NoRequestTyped DEF Promoting
<1> QED BY <1>1, OnlyItsPromotion DEF Ends

LEMMA EndUnpromoted ==
  ASSUME Inv, NEW c \in Clients, Ends(c), req[c].at # "upsert"
  PROVE  UNCHANGED promotions
BY NoRequestTyped, NoPromotion DEF Ends

\* The dictionaries after a step: a write of one of them, or no change.
Refines == Memory!StoreNext \/ UNCHANGED <<suites, runs, baselines, promotions>>

LEMMA WritesRefine ==
  ASSUME Inv, NEW c \in Clients
  PROVE  /\ RegisterSuite(c) => Refines
         /\ PutRun(c) => Refines
<1>1. ASSUME RegisterSuite(c) PROVE Refines
  <2>1. PICK s \in SuiteIds, r \in Rules : suites' = [suites EXCEPT ![s] = r]
    BY <1>1 DEF RegisterSuite
  <2>2. UNCHANGED promotions
    BY <1>1, EndUnpromoted DEF RegisterSuite
  <2>3. Memory!PutSuite(s, r) /\ s \in DOMAIN suites
    BY <1>1, <2>1, <2>2
    DEF RegisterSuite, Memory!PutSuite, Inv, ApiTypeOK, promotions, Promoting
  <2> QED BY <2>3 DEF Memory!StoreNext, Refines
<1>2. ASSUME PutRun(c) PROVE Refines
  <2>1. PICK q \in Request : q = req[c] /\ Sound(q, suites, runs) /\ q.at = "put_run"
    BY <1>2 DEF Inv, ApiTypeOK, PutRun
  <2>2. q.body \in Posts[q.run] /\ q.run \in RunIds /\ suites[q.body.suite] # None
    BY <2>1 DEF Sound, Submits, Request
  <2>3. UNCHANGED promotions
    BY <1>2, <2>1, EndUnpromoted DEF PutRun
  <2>4. Memory!StoreRun(q.run, q.body)
    BY <1>2, <2>1, <2>2, <2>3 DEF PutRun, Memory!StoreRun, promotions, Promoting
  <2> QED BY <2>2, <2>4 DEF Memory!StoreNext, Refines
<1> QED BY <1>1, <1>2

\* The select of a promotion is the look-up, its upsert the write, ...
LEMMA PromotionsRefine ==
  ASSUME Inv, NEW c \in Clients
  PROVE  /\ Promote(c) => Refines
         /\ Upsert(c) => Refines
         /\ Done(c) => Refines
<1>0. promotions = [d \in Clients |-> IF req[d].at = "upsert"
                                      THEN [key |-> req[d].key, run |-> req[d].run, score |-> req[d].content]
                                      ELSE None]
  BY DEF promotions, Promoting
<1>1. ASSUME Promote(c) PROVE Refines
  <2>1. PICK k \in Branches, r \in RunIds :
          IF runs[r] = None \/ (runs[r] # None /\ runs[r].suite # k.suite) THEN Ends(c)
          ELSE Handles(c, [NoRequest EXCEPT !.at = "upsert", !.key = k, !.run = r,
                             !.content = runs[r].content])
    BY <1>1 DEF Promote
  <2>2. UNCHANGED <<suites, runs, baselines>> /\ req[c].at = "idle"
    BY <1>1 DEF Promote
  <2>3. CASE runs[r] = None \/ (runs[r] # None /\ runs[r].suite # k.suite)
    BY <2>1, <2>2, <2>3, EndUnpromoted DEF Refines
  <2>4. CASE runs[r] # None /\ runs[r].suite = k.suite
    <3> DEFINE q == [NoRequest EXCEPT !.at = "upsert", !.key = k, !.run = r, !.content = runs[r].content]
    <3>1. q.at = "upsert" /\ q.key = k /\ q.run = r /\ q.content = runs[r].content
      BY NoRequestTyped DEF Request
    <3>2. Handles(c, q)
      BY <2>1, <2>4
    <3> HIDE DEF q
    <3>3. promotions' = [promotions EXCEPT ![c] = [key |-> k, run |-> r, score |-> runs[r].content]]
      BY <3>1, <3>2, OnlyItsPromotion DEF Promoting
    <3>4. promotions[c] = None
      BY <2>2 DEF promotions, Promoting
    <3>5. Memory!LookUp(c, k, r)
      BY <2>2, <2>4, <3>3, <3>4 DEF Memory!LookUp, Memory!tables, promotions, Promoting
    <3> QED BY <3>5 DEF Memory!StoreNext, Refines
  <2> QED BY <2>3, <2>4
<1>2. ASSUME req[c].at = "upsert"
      PROVE  promotions[c] = [key |-> req[c].key, run |-> req[c].run, score |-> req[c].content]
             /\ promotions[c] # None
  <2>1. PICK q \in Request : q = req[c] /\ Sound(q, suites, runs)
    BY DEF Inv, ApiTypeOK
  <2>2. [suite |-> q.key.suite, content |-> q.content] \in Body /\ q.key \in Branches /\ q.run \in RunIds
    BY <1>2, <2>1, ApiAssumption DEF Sound, Selected, Request
  <2>3. [key |-> q.key, run |-> q.run, score |-> q.content]
          \in [key: Branches, run: RunIds, score: Measurements]
    BY <2>2 DEF Body
  <2>4. promotions[c] = [key |-> q.key, run |-> q.run, score |-> q.content]
    BY <1>2, <2>1 DEF promotions, Promoting
  <2> QED BY <2>1, <2>3, <2>4, ApiAssumption
<1>3. ASSUME Upsert(c) PROVE Refines
  <2>1. promotions' = [promotions EXCEPT ![c] = None]
    BY <1>3, EndPromotesNothing DEF Upsert
  <2>2. Memory!SetBaseline(c)
    BY <1>2, <1>3, <2>1 DEF Upsert, Memory!SetBaseline, promotions, Promoting
  <2> QED BY <2>2 DEF Memory!StoreNext, Refines
<1>4. ASSUME Done(c) PROVE Refines
  <2>1. UNCHANGED <<suites, runs, baselines>> /\ Ends(c)
    BY <1>4 DEF Done
  <2>2. CASE req[c].at = "upsert"
    <3>1. promotions' = [promotions EXCEPT ![c] = None]
      BY <2>1, EndPromotesNothing
    <3>2. Memory!Abandon(c)
      BY <1>2, <2>1, <2>2, <3>1 DEF Memory!Abandon, Memory!tables, promotions, Promoting
    <3> QED BY <3>2 DEF Memory!StoreNext, Refines
  <2>3. CASE req[c].at # "upsert"
    BY <2>1, <2>3, EndUnpromoted DEF Refines
  <2> QED BY <2>2, <2>3
<1> QED BY <1>1, <1>3, <1>4

\* ... and the rest only reads.
LEMMA ReadsRefine ==
  ASSUME Inv, NEW c \in Clients, NEW q, UNCHANGED <<suites, runs, baselines>>,
         req[c].at # "upsert", Ends(c) \/ (Handles(c, q) /\ q.at # "upsert")
  PROVE  Refines
BY EndUnpromoted, NoPromotion DEF Refines

LEMMA RequestsRefine ==
  ASSUME Inv, NEW c \in Clients,
         SubmitRun(c) \/ Gate(c) \/ GetSuite(c) \/ GetBase(c) \/ GetCand(c)
  PROVE  Refines
<1>1. CASE SubmitRun(c)
  <2>1. PICK r \in RunIds : \E b \in Posts[r] :
          \/ Ends(c)
          \/ Handles(c, [NoRequest EXCEPT !.at = "put_run", !.run = r, !.body = b])
    BY <1>1 DEF SubmitRun
  <2>2. PICK b \in Posts[r] :
          \/ Ends(c)
          \/ Handles(c, [NoRequest EXCEPT !.at = "put_run", !.run = r, !.body = b])
    BY <2>1
  <2> DEFINE q == [NoRequest EXCEPT !.at = "put_run", !.run = r, !.body = b]
  <2>3. q.at # "upsert"
    BY NoRequestTyped DEF Request
  <2>4. Ends(c) \/ Handles(c, q)
    BY <2>2
  <2> HIDE DEF q
  <2> QED BY <1>1, <2>3, <2>4, ReadsRefine DEF SubmitRun
<1>2. CASE Gate(c)
  <2>1. PICK k \in Branches, r \in RunIds :
          Answers(c, k, "no baseline") \/ Compares(c, k, r, baselines[k])
    BY <1>2 DEF Gate
  <2> DEFINE q == [NoRequest EXCEPT !.at = "answered", !.key = k, !.answer = "no baseline"]
             p == [NoRequest EXCEPT !.at = "get_suite", !.key = k, !.run = r,
                     !.base = baselines[k], !.sawRules = {suites[k.suite]},
                     !.sawBase = {baselines[k]}, !.sawRuns = Rows(runs, {r, baselines[k].run})]
  <2>2. q.at # "upsert" /\ p.at # "upsert"
    BY NoRequestTyped DEF Request
  <2>3. Handles(c, q) \/ Handles(c, p)
    BY <2>1 DEF Answers, Compares
  <2> HIDE DEF p, q
  <2> QED BY <1>2, <2>2, <2>3, ReadsRefine DEF Gate
<1>3. CASE GetSuite(c)
  <2>1. PICK x \in Request : x = req[c]
    BY DEF Inv, ApiTypeOK
  <2> DEFINE q == [x EXCEPT !.at = "get_base", !.rules = suites[req[c].key.suite]]
  <2>2. Ends(c) \/ Handles(c, q)
    BY <1>3, <2>1 DEF GetSuite
  <2>3. q.at # "upsert"
    BY DEF Request
  <2> HIDE DEF q
  <2> QED BY <1>3, <2>2, <2>3, ReadsRefine DEF GetSuite
<1>4. CASE GetBase(c)
  <2>1. PICK x \in Request : x = req[c]
    BY DEF Inv, ApiTypeOK
  <2> DEFINE q == [x EXCEPT !.at = "get_cand", !.content = runs[req[c].base.run].content]
  <2>2. Ends(c) \/ Handles(c, q)
    BY <1>4, <2>1 DEF GetBase
  <2>3. q.at # "upsert"
    BY DEF Request
  <2> HIDE DEF q
  <2> QED BY <1>4, <2>2, <2>3, ReadsRefine DEF GetBase
<1>5. CASE GetCand(c)
  <2>1. PICK a \in GateVerdicts : Ends(c) \/ Answers(c, req[c].key, a)
    BY <1>5, GetCandAnswers DEF GateVerdicts
  <2> DEFINE q == [NoRequest EXCEPT !.at = "answered", !.key = req[c].key, !.answer = a]
  <2>2. q.at # "upsert"
    BY NoRequestTyped DEF Request
  <2>3. Ends(c) \/ Handles(c, q)
    BY <2>1 DEF Answers
  <2> HIDE DEF q
  <2> QED BY <1>5, <2>2, <2>3, ReadsRefine DEF GetCand
<1> QED BY <1>1, <1>2, <1>3, <1>4, <1>5

LEMMA StepRefines == Inv /\ [ApiNext]_apiVars => [Memory!StoreNext]_(Memory!storeVars)
<1> SUFFICES ASSUME Inv, [ApiNext]_apiVars
             PROVE  Memory!StoreNext \/ UNCHANGED Memory!storeVars
  OBVIOUS
<1>1. CASE UNCHANGED apiVars
  BY <1>1 DEF apiVars, Memory!storeVars, Memory!tables
<1>2. ASSUME ApiNext PROVE Refines
  BY <1>2, WritesRefine, PromotionsRefine, RequestsRefine DEF ApiNext
<1>3. UNCHANGED <<suites, runs, baselines, promotions>> => UNCHANGED Memory!storeVars
  BY DEF Memory!storeVars, Memory!tables, promotions, Promoting
<1> QED BY <1>1, <1>2, <1>3 DEF Refines

\* "Both must behave identically": whatever the statements of any number of requests
\* interleave to, the tables of Postgres change as the dictionaries of MemoryStore
\* would under as many threads.
THEOREM StoresAgree == ApiSpec => ImplementsMemoryStore
<1>1. ApiInit => Memory!StoreInit
  BY NoRequestTyped DEF ApiInit, Memory!StoreInit, SuiteIds
<1>2. Inv /\ [ApiNext]_apiVars => [Memory!StoreNext]_(Memory!storeVars)
  BY StepRefines
<1> QED BY <1>1, <1>2, Invariance, PTL DEF ApiSpec, ImplementsMemoryStore, Memory!StoreSpec
==============================================================================
