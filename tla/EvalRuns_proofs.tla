---------------------------- MODULE EvalRuns_proofs ----------------------------
(***************************************************************************)
(* A run of a suite: a completed case is on disk, a verdict is the judge's *)
(* of this version, and a rerun asks for nothing twice, for suites of any  *)
(* length, any scorers and any number of answers, retries and versions.    *)
(* And the comparison of such runs along the life of a suite.              *)
(***************************************************************************)
EXTENDS SuiteRun, PromotedRuns, CountingTheorems, SequenceTheorems

Jobs == {Over} \union Between \union Scoring \union Asking

AtACase == job.pc \in {"score", "ask", "save"}

\* The results are of the first cases of the suite, in its order.
DoneIsAPrefix ==
  /\ \A i \in DOMAIN done : done[i].case = SuiteCases[i]
  /\ AtACase => Len(done) < Len(SuiteCases)
  /\ job.pc = "write" => Len(done) = Len(SuiteCases)

LineToWrite == done # <<>> /\ progress = SubSeq(done, 1, Len(done) - 1)

\* The progress file follows the results, one line behind only where the line is
\* to be written, or was when the process ended.
ProgressFollows ==
  /\ job.pc \in {"case", "score", "ask", "save", "write"} => progress = done
  /\ job.pc = "sink" => LineToWrite
  /\ job = Over => progress = done \/ LineToWrite
  /\ finished => /\ job = Over /\ progress = done /\ Len(done) = Len(SuiteCases)
                 /\ artifact = NamesOf(done)

\* Of the answers given, each of these verdicts is one.
Gave(given, verdicts) == \A j \in DOMAIN verdicts : \E n \in DOMAIN given : given[n] = verdicts[j]

VerdictsAreGiven ==
  /\ job # Over =>
       \A i \in DOMAIN done : Gave(answers[Key(done[i].case, done[i].output, version)], done[i].verdicts)
  /\ \A i \in DOMAIN done : done[i].verdicts # <<>> => done[i].output \in Outputs
  /\ AtACase => Gave(answers[Key(CurrentCase, job.output, version)], job.verdicts)
  /\ \A k \in DOMAIN cache : \E n \in DOMAIN answers[k] : answers[k][n] = cache[k]

BeingSaved(k) == job.pc = "save" /\ k = CacheKey

\* An answer is in the table, on its way there, or counted as unsaved.
EveryAnswerIsAccountedFor ==
  /\ job.pc \in {"ask", "save"} => (job.judge = "cached" => CacheKey \notin DOMAIN cache)
  /\ job.pc = "save" => job.verdicts # <<>> /\ job.judge = "cached"
  /\ \A k \in Keys :
       Len(answers[k]) <= unsaved[k] + (IF k \in DOMAIN cache \/ BeingSaved(k) THEN 1 ELSE 0)

RunInv ==
  /\ RunTypeOK
  /\ DoneIsAPrefix
  /\ ProgressFollows
  /\ VerdictsAreGiven
  /\ EveryAnswerIsAccountedFor

LEMMA RunInitInv == RunInit => RunInv
<1> SUFFICES ASSUME RunInit PROVE RunInv
  OBVIOUS
<1>1. /\ job = Over /\ job.pc = "over" /\ done = <<>> /\ progress = <<>> /\ ~finished
      /\ DOMAIN cache = {} /\ version = 1
      /\ \A k \in Keys : answers[k] = <<>> /\ unsaved[k] = 0
  BY DEF RunInit, Over
<1>2. /\ finished \in BOOLEAN /\ answers \in [Keys -> Seq(VerdictScores)] /\ job \in Jobs
      /\ unsaved \in [Keys -> Nat]
  <2>1. finished \in BOOLEAN
    BY DEF RunInit
  <2>2. answers \in [Keys -> Seq(VerdictScores)] /\ job \in Jobs /\ unsaved \in [Keys -> Nat]
    BY DEF RunInit, Jobs
  <2> QED BY <2>1, <2>2
<1>3. Len(SuiteCases) \in Nat
  BY SuiteAssumption
<1>4. RunTypeOK
  BY <1>1, <1>2, <1>3, VersionAssumption DEF RunTypeOK, Jobs
<1> QED BY <1>1, <1>4 DEF RunInv, DoneIsAPrefix, AtACase, ProgressFollows, VerdictsAreGiven,
              EveryAnswerIsAccountedFor, BeingSaved

(***************************************************************************)
(* The shapes of a run at work.                                            *)
(***************************************************************************)
LEMMA JobShapes ==
  ASSUME NEW j \in Jobs
  PROVE  /\ j.pc = "over" <=> j = Over
         /\ j.pc \in {"case", "sink", "write"} => j \in Between
         /\ j.pc = "score" => j \in Scoring
         /\ j.pc \in {"ask", "save"} => j \in Asking
         /\ j.pc \in {"over", "case", "score", "ask", "save", "sink", "write"}
  BY DEF Jobs, Over, Between, Scoring, Asking

LEMMA AtACaseShapes ==
  ASSUME RunInv, AtACase
  PROVE  /\ job \in Scoring \union Asking /\ job.judge \in Judges /\ job.output \in Outputs
         /\ job.at \in Nat /\ job.verdicts \in Seq(VerdictScores)
         /\ Len(done) < Len(SuiteCases) /\ progress = done /\ ~finished /\ job # Over
         /\ Gave(answers[Key(CurrentCase, job.output, version)], job.verdicts)
<1>1. job \in Scoring \union Asking /\ job # Over
  BY JobShapes DEF RunInv, RunTypeOK, Jobs, AtACase, Over
<1> QED BY <1>1 DEF RunInv, AtACase, DoneIsAPrefix, ProgressFollows, VerdictsAreGiven, Scoring, Asking

LEMMA CurrentCaseTyped ==
  ASSUME RunInv, Len(done) < Len(SuiteCases)
  PROVE  /\ CurrentCase \in CasesOfSuite /\ Len(done) + 1 \in DOMAIN SuiteCases
         /\ \A o \in Outputs : Key(CurrentCase, o, version) \in Keys
<1>1. Len(done) \in Nat /\ Len(SuiteCases) \in Nat /\ DOMAIN SuiteCases = 1..Len(SuiteCases)
  BY SuiteAssumption DEF RunInv, RunTypeOK
<1>2. Len(done) + 1 \in DOMAIN SuiteCases
  BY <1>1
<1> QED BY <1>2 DEF CurrentCase, CasesOfSuite, Key, Keys, RunInv, RunTypeOK

\* An answer that was being saved and is not is one of the unsaved.
LEMMA LosingTheAnswer ==
  ASSUME RunInv, IF job.pc = "save" THEN LoseAnswer ELSE UNCHANGED unsaved
  PROVE  /\ unsaved' \in [Keys -> Nat]
         /\ \A k \in Keys : Len(answers[k]) <= unsaved'[k] + (IF k \in DOMAIN cache THEN 1 ELSE 0)
<1>1. unsaved \in [Keys -> Nat] /\ answers \in [Keys -> Seq(VerdictScores)]
  BY DEF RunInv, RunTypeOK
<1>2. unsaved' \in [Keys -> Nat]
  BY <1>1 DEF LoseAnswer
<1>3. ASSUME NEW k \in Keys PROVE Len(answers[k]) <= unsaved'[k] + (IF k \in DOMAIN cache THEN 1 ELSE 0)
  <2>1. unsaved[k] \in Nat /\ answers[k] \in Seq(VerdictScores)
    BY <1>1
  <2>2. Len(answers[k]) \in Nat
    BY <2>1
  <2>3. Len(answers[k]) <= unsaved[k] + (IF k \in DOMAIN cache \/ BeingSaved(k) THEN 1 ELSE 0)
    BY DEF RunInv, EveryAnswerIsAccountedFor
  <2>4. unsaved'[k] = IF BeingSaved(k) THEN unsaved[k] + 1 ELSE unsaved[k]
    BY <1>1 DEF BeingSaved, LoseAnswer
  <2> QED BY <2>1, <2>2, <2>3, <2>4
<1> QED BY <1>2, <1>3

(***************************************************************************)
(* The case ends with a result, whose line is to be written next.          *)
(***************************************************************************)
LEMMA CaseEnds ==
  ASSUME RunInv, job.pc = "case" \/ AtACase, job.judge \in Judges, Len(done) < Len(SuiteCases),
         NEW o \in Outputs \union {NoOutput}, NEW e \in BOOLEAN, NEW vs \in Seq(VerdictScores),
         vs # <<>> => o \in Outputs, Gave(answers[Key(CurrentCase, o, version)], vs), EndCase(o, e, vs),
         UNCHANGED <<Files, version, cache, answers>>,
         IF job.pc = "save" THEN LoseAnswer ELSE UNCHANGED unsaved
  PROVE  RunInv'
<1> DEFINE r == Result(CurrentCase, o, e, vs)
<1>1. r \in Results /\ r.case = CurrentCase /\ r.output = o /\ r.verdicts = vs
  BY CurrentCaseTyped DEF Result, Results
<1>2. done' = Append(done, r) /\ job' = [pc |-> "sink", judge |-> job.judge]
  BY DEF EndCase
<1>3. /\ done \in Seq(Results) /\ Len(SuiteCases) \in Nat /\ job \in Jobs
      /\ progress = done /\ ~finished /\ job # Over
  BY SuiteAssumption DEF RunInv, RunTypeOK, Jobs, ProgressFollows, AtACase, Over
<1> HIDE DEF r
<1>4. /\ done' \in Seq(Results) /\ Len(done') = Len(done) + 1 /\ done' # <<>>
      /\ DOMAIN done = 1..Len(done) /\ DOMAIN done' = 1..(Len(done) + 1) /\ Len(done) \in Nat
      /\ done'[Len(done) + 1] = r /\ \A i \in DOMAIN done : done'[i] = done[i]
  BY <1>1, <1>2, <1>3, AppendProperties, LenProperties
<1>5. job' \in Between /\ job'.pc = "sink"
  BY <1>2 DEF Between
<1>6. RunTypeOK'
  BY <1>3, <1>4, <1>5, LosingTheAnswer DEF RunInv, RunTypeOK, Files
<1>7. DoneIsAPrefix'
  BY <1>1, <1>4, <1>5 DEF RunInv, DoneIsAPrefix, AtACase, CurrentCase
<1>8. ProgressFollows'
  <2>1. SubSeq(done', 1, Len(done') - 1) = done
    BY <1>1, <1>2, <1>3, <1>4, AppendProperties, SubSeqProperties
  <2>2. LineToWrite'
    BY <1>3, <1>4, <2>1 DEF LineToWrite, Files
  <2> QED BY <1>3, <1>5, <2>2 DEF ProgressFollows, Files, Over
<1>9. VerdictsAreGiven'
  <2>1. ASSUME NEW i \in DOMAIN done'
        PROVE  /\ Gave(answers[Key(done'[i].case, done'[i].output, version)], done'[i].verdicts)
               /\ done'[i].verdicts # <<>> => done'[i].output \in Outputs
    <3>1. CASE i \in DOMAIN done
      <4>1. done'[i] = done[i]
        BY <1>4, <3>1
      <4> QED BY <1>3, <3>1, <4>1 DEF RunInv, VerdictsAreGiven
    <3>2. CASE i = Len(done) + 1
      <4>1. done'[i] = r
        BY <1>4, <3>2
      <4> QED BY <1>1, <4>1
    <3> QED BY <1>4, <2>1, <3>1, <3>2
  <2>2. version' = version /\ cache' = cache /\ answers' = answers
    OBVIOUS
  <2>3. \A i \in DOMAIN done' : Gave(answers[Key(done[i].case, done[i].output, version)], done[i].verdicts)'
    BY <2>1, <2>2 DEF Gave
  <2> QED BY <1>5, <2>1, <2>2, <2>3 DEF RunInv, VerdictsAreGiven, AtACase
<1>10. EveryAnswerIsAccountedFor'
  <2>1. ASSUME NEW k \in Keys PROVE Len(answers[k]) <= unsaved'[k] + (IF k \in DOMAIN cache THEN 1 ELSE 0)
    BY LosingTheAnswer
  <2>2. cache' = cache /\ answers' = answers
    OBVIOUS
  <2> QED BY <1>5, <2>1, <2>2 DEF EveryAnswerIsAccountedFor, BeingSaved
<1> QED BY <1>6, <1>7, <1>8, <1>9, <1>10 DEF RunInv

(***************************************************************************)
(* The case goes on.                                                       *)
(***************************************************************************)
LEMMA CaseGoesOn ==
  ASSUME RunInv, job.pc = "case" \/ AtACase, Len(done) < Len(SuiteCases),
         job' \in Scoring \union Asking, UNCHANGED <<done, Files, version>>,
         unsaved' \in [Keys -> Nat], answers' \in [Keys -> Seq(VerdictScores)],
         DOMAIN cache' \subseteq Keys, \A k \in DOMAIN cache' : cache'[k] \in VerdictScores,
         \A k \in Keys : \A n \in DOMAIN answers[k] : n \in DOMAIN answers'[k] /\ answers'[k][n] = answers[k][n],
         Gave(answers[Key(CurrentCase, job.output, version)], job.verdicts)',
         \A k \in DOMAIN cache' : \E n \in DOMAIN answers'[k] : answers'[k][n] = cache'[k],
         EveryAnswerIsAccountedFor'
  PROVE  RunInv'
<1>1. /\ progress = done /\ ~finished /\ job # Over
      /\ job' \in Jobs /\ job'.pc \in {"score", "ask", "save"} /\ job' # Over
  BY DEF RunInv, ProgressFollows, AtACase, Over, Jobs, Scoring, Asking
<1>2. RunTypeOK'
  BY <1>1 DEF RunInv, RunTypeOK, Jobs, Files
<1>3. DoneIsAPrefix' /\ ProgressFollows'
  BY <1>1 DEF RunInv, DoneIsAPrefix, ProgressFollows, AtACase, Files, LineToWrite
<1>4. ASSUME NEW i \in DOMAIN done
      PROVE  Gave(answers[Key(done[i].case, done[i].output, version)], done[i].verdicts)'
  <2> DEFINE k == Key(done[i].case, done[i].output, version)
  <2>1. ASSUME NEW j \in DOMAIN done[i].verdicts
        PROVE  \E n \in DOMAIN answers'[k] : answers'[k][n] = done[i].verdicts[j]
    <3>1. PICK n \in DOMAIN answers[k] : answers[k][n] = done[i].verdicts[j]
      BY <1>1, <2>1 DEF RunInv, VerdictsAreGiven, Gave
    <3>2. k \in Keys
      <4>1. done[i] \in Results
        BY DEF RunInv, RunTypeOK
      <4>2. done[i].verdicts # <<>>
        BY <2>1
      <4>3. done[i].output \in Outputs
        BY <4>2 DEF RunInv, VerdictsAreGiven
      <4> QED BY <4>1, <4>3 DEF Results, Key, Keys, RunInv, RunTypeOK
    <3> HIDE DEF k
    <3> QED BY <3>1, <3>2
  <2> QED BY <2>1 DEF Gave
<1>5. VerdictsAreGiven'
  <2>1. done' = done /\ AtACase'
    BY <1>1 DEF AtACase
  <2> QED BY <1>4, <2>1 DEF RunInv, VerdictsAreGiven
<1> QED BY <1>2, <1>3, <1>5 DEF RunInv

\* It goes on with the cache and the answers as they are, unless an answer is
\* being saved.
LEMMA CaseGoesOnCached ==
  ASSUME RunInv, job.pc = "case" \/ AtACase, job.pc # "save", Len(done) < Len(SuiteCases),
         job' \in Scoring \union Asking, job'.pc # "save",
         job'.pc = "ask" => (job'.judge = "cached" => CacheKey' \notin DOMAIN cache),
         UNCHANGED <<done, Files, Cached>>,
         Gave(answers[Key(CurrentCase, job'.output, version)], job'.verdicts)
  PROVE  RunInv'
<1>1. /\ UNCHANGED <<done, Files, version>> /\ answers' = answers /\ cache' = cache
      /\ unsaved' = unsaved /\ unsaved' \in [Keys -> Nat] /\ answers \in [Keys -> Seq(VerdictScores)] /\ DOMAIN cache \subseteq Keys
      /\ \A k \in DOMAIN cache : cache[k] \in VerdictScores
  BY DEF Cached, RunInv, RunTypeOK
<1>2. Gave(answers[Key(CurrentCase, job.output, version)], job.verdicts)'
  BY <1>1 DEF Gave, CurrentCase
<1>3. \A k \in DOMAIN cache : \E n \in DOMAIN answers[k] : answers[k][n] = cache[k]
  BY DEF RunInv, VerdictsAreGiven
<1>4. EveryAnswerIsAccountedFor'
  <2>1. ASSUME NEW k \in Keys PROVE Len(answers[k]) <= unsaved[k] + (IF k \in DOMAIN cache THEN 1 ELSE 0)
    BY DEF RunInv, EveryAnswerIsAccountedFor, BeingSaved
  <2>2. job'.pc \in {"ask", "save"} => job'.pc = "ask"
    OBVIOUS
  <2> QED BY <1>1, <2>1, <2>2 DEF EveryAnswerIsAccountedFor, BeingSaved
<1> QED BY <1>1, <1>2, <1>3, <1>4, CaseGoesOn

\* With one verdict more.
LEMMA GaveOneMore ==
  ASSUME NEW given, NEW vs \in Seq(VerdictScores), NEW s \in VerdictScores,
         Gave(given, vs), NEW n \in DOMAIN given, given[n] = s
  PROVE  Append(vs, s) \in Seq(VerdictScores) /\ Gave(given, Append(vs, s))
<1>1. /\ Append(vs, s) \in Seq(VerdictScores) /\ Len(vs) \in Nat
      /\ DOMAIN vs = 1..Len(vs) /\ DOMAIN Append(vs, s) = 1..(Len(vs) + 1)
      /\ Append(vs, s)[Len(vs) + 1] = s /\ \A i \in 1..Len(vs) : Append(vs, s)[i] = vs[i]
  BY AppendProperties, LenProperties
<1>2. ASSUME NEW j \in DOMAIN Append(vs, s)
      PROVE  \E m \in DOMAIN given : given[m] = Append(vs, s)[j]
  <2>1. CASE j = Len(vs) + 1
    BY <1>1, <2>1
  <2>2. CASE j \in 1..Len(vs)
    BY <1>1, <2>2 DEF Gave
  <2> QED BY <1>1, <2>1, <2>2
<1> QED BY <1>1, <1>2 DEF Gave

LEMMA GenerateStep == ASSUME RunInv, Generate PROVE RunInv'
<1>1. /\ job \in Between /\ job.judge \in Judges /\ job.pc = "case"
      /\ Len(done) < Len(SuiteCases) /\ UNCHANGED <<Files, Cached>>
  BY JobShapes DEF Generate, RunInv, RunTypeOK, Jobs, Between
<1>2. \A o : Gave(answers[Key(CurrentCase, o, version)], <<>>)
  BY DEF Gave
<1>3. ASSUME NEW o \in Outputs, UNCHANGED done,
             job' = [pc |-> "score", judge |-> job.judge, output |-> o, at |-> 1, verdicts |-> <<>>]
      PROVE  RunInv'
  <2>1. job' \in Scoring /\ job'.pc = "score" /\ job'.output = o /\ job'.verdicts = <<>>
    BY <1>1, <1>3 DEF Scoring
  <2> QED BY <1>1, <1>2, <1>3, <2>1, CaseGoesOnCached
<1>4. ASSUME EndCase(NoOutput, TRUE, <<>>) PROVE RunInv'
  <2>1. <<>> \in Seq(VerdictScores) /\ NoOutput \in Outputs \union {NoOutput} /\ TRUE \in BOOLEAN
    OBVIOUS
  <2>2. /\ UNCHANGED <<Files, version, cache, answers>>
        /\ IF job.pc = "save" THEN LoseAnswer ELSE UNCHANGED unsaved
    BY <1>1 DEF Cached
  <2> QED BY <1>1, <1>2, <1>4, <2>1, <2>2, CaseEnds
<1> QED BY <1>3, <1>4 DEF Generate

LEMMA ScoreRuleStep == ASSUME RunInv, ScoreRule PROVE RunInv'
<1>1. AtACase /\ job.pc = "score" /\ job' = [job EXCEPT !.at = @ + 1] /\ UNCHANGED <<done, Files, Cached>>
  BY DEF ScoreRule, AtScorer, AtACase
<1>2. job \in Scoring
  BY <1>1, JobShapes DEF RunInv, RunTypeOK, Jobs
<1>3. job' \in Scoring /\ job'.pc = "score" /\ job'.output = job.output /\ job'.verdicts = job.verdicts
  BY <1>1, <1>2 DEF Scoring
<1> QED BY <1>1, <1>3, AtACaseShapes, CaseGoesOnCached

\* A case that is being scored ends with what it has.
LEMMA ScoringEnds ==
  ASSUME RunInv, job.pc \in {"score", "ask"}, NEW e \in BOOLEAN,
         EndCase(job.output, e, job.verdicts), UNCHANGED <<Files, Cached>>
  PROVE  RunInv'
<1>1. AtACase
  BY DEF AtACase
<1> QED BY <1>1, AtACaseShapes, CaseEnds DEF Cached

LEMMA CacheHitStep == ASSUME RunInv, CacheHit PROVE RunInv'
<1>1. /\ AtACase /\ job.pc = "score" /\ CacheKey \in DOMAIN cache
      /\ job' = WithVerdict(cache[CacheKey]) /\ UNCHANGED <<done, Files, Cached>>
  BY DEF CacheHit, AtScorer, AtACase
<1>2. /\ job.output \in Outputs /\ job.at \in Nat /\ job.judge \in Judges /\ job.verdicts \in Seq(VerdictScores)
      /\ Len(done) < Len(SuiteCases) /\ Gave(answers[Key(CurrentCase, job.output, version)], job.verdicts)
  BY <1>1, AtACaseShapes
<1> DEFINE s == cache[CacheKey]
<1>3. s \in VerdictScores /\ \E n \in DOMAIN answers[CacheKey] : answers[CacheKey][n] = s
  BY <1>1 DEF RunInv, RunTypeOK, VerdictsAreGiven
<1>4. CacheKey = Key(CurrentCase, job.output, version)
  BY DEF CacheKey
<1> HIDE DEF s
<1>5. /\ Append(job.verdicts, s) \in Seq(VerdictScores)
      /\ Gave(answers[Key(CurrentCase, job.output, version)], Append(job.verdicts, s))
  BY <1>2, <1>3, <1>4, GaveOneMore
<1>6. /\ job' \in Scoring /\ job'.pc = "score" /\ job'.output = job.output
      /\ job'.verdicts = Append(job.verdicts, s)
  BY <1>1, <1>2, <1>5 DEF WithVerdict, Scoring, s
<1> QED BY <1>1, <1>2, <1>5, <1>6, CaseGoesOnCached

LEMMA CacheMissStep == ASSUME RunInv, CacheMiss PROVE RunInv'
<1>1. /\ AtACase /\ job.pc = "score" /\ UNCHANGED <<done, Files, Cached>>
      /\ job.judge = "cached" => CacheKey \notin DOMAIN cache
      /\ job' = [pc |-> "ask", judge |-> job.judge, output |-> job.output, at |-> job.at,
                 verdicts |-> job.verdicts, attempt |-> 1]
  BY DEF CacheMiss, AtScorer, AtACase
<1>2. /\ job.output \in Outputs /\ job.at \in Nat /\ job.verdicts \in Seq(VerdictScores)
      /\ Len(done) < Len(SuiteCases) /\ Gave(answers[Key(CurrentCase, job.output, version)], job.verdicts)
  BY <1>1, AtACaseShapes
<1>3. /\ job' \in Asking /\ job'.pc = "ask" /\ job'.output = job.output
      /\ job'.verdicts = job.verdicts /\ job'.judge = job.judge
  BY <1>1, <1>2, AtACaseShapes, RetriesAssumption DEF Asking
<1>4. CacheKey' = CacheKey
  BY <1>1, <1>3 DEF CacheKey, CurrentCase, Cached
<1> QED BY <1>1, <1>2, <1>3, <1>4, CaseGoesOnCached

LEMMA RateLimitStep == ASSUME RunInv, RateLimit PROVE RunInv'
<1>1. /\ AtACase /\ job.pc = "ask" /\ job.attempt < MaxRetries /\ UNCHANGED <<done, Files, Cached>>
      /\ job' = [job EXCEPT !.attempt = @ + 1]
  BY DEF RateLimit, AtACase
<1>2. job \in Asking
  BY <1>1, JobShapes DEF RunInv, RunTypeOK, Jobs
<1>3. /\ job' \in Asking /\ job'.pc = "ask" /\ job'.output = job.output
      /\ job'.verdicts = job.verdicts /\ job'.judge = job.judge
  BY <1>1, <1>2, RetriesAssumption DEF Asking
<1>4. CacheKey' = CacheKey /\ (job.judge = "cached" => CacheKey \notin DOMAIN cache)
  BY <1>1, <1>3 DEF CacheKey, CurrentCase, Cached, RunInv, EveryAnswerIsAccountedFor
<1> QED BY <1>1, <1>3, <1>4, AtACaseShapes, CaseGoesOnCached

\* The answer is given to this version. It is on its way to the table, or counted.
LEMMA ProviderAnswersStep == ASSUME RunInv, ProviderAnswers PROVE RunInv'
<1>1. PICK s \in VerdictScores :
        /\ answers' = [answers EXCEPT ![CacheKey] = Append(@, s)]
        /\ IF job.judge = "cached"
             THEN job' = [job EXCEPT !.pc = "save", !.verdicts = Append(@, s)] /\ UNCHANGED unsaved
             ELSE job' = WithVerdict(s) /\ LoseAnswer
  BY DEF ProviderAnswers
<1>2. /\ AtACase /\ job.pc = "ask" /\ UNCHANGED <<done, Files, version, cache>>
      /\ job.judge = "cached" => CacheKey \notin DOMAIN cache
  BY DEF ProviderAnswers, AtACase, RunInv, EveryAnswerIsAccountedFor
<1>3. /\ job.verdicts \in Seq(VerdictScores) /\ Len(done) < Len(SuiteCases)
      /\ Gave(answers[CacheKey], job.verdicts) /\ CacheKey \in Keys
  BY <1>2, AtACaseShapes, CurrentCaseTyped DEF CacheKey
<1>4. job \in Asking
  BY <1>2, JobShapes DEF RunInv, RunTypeOK, Jobs
<1> DEFINE vs == Append(job.verdicts, s)
           given == Append(answers[CacheKey], s)
<1>5. answers \in [Keys -> Seq(VerdictScores)] /\ unsaved \in [Keys -> Nat]
  BY DEF RunInv, RunTypeOK
<1>6. /\ given \in Seq(VerdictScores) /\ Len(given) = Len(answers[CacheKey]) + 1
      /\ Len(answers[CacheKey]) + 1 \in DOMAIN given /\ given[Len(answers[CacheKey]) + 1] = s
      /\ \A n \in DOMAIN answers[CacheKey] : n \in DOMAIN given /\ given[n] = answers[CacheKey][n]
      /\ vs \in Seq(VerdictScores)
  <2>1. answers[CacheKey] \in Seq(VerdictScores)
    BY <1>3, <1>5
  <2> QED BY <1>3, <2>1, AppendProperties, LenProperties
<1>7. /\ answers' \in [Keys -> Seq(VerdictScores)] /\ answers'[CacheKey] = given
      /\ \A k \in Keys \ {CacheKey} : answers'[k] = answers[k]
  BY <1>1, <1>3, <1>5, <1>6
<1> HIDE DEF given
<1>8. Gave(given, vs) /\ vs # <<>>
  <2>1. Gave(given, job.verdicts)
    BY <1>3, <1>6 DEF Gave
  <2>2. Gave(given, vs)
    BY <1>3, <1>6, <2>1, GaveOneMore
  <2>3. vs # <<>>
    BY <1>3, AppendProperties
  <2> QED BY <2>2, <2>3
<1> HIDE DEF vs
<1>9. /\ job' \in Scoring \union Asking /\ job'.output = job.output /\ job'.verdicts = vs
      /\ IF job.judge = "cached" THEN job'.pc = "save" /\ job'.judge = "cached" ELSE job'.pc = "score"
  <2>1. CASE job.judge = "cached"
    <3>1. job' = [job EXCEPT !.pc = "save", !.verdicts = vs]
      BY <1>1, <2>1 DEF vs
    <3> QED BY <1>4, <1>6, <2>1, <3>1 DEF Asking
  <2>2. CASE job.judge # "cached"
    <3>1. job' = [pc |-> "score", judge |-> job.judge, output |-> job.output, at |-> job.at + 1,
                  verdicts |-> vs]
      BY <1>1, <2>2 DEF WithVerdict, vs
    <3> QED BY <1>4, <1>6, <2>2, <3>1 DEF Asking, Scoring
  <2> QED BY <2>1, <2>2
<1>10. CacheKey' = CacheKey /\ CacheKey = Key(CurrentCase, job.output, version)
  BY <1>2, <1>9 DEF CacheKey, CurrentCase
<1>11. Gave(answers[Key(CurrentCase, job.output, version)], job.verdicts)'
  BY <1>7, <1>8, <1>9, <1>10 DEF CacheKey
<1>12. \A k \in Keys : \A n \in DOMAIN answers[k] : n \in DOMAIN answers'[k] /\ answers'[k][n] = answers[k][n]
  BY <1>6, <1>7
<1>13. \A k \in DOMAIN cache' : \E n \in DOMAIN answers'[k] : answers'[k][n] = cache'[k]
  <2>1. \A k \in DOMAIN cache : k \in Keys /\ \E n \in DOMAIN answers[k] : answers[k][n] = cache[k]
    BY DEF RunInv, RunTypeOK, VerdictsAreGiven
  <2>2. cache' = cache
    BY <1>2
  <2> QED BY <1>12, <2>1, <2>2
<1>14. unsaved' \in [Keys -> Nat]
  BY <1>1, <1>5 DEF LoseAnswer
<1>15. EveryAnswerIsAccountedFor'
  <2>1. ASSUME NEW k \in Keys
        PROVE  Len(answers'[k]) <= unsaved'[k] + (IF k \in DOMAIN cache \/ BeingSaved(k)' THEN 1 ELSE 0)
    <3>1. Len(answers[k]) <= unsaved[k] + (IF k \in DOMAIN cache THEN 1 ELSE 0)
      BY <1>2 DEF RunInv, EveryAnswerIsAccountedFor, BeingSaved
    <3>2. Len(answers[k]) \in Nat /\ unsaved[k] \in Nat
      <4>1. answers[k] \in Seq(VerdictScores)
        BY <1>5
      <4> QED BY <1>5, <4>1
    <3>3. CASE k = CacheKey /\ job.judge = "cached"
      <4>1. BeingSaved(k)' /\ unsaved'[k] = unsaved[k] /\ k \notin DOMAIN cache
        BY <1>1, <1>2, <1>9, <1>10, <3>3 DEF BeingSaved
      <4>2. Len(answers'[k]) = Len(answers[k]) + 1
        BY <1>6, <1>7, <3>3
      <4> QED BY <3>1, <3>2, <4>1, <4>2
    <3>4. CASE k = CacheKey /\ job.judge # "cached"
      <4>1. unsaved'[k] = unsaved[k] + 1
        BY <1>1, <1>5, <3>4 DEF LoseAnswer
      <4>2. Len(answers'[k]) = Len(answers[k]) + 1
        BY <1>6, <1>7, <3>4
      <4> QED BY <3>1, <3>2, <4>1, <4>2
    <3>5. CASE k # CacheKey
      <4>1. answers'[k] = answers[k] /\ unsaved'[k] = unsaved[k]
        BY <1>1, <1>5, <1>7, <3>5 DEF LoseAnswer
      <4> QED BY <3>1, <3>2, <4>1
    <3> QED BY <3>3, <3>4, <3>5
  <2>2. job'.pc \in {"ask", "save"} => job.judge = "cached"
    BY <1>9
  <2> QED BY <1>2, <1>8, <1>9, <1>10, <2>1, <2>2 DEF EveryAnswerIsAccountedFor
<1>16. /\ DOMAIN cache' \subseteq Keys /\ \A k \in DOMAIN cache' : cache'[k] \in VerdictScores
  BY <1>2 DEF RunInv, RunTypeOK
<1> QED BY <1>2, <1>3, <1>7, <1>9, <1>11, <1>12, <1>13, <1>14, <1>15, <1>16, CaseGoesOn

\* It is in the table: what was being saved is one that a rerun finds.
LEMMA SaveStep == ASSUME RunInv, Save PROVE RunInv'
<1>1. /\ AtACase /\ job.pc = "save" /\ UNCHANGED <<done, Files, version, answers, unsaved>>
      /\ cache' = [k \in DOMAIN cache \union {CacheKey} |->
                     IF k = CacheKey THEN job.verdicts[Len(job.verdicts)] ELSE cache[k]]
      /\ job' = [pc |-> "score", judge |-> job.judge, output |-> job.output, at |-> job.at + 1,
                 verdicts |-> job.verdicts]
  BY DEF Save, Scored, AtACase
<1>2. /\ job.output \in Outputs /\ job.at \in Nat /\ job.judge \in Judges
      /\ job.verdicts \in Seq(VerdictScores)
      /\ Len(done) < Len(SuiteCases) /\ Gave(answers[CacheKey], job.verdicts) /\ CacheKey \in Keys
  BY <1>1, AtACaseShapes, CurrentCaseTyped DEF CacheKey
<1> DEFINE s == job.verdicts[Len(job.verdicts)]
<1>3. s \in VerdictScores /\ \E n \in DOMAIN answers[CacheKey] : answers[CacheKey][n] = s
  <2>1. job.verdicts # <<>>
    BY <1>1 DEF RunInv, EveryAnswerIsAccountedFor
  <2>2. Len(job.verdicts) \in DOMAIN job.verdicts
    BY <1>2, <2>1, EmptySeq, LenProperties
  <2> QED BY <1>2, <2>2 DEF Gave
<1>4. /\ DOMAIN cache' = DOMAIN cache \union {CacheKey} /\ cache'[CacheKey] = s
      /\ \A k \in DOMAIN cache \ {CacheKey} : cache'[k] = cache[k]
  BY <1>1
<1> HIDE DEF s
<1>5. job' \in Scoring /\ job'.pc = "score" /\ job'.output = job.output /\ job'.verdicts = job.verdicts
  BY <1>1, <1>2 DEF Scoring
<1>6. DOMAIN cache' \subseteq Keys /\ \A k \in DOMAIN cache' : cache'[k] \in VerdictScores
  BY <1>2, <1>3, <1>4 DEF RunInv, RunTypeOK
<1>7. \A k \in DOMAIN cache' : \E n \in DOMAIN answers'[k] : answers'[k][n] = cache'[k]
  <2>1. answers' = answers
    BY <1>1
  <2> QED BY <1>3, <1>4, <2>1 DEF RunInv, VerdictsAreGiven
<1>8. EveryAnswerIsAccountedFor'
  <2>1. \A k \in Keys : BeingSaved(k) <=> k = CacheKey
    BY <1>1 DEF BeingSaved
  <2>2. \A k \in Keys : Len(answers[k]) <= unsaved[k] + (IF k \in DOMAIN cache' THEN 1 ELSE 0)
    BY <1>4, <2>1 DEF RunInv, EveryAnswerIsAccountedFor
  <2> QED BY <1>1, <1>5, <2>2 DEF EveryAnswerIsAccountedFor, BeingSaved
<1>9. Gave(answers[Key(CurrentCase, job.output, version)], job.verdicts)'
  BY <1>1, <1>2, <1>5 DEF CurrentCase, CacheKey
<1>10. /\ answers' \in [Keys -> Seq(VerdictScores)] /\ answers' = answers
       /\ unsaved' \in [Keys -> Nat]
  BY <1>1 DEF RunInv, RunTypeOK
<1> QED BY <1>1, <1>2, <1>5, <1>6, <1>7, <1>8, <1>9, <1>10, CaseGoesOn

LEMMA SaveFailsStep == ASSUME RunInv, SaveFails PROVE RunInv'
<1> DEFINE vs == SubSeq(job.verdicts, 1, Len(job.verdicts) - 1)
<1>1. /\ AtACase /\ job.pc = "save" /\ EndCase(job.output, TRUE, vs) /\ LoseAnswer
      /\ UNCHANGED <<Files, version, cache, answers>>
  BY DEF SaveFails, AtACase
<1>2. /\ job.output \in Outputs /\ job.judge \in Judges /\ job.verdicts \in Seq(VerdictScores)
      /\ Len(done) < Len(SuiteCases)
      /\ Gave(answers[Key(CurrentCase, job.output, version)], job.verdicts)
  BY <1>1, AtACaseShapes
<1>3. /\ vs \in Seq(VerdictScores) /\ DOMAIN vs \subseteq DOMAIN job.verdicts
      /\ \A j \in DOMAIN vs : vs[j] = job.verdicts[j]
  <2>1. Len(job.verdicts) \in Nat /\ DOMAIN job.verdicts = 1..Len(job.verdicts) /\ Len(job.verdicts) # 0
    BY <1>1, <1>2, EmptySeq, LenProperties DEF RunInv, EveryAnswerIsAccountedFor
  <2>2. \A j \in 1..(Len(job.verdicts) - 1) : job.verdicts[j] \in VerdictScores
    BY <1>2, <2>1
  <2>3. vs = [j \in 1..(Len(job.verdicts) - 1) |-> job.verdicts[j]]
    BY <2>1 DEF SubSeq
  <2> QED BY <2>1, <2>2, <2>3
<1> HIDE DEF vs
<1>4. Gave(answers[Key(CurrentCase, job.output, version)], vs)
  BY <1>2, <1>3 DEF Gave
<1> QED BY <1>1, <1>2, <1>3, <1>4, CaseEnds

(***************************************************************************)
(* Between the cases, and around the run.                                  *)
(***************************************************************************)
\* A step that is in no case before or after, and gets no verdict.
LEMMA OutsideCases ==
  ASSUME RunInv, job.pc \notin {"save"}, job' \in {Over} \union Between, UNCHANGED <<cache, answers, unsaved>>,
         done' = done \/ done' = <<>>, version' \in 1..MaxVersion,
         (version' = version /\ (done' # <<>> => job # Over)) \/ job' = Over
  PROVE  VerdictsAreGiven' /\ EveryAnswerIsAccountedFor'
<1>1. job'.pc \in {"over", "case", "sink", "write"}
  BY DEF Over, Between
<1>2. \A i \in DOMAIN done' : done'[i].verdicts # <<>> => done'[i].output \in Outputs
  BY DEF RunInv, VerdictsAreGiven
<1>3. ASSUME job' # Over, NEW i \in DOMAIN done'
      PROVE  Gave(answers[Key(done[i].case, done[i].output, version)], done[i].verdicts)'
  <2>1. done' = done /\ job # Over /\ version' = version /\ answers' = answers
    BY <1>3
  <2>2. Gave(answers[Key(done[i].case, done[i].output, version)], done[i].verdicts)
    BY <1>3, <2>1 DEF RunInv, VerdictsAreGiven
  <2> QED BY <2>1, <2>2
<1>4. VerdictsAreGiven'
  <2>1. \A k \in DOMAIN cache' : \E n \in DOMAIN answers'[k] : answers'[k][n] = cache'[k]
    BY DEF RunInv, VerdictsAreGiven
  <2> QED BY <1>1, <1>2, <1>3, <2>1 DEF VerdictsAreGiven, AtACase
<1>5. EveryAnswerIsAccountedFor'
  BY <1>1 DEF RunInv, EveryAnswerIsAccountedFor, BeingSaved
<1> QED BY <1>4, <1>5

LEMMA StartRunStep == ASSUME RunInv, StartRun PROVE RunInv'
<1>1. /\ job = Over /\ done' = <<>> /\ progress' = <<>> /\ ~finished'
      /\ UNCHANGED <<artifact, version, cache, answers, unsaved>>
      /\ \E judge \in Judges : job' = [pc |-> "case", judge |-> judge]
  BY DEF StartRun, Cached
<1>2. job' \in Between /\ job'.pc = "case" /\ job.pc = "over" /\ job' # Over
  BY <1>1 DEF Between, Over
<1>3. RunTypeOK'
  <2>1. finished' \in BOOLEAN
    BY DEF StartRun
  <2>2. Len(SuiteCases) \in Nat /\ <<>> \in Seq(Results) /\ Len(<<>>) = 0
    BY SuiteAssumption
  <2> QED BY <1>1, <1>2, <2>1, <2>2 DEF RunInv, RunTypeOK
<1>4. DoneIsAPrefix' /\ ProgressFollows'
  BY <1>1, <1>2 DEF DoneIsAPrefix, AtACase, ProgressFollows
<1>5. VerdictsAreGiven' /\ EveryAnswerIsAccountedFor'
  BY <1>1, <1>2, OutsideCases DEF RunInv, RunTypeOK
<1> QED BY <1>3, <1>4, <1>5 DEF RunInv

\* The line of the last result brings the file up to the results.
LEMMA SinkStep == ASSUME RunInv, Sink PROVE RunInv'
<1>1. /\ job.pc = "sink" /\ progress' = Append(progress, done[Len(done)])
      /\ job' = [job EXCEPT !.pc = "case"]
      /\ UNCHANGED <<done, artifact, finished, version, cache, answers, unsaved>>
  BY DEF Sink, Cached
<1>2. job \in Between /\ job # Over
  BY <1>1, JobShapes DEF RunInv, RunTypeOK, Jobs, Over
<1>3. job' \in Between /\ job'.pc = "case" /\ job' # Over
  BY <1>1, <1>2 DEF Between, Over
<1>4. progress' = done
  <2> DEFINE n == Len(done)
  <2>1. /\ done \in Seq(Results) /\ n \in Nat /\ n # 0 /\ DOMAIN done = 1..n
        /\ progress = SubSeq(done, 1, n - 1)
    BY <1>1, EmptySeq, LenProperties DEF RunInv, RunTypeOK, ProgressFollows, LineToWrite
  <2>2. progress = [i \in 1..(n - 1) |-> done[i]]
    BY <2>1 DEF SubSeq
  <2>3. progress \in Seq(Results) /\ Len(progress) = n - 1 /\ done[n] \in Results
    BY <2>1, <2>2 DEF RunInv, RunTypeOK
  <2>4. /\ progress' \in Seq(Results) /\ Len(progress') = n /\ progress'[n] = done[n]
        /\ \A i \in 1..(n - 1) : progress'[i] = progress[i]
    BY <1>1, <2>1, <2>3, AppendProperties
  <2>5. \A i \in 1..n : progress'[i] = done[i]
    <3>1. ASSUME NEW i \in 1..n, i # n PROVE i \in 1..(n - 1)
      <4>1. n \in Nat
        BY <2>1
      <4> HIDE DEF n
      <4> QED BY <3>1, <4>1
    <3> QED BY <2>2, <2>4, <3>1
  <2> QED BY <2>1, <2>4, <2>5, SeqEqual
<1>5. ~finished
  BY <1>2 DEF RunInv, ProgressFollows
<1>6. RunTypeOK'
  BY <1>1, <1>3, <1>4 DEF RunInv, RunTypeOK
<1>7. DoneIsAPrefix' /\ ProgressFollows'
  BY <1>1, <1>3, <1>4, <1>5 DEF RunInv, DoneIsAPrefix, AtACase, ProgressFollows
<1>8. VerdictsAreGiven' /\ EveryAnswerIsAccountedFor'
  <2>1. version' = version /\ job # Over /\ job.pc # "save" /\ version' \in 1..MaxVersion
    BY <1>1, <1>2 DEF RunInv, RunTypeOK
  <2> QED BY <1>1, <1>3, <2>1, OutsideCases
<1> QED BY <1>6, <1>7, <1>8 DEF RunInv

\* The process ends: aborted, killed, or done.
LEMMA SinkFailsStep == ASSUME RunInv, SinkFails PROVE RunInv'
<1>1. /\ job.pc = "sink" /\ job' = Over
      /\ UNCHANGED <<done, progress, artifact, finished, version, cache, answers, unsaved>>
  BY DEF SinkFails, Files, Cached
<1>2. job # Over /\ job'.pc = "over"
  BY <1>1 DEF Over
<1>3. RunTypeOK'
  BY <1>1 DEF RunInv, RunTypeOK
<1>4. DoneIsAPrefix' /\ ProgressFollows'
  BY <1>1, <1>2 DEF RunInv, DoneIsAPrefix, AtACase, ProgressFollows, LineToWrite
<1>5. VerdictsAreGiven' /\ EveryAnswerIsAccountedFor'
  BY <1>1, OutsideCases DEF RunInv, RunTypeOK
<1> QED BY <1>3, <1>4, <1>5 DEF RunInv

LEMMA OpenArtifactStep == ASSUME RunInv, OpenArtifact PROVE RunInv'
<1>1. /\ job.pc = "case" /\ Len(done) = Len(SuiteCases) /\ job' = [job EXCEPT !.pc = "write"]
      /\ UNCHANGED <<done, progress, finished, version, cache, answers, unsaved>>
  BY DEF OpenArtifact, Cached
<1>2. job \in Between /\ job # Over
  BY <1>1, JobShapes DEF RunInv, RunTypeOK, Jobs, Over
<1>3. job' \in Between /\ job'.pc = "write" /\ job' # Over
  BY <1>1, <1>2 DEF Between, Over
<1>4. ~finished
  BY <1>2 DEF RunInv, ProgressFollows
<1>5. RunTypeOK'
  BY <1>1, <1>3 DEF RunInv, RunTypeOK
<1>6. DoneIsAPrefix' /\ ProgressFollows'
  BY <1>1, <1>3, <1>4 DEF RunInv, DoneIsAPrefix, AtACase, ProgressFollows
<1>7. VerdictsAreGiven' /\ EveryAnswerIsAccountedFor'
  <2>1. version' = version /\ job # Over /\ job.pc # "save" /\ version' \in 1..MaxVersion
    BY <1>1, <1>2 DEF RunInv, RunTypeOK
  <2> QED BY <1>1, <1>3, <2>1, OutsideCases
<1> QED BY <1>5, <1>6, <1>7 DEF RunInv

LEMMA WriteArtifactStep == ASSUME RunInv, WriteArtifact PROVE RunInv'
<1>1. /\ job.pc = "write" /\ artifact' = NamesOf(done) /\ finished' /\ job' = Over
      /\ UNCHANGED <<done, progress, version, cache, answers, unsaved>>
  BY DEF WriteArtifact, Cached
<1>2. job'.pc = "over"
  BY <1>1 DEF Over
<1>3. RunTypeOK'
  <2>1. finished' \in BOOLEAN
    BY DEF WriteArtifact
  <2> QED BY <1>1, <2>1 DEF RunInv, RunTypeOK
<1>4. progress = done /\ Len(done) = Len(SuiteCases)
  BY <1>1 DEF RunInv, ProgressFollows, DoneIsAPrefix
<1>5. DoneIsAPrefix'
  BY <1>1, <1>2 DEF RunInv, DoneIsAPrefix, AtACase
<1>6. ProgressFollows'
  <2>1. NamesOf(done)' = NamesOf(done)
    BY <1>1 DEF NamesOf
  <2> QED BY <1>1, <1>2, <1>4, <2>1 DEF ProgressFollows
<1>7. VerdictsAreGiven' /\ EveryAnswerIsAccountedFor'
  BY <1>1, OutsideCases DEF RunInv, RunTypeOK
<1> QED BY <1>3, <1>5, <1>6, <1>7 DEF RunInv

LEMMA KillRunStep == ASSUME RunInv, KillRun PROVE RunInv'
<1>1. /\ job # Over /\ job' = Over /\ UNCHANGED <<done, progress, artifact, finished, version, cache, answers>>
      /\ IF job.pc = "save" THEN LoseAnswer ELSE UNCHANGED unsaved
  BY DEF KillRun, Files
<1>2. job'.pc = "over"
  BY <1>1 DEF Over
<1>3. RunTypeOK'
  BY <1>1, LosingTheAnswer DEF RunInv, RunTypeOK
<1>4. DoneIsAPrefix'
  BY <1>1, <1>2 DEF RunInv, DoneIsAPrefix, AtACase
<1>5. ProgressFollows'
  <2>1. ~finished /\ job.pc # "over" /\ job \in Jobs
    BY <1>1, JobShapes DEF RunInv, ProgressFollows, RunTypeOK, Jobs
  <2>2. progress = done \/ LineToWrite
    BY <2>1, JobShapes DEF RunInv, ProgressFollows
  <2> QED BY <1>1, <1>2, <2>1, <2>2 DEF ProgressFollows, LineToWrite
<1>6. VerdictsAreGiven'
  BY <1>1, <1>2 DEF RunInv, VerdictsAreGiven, AtACase
<1>7. EveryAnswerIsAccountedFor'
  <2>1. ASSUME NEW k \in Keys PROVE Len(answers[k]) <= unsaved'[k] + (IF k \in DOMAIN cache THEN 1 ELSE 0)
    BY <1>1, LosingTheAnswer
  <2> QED BY <1>1, <1>2, <2>1 DEF EveryAnswerIsAccountedFor, BeingSaved
<1> QED BY <1>3, <1>4, <1>5, <1>6, <1>7 DEF RunInv

LEMMA NewJudgeStep == ASSUME RunInv, NewJudge PROVE RunInv'
<1>1. /\ job = Over /\ version < MaxVersion /\ version' = version + 1
      /\ UNCHANGED <<job, done, progress, artifact, finished, cache, answers, unsaved>>
  BY DEF NewJudge, Files
<1>2. job.pc = "over" /\ version' \in 1..MaxVersion
  BY <1>1, VersionAssumption DEF Over, RunInv, RunTypeOK
<1>3. RunTypeOK'
  BY <1>1, <1>2 DEF RunInv, RunTypeOK
<1>4. DoneIsAPrefix' /\ ProgressFollows'
  BY <1>1, <1>2 DEF RunInv, DoneIsAPrefix, AtACase, ProgressFollows, LineToWrite, NamesOf
<1>5. VerdictsAreGiven' /\ EveryAnswerIsAccountedFor'
  BY <1>1, <1>2, OutsideCases
<1> QED BY <1>3, <1>4, <1>5 DEF RunInv

LEMMA RunInductive == RunInv /\ [RunNext]_runVars => RunInv'
<1> SUFFICES ASSUME RunInv, [RunNext]_runVars PROVE RunInv'
  OBVIOUS
<1>1. CASE ScorerRaises
  <2>1. job.pc = "score" /\ EndCase(job.output, TRUE, job.verdicts) /\ UNCHANGED <<Files, Cached>>
    BY <1>1 DEF ScorerRaises, AtScorer
  <2> QED BY <2>1, ScoringEnds
<1>2. CASE ScoredAll
  <2>1. job.pc = "score" /\ EndCase(job.output, FALSE, job.verdicts) /\ UNCHANGED <<Files, Cached>>
    BY <1>2 DEF ScoredAll
  <2> QED BY <2>1, ScoringEnds
<1>3. CASE ProviderFails
  <2>1. job.pc = "ask" /\ EndCase(job.output, TRUE, job.verdicts) /\ UNCHANGED <<Files, Cached>>
    BY <1>3 DEF ProviderFails
  <2> QED BY <2>1, ScoringEnds
<1>4. CASE UNCHANGED runVars
  BY <1>4 DEF runVars, RunInv, RunTypeOK, DoneIsAPrefix, AtACase, ProgressFollows, LineToWrite, NamesOf,
       VerdictsAreGiven, CurrentCase, EveryAnswerIsAccountedFor, BeingSaved, CacheKey
<1> QED BY <1>1, <1>2, <1>3, <1>4, StartRunStep, GenerateStep, ScoreRuleStep, CacheHitStep,
          CacheMissStep, ProviderAnswersStep, RateLimitStep, SaveStep, SaveFailsStep, SinkStep,
          SinkFailsStep, OpenArtifactStep, WriteArtifactStep, KillRunStep, NewJudgeStep DEF RunNext

LEMMA RunInvHolds == RunSpec => []RunInv
  BY RunInitInv, RunInductive, PTL DEF RunSpec

(***************************************************************************)
(* The theorems.                                                           *)
(***************************************************************************)
\* The run at work, its files, the verdicts table and the answers keep their
\* types.
THEOREM RunTyped == RunSpec => []RunTypeOK
<1>1. RunInv => RunTypeOK
  BY DEF RunInv
<1> QED BY <1>1, RunInvHolds, PTL

\* A killed or aborted run leaves every completed case but at most the last on
\* disk, and the artifact of one that ended has the cases of the suite in its order.
THEOREM CompletedOnDisk == RunSpec => []CompletedCasesAreOnDisk
<1>1. RunInv => CompletedCasesAreOnDisk
  <2> SUFFICES ASSUME RunInv PROVE CompletedCasesAreOnDisk
    OBVIOUS
  <2>1. \/ progress = done
        \/ LineToWrite /\ (job.pc = "sink" \/ job = Over)
    BY JobShapes DEF RunInv, ProgressFollows, RunTypeOK, Jobs
  <2>2. ASSUME finished PROVE NamesOf(progress) = artifact /\ artifact = SuiteCases
    <3>1. progress = done /\ Len(done) = Len(SuiteCases) /\ artifact = NamesOf(done)
      BY <2>2 DEF RunInv, ProgressFollows
    <3>2. /\ DOMAIN done = DOMAIN SuiteCases /\ SuiteCases = [i \in DOMAIN SuiteCases |-> SuiteCases[i]]
      <4>1. done \in Seq(Results)
        BY DEF RunInv, RunTypeOK
      <4> QED BY <3>1, <4>1, SuiteAssumption, LenProperties
    <3>3. \A i \in DOMAIN done : done[i].case = SuiteCases[i]
      BY DEF RunInv, DoneIsAPrefix
    <3> QED BY <3>1, <3>2, <3>3 DEF NamesOf
  <2> QED BY <2>1, <2>2 DEF CompletedCasesAreOnDisk, LineToWrite
<1> QED BY <1>1, RunInvHolds, PTL

\* No verdict of a run is another version's of the judge, nor one it gave for
\* another case or another output.
THEOREM VerdictOfThisJudge == RunSpec => []VerdictIsOfThisJudge
<1>1. RunInv => VerdictIsOfThisJudge
  BY DEF RunInv, VerdictsAreGiven, Gave, VerdictIsOfThisJudge
<1> QED BY <1>1, RunInvHolds, PTL

\* Of the verdicts bought for one key, one at most was saved: a run that is given
\* the cache buys none again, whatever kills, failures and runs without a cache
\* were before it.
THEOREM RerunsAreFree == RunSpec => []RerunCostsNothing
<1>1. RunInv => RerunCostsNothing
  <2> SUFFICES ASSUME RunInv, NEW k \in Keys PROVE Len(answers[k]) <= 1 + unsaved[k]
    BY DEF RerunCostsNothing
  <2>1. answers[k] \in Seq(VerdictScores) /\ unsaved[k] \in Nat
    BY DEF RunInv, RunTypeOK
  <2>2. Len(answers[k]) \in Nat
    BY <2>1
  <2>3. Len(answers[k]) <= unsaved[k] + (IF k \in DOMAIN cache \/ BeingSaved(k) THEN 1 ELSE 0)
    BY DEF RunInv, EveryAnswerIsAccountedFor
  <2> QED BY <2>1, <2>2, <2>3
<1> QED BY <1>1, RunInvHolds, PTL

(***************************************************************************)
(* PromotedRuns: means, and the thresholds they are held against.          *)
(***************************************************************************)
LEMMA ScoresAreBounded ==
  ASSUME NEW run \in Run
  PROVE  DOMAIN run.results \subseteq Cases /\ \A c \in Cases : ScoreIn(run, c) \in 0..Full
<1>1. run.results \in PartialFunctions(Cases, CaseResult)
  BY DEF Run
<1>2. PICK D \in SUBSET Cases : run.results \in [D -> CaseResult]
  BY <1>1 DEF PartialFunctions
<1>3. Full \in Nat
  BY DiffAssumption
<1>4. \A c \in D : run.results[c].error \in BOOLEAN /\ run.results[c].score \in 0..Full
  BY <1>2 DEF CaseResult
<1>5. \A c \in Cases : ScoreIn(run, c) \in 0..Full
  BY <1>2, <1>3, <1>4 DEF ScoreIn, CaseScore
<1> QED BY <1>2, <1>5

\* The sum of what the cases of S score.
SumIn(run, S) == SumFunctionOnSet([c \in S |-> ScoreIn(run, c)], S)

LEMMA SumInType ==
  ASSUME NEW run \in Run, NEW S \in SUBSET Cases
  PROVE  /\ IsFiniteSet(S) /\ Cardinality(S) \in Nat /\ SumIn(run, S) \in Nat
         /\ SumIn(run, S) <= Full * Cardinality(S)
<1> DEFINE f == [c \in S |-> ScoreIn(run, c)]
<1>1. IsFiniteSet(S) /\ Cardinality(S) \in Nat
  BY DiffAssumption, FS_Subset, FS_CardinalityType
<1>2. Full \in Nat /\ \A c \in S : f[c] \in 0..Full
  BY DiffAssumption, ScoresAreBounded
<1> HIDE DEF f
<1>3. SumFunctionOnSet(f, S) \in Nat /\ SumFunctionOnSet(f, S) <= Full * Cardinality(S)
  BY <1>1, <1>2, SumBounds
<1> QED BY <1>1, <1>3 DEF SumIn, f

\* Scores that are no better add up to no more.
LEMMA SumInMonotone ==
  ASSUME NEW r \in Run, NEW s \in Run, NEW S \in SUBSET Cases,
         \A c \in S : ScoreIn(r, c) <= ScoreIn(s, c)
  PROVE  SumIn(r, S) <= SumIn(s, S)
<1> DEFINE f == [c \in S |-> ScoreIn(r, c)]
           g == [c \in S |-> ScoreIn(s, c)]
<1>1. \A c \in S : f[c] \in 0..Full /\ g[c] \in 0..Full /\ f[c] <= g[c]
  BY ScoresAreBounded
<1>2. IsFiniteSet(S) /\ \A c \in S : f[c] \in Int /\ g[c] \in Int /\ f[c] <= g[c]
  <2>1. Full \in Nat
    BY DiffAssumption
  <2> HIDE DEF f, g
  <2> QED BY <1>1, <2>1, SumInType
<1> HIDE DEF f, g
<1>3. SumFunctionOnSet(f, S) <= SumFunctionOnSet(g, S)
  BY <1>2, SumMonotone
<1> QED BY <1>3 DEF SumIn, f, g

LEMMA MeanIs ==
  ASSUME NEW run \in Run, NEW S \in SUBSET Cases
  PROVE  /\ Mean(run, S) = IF S = {} THEN <<0, 1>> ELSE <<SumIn(run, S), Full * Cardinality(S)>>
         /\ Mean(run, S)[1] \in Nat /\ Mean(run, S)[2] \in Nat \ {0}
<1>1. Mean(run, S) = IF S = {} THEN <<0, 1>> ELSE <<SumIn(run, S), Full * Cardinality(S)>>
  BY DEF Mean, SumIn
<1>2. SumIn(run, S) \in Nat /\ Cardinality(S) \in Nat /\ (S # {} => Cardinality(S) # 0)
  BY SumInType, FS_EmptySet
<1>3. S # {} => Full * Cardinality(S) \in Nat \ {0}
  <2>1. Full \in Nat /\ Full > 0
    BY DiffAssumption
  <2>2. \A n \in Nat : n > 0 => Full * n \in Nat /\ Full * n > 0
    BY <2>1, SMT
  <2> QED BY <1>2, <2>2
<1> QED BY <1>1, <1>2, <1>3

\* A candidate with a better mean over as many points breaches no threshold that
\* the worse one respects.
LEMMA BreachIsMonotone ==
  ASSUME NEW b1 \in Nat, NEW b2 \in Nat, NEW c1 \in Nat, NEW c2 \in Nat, NEW d1 \in Nat,
         NEW t \in Threshold, d1 <= c1, BreachesThreshold(<<b1, b2>>, <<c1, c2>>, t)
  PROVE  BreachesThreshold(<<b1, b2>>, <<d1, c2>>, t)
<1>1. Unit \in Nat /\ t.max_drop \in Nat /\ t.min_score \in Nat
  BY DiffAssumption DEF Threshold
<1>2. PICK k \in Nat : c1 = d1 + k
  <2>1. c1 - d1 \in Nat /\ c1 = d1 + (c1 - d1)
    OBVIOUS
  <2> QED BY <2>1
<1>3. Unit * c1 = Unit * d1 + Unit * k /\ Unit * k \in Nat /\ Unit * d1 \in Nat
  BY <1>1, <1>2, SMT
<1>4. /\ Unit * (b1 * c2 - d1 * b2) = Unit * (b1 * c2 - c1 * b2) + Unit * (k * b2)
      /\ Unit * (k * b2) \in Nat
  BY <1>1, <1>2, SMT
<1>5. /\ Unit * (b1 * c2 - d1 * b2) \in Int /\ Unit * (b1 * c2 - c1 * b2) \in Int
      /\ t.max_drop * b2 * c2 \in Int /\ t.min_score * c2 \in Int
  BY <1>1, SMT
<1>6. CASE Unit * (b1 * c2 - c1 * b2) > t.max_drop * b2 * c2
  <2>1. Unit * (b1 * c2 - d1 * b2) > t.max_drop * b2 * c2
    BY <1>4, <1>5, <1>6
  <2> QED BY <2>1 DEF BreachesThreshold
<1>7. CASE Unit * c1 < t.min_score * c2
  <2>1. Unit * d1 < t.min_score * c2
    BY <1>3, <1>5, <1>7
  <2> QED BY <2>1 DEF BreachesThreshold
<1> QED BY <1>6, <1>7 DEF BreachesThreshold

(***************************************************************************)
(* PromotedRuns: its runs stay runs, and its suite one the schema accepts. *)
(***************************************************************************)
PromotedInv == TypeOK /\ Accepted(suite)

LEMMA SuiteShapes ==
  ASSUME NEW s \in Suite
  PROVE  /\ \A k \in DOMAIN s.category_thresholds :
              k \in Categories /\ s.category_thresholds[k] \in Threshold
         /\ \A k \in DOMAIN s.zero_tolerance :
              k \in Categories /\ s.zero_tolerance[k] \in 0..Cardinality(Cases)
         /\ s.threshold \in Threshold /\ \A k : ThresholdFor(s, k) \in Threshold
<1>1. PICK D \in SUBSET Categories : s.category_thresholds \in [D -> Threshold]
  BY DEF Suite, PartialFunctions
<1>2. PICK E \in SUBSET Categories : s.zero_tolerance \in [E -> 0..Cardinality(Cases)]
  BY DEF Suite, PartialFunctions
<1>3. s.threshold \in Threshold
  BY DEF Suite
<1> QED BY <1>1, <1>2, <1>3 DEF ThresholdFor

LEMMA PromotedInitInv == Init => PromotedInv
<1> SUFFICES ASSUME Init PROVE PromotedInv
  OBVIOUS
<1>1. suite \in Suite /\ Accepted(suite)
  BY SuitesAssumption DEF Init
<1>2. AllRight \in [Cases -> CaseResult]
  BY DiffAssumption DEF AllRight, CaseResult
<1>3. AllRight \in PartialFunctions(Cases, CaseResult)
  BY <1>2 DEF PartialFunctions
<1>4. base \in Run /\ cand \in Run
  BY <1>3 DEF Init, Run
<1> QED BY <1>1, <1>4 DEF PromotedInv, TypeOK

\* A result that comes in for a case, and what the other cases score.
LEMMA ResultSet ==
  ASSUME PromotedInv, NEW c \in Cases, NEW r \in CaseResult, SetResult(c, r)
  PROVE  /\ cand' \in Run /\ cand'.backend = cand.backend
         /\ DOMAIN cand'.results = DOMAIN cand.results \union {c}
         /\ ScoreIn(cand', c) = CaseScore(r)
         /\ \A x \in Cases \ {c} : ScoreIn(cand', x) = ScoreIn(cand, x)
<1>1. PICK D \in SUBSET Cases : cand.results \in [D -> CaseResult]
  BY DEF PromotedInv, TypeOK, Run, PartialFunctions
<1> DEFINE new == [x \in DOMAIN cand.results \union {c} |-> IF x = c THEN r ELSE cand.results[x]]
<1>2. cand' = [cand EXCEPT !.results = new]
  BY DEF SetResult
<1>3. new \in [D \union {c} -> CaseResult] /\ D \union {c} \in SUBSET Cases
  BY <1>1
<1>4. new \in PartialFunctions(Cases, CaseResult)
  <2> HIDE DEF new
  <2> QED BY <1>3 DEF PartialFunctions
<1>5. cand \in Run
  BY DEF PromotedInv, TypeOK
<1>6. cand' \in Run /\ cand'.backend = cand.backend /\ cand'.results = new
  <2> HIDE DEF new
  <2> QED BY <1>2, <1>4, <1>5 DEF Run
<1>7. /\ ScoreIn(cand', c) = CaseScore(r)
      /\ \A x \in Cases \ {c} : ScoreIn(cand', x) = ScoreIn(cand, x)
  BY <1>6 DEF ScoreIn
<1> QED BY <1>6, <1>7

\* The results that Crashes, Worse and Better set are results of a case.
LEMMA SetsAResult ==
  /\ \A s \in 0..Full : [error |-> TRUE, score |-> s] \in CaseResult
  /\ \A s \in 0..Full : [error |-> FALSE, score |-> s] \in CaseResult
BY DEF CaseResult

LEMMA PromotedInductive == PromotedInv /\ [Next]_vars => PromotedInv'
<1> SUFFICES ASSUME PromotedInv, [Next]_vars PROVE PromotedInv'
  OBVIOUS
<1>1. ASSUME NEW c \in Cases, NEW r \in CaseResult, SetResult(c, r) PROVE PromotedInv'
  <2>1. cand' \in Run
    BY <1>1, ResultSet
  <2> QED BY <1>1, <2>1 DEF SetResult, PromotedInv, TypeOK
<1>2. ASSUME NEW c \in Cases, Crashes(c) \/ Worse(c) \/ Better(c) PROVE PromotedInv'
  BY <1>1, <1>2, SetsAResult DEF Crashes, Worse, Better
<1>3. ASSUME NEW c \in Cases, Missing(c) PROVE PromotedInv'
  <2>1. PICK D \in SUBSET Cases : cand.results \in [D -> CaseResult]
    BY DEF PromotedInv, TypeOK, Run, PartialFunctions
  <2> DEFINE new == Restrict(cand.results, DOMAIN cand.results \ {c})
  <2>2. new \in [D \ {c} -> CaseResult] /\ D \ {c} \in SUBSET Cases
    BY <2>1 DEF Restrict
  <2>3. new \in PartialFunctions(Cases, CaseResult)
    <3> HIDE DEF new
    <3> QED BY <2>2 DEF PartialFunctions
  <2>4. cand' = [cand EXCEPT !.results = new]
    BY <1>3 DEF Missing
  <2>5. cand' \in Run
    <3> HIDE DEF new
    <3> QED BY <2>3, <2>4 DEF PromotedInv, TypeOK, Run
  <2> QED BY <1>3, <2>5 DEF Missing, PromotedInv, TypeOK
<1>4. ASSUME NEW o \in Origins \union {"unknown"}, Moves(o) PROVE PromotedInv'
  BY <1>4 DEF Moves, PromotedInv, TypeOK, Run
<1>5. CASE Promotes
  BY <1>5 DEF Promotes, PromotedInv, TypeOK
<1>6. CASE UNCHANGED vars
  BY <1>6 DEF vars, PromotedInv, TypeOK
<1> QED BY <1>2, <1>3, <1>4, <1>5, <1>6 DEF Next

LEMMA PromotedInvHolds == Spec => []PromotedInv
<1> QED BY PromotedInitInv, PromotedInductive, PTL DEF Spec

(***************************************************************************)
(* PromotedRuns: what the comparison never lets through.                   *)
(***************************************************************************)
\* Promoting only what passes never gives up a case of a category that tolerates
\* no regression.
THEOREM RefusalsAreKept == Spec => RefusalsRatchet
<1> DEFINE Kept == \A k \in DOMAIN suite.zero_tolerance :
                     suite.zero_tolerance[k] = 0 =>
                       \A c \in OfCategory(Cases, k) : ScoreIn(base', c) >= ScoreIn(base, c)
<1>1. PromotedInv /\ [Next]_vars => [Kept]_base
  <2> SUFFICES ASSUME PromotedInv, Promotes PROVE Kept
    BY DEF Next, vars, Crashes, Worse, Better, SetResult, Missing, Moves
  <2> SUFFICES ASSUME NEW k \in DOMAIN suite.zero_tolerance, suite.zero_tolerance[k] = 0,
                      NEW c \in OfCategory(Cases, k)
               PROVE  ScoreIn(cand, c) >= ScoreIn(base, c)
    BY DEF Promotes
  <2> DEFINE S == OfCategory(Compared(base, cand), k)
             R == Regressed(base, cand, S)
  <2>1. base \in Run /\ cand \in Run /\ suite \in Suite
    BY DEF PromotedInv, TypeOK
  <2>2. k \in Categories /\ ~BreachesCategory(suite, base, cand, k)
    BY <2>1, SuiteShapes DEF Promotes, verdict, Verdict
  <2>3. c \in Cases /\ CategoryOf[c] = k
    BY DEF OfCategory
  <2>4. ScoreIn(cand, c) \in 0..Full /\ ScoreIn(base, c) \in 0..Full /\ Full \in Nat
    BY <2>1, <2>3, ScoresAreBounded, DiffAssumption
  <2>5. CASE c \notin S
    <3>1. c \notin DOMAIN base.results /\ c \notin DOMAIN cand.results
      BY <2>3, <2>5 DEF OfCategory, Compared
    <3> QED BY <3>1 DEF ScoreIn
  <2>6. CASE c \in S
    <3>1. R \in SUBSET Cases
      BY <2>1, ScoresAreBounded DEF OfCategory, Compared, Regressed
    <3>2. IsFiniteSet(R) /\ Cardinality(R) \in Nat
      <4> HIDE DEF R
      <4> QED BY <3>1, DiffAssumption, FS_Subset, FS_CardinalityType
    <3>3. ~(Cardinality(R) > 0)
      BY <2>2, <2>6 DEF BreachesCategory
    <3>4. R = {}
      <4> HIDE DEF R
      <4> QED BY <3>2, <3>3, FS_EmptySet
    <3>5. ~(ScoreIn(cand, c) < ScoreIn(base, c))
      BY <2>6, <3>4 DEF Regressed
    <3> QED BY <2>4, <3>5
  <2> QED BY <2>5, <2>6
<1>2. (Spec => [][Kept]_base) => (Spec => RefusalsRatchet)
  BY DEF RefusalsRatchet
<1> QED BY <1>1, <1>2, PromotedInvHolds, PTL DEF Spec

\* Of two candidates with results for the same cases, the one that is better in
\* none does not pass where the other fails.
LEMMA NoBetterVerdict ==
  ASSUME NEW st \in Suite, NEW b \in Run, NEW r \in Run, NEW s \in Run,
         DOMAIN r.results = DOMAIN s.results, r.backend = s.backend,
         \A c \in Cases : ScoreIn(r, c) <= ScoreIn(s, c), Verdict(st, b, r) = "pass"
  PROVE  Verdict(st, b, s) = "pass"
<1>1. ASSUME NEW S \in SUBSET Cases, NEW T \in SUBSET Cases, NEW t \in Threshold,
             BreachesThreshold(Mean(b, T), Mean(s, S), t)
      PROVE  BreachesThreshold(Mean(b, T), Mean(r, S), t)
  <2> DEFINE mb == Mean(b, T)
             ms == Mean(s, S)
             mr == Mean(r, S)
  <2>1. /\ mb = <<mb[1], mb[2]>> /\ ms = <<ms[1], ms[2]>> /\ mr = <<mr[1], mr[2]>>
        /\ mb[1] \in Nat /\ mb[2] \in Nat /\ ms[1] \in Nat /\ ms[2] \in Nat /\ mr[1] \in Nat
    BY MeanIs
  <2>2. mr[1] <= ms[1] /\ mr[2] = ms[2]
    <3>1. SumIn(r, S) <= SumIn(s, S)
      BY SumInMonotone
    <3> QED BY <3>1, MeanIs
  <2>3. BreachesThreshold(mb, ms, t)
    BY <1>1
  <2> HIDE DEF mb, ms, mr
  <2>4. BreachesThreshold(<<mb[1], mb[2]>>, <<mr[1], ms[2]>>, t)
    BY <2>1, <2>2, <2>3, BreachIsMonotone
  <2>5. BreachesThreshold(mb, mr, t)
    BY <2>1, <2>2, <2>4
  <2> QED BY <2>5 DEF mb, mr
<1>2. Comparable(b, s) /\ ~BreachesThreshold(Score(b), Score(r), st.threshold)
  BY DEF Verdict, Comparable
<1>3. /\ DOMAIN b.results \in SUBSET Cases /\ DOMAIN s.results \in SUBSET Cases
      /\ st.threshold \in Threshold
  BY ScoresAreBounded, SuiteShapes
<1>4. ~BreachesThreshold(Score(b), Score(s), st.threshold)
  BY <1>1, <1>2, <1>3 DEF Score
<1>5. ASSUME NEW k \in Categories PROVE ~BreachesCategory(st, b, s, k)
  <2> DEFINE S == OfCategory(Compared(b, s), k)
  <2>1. Compared(b, r) = Compared(b, s)
    BY DEF Compared
  <2>2. S \in SUBSET Cases
    BY <1>3 DEF OfCategory, Compared
  <2>3. ~BreachesCategory(st, b, r, k)
    BY DEF Verdict
  <2>4. CASE S = {}
    BY <2>4 DEF BreachesCategory
  <2>5. CASE S # {} /\ k \in DOMAIN st.zero_tolerance
    <3> DEFINE R == Regressed(b, r, S)
               Q == Regressed(b, s, S)
    <3>1. R \in SUBSET Cases
      BY <2>2 DEF Regressed
    <3>2. Q \in SUBSET R
      <4>1. \A c \in S : /\ ScoreIn(r, c) \in 0..Full /\ ScoreIn(s, c) \in 0..Full
                         /\ ScoreIn(b, c) \in 0..Full /\ ScoreIn(r, c) <= ScoreIn(s, c)
        BY <2>2, ScoresAreBounded
      <4>2. Full \in Nat
        BY DiffAssumption
      <4> HIDE DEF S
      <4> QED BY <4>1, <4>2 DEF Regressed
    <3>3. ~(Cardinality(R) > st.zero_tolerance[k])
      BY <2>1, <2>3, <2>5 DEF BreachesCategory
    <3>4. st.zero_tolerance[k] \in Int
      <4>1. Cardinality(Cases) \in Nat
        BY DiffAssumption, FS_CardinalityType
      <4>2. st.zero_tolerance[k] \in 0..Cardinality(Cases)
        BY <2>5, SuiteShapes
      <4> QED BY <4>1, <4>2
    <3>5. Cardinality(Q) <= Cardinality(R) /\ Cardinality(Q) \in Nat /\ Cardinality(R) \in Nat
      <4> HIDE DEF Q, R
      <4>1. IsFiniteSet(R)
        BY <3>1, DiffAssumption, FS_Subset
      <4>2. IsFiniteSet(Q) /\ Cardinality(Q) <= Cardinality(R)
        BY <3>2, <4>1, FS_Subset
      <4> QED BY <4>1, <4>2, FS_CardinalityType
    <3>6. ~(Cardinality(Q) > st.zero_tolerance[k])
      <4> HIDE DEF Q, R
      <4> QED BY <3>3, <3>4, <3>5
    <3> QED BY <2>5, <3>6 DEF BreachesCategory
  <2>6. CASE S # {} /\ k \notin DOMAIN st.zero_tolerance
    <3>1. ~BreachesThreshold(Mean(b, S), Mean(r, S), ThresholdFor(st, k))
      BY <2>1, <2>3, <2>6 DEF BreachesCategory
    <3>2. ThresholdFor(st, k) \in Threshold
      BY SuiteShapes
    <3>3. ~BreachesThreshold(Mean(b, S), Mean(s, S), ThresholdFor(st, k))
      <4> HIDE DEF S
      <4> QED BY <1>1, <2>2, <3>1, <3>2
    <3> QED BY <2>6, <3>3 DEF BreachesCategory
  <2> QED BY <2>4, <2>5, <2>6
<1> QED BY <1>2, <1>4, <1>5 DEF Verdict

\* No crash and no lower score turns a failing run into a passing one.
THEOREM CrashesDoNotHelp == Spec => CrashNeverHelps
<1> DEFINE Helps == (\E c \in Cases : Crashes(c) \/ Worse(c)) /\ verdict # "pass" => verdict' # "pass"
<1>1. PromotedInv /\ [Next]_vars => [Helps]_vars
  <2> SUFFICES ASSUME PromotedInv, NEW c \in Cases, Crashes(c) \/ Worse(c), verdict' = "pass"
               PROVE  verdict = "pass"
    OBVIOUS
  <2>1. base \in Run /\ cand \in Run /\ suite \in Suite /\ Full \in Nat
    BY DiffAssumption DEF PromotedInv, TypeOK
  <2>2. PICK r \in CaseResult : /\ SetResult(c, r) /\ c \in DOMAIN cand.results
                                /\ CaseScore(r) <= ScoreIn(cand, c)
    <3>1. ScoreIn(cand, c) \in 0..Full
      BY <2>1, ScoresAreBounded
    <3>2. CASE Crashes(c)
      <4>1. PICK s \in 0..Full : c \in DOMAIN cand.results /\ SetResult(c, [error |-> TRUE, score |-> s])
        BY <3>2 DEF Crashes
      <4>2. CaseScore([error |-> TRUE, score |-> s]) = 0
        BY DEF CaseScore
      <4> QED BY <2>1, <3>1, <4>1, <4>2, SetsAResult
    <3>3. CASE Worse(c)
      <4>1. PICK s \in 0..Full : /\ c \in DOMAIN cand.results /\ ~cand.results[c].error
                                 /\ s < cand.results[c].score
                                 /\ SetResult(c, [error |-> FALSE, score |-> s])
        BY <3>3 DEF Worse
      <4>2. /\ CaseScore([error |-> FALSE, score |-> s]) = s
            /\ ScoreIn(cand, c) = cand.results[c].score
        BY <4>1 DEF CaseScore, ScoreIn
      <4> QED BY <2>1, <3>1, <4>1, <4>2, SetsAResult
    <3> QED BY <3>2, <3>3
  <2>3. /\ cand' \in Run /\ cand'.backend = cand.backend
        /\ DOMAIN cand'.results = DOMAIN cand.results
        /\ ScoreIn(cand', c) = CaseScore(r)
        /\ \A x \in Cases \ {c} : ScoreIn(cand', x) = ScoreIn(cand, x)
    BY <2>2, ResultSet
  <2>4. \A x \in Cases : ScoreIn(cand', x) <= ScoreIn(cand, x)
    <3>1. \A x \in Cases : ScoreIn(cand, x) \in 0..Full
      BY <2>1, ScoresAreBounded
    <3> QED BY <2>1, <2>2, <2>3, <3>1
  <2>5. Verdict(suite, base, cand') = "pass"
    BY <2>2 DEF verdict, SetResult
  <2> QED BY <2>1, <2>3, <2>4, <2>5, NoBetterVerdict DEF verdict
<1>2. (Spec => [][Helps]_vars) => (Spec => CrashNeverHelps)
  BY DEF CrashNeverHelps
<1> QED BY <1>1, <1>2, PromotedInvHolds, PTL DEF Spec

\* Over any number of crashes, corrections and promotions candidate and baseline
\* stay runs of the suite's cases, some of which they may miss.
THEOREM PromotedTyped == Spec => []TypeOK
<1>1. PromotedInv => TypeOK
  BY DEF PromotedInv
<1> QED BY <1>1, PromotedInvHolds, PTL

\* The run that defines "good" passes, whatever its errors and missing cases,
\* where no floor is set.
THEOREM BaselinePasses == Spec => []BaselinePassesItself
<1>1. PromotedInv => BaselinePassesItself
  <2> SUFFICES ASSUME PromotedInv, cand = base, Floors = {0} PROVE verdict = "pass"
    BY DEF BaselinePassesItself
  <2>1. base \in Run /\ suite \in Suite /\ Unit \in Nat
    BY DiffAssumption DEF PromotedInv, TypeOK
  <2>2. ASSUME NEW S \in SUBSET Cases, NEW t \in Threshold, t.min_score = 0
        PROVE  ~BreachesThreshold(Mean(base, S), Mean(base, S), t)
    <3> DEFINE m == Mean(base, S)
    <3>1. m[1] \in Nat /\ m[2] \in Nat /\ t.max_drop \in Nat
      BY <2>1, MeanIs DEF Threshold
    <3> HIDE DEF m
    <3>2. Unit * (m[1] * m[2] - m[1] * m[2]) = 0 /\ 0 * m[2] = 0
      BY <2>1, <3>1, SMT
    <3>3. Unit * m[1] >= 0 /\ t.max_drop * m[2] * m[2] >= 0
      BY <2>1, <3>1, SMT
    <3>4. ~(Unit * m[1] < t.min_score * m[2])
      BY <2>1, <2>2, <3>1, <3>2, <3>3
    <3>5. ~(Unit * (m[1] * m[2] - m[1] * m[2]) > t.max_drop * m[2] * m[2])
      BY <2>1, <3>1, <3>2, <3>3
    <3> QED BY <3>4, <3>5 DEF BreachesThreshold, m
  <2>3. DOMAIN base.results \in SUBSET Cases
    BY <2>1, ScoresAreBounded
  <2>4. suite.threshold \in Threshold /\ suite.threshold.min_score = 0
    BY <2>1, SuiteShapes DEF Floors
  <2>5. ~BreachesThreshold(Score(base), Score(base), suite.threshold)
    BY <2>2, <2>3, <2>4 DEF Score
  <2>6. ASSUME NEW k \in Categories PROVE ~BreachesCategory(suite, base, base, k)
    <3> DEFINE S == OfCategory(Compared(base, base), k)
    <3>1. S \in SUBSET Cases
      BY <2>3 DEF OfCategory, Compared
    <3>2. CASE k \in DOMAIN suite.zero_tolerance
      <4>1. Regressed(base, base, S) = {}
        <5>1. \A c \in S : ScoreIn(base, c) \in 0..Full
          BY <2>1, <3>1, ScoresAreBounded
        <5>2. Full \in Nat
          BY DiffAssumption
        <5> HIDE DEF S
        <5> QED BY <5>1, <5>2 DEF Regressed
      <4>2. suite.zero_tolerance[k] \in Nat
        <5>1. suite.zero_tolerance[k] \in 0..Cardinality(Cases) /\ Cardinality(Cases) \in Nat
          BY <2>1, <3>2, SuiteShapes, DiffAssumption, FS_CardinalityType
        <5> QED BY <5>1
      <4>3. ~(Cardinality(Regressed(base, base, S)) > suite.zero_tolerance[k])
        BY <4>1, <4>2, FS_EmptySet
      <4> QED BY <3>2, <4>3 DEF BreachesCategory
    <3>3. CASE k \notin DOMAIN suite.zero_tolerance
      <4>1. ThresholdFor(suite, k) \in Threshold /\ ThresholdFor(suite, k).min_score = 0
        BY <2>1, <2>4, SuiteShapes DEF ThresholdFor, Floors
      <4>2. ~BreachesThreshold(Mean(base, S), Mean(base, S), ThresholdFor(suite, k))
        <5> HIDE DEF S
        <5> QED BY <2>2, <3>1, <4>1
      <4> QED BY <3>3, <4>2 DEF BreachesCategory
    <3> QED BY <3>2, <3>3
  <2> QED BY <2>5, <2>6 DEF verdict, Verdict, Comparable
<1> QED BY <1>1, PromotedInvHolds, PTL

\* Of cases of which at most one scores lower, the sums are at most one case apart.
LEMMA OneLostCase ==
  ASSUME NEW b \in Run, NEW r \in Run, NEW S \in SUBSET Cases, Cardinality(Regressed(b, r, S)) <= 1
  PROVE  SumIn(b, S) <= SumIn(r, S) + Full
<1> DEFINE R == Regressed(b, r, S)
<1>1. Full \in Nat /\ \A c \in S : ScoreIn(b, c) \in 0..Full /\ ScoreIn(r, c) \in 0..Full
  BY DiffAssumption, ScoresAreBounded
<1>2. SumIn(b, S) \in Nat /\ SumIn(r, S) \in Nat /\ IsFiniteSet(S)
  BY SumInType
<1>3. R \in SUBSET S
  BY DEF Regressed
<1>4. CASE R = {}
  <2>1. \A c \in S : ScoreIn(b, c) <= ScoreIn(r, c)
    BY <1>1, <1>4 DEF Regressed
  <2> QED BY <1>1, <1>2, <2>1, SumInMonotone
<1>5. CASE R # {}
  <2>1. PICK x \in R : TRUE
    BY <1>5
  <2>2. R = {x}
    <3> HIDE DEF R
    <3>1. IsFiniteSet(R) /\ IsFiniteSet(R \ {x})
      BY <1>2, <1>3, FS_Subset
    <3>2. Cardinality(R \ {x}) = Cardinality(R) - 1 /\ Cardinality(R \ {x}) \in Nat
      BY <2>1, <3>1, FS_RemoveElement, FS_CardinalityType
    <3>3. Cardinality(R) <= 1 /\ Cardinality(R) \in Nat
      BY <3>1, FS_CardinalityType DEF R
    <3>4. Cardinality(R \ {x}) = 0
      BY <3>2, <3>3
    <3>5. R \ {x} = {}
      BY <3>1, <3>4, FS_EmptySet
    <3> QED BY <2>1, <3>5
  <2>3. x \in S /\ S \ {x} \in SUBSET Cases
    BY <1>3, <2>1
  <2>4. ASSUME NEW run \in Run PROVE SumIn(run, S) = ScoreIn(run, x) + SumIn(run, S \ {x})
    <3> DEFINE f == [c \in S |-> ScoreIn(run, c)]
               g == [c \in S \ {x} |-> ScoreIn(run, c)]
    <3>1. \A c \in S : f[c] \in Int
      <4>1. \A c \in S : f[c] \in 0..Full
        BY ScoresAreBounded
      <4> HIDE DEF f
      <4> QED BY <1>1, <4>1
    <3>2. f[x] = ScoreIn(run, x) /\ \A c \in S \ {x} : f[c] = g[c]
      BY <2>3
    <3>3. IsFiniteSet(S \ {x})
      BY <1>2, FS_Subset
    <3> HIDE DEF f, g
    <3>4. SumFunctionOnSet(f, S) = f[x] + SumFunctionOnSet(f, S \ {x})
      BY <1>2, <2>3, <3>1, SumOfAny
    <3>5. SumFunctionOnSet(f, S \ {x}) = SumFunctionOnSet(g, S \ {x})
      BY <3>1, <3>2, <3>3, SumOfSame
    <3> QED BY <3>2, <3>4, <3>5 DEF SumIn, f, g
  <2>5. \A c \in S \ {x} : ScoreIn(b, c) <= ScoreIn(r, c)
    BY <1>1, <2>2 DEF Regressed
  <2>6. SumIn(b, S \ {x}) <= SumIn(r, S \ {x})
    BY <2>3, <2>5, SumInMonotone
  <2>7. SumIn(b, S \ {x}) \in Nat /\ SumIn(r, S \ {x}) \in Nat
    BY <2>3, SumInType
  <2>8. ScoreIn(b, x) \in 0..Full /\ ScoreIn(r, x) \in 0..Full
    BY <1>1, <2>3
  <2>9. /\ SumIn(b, S) = ScoreIn(b, x) + SumIn(b, S \ {x})
        /\ SumIn(r, S) = ScoreIn(r, x) + SumIn(r, S \ {x})
    BY <2>4
  <2> QED BY <1>1, <2>6, <2>7, <2>8, <2>9
<1> QED BY <1>4, <1>5

\* Where both runs hold every case, one lost case does not breach a tolerance
\* that the schema accepts.
THEOREM AcceptedLimitsTolerate == Spec => []AcceptedLimitsTolerateACase
<1>1. PromotedInv => AcceptedLimitsTolerateACase
  <2> SUFFICES ASSUME PromotedInv, NEW k \in DOMAIN suite.category_thresholds,
                      DOMAIN base.results = Cases, DOMAIN cand.results = Cases,
                      suite.category_thresholds[k].max_drop > 0,
                      suite.category_thresholds[k].min_score = 0,
                      Cardinality(Regressed(base, cand, OfCategory(Cases, k))) <= 1
               PROVE  ~BreachesCategory(suite, base, cand, k)
    BY DEF AcceptedLimitsTolerateACase
  <2> DEFINE t == suite.category_thresholds[k]
             S == OfCategory(Cases, k)
             n == Cardinality(S)
             b == SumIn(base, S)
             c == SumIn(cand, S)
             d == t.max_drop
  <2>1. base \in Run /\ cand \in Run /\ suite \in Suite /\ S \in SUBSET Cases
    BY DEF PromotedInv, TypeOK, OfCategory
  <2>2. /\ k \notin DOMAIN suite.zero_tolerance /\ ThresholdFor(suite, k) = t
        /\ Compared(base, cand) = Cases
    BY DEF PromotedInv, Accepted, ThresholdFor, Compared
  <2>3. t \in Threshold
    BY <2>1, SuiteShapes
  <2>4. Unit \in Nat /\ Full \in Nat /\ d \in Nat /\ n \in Nat /\ b \in Nat /\ c \in Nat
    <3> HIDE DEF S, t
    <3> QED BY <2>1, <2>3, SumInType, DiffAssumption DEF Threshold
  <2>5. CASE S = {}
    BY <2>2, <2>5 DEF BreachesCategory
  <2>6. CASE S # {}
    <3>1. n > 0
      <4> HIDE DEF S
      <4> QED BY <2>1, <2>4, <2>6, SumInType, FS_EmptySet
    <3>2. d * n >= Unit
      BY <3>1 DEF PromotedInv, Accepted
    <3>3. Mean(base, S) = <<b, Full * n>> /\ Mean(cand, S) = <<c, Full * n>>
      <4> HIDE DEF S
      <4> QED BY <2>1, <2>6, MeanIs
    <3>4. b <= c + Full
      <4> HIDE DEF S
      <4> QED BY <2>1, OneLostCase DEF S
    <3>5. t.min_score = 0
      OBVIOUS
    <3>6. BreachesThreshold(<<b, Full * n>>, <<c, Full * n>>, t) =
            (\/ Unit * (b * (Full * n) - c * (Full * n)) > d * (Full * n) * (Full * n)
             \/ Unit * c < t.min_score * (Full * n))
      BY DEF BreachesThreshold
    <3> HIDE DEF b, c, d, n, S, t
    <3> DEFINE m == Full * n
    <3>7. m \in Nat
      BY <2>4, SMT
    <3>8. Unit * (b - c) <= d * m
      <4>1. Unit * (b - c) <= Unit * Full
        <5>1. PICK x \in Nat : c + Full = b + x
          <6>1. c + Full - b \in Nat /\ c + Full = b + (c + Full - b)
            BY <2>4, <3>4
          <6> QED BY <6>1
        <5>2. Full = (b - c) + x /\ b - c \in Int
          BY <2>4, <5>1
        <5>3. \A u \in Int : Unit * (u + x) = Unit * u + Unit * x /\ Unit * x >= 0 /\ Unit * u \in Int
          BY <2>4, SMT
        <5>4. Unit * Full = Unit * (b - c) + Unit * x /\ Unit * x >= 0 /\ Unit * (b - c) \in Int
          BY <5>2, <5>3
        <5>5. Unit * x \in Int
          BY <2>4
        <5> QED BY <5>4, <5>5
      <4>2. Unit * Full <= d * m
        <5>1. PICK y \in Nat : d * n = Unit + y
          <6>1. d * n \in Nat
            BY <2>4
          <6>2. d * n - Unit \in Nat /\ d * n = Unit + (d * n - Unit)
            BY <2>4, <3>2, <6>1
          <6> QED BY <6>2
        <5>2. d * (Full * n) = Full * (d * n)
          BY <2>4, SMT
        <5>3. Full * (Unit + y) = Unit * Full + Full * y /\ Full * y >= 0
          BY <2>4, SMT
        <5>4. Unit * Full \in Int /\ Full * y \in Int
          BY <2>4
        <5> QED BY <5>1, <5>2, <5>3, <5>4
      <4>3. Unit * (b - c) \in Int /\ Unit * Full \in Int /\ d * m \in Int
        BY <2>4, <3>7
      <4> QED BY <4>1, <4>2, <4>3
    <3> HIDE DEF m
    <3>9. ~(Unit * (b * m - c * m) > d * m * m)
      <4>1. Unit * (b * m - c * m) = (Unit * (b - c)) * m
        BY <2>4, <3>7, SMT
      <4>2. PICK z \in Nat : d * m = Unit * (b - c) + z
        <5>1. Unit * (b - c) \in Int /\ d * m \in Int
          BY <2>4, <3>7
        <5>2. d * m - Unit * (b - c) \in Nat /\ d * m = Unit * (b - c) + (d * m - Unit * (b - c))
          BY <3>8, <5>1
        <5> QED BY <5>2
      <4> DEFINE u == Unit * (b - c)
      <4>3. u \in Int
        BY <2>4
      <4> HIDE DEF u
      <4>4. (u + z) * m = u * m + z * m /\ z * m >= 0 /\ u * m \in Int /\ z * m \in Int
        BY <3>7, <4>3, SMT
      <4>5. d * m * m = u * m + z * m
        BY <4>2, <4>4 DEF u
      <4> QED BY <4>1, <4>4, <4>5 DEF u
    <3>10. ~(Unit * c < t.min_score * m)
      <4>1. Unit * c >= 0 /\ Unit * c \in Int /\ 0 * m = 0
        BY <2>4, <3>7, SMT
      <4> QED BY <3>5, <4>1
    <3>11. ~BreachesThreshold(Mean(base, S), Mean(cand, S), t)
      BY <3>3, <3>6, <3>9, <3>10 DEF m
    <3> QED BY <2>2, <3>11 DEF BreachesCategory, S
  <2> QED BY <2>5, <2>6
<1> QED BY <1>1, PromotedInvHolds, PTL
==============================================================================
