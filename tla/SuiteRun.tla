------------------------------- MODULE SuiteRun -------------------------------
(***************************************************************************)
(* One run of a suite after another: each case is generated and scored,    *)
(* its result goes to the progress file before the next case starts, and   *)
(* the artifact is written at the end. A judge is asked, again while it    *)
(* limits the rate; through a cache that outlives the runs only where the  *)
(* run is given one: --judge-cache. The process may be killed, and the     *)
(* progress file may fail, at any step.                                    *)
(***************************************************************************)
EXTENDS Naturals, Sequences, FiniteSets

CONSTANTS
  SuiteCases,    \* the cases of the suite, in its order
  ScorersOf,     \* of each case, the kinds of its scorers, in their order
  Outputs,       \* what the model may answer
  MaxRetries,    \* JudgeClient.max_retries
  MaxVersion,    \* bound: versions of the judge
  MaxAnswers     \* bound: verdicts given by the provider

ASSUME SuiteAssumption == SuiteCases \in Seq({SuiteCases[i] : i \in DOMAIN SuiteCases})
ASSUME RetriesAssumption == MaxRetries \in Nat \ {0}
ASSUME VersionAssumption == MaxVersion \in Nat \ {0} /\ MaxAnswers \in Nat

VARIABLES
  job,           \* the run at work, or Over
  done,          \* results of the cases the last run finished, in memory
  progress,      \* the lines of the progress file
  artifact,      \* the cases the artifact has results of, <<>> if it is no run
  finished,      \* did the last run come to its end
  version,       \* of the judge
  cache,         \* the verdicts table
  answers,       \* every verdict the provider gave, by the key it was asked for
  unsaved        \* of each key, the verdicts given that were not saved: to a run
                 \* with no cache, or lost to a kill or a failure

runVars == <<job, done, progress, artifact, finished, version, cache, answers, unsaved>>

Over == [pc |-> "over"]
VerdictScores == {0, 1}
Judges == {"none", "uncached", "cached"}   \* --judge, and --judge-cache with it
NoOutput == ""
NamesOf(results) == [i \in DOMAIN results |-> results[i].case]

\* JudgeCache.key; the rubric is the one of the case.
Key(case, output, v) == <<case, output, v>>
CasesOfSuite == {SuiteCases[i] : i \in DOMAIN SuiteCases}
Keys == CasesOfSuite \X Outputs \X (1..MaxVersion)

Result(case, output, error, verdicts) ==
  [case |-> case, output |-> output, error |-> error, verdicts |-> verdicts]

Results == [case : CasesOfSuite, output : Outputs \union {NoOutput}, error : BOOLEAN,
            verdicts : Seq(VerdictScores)]
Between == [pc : {"case", "sink", "write"}, judge : Judges]
Scoring == [pc : {"score"}, judge : Judges, output : Outputs, at : Nat,
            verdicts : Seq(VerdictScores)]
Asking == [pc : {"ask", "save"}, judge : Judges, output : Outputs, at : Nat,
           verdicts : Seq(VerdictScores), attempt : 1..MaxRetries]

RunTypeOK ==
  /\ job \in {Over} \union Between \union Scoring \union Asking
  /\ done \in Seq(Results) /\ progress \in Seq(Results)
  /\ Len(done) <= Len(SuiteCases) /\ Len(progress) <= Len(SuiteCases)
  /\ finished \in BOOLEAN /\ version \in 1..MaxVersion /\ unsaved \in [Keys -> Nat]
  /\ DOMAIN cache \subseteq Keys /\ \A k \in DOMAIN cache : cache[k] \in VerdictScores
  /\ answers \in [Keys -> Seq(VerdictScores)]

RunInit ==
  /\ job = Over /\ done = <<>> /\ progress = <<>> /\ artifact = <<>> /\ finished = FALSE
  /\ version = 1 /\ cache = [k \in {} |-> 0] /\ answers = [k \in Keys |-> <<>>]
  /\ unsaved = [k \in Keys |-> 0]

CurrentCase == SuiteCases[Len(done) + 1]
Scorers == ScorersOf[CurrentCase]
AtScorer(kind) == job.pc = "score" /\ job.at <= Len(Scorers) /\ Scorers[job.at] = kind
CacheKey == Key(CurrentCase, job.output, version)

Cached == <<version, cache, answers, unsaved>>
Files == <<progress, artifact, finished>>

\* cmd_run, its destination writable: the progress file is opened anew.
StartRun ==
  /\ job = Over
  /\ \E judge \in Judges : job' = [pc |-> "case", judge |-> judge]
  /\ done' = <<>> /\ progress' = <<>> /\ finished' = FALSE
  /\ UNCHANGED <<artifact, Cached>>

EndCase(output, error, verdicts) ==
  /\ done' = Append(done, Result(CurrentCase, output, error, verdicts))
  /\ job' = [pc |-> "sink", judge |-> job.judge]

\* run_case: a crash of the model is an error of the case.
Generate ==
  /\ job.pc = "case" /\ Len(done) < Len(SuiteCases)
  /\ \/ /\ \E o \in Outputs :
             job' = [pc |-> "score", judge |-> job.judge, output |-> o, at |-> 1, verdicts |-> <<>>]
        /\ UNCHANGED done
     \/ EndCase(NoOutput, TRUE, <<>>)
  /\ UNCHANGED <<Files, Cached>>

\* A rule scores the output, and no judge is no scorer.
ScoreRule ==
  /\ AtScorer("rule") \/ (AtScorer("judge") /\ job.judge = "none")
  /\ job' = [job EXCEPT !.at = @ + 1]
  /\ UNCHANGED <<done, Files, Cached>>

\* What a scorer raises ends the case with the scores it has.
ScorerRaises ==
  /\ AtScorer("rule") /\ EndCase(job.output, TRUE, job.verdicts)
  /\ UNCHANGED <<Files, Cached>>

ScoredAll ==
  /\ job.pc = "score" /\ job.at > Len(Scorers)
  /\ EndCase(job.output, FALSE, job.verdicts)
  /\ UNCHANGED <<Files, Cached>>

WithVerdict(s) ==
  [pc |-> "score", judge |-> job.judge, output |-> job.output, at |-> job.at + 1,
   verdicts |-> Append(job.verdicts, s)]

\* Mutant: the key does not say which version of the judge gave the verdict.
CacheHitOfAnyVersion ==
  /\ AtScorer("judge") /\ job.judge = "cached"
  /\ \E v \in 1..MaxVersion :
       /\ Key(CurrentCase, job.output, v) \in DOMAIN cache
       /\ job' = WithVerdict(cache[Key(CurrentCase, job.output, v)])
  /\ UNCHANGED <<done, Files, Cached>>

CacheHit ==
  /\ AtScorer("judge") /\ job.judge = "cached" /\ CacheKey \in DOMAIN cache
  /\ job' = WithVerdict(cache[CacheKey])
  /\ UNCHANGED <<done, Files, Cached>>

\* Without a cache there is nothing to look in.
CacheMiss ==
  /\ AtScorer("judge") /\ job.judge # "none"
  /\ job.judge = "cached" => CacheKey \notin DOMAIN cache
  /\ job' = [pc |-> "ask", judge |-> job.judge, output |-> job.output, at |-> job.at,
             verdicts |-> job.verdicts, attempt |-> 1]
  /\ UNCHANGED <<done, Files, Cached>>

AnswersGiven == {g \in Keys \X (1..MaxAnswers) : g[2] \in DOMAIN answers[g[1]]}

\* A verdict that is in no cache is counted, and asked for again by the next run.
LoseAnswer == unsaved' = [unsaved EXCEPT ![CacheKey] = @ + 1]

\* _call_with_backoff: the provider answers, limits the rate, or fails.
ProviderAnswers ==
  /\ job.pc = "ask" /\ Cardinality(AnswersGiven) < MaxAnswers
  /\ \E s \in VerdictScores :
       /\ answers' = [answers EXCEPT ![CacheKey] = Append(@, s)]
       /\ IF job.judge = "cached"
            THEN job' = [job EXCEPT !.pc = "save", !.verdicts = Append(@, s)] /\ UNCHANGED unsaved
            ELSE job' = WithVerdict(s) /\ LoseAnswer
  /\ UNCHANGED <<done, Files, version, cache>>

RateLimit ==
  /\ job.pc = "ask" /\ job.attempt < MaxRetries
  /\ job' = [job EXCEPT !.attempt = @ + 1]
  /\ UNCHANGED <<done, Files, Cached>>

ProviderFails ==
  /\ job.pc = "ask" /\ EndCase(job.output, TRUE, job.verdicts)
  /\ UNCHANGED <<Files, Cached>>

Scored ==
  job' = [pc |-> "score", judge |-> job.judge, output |-> job.output, at |-> job.at + 1,
          verdicts |-> job.verdicts]

\* Mutant: the verdict is used and not saved.
SaveForgotten ==
  /\ job.pc = "save" /\ Scored
  /\ UNCHANGED <<done, Files, Cached>>

Save ==
  /\ job.pc = "save" /\ Scored
  /\ cache' = [k \in DOMAIN cache \union {CacheKey} |->
                 IF k = CacheKey THEN job.verdicts[Len(job.verdicts)] ELSE cache[k]]
  /\ UNCHANGED <<done, Files, version, answers, unsaved>>

\* A cache that cannot be written is an error of the case.
SaveFails ==
  /\ job.pc = "save"
  /\ EndCase(job.output, TRUE, SubSeq(job.verdicts, 1, Len(job.verdicts) - 1))
  /\ LoseAnswer
  /\ UNCHANGED <<Files, version, cache, answers>>

\* Mutant: the line stays in the buffer of the file.
SinkUnflushed ==
  /\ job.pc = "sink"
  /\ job' = [job EXCEPT !.pc = "case"]
  /\ UNCHANGED <<done, Files, Cached>>

Sink ==
  /\ job.pc = "sink"
  /\ progress' = Append(progress, done[Len(done)])
  /\ job' = [job EXCEPT !.pc = "case"]
  /\ UNCHANGED <<done, artifact, finished, Cached>>

\* What on_result raises aborts the run.
SinkFails ==
  /\ job.pc = "sink"
  /\ job' = Over
  /\ UNCHANGED <<done, Files, Cached>>

\* write_text empties the artifact of an earlier run first.
OpenArtifact ==
  /\ job.pc = "case" /\ Len(done) = Len(SuiteCases)
  /\ artifact' = <<>> /\ job' = [job EXCEPT !.pc = "write"]
  /\ UNCHANGED <<done, progress, finished, Cached>>

WriteArtifact ==
  /\ job.pc = "write"
  /\ artifact' = NamesOf(done) /\ finished' = TRUE /\ job' = Over
  /\ UNCHANGED <<done, progress, Cached>>

KillRun ==
  /\ job # Over
  /\ job' = Over
  /\ IF job.pc = "save" THEN LoseAnswer ELSE UNCHANGED unsaved
  /\ UNCHANGED <<done, Files, version, cache, answers>>

NewJudge ==
  /\ job = Over /\ version < MaxVersion /\ version' = version + 1
  /\ UNCHANGED <<job, done, Files, cache, answers, unsaved>>

RunNext ==
  \/ StartRun \/ Generate \/ ScoreRule \/ ScorerRaises \/ ScoredAll
  \/ CacheHit \/ CacheMiss \/ ProviderAnswers \/ RateLimit \/ ProviderFails
  \/ Save \/ SaveFails
  \/ Sink \/ SinkFails \/ OpenArtifact \/ WriteArtifact \/ KillRun \/ NewJudge

RunSpec == RunInit /\ [][RunNext]_runVars

(***************************************************************************)
(* Properties.                                                             *)
(***************************************************************************)
\* "A killed pod leaves every completed case on disk": whenever the process
\* ends, the progress file has every case but the one whose line it was about
\* to write, and a run that came to its end has a line for each case in its
\* artifact, in the order of the suite.
CompletedCasesAreOnDisk ==
  /\ \/ progress = done
     \/ done # <<>> /\ progress = SubSeq(done, 1, Len(done) - 1) /\ (job.pc = "sink" \/ job = Over)
  /\ finished => NamesOf(progress) = artifact /\ artifact = SuiteCases

\* "Changing the judge must invalidate old verdicts rather than silently mixing
\* them": each verdict a run took, from the cache or not, is one this version
\* of the judge gave for this case and this output.
VerdictIsOfThisJudge ==
  job # Over =>
    \A i \in DOMAIN done : \A j \in DOMAIN done[i].verdicts :
      LET given == answers[Key(done[i].case, done[i].output, version)]
      IN  \E n \in DOMAIN given : given[n] = done[i].verdicts[j]

\* "A rerun of an unchanged case costs zero quota", for the runs that are given
\* the cache: however many of them are killed and started over, and whatever runs
\* without a cache, as the nightly one is, are between them, of the verdicts bought
\* for one key one at most was saved, so that no run with the cache buys another.
RerunCostsNothing == \A k \in Keys : Len(answers[k]) <= 1 + unsaved[k]
==============================================================================
