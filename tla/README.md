# EvalGate in TLA+

EvalGate measures a deployed language model every night against a golden suite,
compares the run with a promoted baseline, and lets pull requests through only
while the last verdict is passing and recent.  A second half of the repository
builds what is measured: a corpus, questions, answers bought from a teacher
model, a golden set reviewed by hand, and the datasets a small model is trained
on.  This directory models the part of both halves that is state, order and
failure, checks it with TLC and proves the parts that matter most with TLAPS.

Paths are relative to `src/`.  E = `packages/evalcore/src/evalcore`,
A = `apps/api/src/evalgate_api`, T = `training/src/evalgate_training`.

## 1. Inventory

| Component | State it keeps | Operations | Talks to | What is hard | What makes it correct |
|---|---|---|---|---|---|
| Daily eval DAG, `infra/k8s/airflow/dags/evalgate_daily_eval.py` | DagRun and task states; files per `{{ ds }}` on a volume | scheduled and manual runs; preflight, run_suite, gate, publish_latest, finalize | `evalgate-eval` in pods, the model server, the volume | trigger rules, hung pods, `dagrun_timeout`, reruns of one date, torn files | green means measured and published; it recovers; a dead DAG blocks; a broken run is an unknown |
| Daily verdict, E`/cli.py` (publish, check-daily), A`/app.py` (`/daily/latest`) | `latest.json` | publish, serve, check | DAG, PR workflow | file rewritten in place; stale vs dead | only whole, recent, passing verdicts let a merge through |
| Gate configuration, E`/gate_config.py` | constants | deadline and age bound | DAG, CLI | three numbers that are one decision | never stale while a punctual run is still within its deadline |
| PR workflow, `.github/workflows/eval-gate.yml` | one check conclusion per head | instrument, freshness, escalate, by the event of a pull request or by hand | `/daily/latest`, git | events that name an old base; a run by hand has no base to diff with; re-runs; cancelled runs | no green on a change of score-affecting files |
| Comparison, E`/diff.py`, E`/schema.py` | none | compare, suite validation | cmd_gate, API | errored and missing cases, quanta, zero tolerance, 1e-9 | crashing never helps; a refusal is never averaged away |
| Suite runner, E`/runner.py`, E`/cli.py` (run) | results so far, the progress file, the artifact | run_case, run_suite, on_result | model, judge, scorers | one case failing, a crash mid-suite, a sink that fails | every completed case is on disk; every case is in the run |
| Judge, E`/judge.py` | with `--judge-cache`, a SQLite cache that outlives the runs | evaluate, retry on 429, cache | its provider | retries; a cache key that leaves something out; a killed run started over | a verdict belongs to what was judged, and one that was saved is not bought again |
| Scorers, E`/scorers.py`; model clients; loader and report | none | score, generate, load, render | model servers | - | - |
| EvalGate API, A`/app.py`, A`/store.py` | tables suites, runs, baselines | register, submit, promote, gate, diff | Postgres | handlers in a thread pool, several transactions each, READ COMMITTED | a baseline is one measurement, and moves by promotion or by a post under its own run_id; the store behaves as the one in memory |
| Teacher batches, T`/teacher/batch.py`, T`/openai_batch.py` | questions, teacher_answers, `batch_state.json` | retrieval, reset-retrieval, dry-run, submit, collect, revalidate, audit | OpenAI Batch API, ledger | commit and charge are two steps; actual usage above the projection; batches that cannot be collected; kills; retries of poisoned answers; retrieval cleared under an order | spending is bounded; the loop ends |
| Spend ledger, T`/budget.py` | `ledger.json` | reserve, record, halt | every paid command | persisted after the fact; written whole; two ceilings | a hard halt |
| Corpus, T`/corpus` | chunks, embeddings | fetch, parse, load, embed | OpenAI, Postgres | three scanners of code fences; ids that outlive their text; embed commits before it charges | chunks partition the sections; an embedding is of its text; the overspend is bounded |
| Questions, T`/questions` | questions | allocate, submit, collect, verify, dedupe, top-up, trim | OpenAI, ledger | quotas with floors and caps; commands that delete rows with paid answers | counts sum; quotas respected; nothing paid is given up without a reason |
| Golden set, T`/golden` | split, manifest, judgment log | select, export, review, review server | browser, Postgres | append-only log under a threaded server; files after the commit | no judgment lost; split and manifest agree |
| Dataset, T`/dataset` | splits and manifests as files, `recovery.jsonl` | export, export-v2, recovery-export, restore, verify | golden set, Postgres | files rewritten in place, the manifest last; answers that change between two commands | no golden row reaches training; v2 is v1 less some of train |
| Training, T`/train` | adapters | train v2, probe, checkpoint selection | dataset files | nine hours on the wrong files; tie breaks | refuses what is not one export |
| Capacity loop, `infra/terraform/retry-apply.sh` | attempt counters | apply, back off | OCI | shift of a counter that is not capped | waits stay in bounds |
| Manifests, monitoring, k6; workers, analytics, SDK | - | - | - | - | configuration and placeholders |

How the first half interacts: the DAG runs the comparison in a pod and leaves
`verdict_{{ds}}.json`; publish_latest copies it, stamped, into `latest.json`; the
API serves that file; the workflow of every pull request reads it through
`check-daily`.  The API keeps its own baselines per (suite, branch), moved by a
call to promote, and its gate endpoint runs the same comparison.  In the second
half every paid command reserves against the ledger, buys, commits what it
bought, and records it.

## 2. Modules

    DailyVerdict <---implements--- DailyGate          Diff <--extends-- PromotedRuns
         ^                                              ^
         +---extends--- PrGate                          +--instance-- MCEvalApi --> EvalApi
                          ^                                              ^             |
                          +---extends--- MCGates ---extends--------------+             |
                                                                                       |
    TeacherBatch   DataSplits                              MemoryStore <--implements---+

    MCComponents --extends--> PromotedRuns  SuiteRun  GoldenReview  CorpusParse
                              CorpusEmbed  Allocation  Questions  RetryApply

**DailyVerdict** is the abstract specification: `latest.json` as its readers see
it.  Its steps are truncating the file, finishing the write, and ageing; its
operators are the readers (`Served` = GET /daily/latest, `CheckDaily` =
check-daily, `Allows` = both).

**DailyGate** is the DAG that writes the file.  Variables: the clock (`sinceFire`,
`due`), the current DagRun (`run`), the files of its date (`ds`), `latest`, and the
environment (`healthy`, `model`, `baseline`).  Each task is an action with its
outcomes, `TriggerTask`, `UpstreamFailed` and `EndRun` are the scheduler,
`DagRunTimeout` the deadline, `Fault`, `Hang`, `Redeploy` and `PromoteBaseline` the
world.  `ImplementsDailyVerdict` states that it implements DailyVerdict; the
mapping is the identity on `latest`.

**PrGate** extends DailyVerdict with the workflow.  A pull request is its fork,
head and base contents of SCORE_AFFECTING_PATHS, whether the instrument job
passes, the check on its head, and the event of the run that concluded it.
`RunWorkflow(p, e)` concludes the three jobs as one, for a `pull_request` event or for a
`workflow_dispatch` run on its branch, which skips the filter step;
`Unreachable` is an API that does not answer; `Push` cancels the run in progress.

**Diff** is `compare()` and the schema's validation as operators, in exact
fractions.  **PromotedRuns** puts it in time: a candidate crashes, gets worse,
better, loses cases or moves to another backend, and is promoted when it passes.

**EvalApi** is the API over Postgres.  A request is the sequence of its database
statements, each a step, so any other commit can fall between two: `SubmitRun` and `PutRun` are the
two of a post, `Promote` and `Upsert` the two of promote, `Gate`, `GetSuite`, `GetBase` and `GetCand`
the four reads of gate.  A run_id may be posted with any of its `Posts`, more than once.
The comparison is a constant operator; MCEvalApi gives it Diff's `Verdict`.

**MemoryStore** is the other store of A`/store.py`, dictionaries in one process.  A write is one
step (`PutSuite`, `StoreRun`), but promote looks the run up and then writes the baseline
(`LookUp`, then `SetBaseline`, or `Abandon` where the request is lost), and the handlers that call it run in
a thread pool too, so a post may come between the two.  The file says of the two stores "Both
must behave identically" (`store.py:12`), so this one serves as the abstract specification:
`ImplementsMemoryStore` states that EvalApi implements it.  The mapping is the identity on
suites, runs and baselines; `promoting` is what a request between `Promote` and `Upsert` has selected.
The listings and their order are left out.

**TeacherBatch** is the operator's loop of retrieval, dry-run, submit, collect and
audit over the Batch API with the ledger.  A command is the sequence of its commits
(`cmd` holds where it is) and `Killed` ends it between two.  A generation costs from 1 to `Dearest`;
`Report` leaves the mean of the dry run, rounded down, and `Submit` reserves a shard by it, while `Collect`
and `Charge` record what the answers really took, so the ledger learns of an overrun only afterwards.
`BatchEnds` is the service: a batch comes back with any mix of good, poisoned, unparseable
and missing answers, or is lost, which is where `fetch` raises for good: it failed or expired, it has
no output file for having errors only, or a content is null.  Nothing in the code makes the
operator collect a shard before the next is sent; a command given too early counts as a fault
(`Waits`).  `ResetRetrieval` and `Revalidate` may come at any time between two
commands: the first makes collect raise until `AttachRetrieval` has run again, the
second turns the verdict of stored answers.

**DataSplits** goes from the valid answers to what `train v2` is launched on.
Variables: the answers, the golden split in the database, and `disk`, the files of
`artifacts/`.  A command computes and commits in one step and leaves the files it is
about to write in `writes`, in the order of the code; `Writes` writes the next one,
and `Killed` drops the rest, leaving a file untouched, half written, or (for
`recovery.jsonl`, which is read line by line) cut at the end of a line.  `Sample`,
`Plan` and `First` are the selections by sha256 order, as pure functions of
the ids; a digest is the content it is of.  `ChangeAnswer` is the teacher stage as
this half sees it.  `trained` is the launch the last step made.

**SuiteRun** is `evalgate-eval run`, one run after another: `Generate`, the scorers of
a case in their order, `Sink` (the progress file), `OpenArtifact` and `WriteArtifact`.
Each run is started with no judge, with one, or with one and `--judge-cache` (`judge` of `job`);
the nightly DAG starts it with `--judge` alone (`evalgate_daily_eval.py:199`).  Only the last looks in `cache` and
saves to it (`CacheHit`, `Save`); the others ask again whenever they come to the case (`CacheMiss`,
`ProviderAnswers`, `RateLimit`, `LoseAnswer`).  The cache outlives the runs and versions of the judge.
`KillRun` ends the process anywhere.  `answers` records what the provider was ever asked, and
`unsaved` how many answers for a key never reached the table.

**GoldenReview** is the review server.  A request is the sequence of steps of its
handler (`request[t]`), with the lock of do_POST where the code takes it and none
where it does not: the scans for the next case and the summary read the map while
other threads judge.  `Record` appends to the log, `Publish` changes the map; `Kill`
and `Serve` are the restart that reads the log back.

**CorpusParse** is `parse_file`, a line a step (`ReadLine`, `ReadHeading`, `EndOfFile`), then
a section a step (`DropSection`, `KeepSection`, `SplitSection`), and for a section that is
split `split_oversized`, a block a step (`Gather`, `LastPart`).  A line is its kind (text,
blank, a fence and its length, a heading and its level, one of them without a text, which the path
leaves out), a text the set of the positions of
its lines, so that chunks can be compared with the file they are of.  `FenceAfter` is the
rule of all three scanners, `Scan(d, a)` a scanner that starts at line `a`: the one of
`parse_file` at the first line of the file, the others at the first line of the text they
are given.  The properties compare with a reading of the file as a whole.  The number of the
part that the code puts into a chunk's heading is left out.

**CorpusEmbed** is the chunks table with `Load` and the embed command: it reads the
pending rows once, then calls, updates and records window by window.  `Truncate` and
`Rewrite` are the two halves of `Ledger.flush`, `Die` a kill or an exception.

**Allocation** is `clamped_shares` (one violator of the band clamped a step) and
`allocate` (largest remainders), in exact hundredths.  It is the code that is modelled, not the worked
example of its docstring (`allocate.py:8-10`): from 16.0 / 68.1 / 9.7 / 6.2 that says
25.0 / 35.0 / 21.1 / 18.9, while the code clamps Grafana to 35 and Pydantic (6% of the corpus) to 15 and
leaves about 31.1 / 35 / 18.9 / 15.

**Questions** is the question table: `SubmitRound` (the first batch and the top-ups,
sized by `Wanted`), `CollectRound` and `Insert` (charge, then rows), `Verify`, `Dedupe`,
`Trim`.  A cell is a category and a repository.  `Answer` is the teacher stage.

**RetryApply** is the loop of `retry-apply.sh`, its delays 64-bit integers as bash
computes them, in four limbs because TLC's integers have 32 bits.

**MCComponents** puts the instances of these seven and of PromotedRuns into one
specification: they share no state and no process, so `RunsAlone(c)` lets one of
them move and keeps the others at their initial states.  Interleaving them would add
states and show nothing.

The theorems are in modules of their own: **DailyGate_proofs**, **PrGate_proofs**,
**EvalApi_proofs**, **TeacherBatch_proofs** and **DataSplits_proofs** each of the module they
are named after, **EvalRuns_proofs** of SuiteRun and PromotedRuns, **Training_proofs** of
GoldenReview, CorpusParse, CorpusEmbed, Questions, RetryApply and Allocation.  **CountingTheorems** is their library:
the first n of an ordered finite set, and sums over finite sets and families of sets.
The MC modules hold the instances; **MCGates** puts those of EvalApi and PrGate into one
specification the way MCComponents does.  Operators preceded by "Mutant:" are wrong variants of the definition
below them; no specification uses them, and PROJECT.json names the property each
of them breaks.

## 3. What each run checks

| Run | Question | Answer |
|---|---|---|
| `daily_gate` | nights, reruns, crashes, hangs, redeployments, promotions in any order | all hold: a green run published the verdict it measured (`GreenMeansPassPublished`); a verdict is not called stale while its punctual replacement is running (`NoFalseStale`); two missed nights block (`DeadDagBlocks`); once the cluster is well, check-daily passes for good (`RecoversWhenHealthy`); the DAG implements DailyVerdict |
| `daily_gate_one_night` | does one missed night leave merges open, as gate_config.py:73 says? | no: the verdict passes 36 h twelve hours after the missed night |
| `daily_gate_rerun` | is a run that fails before its gate an unknown, as cli.py:192-195 says of a broken DAG? | no: a second run of a date finds the verdict file of the first, and publish_latest stamps it as finished now |
| `gates` | the two gates of a pull request, one at a time. The API: two requests at once, statement by statement, a run_id posted with several bodies. The workflow: pushes, re-runs, runs by hand, main moving | API: a baseline row is one measurement (`BaselineIsOneMeasurement`), a gate answers for its request (`GateAnswersForItsRequest`), what a gate compares with moves by promotion or by a post under its own run_id (`OnlyItsOwnRunMovesABaseline`), and the tables change as those of the store in memory do (`ImplementsMemoryStore`). Workflow: no run of a pull_request event is green on a change of the files (`EventRunsEscalate`); a clean pull request goes green (`CleanPrGoesGreen`) |
| `pr_gate_dispatch` | is a pull request that changes the files red until a full run covers it, as eval-gate.yml:44-45 says? | no: the workflow run by hand on its branch skips the filter, and is green on the same head |
| `pr_gate_escalate` | does escalate block only changes of the pull request? | no: the two-dot diff counts changes on main |
| `eval_api_repost` | is promotion the only way to a new baseline? | no: a second body under a promoted run_id replaces it |
| `teacher_batch` | kills, failed batches, repeated collects, audits, retrieval cleared or rules changed in between | holds: with generations that cost more than was projected, the bill and what is on order exceed the ceiling by no more than one command's overrun and what each fault kept from the ledger (`BudgetHolds`), capped retries (`RetriesAreCapped`), the loop ends (`LoopConverges`) |
| `teacher_recollect` | is a dropped row one that failed the stated number of times? | no: a repeated collect counts twice |
| `data_splits` | selections, exports and restores in any order, killed at any file | holds: no row of a golden sample in the database or in the ids file is exported, nor of the one under review while one command was killed (`GoldenNeverExported`); what train v2 accepts is one whole export, disjoint from what it is scored on and scored on v1's rows (`LaunchIsHeldOut`), and a strict subset of the v1 it came from (`LaunchIsSubsetOfItsV1`) |
| `components` | what may go wrong inside each component that stands alone? | all hold, see below |
| `retry_backoff` | does the capacity loop back off after every throttle, as retry-apply.sh:6 says? | no: the power of two is multiplied before it is capped; from the 54th consecutive throttle on the 64-bit product is negative (later 0), `sleep` refuses it, and the loop applies again at once |

The seven runs that find a violation are findings in PROJECT.json, each with the line
it contradicts.

One more disagreement has no run of its own.  eval-gate.yml:246-247 says that once a full run of the
head is published "the re-run of this workflow goes green".  Nothing in the workflow reads such a
run: a re-run reads the same event, whose base and head still differ, and stays red for good.  In
PrGate, `PublishFullRun` sets `covered` and no job looks at it.  What does turn the head green is
a run by hand, covered or not, which is the counterexample of `pr_gate_dispatch`.

What the run `components` shows, by component:

- **PromotedRuns**: crashing or getting worse never turns red to green
  (`CrashNeverHelps`); zero-tolerance cases are never given up over any number of
  promotions (`RefusalsRatchet`); the limits the schema accepts tolerate a case
  (`AcceptedLimitsTolerateACase`); a baseline passes itself (`BaselinePassesItself`).
- **SuiteRun**: whenever the process ends, the progress file lacks at most the case whose
  line was being written (`CompletedCasesAreOnDisk`); a verdict used is one this version of
  the judge gave for this case and output (`VerdictIsOfThisJudge`), and for each key the
  provider is asked once, and once more for each answer that was not saved: those a kill or a
  failing cache lost, and all that a judge without `--judge-cache` gets, which is every one of the
  nightly run (`RerunCostsNothing`).
- **GoldenReview**: with the lock free, the map of the server is what a restart would read
  from the log (`MapIsTheLog`); the browser is sent to /summary only when the
  review is complete on disk (`SummaryMeansAllJudged`); the summary file is never of a part
  of the cases nor of a verdict the log does not have (`SummaryIsOfTheLog`).  It need
  not be of the *last* verdicts: a handler that read the map before a rejudgment may
  write after the one that read it later.
- **CorpusParse**: the chunks keep every line of every section worth keeping, once and in
  order, under the headings in force, with whole fences (`ChunksFollowTheOutline`).
- **CorpusEmbed**: no embedding is of another text (`EmbeddingIsOfTheContent`, for commands run
  one at a time), and the bill exceeds the ceiling by one window and one more for each
  purchase whose record was lost (`OverspendIsBounded`).
- **Allocation**: the counts sum to the total, each within the band but for a call, and in
  the order of the weights (`SharesAreFair`).  This is so for the band of the configuration and up to
  four repositories, and not for every band: 0.20 to 0.35 over three leaves shares
  that do not sum to 1.
- **Questions**: every row has been paid for in the ledger (`RowsAreInTheLedger`), and a row with
  a paid answer goes only when it leaks, when its text stays under another id, or when
  its cell keeps its whole target in answered rows (`AnswersAreGivenUpForAReason`).
- **RetryApply**: the long pause comes only after every domain refused (`CycleSkipsNoDomain`).

### Bounds, and why they are enough

- DailyGate: one unit is eight hours (Interval 3, Midnight 2, Deadline 1, MaxAge 4)
  and six in `daily_gate_one_night` (4, 3, 1, 6: the deadline of six hours and the
  bound of 36 exactly).  Ages saturate one above the only bound the code compares
  them with, so nights are unbounded.  Files of a date no later run can have are
  forgotten.  The theorems cover every other value of the four numbers.
- PrGate: one pull request (they do not interact), two contents, three commits: enough
  for a change, its reversal, and a merge of main in between.  The two runs that find a violation
  need one commit.
- PromotedRuns: an answering category of two cases and a refusing one of one; four
  suites.  Scores are 0 or 1 and limits quarters, so a limit below
  the quantum of its category (1/4 against 1/2) occurs, and one exactly at it.
- EvalApi: a branch of each of two suites, two run ids of the first, one of them with two bodies,
  two rules that separate the two contents, two requests in flight: a post, and a post again, between
  any two statements of a promotion or a gate.  One request at a time is enough for `eval_api_repost`.
- TeacherBatch: two questions, two attempts, one fault, two probes, one change (a reset or new rules),
  shards and probes of one.  Under a ceiling of 3, which is reached, a generation may cost twice
  what the dry run measured; under one of 11, which is not, all cost the same.
  `teacher_recollect` has shards of two, a ceiling of 8 and a second fault.
- DataSplits: seven questions: five adversarial ones in one cell (one golden, one test,
  one valid and two train rows of which one is kept), and in a second repo one, whose
  cell is short when its answer is dropped so that the sample borrows, and one of
  another category.  Two texts (symmetric), two changes of answers (to a
  question of each role, `Unsettled`), one kill: enough for a selection or an export
  killed half-way and repeated over other answers.  An instance with two kills and one
  change was run by hand, and the theorems cover any number of either.  The rows outside the adversarial category are too few to reach train.
- SuiteRun: a case scored by a rule and the judge and one by the judge alone, two outputs
  (symmetric), two versions of the judge, two answers of the provider, two attempts, each run with any of
  the three judges: enough for a run to find a cached verdict, one of an older version, and one that was
  not saved, whether by a kill or for want of a cache.
- GoldenReview: two cases, two handlers (symmetric), three records: a rejudgment of one case
  while the other thread judges, scans or summarises.
- CorpusParse: files of up to five lines of eight kinds, headings of levels 1 and 3 and one of
  level 2 without a text among them: a fence opened, a heading or a blank
  line inside it, a shorter or other marker that does not close it, and the close.
  Two tokens a chunk and two units of prose, so sections are dropped and split.
- CorpusEmbed: three chunks in two repositories, windows of two, so that a command has a
  second window and a load comes between two commands; calls that bill up to four
  times what was projected, one lost record.
- Allocation: up to four repositories, five weights from 1 to 40 and three totals, with the
  band of 15 to 35 hundredths: every sequence of clamps up to all repositories occurs.
- Questions: five questions in two cells (one leaks, two share a text within the cell, two
  across cells), one top-up, calls of two.
- RetryApply: three domains; four throttles in `components`, 63 in `retry_backoff`, where the
  wrap comes.

`CHECK_DEADLOCK FALSE` is set where the system really may stop: the operator of
TeacherBatch, and in `components` and `retry_backoff` a parse that has returned, shares that are
allocated, a loop that has won.  No liveness is checked in the run with SYMMETRY.

### Fairness

- DailyGate: `WF(DagStep)`, because the scheduler and pods that have not hung go on,
  and `WF(Tick)`.  Nothing is assumed of `Hang`, `Fault` or repair; the liveness property
  has the repair in its premise.  `Tick` waits for a scheduled run that is due
  while the scheduler is healthy: a live scheduler starts it within one unit.
- PrGate (`PrFairness`): the run of a pull request's event is repeated while it is blocked and the verdict
  is good (SF: the verdict may go and come back), since the workflow is re-run by hand or by a push.
  Nothing is assumed of `workflow_dispatch`.
- TeacherBatch: the service ends its batches, a running command goes on, and the
  operator goes round the loop of retrieval, submit (once the last shard is collected or lost, as the
  documents ask), collect and audit.  A dry run is
  assumed of nobody, so the property speaks of a loop that has its report.  The convergence property is stated for a ceiling
  with room (`Ample`); under a tight one the ledger may stop the loop first, which is
  its purpose.

### Abstractions

A promotion or redeployment does not fall inside a DagRun.  A hung task is one
that outlasts `dagrun_timeout`.  Means are fractions where the code has floats
and a tolerance of 1e-9.  The score column of a baseline is the content it is
computed from.  In TeacherBatch tokens and dollars are one measure, the questions are of one
category, so that a shard is projected from one mean, and the
embedding of a question costs nothing that counts; attempts saturate where no comparison
changes any more, the ledger just above the ceiling, and one command runs at a time.
`submit` does not enforce that "each shard must finish before the next is sent"
(`batch.py:381-382`): reserve looks only at what has been recorded, and a shard on order is
not.  A shard or a probe started too early is therefore a fault, one of those `BudgetHolds` and
`RetriesAreCapped` count, and not a step the model leaves out.
In SuiteRun, GoldenReview, CorpusEmbed and Questions a kill is one of the process: what was
flushed is on disk (`record` of T`/golden/review.py` does not fsync, though its
docstring says so, hence a power loss is outside these claims).  The commands of the
pipeline run one at a time, as its documents run them; nothing enforces that, and two
at once lose entries of the ledger.  Shares are exact where the code has floats and
1e-9.  A chunk is one token by the tokenizer and bills up to `MaxUsage`.
In DataSplits one command runs at a time, restore writes to the dataset directory
(its default target is a directory nothing reads) from a corpus that has not
drifted, and a question that was dropped is one without a valid answer.

Three things that DataSplits shows are not promised, and so are not properties.
`verify_v2` does not compare `derived_from` with the committed v1 manifest: when v1
is exported again with other answers in train alone, a v2 of the old v1 passes.
And it reads no golden ids: a sample that is selected anew after export-v2 may
hold rows v2 is about to be trained on.  And a sample can end in the manifest alone:
one selection is killed after it wrote the manifest, so that the ids file is of an
older sample; answers change; the next selection commits another split and is killed
before it writes anything.  `export` reads the split and the ids file but not the manifest, so a
row of the sample whose manifest is on disk may then be exported.  It takes two kills
in a row and no selection that ends; hence `UnderReview` in `GoldenNeverExported`, which
claims that sample while at most one command was killed.

## 4. What is proved

TLC checks the numbers above; the theorems hold for every value of the constants that
satisfies the assumption named in the module, the bounds on faults, kills and changes
included.  46 of them are listed in PROJECT.json.

**DailyGate_proofs**, for every interval, deadline and age bound that satisfy the
relation gate_config.py derives (`TimingAssumption`), and any number of nights,
faults and manual runs: `TypeCorrect`, `GreenIsPublished`,
`NeverFalseStale`, `TwoMissedNightsBlock`, and `Refinement` (the DAG implements
DailyVerdict).  None of the properties is inductive: the age of the file says
nothing of when it will be replaced.  `IInv` adds `AgeInv` (the age of `latest` is
fixed by the clock and the number of scheduled instants since the stamp), `FilesInv`
(a verdict file is no older than its date, and no run outlives the day after its
date's) and `RunInv` (what has been written, by the order of the tasks).
`Inductive` proves it, with one lemma per part and one step per action.

**EvalApi_proofs**, for every set of suites, branches, runs and clients, any
comparison, and any bodies posted under any run_id, again and again: `TypeCorrect`,
`OneMeasurement`, `AnswersForItsRequest`, `OnlyItsOwnRunMoves`, and the refinement `StoresAgree`
(EvalApi implements MemoryStore).  A stored run may change at any time, so what a request has
selected need not stand any more; the inductive invariant `Inv` says what is left of it.  `Submits`: the
suite of a run about to be stored is there.  `Selected`: the run to be promoted is there, and the
score in hand is one of its posted bodies for the suite of the path.  `GateHolds` and `SeesNow`: what a
gate has read is among what stood since it arrived.  In `StoresAgree` the select maps to the look-up of the
memory store and the upsert to its write.  Both stores may so leave a baseline with the score of an
earlier body than the run has now, and they do it alike.  Two things the theorems do not claim: that a
gate compares with one moment (it may read the rules of one and the baseline or the runs of another), and
that a baseline moves by promotion alone, which `eval_api_repost` refutes.

**PrGate_proofs**, for any number of pull requests, contents and commits: `PrTyped` and
`EventRunsLeaveScores`.  The property speaks of merging; `GreenIsBase` is what is inductive:
a head its own event made green has, in the score-affecting files, what the base of that event has.  It
says nothing of a run by hand, which `pr_gate_dispatch` shows green on a change.

**EvalRuns_proofs**, SuiteRun: for suites of any length, any scorers, outputs, versions of
the judge, retries and kills: `RunTyped`, `CompletedOnDisk`, `VerdictOfThisJudge` and
`RerunsAreFree`.  `RunInv` adds that the results are of the first cases in their order
(`DoneIsAPrefix`), where the progress file may be one line behind (`ProgressFollows`), that
every verdict in a result, in the case at work and in the table was once given
(`VerdictsAreGiven`), and that each answer is in the table, on its way there, or counted
as unsaved for its key (`EveryAnswerIsAccountedFor`).  A run with a judge and no cache counts each of its answers
so; the theorem does not say that a rerun of such a run is free, and it is not.

**EvalRuns_proofs**, PromotedRuns: for any cases, categories, thresholds and suites the schema
accepts (`SuitesAssumption`): `PromotedTyped`, `RefusalsAreKept` and `CrashesDoNotHelp` (steps),
`BaselinePasses` and `AcceptedLimitsTolerate` (states).  The state needs little (`TypeOK`
and that the suite is accepted); the work is in compare itself: means over sets of cases of any
size, as sums, which are monotone in each score (`CrashesDoNotHelp`), equal where the runs are equal
(`BaselinePasses`), and one quantum apart where a case is lost
(`AcceptedLimitsTolerate`).

**Training_proofs**, six components:

- GoldenReview, for any number of handler threads, cases and records: `ReviewTyped`,
  `MapKeepsToTheLog`, `ReviewEndsComplete`, `SummaryKeepsToTheLog`.  `ReviewInv`: one thread at
  most is between the append and the map, and the lock is its (`LockExcludes`); meanwhile
  the map lacks that one record (`MapFollowsTheLog`); what any thread has passed in a scan
  or read for a summary is in the log (`ThreadOK`), and the log never takes back.
- CorpusParse, for files of any lines, any token limit and any least prose: `ParseTyped` and
  `OutlineIsFollowed`.  The argument is about one scanner that starts afresh in each text:
  `ScansAgree` (two scanners that agree before a line agree from there on, by a first line
  where they would not) and `BlanksKeepTheFence` give `FreshScan`: one that starts where no fence is
  open agrees with the scanner of the whole file.  `ParseInv` carries what that needs.  While lines are
  read, the headings kept are those in force (`HeadingsStand`) and the open section
  is what follows the last heading (`LinesInv`), so that a section is over, and stays what
  it is, once the next heading has come (`SectionsStay`).  While a section is split, what is gathered and
  what is left are runs of its lines that begin outside every fence (`SplitInv`, `IsPart`,
  `BlockIsPart`, `PartGrows`), so that `Strip` of a part is a whole chunk (`PartIsChunk`).  And the
  chunks so far hold what has been passed, no more, and come before what lies ahead
  (`ChunksInv`).  `Scan` is a recursive function; that it is one, that is, that its equation
  has a solution for every file, is proved first (`Scanned`).
- CorpusEmbed, for any repositories, contents, windows, prices and ceilings: `CorpusTyped`,
  `EmbeddingsAreCurrent` and `HardHalt`.  `PendingIsCurrent`: no load comes between
  reading the pending rows and updating them, as one command runs at a time.
  `BillIsAccountedFor`: the bill is at most the ledger, the window on its way, and the lost ones.
- Questions, for any questions, texts, cells and targets: `QuestionsTyped`, `SpendComesFirst`, and
  `AnswersAreKept` for each step (the surplus of a cell is what comes after its first
  `target` rows, answered ones first, and is counted with CountingTheorems).
- RetryApply, for any number of domains, throttles and delays: `RetryTyped` (a
  backoff is a 64-bit word and a pause within its ceiling) and `CyclesAreWhole`.
- Allocation, for any repositories, weights and totals: `AllocationTyped`, and `SharesStayFair`
  under the premise `HalfBand`: at most four repositories, and a band whose floor and
  ceiling add up to a half, as 0.15 and 0.35 of config.py over its four do.  Two floors and two ceilings are
  then the whole, which is why clamping one violator at a time, the worst first, never strands the rest: `FillsTheBand` says what
  budget may be left for m repositories, case by case from four to one, and `ClampFills` that taking the worst
  violator is what excludes the bad cases.  `ClampedInOrder` keeps the order of the weights
  across clamps, and `LargestRemainder` shows that the calls left over after rounding
  down go to repositories with a remainder, so that each count is less than a call off its share.
  Without the premise the claim is false, as section 3 says; nothing in `allocate.py` checks it, so a fifth
  repository or another band in config.py is a change to check here first.

**TeacherBatch_proofs**, for any questions, sizes, ceilings, prices of a generation and bounds:
`TeacherTyped`, `BudgetIsKept` and `RetriesStayCapped`.  Neither of the two properties is
inductive, because what has been bought is known to the ledger, and to the attempts of a question,
only later:

- `Shapes` says what a command holds at each of its commits and what is in a batch.
- `BudgetInv` counts what is on order (`Ordered`), what can still be collected (`Owed`: the
  batches a command can find, `Tracked`) and what waits to be recorded (`Due`).  While the ledger is
  within the ceiling it lacks no more than these and the losses (`LedgerCovers`), so a
  reservation against it holds for all that is on order (`CeilingCovers`).  A ledger above the
  ceiling admits nothing more, which is why it may saturate there.  The model check of
  this invariant showed that a command may pass what it reserved, and by how much: a shard projected from the
  cheapest answers by `(Dearest - 1) * ShardSize`, a probe by what it costs above the flat 0.05 a dry run
  reserves.  Only the last command before the ceiling does, since the next one reserves on
  a ledger that has its true cost: hence one `Overrun` in `BudgetHolds`, however many commands there are.
- `RetryInv` is the same for one question: attempts count what was generated, but for what is
  still to come, the probes and the faults (`Counted`), a question that `submit` may
  take has room for one more (`HasRoom`), and a shard in preparation is counted already (`Capped`).

Both look at `Waits` at one point: when a shard or a probe is reserved, either nothing is owed on
another one, or the command is a fault and adds its share to the allowance.

**DataSplits_proofs**, for any questions, any three sha256 orders, numbers kept and texts, and any
number of kills and changes: `SplitsTyped`, `LaunchesAreHeldOut`, `LaunchesAreSubsets`, and the action
property `GoldenIsKeptBack`.  `SplitsInv` adds `ManifestInv` (a manifest on disk that parses is
of one whole export, train sharing no question with valid and test, and a v2 manifest is a strict subset of the v1 it
names) and `SelectionInv` (where a selection has come to, and that what other
commands have yet to write is clear of the samples).  Nothing in it relates the split files
to the manifest: after a kill they need not agree, and it is the digests `verify_v2` compares that keep
what is launched to the manifest.  A digest is modelled as the content, so the theorems assume that
sha256 has no collisions.

**CountingTheorems** has no induction over data to rest on (a theorem whose parameter
is an operator is beyond the provers); where a sum over a finite set is unfolded, the proof takes a
smallest set for which the claim fails, by the well-foundedness of the strictly
smaller subsets.  `PickedOneByOne` does this once, with the property as a set instead of an operator;
the lemmas on sums that the shares need rest on it.

Only model-checked:

- liveness: `RecoversWhenHealthy`, `CleanPrGoesGreen`, `LoopConverges`; TLAPS handles
  neither fairness nor ENABLED as far as these need;
- `TypesOK` of MCComponents, a conjunction that names the instance: the types of each of its
  components are a theorem (`PromotedTyped`, `RunTyped`, `ReviewTyped`, `ParseTyped`, `CorpusTyped`,
  `AllocationTyped`, `QuestionsTyped`, `RetryTyped`).

## 5. Plan

What is left, in this order:

1. `LoopConverges`: the measure that each round of the teacher loop decreases, as an action
   property that can be proved, so that only fairness is left to TLC.
2. Two commands at once over one `ledger.json`: which bound, if any, is left.

Bounds as above: two or three items, two actors, one or two faults, and pure
functions over all inputs of a small grid.

## 6. Not modelled

Scorers, prompts, and the validator of the teacher's answers: predicates on strings with
no state, whose outcome the models take as it comes.  Model clients: HTTP calls; one
that fails is a step of the runner.  Suite loader, reports, review page and hand-off
files: layout.  Retrieval: a query computed by the database; which chunks a question is given is
data, whether it has any is state (`retrieved`).  Corpus fetch: a download.  The
choice of a checkpoint, T`/train/select.py`: a minimum and a filter over one list, which
its tests cover with the recorded runs; nothing in it depends on order or time.  The
training run and the probe: a model at work.  The listings of the stores and their
order.  The smoke DAG: two tasks in a line.  Kubernetes, Terraform and
monitoring manifests: declarative configuration.  Workers, analytics and the SDK are
placeholders.  The hazards of PROJECT.json without a property say each why.
