------------------------------ MODULE DailyGate ------------------------------
(***************************************************************************)
(* The daily quality instrument: the DAG that measures the deployed model. *)
(*                                                                         *)
(* Every night the DAG evalgate_daily_eval runs the golden suite against   *)
(* the deployed model server (run_suite), compares it with the promoted    *)
(* baseline (gate), stamps the verdict into latest.json (publish_latest)   *)
(* and turns green or red (finalize).  Who reads latest.json, and when the  *)
(* verdict lets a merge through, is in DailyVerdict, which this module     *)
(* implements, and in PrGate.                                              *)
(*                                                                         *)
(* Time is counted in abstract units, modulo one scheduling interval, and  *)
(* ages saturate just above the only bound the code compares them with, so *)
(* the module has no bound on the number of nights.                        *)
(***************************************************************************)
EXTENDS Naturals, FiniteSets

CONSTANTS
  Interval,   \* time between two scheduled runs (24 h)
  Midnight,   \* time from the scheduled instant to the next change of {{ ds }}
  Deadline,   \* dagrun_timeout, DAGRUN_TIMEOUT_H (6 h)
  MaxAge      \* MAX_DAILY_AGE_H (36 h)

FireHour == Interval - Midnight   \* "0 8 * * *", counted from the change of ds

(* The relation gate_config.py derives the three numbers from, and a run    *)
(* that starts before the next fire ends before the next change of ds.      *)
ASSUME TimingAssumption ==
  /\ Interval \in Nat /\ Midnight \in Nat /\ Deadline \in Nat /\ MaxAge \in Nat
  /\ 0 < Midnight /\ Midnight < Interval
  /\ 0 < Deadline /\ FireHour + Deadline <= Interval
  /\ Interval + Deadline <= MaxAge

VARIABLES
  sinceFire,  \* time since the last scheduled instant
  due,        \* a scheduled DagRun exists and has not started
  healthy,    \* scheduler, pods and model server work (environment)
  model,      \* what comparing the deployed model with the baseline gives
  baseline,   \* run_baseline.json exists
  run,        \* the current or last DagRun
  ds,         \* the files named after the current or last DagRun's {{ ds }}
  latest,     \* latest.json on the results volume
  nights      \* scheduled instants since latest.json was stamped (up to 2)

dagVars == <<run, ds, latest, nights>>
envVars == <<healthy, model, baseline>>
timeVars == <<sinceFire, due>>
vars == <<timeVars, envVars, dagVars>>

V == INSTANCE DailyVerdict

(***************************************************************************)
(* The DAG: preflight >> run_suite >> gate >> publish >> done, gate >> done *)
(***************************************************************************)
Tasks == {"preflight", "run_suite", "gate", "publish_latest", "finalize"}

\* Mutant: finalize hangs off publish_latest alone.
UpstreamOfPublishOnly(t) ==
  CASE t = "preflight"      -> {}
    [] t = "run_suite"      -> {"preflight"}
    [] t = "gate"           -> {"run_suite"}
    [] t = "publish_latest" -> {"gate"}
    [] t = "finalize"       -> {"publish_latest"}

Upstream(t) ==
  CASE t = "preflight"      -> {}
    [] t = "run_suite"      -> {"preflight"}
    [] t = "gate"           -> {"run_suite"}
    [] t = "publish_latest" -> {"gate"}
    [] t = "finalize"       -> {"publish_latest", "gate"}

TriggerRule(t) == IF t = "publish_latest" THEN "all_done" ELSE "all_success"

TaskState == {"none", "running", "writing", "success", "failed", "upstream_failed"}
DoneState == {"success", "failed", "upstream_failed"}

Outcome == {"pass", "fail", "mismatch"}

DagRun == [active: BOOLEAN, task: [Tasks -> TaskState], elapsed: 0..Deadline,
           onTime: BOOLEAN, hung: BOOLEAN, compared: BOOLEAN,
           result: Outcome \union {"none"},   \* compared: its gate has written a verdict
           state: {"none", "running", "success", "failed"}]

DayFiles == [days: 0..2, verdict: {"absent", "torn", "pass", "fail"}]

TypeOK ==
  /\ sinceFire \in 0..(Interval - 1) /\ due \in BOOLEAN
  /\ healthy \in BOOLEAN /\ model \in Outcome /\ baseline \in BOOLEAN
  /\ run \in DagRun
  /\ ds \in DayFiles
  /\ V!LatestOK
  /\ nights \in 0..2

NoVerdict == [days |-> 0, verdict |-> "absent"]

NoRun == [active |-> FALSE, task |-> [t \in Tasks |-> "none"], elapsed |-> 0,
          onTime |-> FALSE, hung |-> FALSE, compared |-> FALSE, result |-> "none",
          state |-> "none"]

Init ==
  /\ sinceFire = 0 /\ due = FALSE
  /\ healthy = TRUE /\ model = "pass" /\ baseline \in BOOLEAN
  /\ run = NoRun
  /\ ds = [NoVerdict EXCEPT !.days = 2]
  /\ latest = V!NoLatest
  /\ nights = 0

(***************************************************************************)
(* Starting a DagRun: max_active_runs=1, catchup=False, retries=0.         *)
(***************************************************************************)
NewRun(onTime) ==
  [NoRun EXCEPT !.active = TRUE, !.onTime = onTime, !.state = "running"]

\* Every path of the run is templated on {{ ds }}: a run that has the date of
\* the previous one finds that run's files.
UseFilesOf(days) == ds' = IF ds.days = days THEN ds ELSE [NoVerdict EXCEPT !.days = days]

StartScheduled ==
  /\ due /\ healthy /\ ~run.active
  /\ due' = FALSE
  /\ run' = NewRun(sinceFire = 0)
  /\ UseFilesOf(IF sinceFire < Midnight THEN 0 ELSE 1)
  /\ UNCHANGED <<sinceFire, envVars, latest, nights>>

\* airflow dags trigger --logical-date <now - 1 min>; a queued scheduled run
\* is older and starts first.
StartManual ==
  /\ ~due /\ healthy /\ ~run.active
  /\ run' = NewRun(FALSE)
  /\ UseFilesOf(0)
  /\ UNCHANGED <<timeVars, envVars, latest, nights>>

(***************************************************************************)
(* The scheduler's part of a task: trigger rules and the final state.      *)
(***************************************************************************)
Done(t) == run.task[t] \in DoneState
Triggered(t) ==
  \A u \in Upstream(t) :
    IF TriggerRule(t) = "all_done" THEN Done(u) ELSE run.task[u] = "success"
CannotTrigger(t) ==
  /\ TriggerRule(t) = "all_success"
  /\ \E u \in Upstream(t) : Done(u) /\ run.task[u] # "success"

SetTask(t, s) == run' = [run EXCEPT !.task[t] = s]

TriggerTask(t) ==
  /\ run.active /\ run.task[t] = "none" /\ Triggered(t)
  /\ SetTask(t, "running")
  /\ UNCHANGED <<timeVars, envVars, ds, latest, nights>>

UpstreamFailed(t) ==
  /\ run.active /\ run.task[t] = "none" /\ CannotTrigger(t)
  /\ SetTask(t, "upstream_failed")
  /\ UNCHANGED <<timeVars, envVars, ds, latest, nights>>

\* A DagRun takes its state from its leaf tasks alone.
Leaves == {t \in Tasks : \A u \in Tasks : t \notin Upstream(u)}

EndRun ==
  /\ run.active /\ \A t \in Tasks : Done(t)
  /\ run' = [NoRun EXCEPT !.compared = run.compared,
               !.state = IF \A t \in Leaves : run.task[t] = "success"
                         THEN "success" ELSE "failed"]
  /\ UNCHANGED <<timeVars, envVars, ds, latest, nights>>

\* Mutant: no dagrun_timeout.
NoDagRunTimeout == FALSE /\ UNCHANGED vars

\* dagrun_timeout: what has not finished is skipped and the run fails.
DagRunTimeout ==
  /\ run.active /\ run.hung /\ run.elapsed = Deadline
  /\ run' = [NoRun EXCEPT !.state = "failed"]
  /\ UNCHANGED <<timeVars, envVars, ds, latest, nights>>

(***************************************************************************)
(* The tasks.  Each pod may die in an unhealthy environment, before, while *)
(* or after it writes its file; write_text truncates, then writes.         *)
(***************************************************************************)
Working(t) == run.active /\ ~run.hung /\ run.task[t] \in {"running", "writing"}

Preflight ==
  /\ Working("preflight")
  /\ \/ SetTask("preflight", "success")
     \/ ~healthy /\ SetTask("preflight", "failed")
  /\ UNCHANGED <<timeVars, envVars, ds, latest, nights>>

\* A model server that stops answering turns into per-case errors, which
\* score 0: the run then completes, and regresses.
RunSuite ==
  /\ Working("run_suite")
  /\ \/ \E r \in {model} \union (IF healthy THEN {} ELSE {"fail"}) :
          run' = [run EXCEPT !.task["run_suite"] = "success", !.result = r]
     \/ ~healthy /\ SetTask("run_suite", "failed")
  /\ UNCHANGED <<timeVars, envVars, ds, latest, nights>>

\* cmd_gate: no baseline passes and writes no verdict; a refused comparison
\* exits 2 and writes no verdict; a breach writes "fail" and exits 1.
VerdictWritten(v) == ds' = [ds EXCEPT !.verdict = v]

Gate ==
  /\ Working("gate")
  /\ \/ /\ ~baseline
        /\ SetTask("gate", "success") /\ UNCHANGED ds
     \/ /\ baseline /\ run.result = "mismatch"
        /\ SetTask("gate", "failed") /\ UNCHANGED ds
     \/ /\ baseline /\ run.result \in {"pass", "fail"}
        /\ run' = [run EXCEPT !.compared = TRUE,
                     !.task["gate"] = IF run.result = "pass" THEN "success" ELSE "failed"]
        /\ VerdictWritten(run.result)
     \/ /\ ~healthy
        /\ \/ SetTask("gate", "failed") /\ UNCHANGED ds
           \/ /\ baseline /\ run.result \in {"pass", "fail"}
              /\ SetTask("gate", "failed") /\ VerdictWritten("torn")
           \/ /\ baseline /\ run.result \in {"pass", "fail"}
              /\ run' = [run EXCEPT !.compared = TRUE, !.task["gate"] = "failed"]
              /\ VerdictWritten(run.result)
  /\ UNCHANGED <<timeVars, envVars, latest, nights>>

\* Mutant: completed_at is taken from the logical date.
StampedFromLogicalDate ==
  [file |-> "torn",
   verdict |-> IF ds.verdict = "absent" THEN "unknown" ELSE ds.verdict,
   age |-> sinceFire + FireHour]

\* Mutant: the payload keeps the completed_at of the file it replaces.
StampedWithOldTime ==
  [file |-> "torn",
   verdict |-> IF ds.verdict = "absent" THEN "unknown" ELSE ds.verdict,
   age |-> latest.age]

\* cmd_publish_latest reads the verdict, stamps now(), and truncates ...
Stamped ==
  [file |-> "torn",
   verdict |-> IF ds.verdict = "absent" THEN "unknown" ELSE ds.verdict,
   age |-> 0]

\* Mutant: the verdict file is copied without being parsed.
PublishUnparsed ==
  /\ Working("publish_latest") /\ run.task["publish_latest"] = "running"
  /\ latest' = Stamped /\ nights' = 0
  /\ SetTask("publish_latest", "writing")
  /\ UNCHANGED <<timeVars, envVars, ds>>

PublishOpen ==
  /\ Working("publish_latest") /\ run.task["publish_latest"] = "running"
  /\ ds.verdict # "torn"
  /\ latest' = Stamped /\ nights' = 0
  /\ SetTask("publish_latest", "writing")
  /\ UNCHANGED <<timeVars, envVars, ds>>

\* ... and writes latest.json.
PublishWrite ==
  /\ Working("publish_latest") /\ run.task["publish_latest"] = "writing"
  /\ latest' = [latest EXCEPT !.file = "ok"]
  /\ SetTask("publish_latest", "success")
  /\ UNCHANGED <<timeVars, envVars, ds, nights>>

\* json.loads of a torn verdict raises; or the pod dies.
PublishFails ==
  /\ Working("publish_latest")
  /\ (run.task["publish_latest"] = "running" /\ ds.verdict = "torn") \/ ~healthy
  /\ SetTask("publish_latest", "failed")
  /\ UNCHANGED <<timeVars, envVars, ds, latest, nights>>

Finalize ==
  /\ Working("finalize")
  /\ \/ SetTask("finalize", "success")
     \/ ~healthy /\ SetTask("finalize", "failed")
  /\ UNCHANGED <<timeVars, envVars, ds, latest, nights>>

\* A task that will not return before dagrun_timeout.
Hang ==
  /\ ~healthy /\ run.active /\ ~run.hung
  /\ \E t \in Tasks : run.task[t] \in {"running", "writing"}
  /\ run' = [run EXCEPT !.hung = TRUE]
  /\ UNCHANGED <<timeVars, envVars, ds, latest, nights>>

(***************************************************************************)
(* The environment: time, faults, deployments, baseline promotion.         *)
(***************************************************************************)
NextHour == IF sinceFire + 1 = Interval THEN 0 ELSE sinceFire + 1

\* Files of a date no later run can have are forgotten.
AgedFiles ==
  LET days == IF NextHour # Midnight THEN ds.days
              ELSE IF ds.days = 2 THEN 2 ELSE ds.days + 1
  IN  IF days = 2 THEN [NoVerdict EXCEPT !.days = 2]
      ELSE [ds EXCEPT !.days = days]

Tick ==
  /\ run.active => run.elapsed < Deadline
  /\ due /\ healthy => run.active          \* a live scheduler is punctual
  /\ sinceFire' = NextHour
  /\ due' = (due \/ NextHour = 0)
  /\ run' = IF run.active THEN [run EXCEPT !.elapsed = @ + 1] ELSE run
  /\ ds' = AgedFiles
  /\ latest' = V!Older(latest)
  /\ nights' = IF latest.file # "absent" /\ NextHour = 0 /\ nights < 2
               THEN nights + 1 ELSE nights
  /\ UNCHANGED envVars

Fault ==
  /\ healthy' = ~healthy
  /\ UNCHANGED <<timeVars, model, baseline, dagVars>>

Redeploy ==
  /\ ~run.active
  /\ model' \in Outcome \ {model}
  /\ UNCHANGED <<timeVars, healthy, baseline, dagVars>>

\* A new baseline is promoted deliberately, from a run of the deployed model.
PromoteBaseline ==
  /\ ~run.active
  /\ baseline' = TRUE /\ model' = "pass"
  /\ UNCHANGED <<timeVars, healthy, dagVars>>

DagStep ==
  \/ StartScheduled
  \/ \E t \in Tasks : TriggerTask(t) \/ UpstreamFailed(t)
  \/ EndRun \/ DagRunTimeout
  \/ Preflight \/ RunSuite \/ Gate
  \/ PublishOpen \/ PublishWrite \/ PublishFails \/ Finalize

Next ==
  \/ DagStep
  \/ StartManual \/ Hang
  \/ Tick \/ Fault \/ Redeploy \/ PromoteBaseline

Spec == Init /\ [][Next]_vars

\* The scheduler keeps working, pods that do not hang end, time passes.
FairSpec == Spec /\ WF_vars(DagStep) /\ WF_vars(Tick)

(***************************************************************************)
(* Properties.                                                             *)
(***************************************************************************)
\* The DAG docstring of finalize: a green DagRun means the suite was measured
\* in that run and what it found is what latest.json says.  With a baseline
\* that is "pass"; without one the gate passes and "unknown" is published.
GreenMeansPassPublished ==
  run.state = "success" =>
    /\ latest.file = "ok"
    /\ latest.verdict = IF run.compared THEN "pass" ELSE "unknown"

\* gate_config.py: a pull request is not blocked for a result that is merely
\* old.  While tonight's run, started on time, is still going, the last verdict
\* is too old only if an earlier night was missed as well.
NoFalseStale ==
  (run.active /\ run.onTime /\ latest.file # "absent" /\ latest.age > MaxAge)
    => nights = 2

\* A silently dead DAG blocks merges: from MaxAge - Interval after the second
\* scheduled instant without a verdict, whenever the last one was stamped.
DeadDagBlocks ==
  (nights = 2 /\ sinceFire >= MaxAge - Interval) => ~V!Allows(latest)

\* Once the cluster works, the model matches the baseline and nobody breaks it
\* again, check-daily passes forever, except while latest.json is being
\* rewritten.
Publishing == run.active /\ run.task["publish_latest"] = "writing"
RecoversWhenHealthy ==
  <>[](healthy /\ baseline /\ model = "pass") => <>[](V!Allows(latest) \/ Publishing)

\* Whatever fails, latest.json only ever changes the way its readers assume.
ImplementsDailyVerdict == V!Spec

\* gate_config.py:73-74: "ONE missed or late nightly run does not block merges.
\* TWO consecutive missed runs do".
OneMissedNightTolerated ==
  (latest.file = "ok" /\ latest.verdict = "pass" /\ nights < 2) => V!Allows(latest)

\* cli.py:192-195, of a gate task that "failed before writing a verdict": "a
\* regression is a `fail`, a broken DAG is an `unknown`".  What is stamped as
\* finished now is a verdict of the run that finishes now.
BrokenRunIsUnknown ==
  [][PublishOpen /\ ~run.compared => latest'.verdict = "unknown"]_vars
==============================================================================
