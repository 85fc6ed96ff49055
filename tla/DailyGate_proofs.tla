--------------------------- MODULE DailyGate_proofs ---------------------------
(***************************************************************************)
(* Proofs about DailyGate: for every schedule that satisfies the relation  *)
(* gate_config.py derives, and any number of nights, faults and reruns.    *)
(***************************************************************************)
EXTENDS DailyGate, TLAPS

HourOfDay == IF sinceFire >= Midnight THEN sinceFire - Midnight ELSE sinceFire + FireHour

(* The age of latest.json, up to saturation, is fixed by the clock and the  *)
(* number of scheduled instants since the stamp.                            *)
AgeInv ==
  /\ latest.file = "absent" => nights = 0
  /\ (latest.file # "absent" /\ nights = 0) => latest.age <= sinceFire
  /\ (latest.file # "absent" /\ nights = 1) =>
       latest.age <= Interval + sinceFire
  /\ nights = 2 => latest.age > MaxAge \/ latest.age > Interval + sinceFire
  /\ nights = 1 => latest.age > MaxAge \/ latest.age > sinceFire

(* No run outlives the day after its date's.                                *)
FilesInv ==
  /\ run.active => ds.days <= 1
  /\ (run.active /\ ds.days = 1) => HourOfDay < FireHour + run.elapsed
  /\ (run.active /\ run.onTime) => sinceFire = run.elapsed
  /\ ~baseline => ds.verdict = "absent"

Published == IF run.compared THEN "pass" ELSE "unknown"

(* What the tasks of a run have done, in the order of the DAG.              *)
RunInv ==
  /\ run.active <=> run.state = "running"
  /\ run.task["finalize"] # "writing" /\ run.task["gate"] # "writing"
  /\ (run.active /\ run.task["gate"] \in {"none", "running"}) =>
       ~run.compared /\ run.task["publish_latest"] = "none"
  /\ (run.active /\ run.task["gate"] = "success") =>
       ds.verdict = IF run.compared THEN "pass" ELSE "absent"
  /\ (run.active /\ run.task["publish_latest"] = "writing") => latest.file = "torn"
  /\ (run.active /\ run.task["publish_latest"] \in {"writing", "success"}
                 /\ run.task["gate"] = "success") => latest.verdict = Published
  /\ (run.active /\ run.task["publish_latest"] = "success") => latest.file = "ok"
  /\ (run.active /\ run.task["finalize"] \in {"running", "success"}) =>
       run.task["gate"] = "success" /\ run.task["publish_latest"] = "success"
  /\ ~run.active => \A t \in Tasks : run.task[t] = "none"

(***************************************************************************)
(* Type correctness.                                                       *)
(***************************************************************************)
LEMMA SetTaskType ==
  ASSUME run \in DagRun, NEW t \in Tasks, NEW s \in TaskState, SetTask(t, s)
  PROVE  run' \in DagRun
BY DEF SetTask, DagRun

LEMMA NewRunType == NoRun \in DagRun /\ \A b \in BOOLEAN : NewRun(b) \in DagRun
<1>1. NoRun \in DagRun
  BY TimingAssumption DEF DagRun, NoRun, TaskState, Outcome
<1> QED
  BY <1>1 DEF DagRun, NewRun

LEMMA FilesType ==
  ASSUME ds \in DayFiles, NEW d \in 0..1, UseFilesOf(d)
  PROVE  ds' \in DayFiles
BY DEF UseFilesOf, DayFiles, NoVerdict

LEMMA StampedType ==
  ASSUME ds \in DayFiles, ds.verdict # "torn", latest' = Stamped
  PROVE  V!LatestOK'
BY TimingAssumption DEF DayFiles, Stamped, V!LatestOK, V!Verdict

LEMMA InitType == Init => TypeOK
<1> SUFFICES ASSUME Init PROVE TypeOK
  OBVIOUS
<1>1. ds \in DayFiles
  BY DEF Init, DayFiles, NoVerdict
<1>2. V!LatestOK
  BY TimingAssumption DEF Init, V!NoLatest, V!LatestOK, V!Verdict
<1>3. run \in DagRun
  BY NewRunType DEF Init
<1>4. sinceFire \in 0..(Interval - 1) /\ nights \in 0..2 /\ model \in Outcome
  BY TimingAssumption DEF Init, Outcome
<1> QED
  BY <1>1, <1>2, <1>3, <1>4 DEF Init, TypeOK

LEMMA TypeStep ==
  ASSUME TypeOK, [Next]_vars
  PROVE  TypeOK'
<1> USE DEF TypeOK
<1>1. CASE StartScheduled
  <2>1. run' \in DagRun
    BY <1>1, NewRunType DEF StartScheduled
  <2>2. ds' \in DayFiles
    BY <1>1, FilesType DEF StartScheduled
  <2> QED
    BY <1>1, <2>1, <2>2 DEF StartScheduled, envVars, V!LatestOK
<1>2. CASE StartManual
  <2>1. run' \in DagRun
    BY <1>2, NewRunType DEF StartManual
  <2>2. ds' \in DayFiles
    BY <1>2, FilesType DEF StartManual
  <2> QED
    BY <1>2, <2>1, <2>2 DEF StartManual, timeVars, envVars, V!LatestOK
<1>3. ASSUME NEW t \in Tasks, TriggerTask(t) \/ UpstreamFailed(t) PROVE TypeOK'
  <2>1. run' \in DagRun
    BY <1>3, SetTaskType DEF TriggerTask, UpstreamFailed, TaskState
  <2> QED
    BY <1>3, <2>1 DEF TriggerTask, UpstreamFailed, timeVars, envVars, V!LatestOK
<1>4. CASE EndRun
  <2>1. run' \in DagRun
    BY <1>4, NewRunType DEF EndRun, DagRun
  <2> QED
    BY <1>4, <2>1 DEF EndRun, timeVars, envVars, V!LatestOK
<1>5. CASE DagRunTimeout
  <2>1. run' \in DagRun
    BY <1>5, NewRunType DEF DagRunTimeout, DagRun
  <2> QED
    BY <1>5, <2>1 DEF DagRunTimeout, timeVars, envVars, V!LatestOK
<1>6. CASE Preflight \/ PublishFails \/ Finalize
  <2>1. run' \in DagRun
    BY <1>6, SetTaskType DEF Preflight, PublishFails, Finalize, Tasks, TaskState
  <2> QED
    BY <1>6, <2>1
    DEF Preflight, PublishFails, Finalize, timeVars, envVars, V!LatestOK
<1>7. CASE RunSuite
  <2>1. run' \in DagRun
    <3>1. ASSUME NEW r \in Outcome,
                 run' = [run EXCEPT !.task["run_suite"] = "success", !.result = r]
          PROVE  run' \in DagRun
      BY <3>1 DEF DagRun, Tasks, TaskState
    <3>2. ASSUME SetTask("run_suite", "failed") PROVE run' \in DagRun
      BY <3>2, SetTaskType DEF Tasks, TaskState
    <3> QED
      BY <1>7, <3>1, <3>2 DEF RunSuite, Outcome
  <2> QED
    BY <1>7, <2>1 DEF RunSuite, timeVars, envVars, V!LatestOK
<1>8. CASE Gate
  <2>1. run' \in DagRun
    <3>1. ASSUME NEW s \in {"success", "failed"},
                 run' = [run EXCEPT !.compared = TRUE, !.task["gate"] = s]
          PROVE  run' \in DagRun
      BY <3>1 DEF DagRun, Tasks, TaskState
    <3>2. ASSUME NEW s \in {"success", "failed"}, SetTask("gate", s)
          PROVE  run' \in DagRun
      BY <3>2, SetTaskType DEF Tasks, TaskState
    <3> QED
      BY <1>8, <3>1, <3>2 DEF Gate
  <2>2. ds' \in DayFiles
    <3>1. ASSUME NEW v \in {"torn", "pass", "fail"}, VerdictWritten(v)
          PROVE  ds' \in DayFiles
      BY <3>1 DEF VerdictWritten, DayFiles
    <3> QED
      BY <1>8, <3>1 DEF Gate
  <2> QED
    BY <1>8, <2>1, <2>2 DEF Gate, timeVars, envVars, V!LatestOK
<1>9. CASE PublishOpen
  <2>1. run' \in DagRun
    BY <1>9, SetTaskType DEF PublishOpen, Tasks, TaskState
  <2>2. V!LatestOK'
    BY <1>9, StampedType DEF PublishOpen
  <2> QED
    BY <1>9, <2>1, <2>2 DEF PublishOpen, timeVars, envVars
<1>10. CASE PublishWrite
  <2>1. run' \in DagRun
    BY <1>10, SetTaskType DEF PublishWrite, Tasks, TaskState
  <2> QED
    BY <1>10, <2>1 DEF PublishWrite, timeVars, envVars, V!LatestOK
<1>11. CASE Hang
  <2>1. run' \in DagRun
    BY <1>11 DEF Hang, DagRun
  <2> QED
    BY <1>11, <2>1 DEF Hang, timeVars, envVars, V!LatestOK
<1>12. CASE Tick
  <2>1. run' \in DagRun
    BY <1>12, TimingAssumption DEF Tick, DagRun
  <2>2. ds' \in DayFiles
    <3>1. \A d \in 0..2 : [ds EXCEPT !.days = d] \in DayFiles
      BY DEF DayFiles
    <3>2. [NoVerdict EXCEPT !.days = 2] \in DayFiles
      BY DEF NoVerdict, DayFiles
    <3> DEFINE d == IF NextHour # Midnight THEN ds.days
                    ELSE IF ds.days = 2 THEN 2 ELSE ds.days + 1
    <3>3. d \in 0..2
      BY DEF DayFiles
    <3>4. ds' = IF d = 2 THEN [NoVerdict EXCEPT !.days = 2] ELSE [ds EXCEPT !.days = d]
      BY <1>12, Zenon DEF Tick, AgedFiles
    <3> QED
      BY <3>1, <3>2, <3>3, <3>4
  <2>3. V!LatestOK'
    <3>1. ASSUME latest.age <= MaxAge, latest' = [latest EXCEPT !.age = @ + 1]
          PROVE  V!LatestOK'
      BY <3>1, TimingAssumption DEF V!LatestOK
    <3>2. latest.age \in 0..(MaxAge + 1)
      BY DEF V!LatestOK
    <3> QED
      BY <1>12, <3>1, <3>2, TimingAssumption DEF Tick, V!Older, V!LatestOK
  <2>4. sinceFire' \in 0..(Interval - 1) /\ due' \in BOOLEAN /\ nights' \in 0..2
    BY <1>12, TimingAssumption DEF Tick, NextHour
  <2> QED
    BY <1>12, <2>1, <2>2, <2>3, <2>4 DEF Tick, envVars
<1>13. CASE Fault \/ Redeploy \/ PromoteBaseline
  BY <1>13 DEF Fault, Redeploy, PromoteBaseline, timeVars, dagVars, Outcome, V!LatestOK
<1>14. CASE UNCHANGED vars
  BY <1>14 DEF vars, timeVars, envVars, dagVars, V!LatestOK
<1> QED
  BY <1>1, <1>2, <1>3, <1>4, <1>5, <1>6, <1>7, <1>8, <1>9, <1>10, <1>11, <1>12,
     <1>13, <1>14 DEF Next, DagStep

\* Every variable keeps its type, for every schedule: in particular a run never
\* outlives dagrun_timeout and a torn verdict file is never published.
THEOREM TypeCorrect == Spec => []TypeOK
BY InitType, TypeStep, PTL DEF Spec

(***************************************************************************)
(* The age of latest.json.  Only publish_latest and the clock move it.     *)
(***************************************************************************)
LEMMA OlderFields ==
  ASSUME V!LatestOK
  PROVE  /\ V!Older(latest).file = latest.file
         /\ V!Older(latest).verdict = latest.verdict
         /\ V!Older(latest).age = IF latest.file = "absent" \/ latest.age > MaxAge
                                  THEN latest.age ELSE latest.age + 1
         /\ latest.age \in 0..(MaxAge + 1)
<1>1. /\ [latest EXCEPT !.age = @ + 1].file = latest.file
      /\ [latest EXCEPT !.age = @ + 1].verdict = latest.verdict
      /\ [latest EXCEPT !.age = @ + 1].age = latest.age + 1
  BY DEF V!LatestOK
<1>2. latest.age \in 0..(MaxAge + 1)
  BY DEF V!LatestOK
<1> QED
  BY <1>1, <1>2 DEF V!Older

LEMMA AgeStep ==
  ASSUME TypeOK, AgeInv, RunInv, [Next]_vars
  PROVE  AgeInv'
<1>1. CASE UNCHANGED <<latest, nights, sinceFire>>
  BY <1>1 DEF AgeInv
<1>2. CASE PublishOpen
  <2>1. nights' = 0 /\ latest'.age = 0 /\ latest'.file = "torn"
    BY <1>2 DEF PublishOpen, Stamped
  <2>2. sinceFire' \in Nat
    BY <1>2, TimingAssumption DEF PublishOpen, timeVars, TypeOK
  <2> QED
    BY <2>1, <2>2 DEF AgeInv
<1>3. CASE PublishWrite
  <2>1. /\ latest'.age = latest.age /\ latest'.file = "ok"
        /\ nights' = nights /\ sinceFire' = sinceFire
    BY <1>3 DEF PublishWrite, timeVars, TypeOK, V!LatestOK
  <2>2. latest.file # "absent"
    BY <1>3 DEF PublishWrite, Working, RunInv
  <2> QED
    BY <2>1, <2>2 DEF AgeInv
<1>4. CASE Tick
  <2>1. /\ latest'.file = latest.file
        /\ latest'.age = IF latest.file = "absent" \/ latest.age > MaxAge
                         THEN latest.age ELSE latest.age + 1
        /\ latest.age \in 0..(MaxAge + 1)
    BY <1>4, OlderFields DEF Tick, TypeOK
  <2>2. /\ sinceFire' = IF sinceFire + 1 = Interval THEN 0 ELSE sinceFire + 1
        /\ nights' = IF latest.file # "absent" /\ sinceFire' = 0 /\ nights < 2
                     THEN nights + 1 ELSE nights
        /\ sinceFire \in 0..(Interval - 1) /\ nights \in 0..2
    BY <1>4 DEF Tick, NextHour, TypeOK
  <2> QED
    BY <2>1, <2>2, TimingAssumption DEF AgeInv
<1> QED
  BY <1>1, <1>2, <1>3, <1>4
  DEF Next, DagStep, vars, timeVars, dagVars, StartScheduled, StartManual,
      TriggerTask, UpstreamFailed, EndRun, DagRunTimeout, Preflight, RunSuite, Gate,
      PublishFails, Finalize, Hang, Fault, Redeploy, PromoteBaseline

(***************************************************************************)
(* The files of the run's date.                                            *)
(***************************************************************************)
LEMMA FilesStep ==
  ASSUME TypeOK, FilesInv, [Next]_vars
  PROVE  FilesInv'
<1> USE TimingAssumption
<1>t. /\ sinceFire \in 0..(Interval - 1) /\ ds.days \in 0..2
      /\ run.elapsed \in 0..Deadline /\ HourOfDay \in 0..(Interval - 1)
  BY DEF TypeOK, DagRun, DayFiles, HourOfDay, FireHour
<1>1. CASE UNCHANGED <<ds, sinceFire, baseline>> /\ ~run'.active
  BY <1>1 DEF FilesInv, HourOfDay
<1>2. CASE /\ UNCHANGED <<ds, sinceFire, baseline>>
           /\ run'.active = run.active /\ run'.elapsed = run.elapsed
           /\ run'.onTime = run.onTime
  BY <1>2 DEF FilesInv, HourOfDay
<1>3. CASE StartScheduled
  <2>1. /\ run'.active /\ run'.elapsed = 0 /\ (run'.onTime => sinceFire = 0)
        /\ UNCHANGED <<sinceFire, baseline>>
    BY <1>3 DEF StartScheduled, NewRun, NoRun, envVars
  <2>2. CASE sinceFire < Midnight /\ UseFilesOf(0)
    <3>1. ds'.days = 0 /\ (ds' = ds \/ ds'.verdict = "absent")
      BY <2>2 DEF UseFilesOf, NoVerdict
    <3> QED
      BY <1>t, <2>1, <3>1 DEF FilesInv, HourOfDay
  <2>3. CASE sinceFire >= Midnight /\ UseFilesOf(1)
    <3>1. ds'.days = 1 /\ (ds' = ds \/ ds'.verdict = "absent")
      BY <2>3 DEF UseFilesOf, NoVerdict
    <3>2. HourOfDay' = HourOfDay /\ HourOfDay < FireHour
      BY <1>t, <2>1, <2>3 DEF HourOfDay, FireHour
    <3> QED
      BY <1>t, <2>1, <3>1, <3>2 DEF FilesInv, FireHour
  <2> QED
    BY <1>3, <1>t, <2>2, <2>3 DEF StartScheduled
<1>4. CASE StartManual
  <2>1. /\ run'.active /\ run'.elapsed = 0 /\ ~run'.onTime
        /\ UNCHANGED <<sinceFire, baseline>>
    BY <1>4 DEF StartManual, NewRun, NoRun, envVars, timeVars
  <2>2. ds'.days = 0 /\ (ds' = ds \/ ds'.verdict = "absent")
    BY <1>4 DEF StartManual, UseFilesOf, NoVerdict
  <2> QED
    BY <1>t, <2>1, <2>2 DEF FilesInv, HourOfDay
<1>5. CASE Gate
  <2>1. /\ run'.active = run.active /\ run'.elapsed = run.elapsed
        /\ run'.onTime = run.onTime /\ UNCHANGED <<sinceFire, baseline>>
    BY <1>5 DEF Gate, SetTask, timeVars, envVars, TypeOK, DagRun
  <2>2. \/ ds' = ds
        \/ baseline /\ ds'.days = ds.days
    BY <1>5 DEF Gate, VerdictWritten, TypeOK, DayFiles
  <2> QED
    BY <1>t, <2>1, <2>2 DEF FilesInv, HourOfDay
<1>6. CASE Tick
  <2>1. /\ run'.active = run.active /\ run'.onTime = run.onTime
        /\ run.active => run'.elapsed = run.elapsed + 1 /\ run.elapsed < Deadline
        /\ sinceFire' = NextHour /\ baseline' = baseline
    BY <1>6 DEF Tick, envVars, TypeOK, DagRun
  <2>2. HourOfDay' = IF NextHour = Midnight THEN 0 ELSE HourOfDay + 1
    BY <1>t, <2>1 DEF HourOfDay, NextHour, FireHour
  <2>3. NextHour = Midnight <=> HourOfDay = Interval - 1
    BY <1>t DEF HourOfDay, NextHour, FireHour
  <2> DEFINE d == IF NextHour # Midnight THEN ds.days
                  ELSE IF ds.days = 2 THEN 2 ELSE ds.days + 1
  <2>4. \/ d = 2 /\ ds'.days = 2 /\ ds'.verdict = "absent"
        \/ d # 2 /\ ds'.days = d /\ ds'.verdict = ds.verdict
    <3>1. ds' = IF d = 2 THEN [NoVerdict EXCEPT !.days = 2] ELSE [ds EXCEPT !.days = d]
      BY <1>6, Zenon DEF Tick, AgedFiles
    <3> HIDE DEF d
    <3> QED
      BY <3>1, <1>t DEF NoVerdict, TypeOK, DayFiles
  <2>5. run.active => d # 2
    BY <1>t, <2>1, <2>3 DEF FilesInv, FireHour
  <2>6. run.active /\ run.onTime => sinceFire' = run'.elapsed
    BY <1>t, <2>1 DEF FilesInv, NextHour, FireHour
  <2>a. run.active /\ ds'.days = 1 => HourOfDay' < FireHour + run'.elapsed
    BY <1>t, <2>1, <2>2, <2>4, <2>5 DEF FilesInv, FireHour
  <2> QED
    BY <1>t, <2>1, <2>4, <2>5, <2>6, <2>a DEF FilesInv
<1>7. CASE PromoteBaseline
  BY <1>7 DEF PromoteBaseline, timeVars, dagVars, FilesInv, HourOfDay
<1>8. CASE UNCHANGED vars \/ Fault \/ Redeploy
  BY <1>8, <1>2 DEF vars, Fault, Redeploy, timeVars, dagVars, envVars
<1>9. CASE EndRun \/ DagRunTimeout
  BY <1>9, <1>1 DEF EndRun, DagRunTimeout, NoRun, timeVars, envVars
<1>10. CASE \E t \in Tasks : TriggerTask(t) \/ UpstreamFailed(t)
  BY <1>10, <1>2 DEF TriggerTask, UpstreamFailed, SetTask, timeVars, envVars, TypeOK, DagRun
<1>11. CASE Preflight \/ RunSuite \/ PublishOpen \/ PublishWrite \/ PublishFails
            \/ Finalize \/ Hang
  BY <1>11, <1>2
  DEF Preflight, RunSuite, PublishOpen, PublishWrite, PublishFails, Finalize, Hang,
      SetTask, timeVars, envVars, TypeOK, DagRun
<1> QED
  BY <1>3, <1>4, <1>5, <1>6, <1>7, <1>8, <1>9, <1>10, <1>11 DEF Next, DagStep

(***************************************************************************)
(* The tasks of a run.                                                     *)
(***************************************************************************)
LEMMA SetTaskFields ==
  ASSUME run \in DagRun, NEW t \in Tasks, NEW s \in TaskState, SetTask(t, s)
  PROVE  /\ run'.active = run.active /\ run'.state = run.state
         /\ run'.compared = run.compared
         /\ run'.task[t] = s
         /\ \A u \in Tasks : u # t => run'.task[u] = run.task[u]
BY DEF SetTask, DagRun

LEMMA LeavesIsFinalize == Leaves = {"finalize"}
BY DEF Leaves, Tasks, Upstream

LEMMA IdleRun ==
  /\ \A t \in Tasks : NoRun.task[t] = "none"
  /\ NoRun.active = FALSE /\ NoRun.state = "none" /\ NoRun.compared = FALSE
BY DEF NoRun

LEMMA RunStep ==
  ASSUME TypeOK, FilesInv, FilesInv', RunInv, GreenMeansPassPublished, [Next]_vars
  PROVE  RunInv' /\ GreenMeansPassPublished'
<1> USE DEF Published
<1>t. run \in DagRun /\ run.task \in [Tasks -> TaskState] /\ run.active \in BOOLEAN
  BY DEF TypeOK, DagRun
<1>1. CASE UNCHANGED <<run, ds, latest>>
  <2>1. run' = run /\ ds' = ds /\ latest' = latest
    BY <1>1
  <2> QED
    BY <2>1 DEF RunInv, GreenMeansPassPublished
<1>2. CASE StartScheduled \/ StartManual
  <2>1. /\ run'.active /\ run'.state = "running" /\ ~run'.compared
        /\ \A t \in Tasks : run'.task[t] = "none"
    <3>1. \A b \in BOOLEAN :
                 /\ NewRun(b).active /\ NewRun(b).state = "running" /\ ~NewRun(b).compared
                 /\ \A t \in Tasks : NewRun(b).task[t] = "none"
      BY DEF NewRun, NoRun
    <3> QED
      BY <1>2, <3>1 DEF StartScheduled, StartManual
  <2> QED
    BY <2>1 DEF RunInv, GreenMeansPassPublished, Tasks
<1>3. ASSUME NEW t \in Tasks, TriggerTask(t) PROVE RunInv' /\ GreenMeansPassPublished'
  <2>1. /\ run'.active = run.active /\ run'.state = run.state
        /\ run'.compared = run.compared /\ run'.task[t] = "running"
        /\ \A u \in Tasks : u # t => run'.task[u] = run.task[u]
        /\ run.active /\ run.task[t] = "none" /\ UNCHANGED <<ds, latest>>
    BY <1>3, <1>t, SetTaskFields DEF TriggerTask, TaskState
  <2>2. t = "finalize" => run.task["gate"] = "success" /\ run.task["publish_latest"] = "success"
    BY <1>3 DEF TriggerTask, Triggered, Upstream, TriggerRule
  <2>3. t = "publish_latest" => run.task["gate"] \in DoneState
    BY <1>3 DEF TriggerTask, Triggered, Upstream, TriggerRule, Done
  <2> QED
    BY <2>1, <2>2, <2>3 DEF RunInv, GreenMeansPassPublished, Tasks, DoneState
<1>4. ASSUME NEW t \in Tasks, UpstreamFailed(t) PROVE RunInv' /\ GreenMeansPassPublished'
  <2>1. /\ run'.active = run.active /\ run'.state = run.state
        /\ run'.compared = run.compared /\ run'.task[t] = "upstream_failed"
        /\ \A u \in Tasks : u # t => run'.task[u] = run.task[u]
        /\ run.active /\ run.task[t] = "none" /\ UNCHANGED <<ds, latest>>
    BY <1>4, <1>t, SetTaskFields DEF UpstreamFailed, TaskState
  <2>2. t # "publish_latest"
    BY <1>4 DEF UpstreamFailed, CannotTrigger, TriggerRule
  <2> QED
    BY <2>1, <2>2 DEF RunInv, GreenMeansPassPublished, Tasks
<1>5. CASE EndRun
  <2>1. /\ ~run'.active /\ run'.compared = run.compared /\ UNCHANGED <<ds, latest>>
        /\ \A t \in Tasks : run'.task[t] = "none"
        /\ run'.state = IF run.task["finalize"] = "success" THEN "success" ELSE "failed"
    BY <1>5, LeavesIsFinalize DEF EndRun, NoRun
  <2>2. run.active
    BY <1>5 DEF EndRun
  <2> QED
    BY <2>1, <2>2 DEF RunInv, GreenMeansPassPublished, Tasks
<1>6. CASE DagRunTimeout
  <2>1. /\ ~run'.active /\ run'.state = "failed"
        /\ \A t \in Tasks : run'.task[t] = "none"
    BY <1>6 DEF DagRunTimeout, NoRun
  <2> QED
    BY <2>1 DEF RunInv, GreenMeansPassPublished, Tasks
<1>7. CASE Preflight \/ PublishFails \/ Finalize
  <2>1. PICK t \in {"preflight", "publish_latest", "finalize"}, s \in {"success", "failed"} :
          /\ Working(t) /\ SetTask(t, s) /\ UNCHANGED <<ds, latest>>
          /\ t = "publish_latest" => s = "failed"
    BY <1>7 DEF Preflight, PublishFails, Finalize
  <2>2. /\ run'.active = run.active /\ run'.state = run.state
        /\ run'.compared = run.compared /\ run'.task[t] = s
        /\ \A u \in Tasks : u # t => run'.task[u] = run.task[u]
    BY <2>1, <1>t, SetTaskFields DEF TaskState, Tasks
  <2>3. run.active /\ run.task[t] \in {"running", "writing"}
    BY <2>1 DEF Working
  <2>4. t = "finalize" => run.task["finalize"] = "running"
    BY <2>3 DEF RunInv
  <2>5. t = "publish_latest" =>
          /\ run.task["gate"] \notin {"none", "running"}
          /\ run.task["finalize"] \notin {"running", "success"}
    BY <2>3 DEF RunInv
  <2>6. CASE t = "preflight"
    BY <2>1, <2>2, <2>3, <2>6 DEF RunInv, GreenMeansPassPublished, Tasks
  <2>7. CASE t = "publish_latest"
    BY <2>1, <2>2, <2>3, <2>5, <2>7 DEF RunInv, GreenMeansPassPublished, Tasks
  <2>8. CASE t = "finalize"
    BY <2>1, <2>2, <2>3, <2>4, <2>8 DEF RunInv, GreenMeansPassPublished, Tasks
  <2> QED
    BY <2>6, <2>7, <2>8
<1>8. CASE RunSuite
  <2>1. /\ run'.active = run.active /\ run'.state = run.state
        /\ run'.compared = run.compared
        /\ \A u \in Tasks : u # "run_suite" => run'.task[u] = run.task[u]
        /\ UNCHANGED <<ds, latest>>
    BY <1>8, <1>t DEF RunSuite, SetTask, DagRun
  <2> QED
    BY <2>1, <1>8 DEF RunInv, GreenMeansPassPublished, Tasks, RunSuite, Working
<1>9. CASE Gate
  <2>1. /\ run'.active = run.active /\ run'.state = run.state
        /\ \A u \in Tasks : u # "gate" => run'.task[u] = run.task[u]
        /\ UNCHANGED latest /\ run.active /\ run.task["gate"] \in {"running", "writing"}
    BY <1>9, <1>t DEF Gate, SetTask, DagRun, Working
  <2>2. \/ /\ ~baseline /\ run'.task["gate"] = "success" /\ ~run'.compared
           /\ ds'.verdict = "absent"
        \/ /\ run'.task["gate"] = "success" /\ run'.compared /\ ds'.verdict = "pass"
        \/ /\ run'.task["gate"] = "failed"
    <3>1. ~run.compared
      BY <2>1 DEF RunInv
    <3>2. ~baseline => ds.verdict = "absent"
      BY DEF FilesInv
    <3>3. ASSUME SetTask("gate", "success") PROVE run'.task["gate"] = "success" /\ ~run'.compared
      BY <3>1, <3>3, <1>t, SetTaskFields DEF Tasks, TaskState
    <3>4. ASSUME SetTask("gate", "failed") PROVE run'.task["gate"] = "failed"
      BY <3>4, <1>t, SetTaskFields DEF Tasks, TaskState
    <3>5. ASSUME run.result \in {"pass", "fail"},
                 run' = [run EXCEPT !.compared = TRUE,
                           !.task["gate"] = IF run.result = "pass" THEN "success" ELSE "failed"],
                 VerdictWritten(run.result)
          PROVE  \/ run'.task["gate"] = "success" /\ run'.compared /\ ds'.verdict = "pass"
                 \/ run'.task["gate"] = "failed"
      BY <3>5, <1>t DEF VerdictWritten, TypeOK, DayFiles, DagRun, Tasks
    <3>6. ASSUME run' = [run EXCEPT !.compared = TRUE, !.task["gate"] = "failed"]
          PROVE  run'.task["gate"] = "failed"
      BY <3>6, <1>t DEF DagRun, Tasks
    <3> QED
      BY <1>9, <3>2, <3>3, <3>4, <3>5, <3>6 DEF Gate
  <2> QED
    BY <2>1, <2>2 DEF RunInv, GreenMeansPassPublished, Tasks
<1>10. CASE PublishOpen
  <2>1. /\ run'.active = run.active /\ run'.state = run.state
        /\ run'.compared = run.compared /\ run'.task["publish_latest"] = "writing"
        /\ \A u \in Tasks : u # "publish_latest" => run'.task[u] = run.task[u]
        /\ UNCHANGED ds /\ run.active /\ run.task["publish_latest"] = "running"
    BY <1>10, <1>t, SetTaskFields DEF PublishOpen, Working, TaskState, Tasks
  <2>2. /\ latest'.file = "torn"
        /\ latest'.verdict = IF ds.verdict = "absent" THEN "unknown" ELSE ds.verdict
    BY <1>10 DEF PublishOpen, Stamped
  <2> QED
    BY <2>1, <2>2 DEF RunInv, GreenMeansPassPublished, Tasks
<1>11. CASE PublishWrite
  <2>1. /\ run'.active = run.active /\ run'.state = run.state
        /\ run'.compared = run.compared /\ run'.task["publish_latest"] = "success"
        /\ \A u \in Tasks : u # "publish_latest" => run'.task[u] = run.task[u]
        /\ UNCHANGED ds /\ run.active /\ run.task["publish_latest"] = "writing"
    BY <1>11, <1>t, SetTaskFields DEF PublishWrite, Working, TaskState, Tasks
  <2>2. latest'.file = "ok" /\ latest'.verdict = latest.verdict
    BY <1>11 DEF PublishWrite, TypeOK, V!LatestOK
  <2> QED
    BY <2>1, <2>2 DEF RunInv, GreenMeansPassPublished, Tasks
<1>12. CASE Hang
  <2>1. /\ run'.active = run.active /\ run'.state = run.state /\ run'.task = run.task
        /\ run'.compared = run.compared /\ UNCHANGED <<ds, latest>>
    BY <1>12, <1>t DEF Hang, DagRun
  <2> QED
    BY <2>1 DEF RunInv, GreenMeansPassPublished
<1>13. CASE Tick
  <2>1. /\ run'.active = run.active /\ run'.state = run.state /\ run'.task = run.task
        /\ run'.compared = run.compared
    BY <1>13, <1>t DEF Tick, DagRun
  <2>2. latest'.file = latest.file /\ latest'.verdict = latest.verdict
    BY <1>13, OlderFields DEF Tick, TypeOK
  <2>3. run.active => ds'.verdict = ds.verdict
    <3>1. ds'.days = 2 \/ ds'.verdict = ds.verdict
      <4> DEFINE d == IF NextHour # Midnight THEN ds.days
                      ELSE IF ds.days = 2 THEN 2 ELSE ds.days + 1
      <4>1. ds' = IF d = 2 THEN [NoVerdict EXCEPT !.days = 2]
                  ELSE [ds EXCEPT !.days = d]
        BY <1>13, Zenon DEF Tick, AgedFiles
      <4> HIDE DEF d
      <4> QED
        BY <4>1 DEF NoVerdict, TypeOK, DayFiles
    <3>2. run.active => ds'.days # 2
      BY <2>1 DEF FilesInv
    <3> QED
      BY <3>1, <3>2
  <2> QED
    BY <2>1, <2>2, <2>3 DEF RunInv, GreenMeansPassPublished
<1> QED
  BY <1>1, <1>2, <1>3, <1>4, <1>5, <1>6, <1>7, <1>8, <1>9, <1>10, <1>11, <1>12, <1>13
  DEF Next, DagStep, vars, dagVars, Fault, Redeploy, PromoteBaseline

(***************************************************************************)
(* The inductive invariant and what follows from it.                       *)
(***************************************************************************)
IInv ==
  /\ TypeOK /\ AgeInv /\ FilesInv /\ RunInv
  /\ GreenMeansPassPublished

THEOREM Inductive == Spec => []IInv
<1>1. Init => IInv
  <2> SUFFICES ASSUME Init PROVE IInv
    OBVIOUS
  <2>1. TypeOK
    BY InitType
  <2>2. latest.file = "absent" /\ nights = 0
    BY DEF Init, V!NoLatest
  <2>3. AgeInv
    BY <2>2 DEF AgeInv
  <2>4. FilesInv
    BY DEF Init, FilesInv, NoVerdict, NoRun
  <2>5. RunInv /\ GreenMeansPassPublished
    BY IdleRun DEF Init, RunInv, GreenMeansPassPublished, Tasks
  <2> QED
    BY <2>1, <2>3, <2>4, <2>5 DEF IInv
<1>2. IInv /\ [Next]_vars => IInv'
  BY TypeStep, AgeStep, FilesStep, RunStep DEF IInv
<1> QED
  BY <1>1, <1>2, PTL DEF Spec

\* A green DagRun published what it measured.
THEOREM GreenIsPublished == Spec => []GreenMeansPassPublished
BY Inductive, PTL DEF IInv

\* A verdict is never called stale while the run that would replace it, started
\* on time, is still within its deadline, unless two nights in a row were missed.
THEOREM NeverFalseStale == Spec => []NoFalseStale
<1>1. IInv => NoFalseStale
  <2> SUFFICES ASSUME IInv, run.active, run.onTime, latest.file # "absent",
                      latest.age > MaxAge, nights # 2
               PROVE  FALSE
    BY DEF NoFalseStale
  <2>1. sinceFire = run.elapsed /\ run.elapsed \in 0..Deadline
    BY DEF IInv, FilesInv, TypeOK, DagRun
  <2>2. nights \in 0..1 /\ latest.age \in Nat
    BY DEF IInv, TypeOK, V!LatestOK
  <2> QED
    BY <2>1, <2>2, TimingAssumption DEF IInv, AgeInv
<1> QED
  BY <1>1, Inductive, PTL

\* Two nights without a verdict block every merge, however the DAG died.
THEOREM TwoMissedNightsBlock == Spec => []DeadDagBlocks
<1>1. IInv => DeadDagBlocks
  <2> SUFFICES ASSUME IInv, nights = 2, sinceFire >= MaxAge - Interval, V!Allows(latest)
               PROVE  FALSE
    BY DEF DeadDagBlocks
  <2>1. latest.age \in Nat /\ sinceFire \in Nat /\ latest.age <= MaxAge
    BY TimingAssumption DEF IInv, TypeOK, V!LatestOK, V!Allows, V!CheckDaily
  <2> QED
    BY <2>1, TimingAssumption DEF IInv, AgeInv
<1> QED
  BY <1>1, Inductive, PTL

\* The DAG, its failures included, changes latest.json only the way the reader's
\* specification DailyVerdict allows.
THEOREM Refinement == Spec => ImplementsDailyVerdict
<1>1. Init => V!Init
  BY DEF Init, V!Init
<1>2. IInv /\ IInv' /\ [Next]_vars => [V!Next]_latest
  <2> SUFFICES ASSUME IInv, IInv', [Next]_vars PROVE V!Next \/ UNCHANGED latest
    OBVIOUS
  <2>1. CASE PublishOpen
    <3>1. latest' = Stamped /\ ds \in DayFiles /\ ds.verdict # "torn"
      BY <2>1 DEF PublishOpen, IInv, TypeOK
    <3>2. Stamped = [file |-> "torn", verdict |-> Stamped.verdict, age |-> 0]
      BY DEF Stamped
    <3>3. Stamped.verdict \in V!Verdict
      BY <3>1 DEF Stamped, DayFiles, V!Verdict
    <3> QED
      BY <3>1, <3>2, <3>3 DEF V!Next, V!Truncate
  <2>2. CASE PublishWrite
    <3>1. latest.file = "torn"
      BY <2>2 DEF PublishWrite, Working, IInv, RunInv
    <3> QED
      BY <2>2, <3>1 DEF PublishWrite, V!Next, V!Write
  <2>3. CASE Tick
    BY <2>3 DEF Tick, V!Next, V!Age
  <2> QED
    BY <2>1, <2>2, <2>3
    DEF Next, DagStep, vars, dagVars, StartScheduled, StartManual,
        TriggerTask, UpstreamFailed, EndRun, DagRunTimeout, Preflight, RunSuite, Gate,
        PublishFails, Finalize, Hang, Fault, Redeploy, PromoteBaseline
<1> QED
  BY <1>1, <1>2, Inductive, PTL DEF Spec, ImplementsDailyVerdict, V!Spec
==============================================================================
