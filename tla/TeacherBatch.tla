----------------------------- MODULE TeacherBatch -----------------------------
(***************************************************************************)
(* Buying the teacher's answers: `teacher retrieval, reset-retrieval,      *)
(* dry-run, submit, collect, revalidate, audit --regenerate | --drop` over *)
(* the Batch API, with the spend ledger and the job file                   *)
(* (teacher/batch.py, openai_batch.py, budget.py).                         *)
(*                                                                         *)
(* One operator runs one command at a time; a command is the sequence of   *)
(* its commits, and may be killed between two.  Tokens and dollars are one *)
(* measure, of which the cheapest generation takes 1 and the dearest       *)
(* Dearest; a shard is projected from the mean of the last dry run, the    *)
(* questions being of one category.  An embedding is too cheap to count.   *)
(***************************************************************************)
EXTENDS Integers, FiniteSets, Sequences, Functions

CONSTANTS
  Questions,     \* question ids, in the order of ORDER BY question_id
  MaxAttempts,   \* MAX_TEACHER_ATTEMPTS
  ShardSize,     \* SHARD_TOKEN_BUDGET
  DryRunSize, DryReserve,   \* dry_run's n, and the flat 0.05 it reserves
  Ceilings,      \* values OPENAI_USD_CEILING may have
  Dearest,       \* the most that a generation costs, by ceiling
  MaxFaults,     \* bound: kills, requests without an answer, batches that cannot
                 \* be collected or are collected twice, commands given too early
  MaxDryRuns,    \* bound
  MaxChanges,    \* bound: changes of k and of the validation rules
  None           \* no answer

ASSUME TeacherAssumption ==
  /\ Questions \subseteq Nat /\ IsFiniteSet(Questions)
  /\ {MaxAttempts, ShardSize, DryRunSize} \union Ceilings \subseteq Nat \ {0}
  /\ {DryReserve, MaxFaults, MaxDryRuns, MaxChanges} \subseteq Nat
  /\ Dearest \in [Ceilings -> Nat \ {0}]
  /\ None \notin [poisoned: BOOLEAN, from: {"dryrun", "batch"}]

VARIABLES
  questions,   \* rows of questions
  retrieved,   \* those with their chunk ids, in the column of that name
  attempts,    \* their teacher_attempts
  answers,     \* teacher_answers
  batches,     \* at OpenAI, in order of creation
  parts,       \* batch_state.json: part n is batch parts[n]
  ledger,      \* total of ledger.json, 1 above the ceiling standing for more
  report,      \* mean cost in the dry-run report, 0 without one
  cmd,         \* the command being run
  bought,      \* generations of a question that were paid for
  bill,        \* what they cost
  faults, dryRuns, changes,
  ceiling      \* usd_ceiling

vars == <<ceiling, questions, retrieved, attempts, answers, batches, parts, ledger, report, cmd,
          bought, bill, faults, dryRuns, changes>>
db == <<questions, retrieved, attempts, answers>>
paid == <<bought, bill>>
openai == <<ceiling, batches, paid>>

Answer == [poisoned: BOOLEAN, from: {"dryrun", "batch"}]
Outcomes == {"good", "poisoned", "error", "unparseable"}
Answered == {"good", "poisoned"}

\* Bounds that lose nothing: past them no comparison of the code changes.
AttemptBound == MaxAttempts + MaxDryRuns
AtMost(n, bound) == IF n > bound THEN bound ELSE n

Idle == [at |-> "idle", asks |-> {}, amount |-> 0]
Command == [at: {"idle", "create", "record_batch", "charge", "calls", "dry_charge", "report"},
            asks: SUBSET Questions, amount: Nat]

\* A batch is "lost" where fetch raises for good: it failed, expired or was
\* cancelled, has no output file for having errors only, or a content is null.
Batch == [asks: SUBSET Questions, status: {"in_progress", "completed", "lost"},
          got: [Questions -> Outcomes], cost: Nat, collected: BOOLEAN]

\* The type of every variable; a part is a batch that was created.
TypeOK ==
  /\ retrieved \subseteq questions /\ questions \subseteq Questions
  /\ attempts \in [Questions -> 0..AttemptBound]
  /\ answers \in [Questions -> Answer \union {None}]
  /\ batches \in Seq(Batch)
  /\ parts \in Seq(DOMAIN batches) /\ IsInjective(parts)
  /\ ledger \in 0..(ceiling + 1) /\ report \in 0..Dearest[ceiling]
  /\ cmd \in Command
  /\ bought \in [Questions -> Nat] /\ bill \in Nat
  /\ ceiling \in Ceilings /\ faults \in 0..MaxFaults /\ dryRuns \in 0..MaxDryRuns
  /\ changes \in 0..MaxChanges

Init ==
  /\ questions = Questions /\ retrieved = {}
  /\ attempts = [q \in Questions |-> 0]
  /\ answers = [q \in Questions |-> None]
  /\ batches = <<>> /\ parts = <<>>
  /\ ledger = 0 /\ report = 0
  /\ cmd = Idle
  /\ bought = [q \in Questions |-> 0] /\ bill = 0
  /\ faults = 0 /\ dryRuns = 0 /\ changes = 0
  /\ ceiling \in Ceilings

Pending(t) == {q \in retrieved : t[q] = None}
Flagged == {q \in questions : answers[q] # None /\ answers[q].poisoned}

\* What the generations of S may cost, and buying them for n.
Costs(S) == Cardinality(S)..(Dearest[ceiling] * Cardinality(S))
Buy(S, n) ==
  /\ bought' = [q \in Questions |-> bought[q] + (IF q \in S THEN 1 ELSE 0)]
  /\ bill' = bill + n

Starts == cmd = Idle
Goes(at, S, n) == cmd' = [at |-> at, asks |-> S, amount |-> n]
Fault == faults < MaxFaults /\ faults' = faults + 1

\* "Each shard must finish before the next is sent" is left to the operator, who
\* may err.
Finished(b) == batches[b].status = "lost" \/ batches[b].collected
Waited == \A n \in DOMAIN parts : Finished(parts[n])
Waits == IF Waited THEN UNCHANGED faults ELSE Fault

\* Ledger.reserve, on the ledger the command loaded.
\* Mutant: the projection alone is compared.
ReserveProjected(n) == n <= ceiling
Reserve(n) == ledger + n <= ceiling

Record(n) == ledger' = AtMost(ledger + n, ceiling + 1)

(***************************************************************************)
(* Storing answers, and deleting them.                                     *)
(***************************************************************************)
Keep(q, a) == [a EXCEPT !.from = IF answers[q] = None THEN @ ELSE answers[q].from]

\* Mutant: attempts live on the answer and go with it.
StoreOnAnswer(S, from, bad) ==
  /\ answers' = [q \in Questions |-> IF q \notin S THEN answers[q]
                   ELSE Keep(q, [poisoned |-> q \in bad, from |-> from])]
  /\ attempts' = [q \in Questions |-> IF q \notin S THEN attempts[q]
                   ELSE IF answers[q] = None THEN 1 ELSE AtMost(attempts[q] + 1, AttemptBound)]
  /\ UNCHANGED <<questions, retrieved>>

\* _store: the upsert keeps the batch_id of the row, and counts an attempt.
Store(S, from, bad) ==
  /\ answers' = [q \in Questions |-> IF q \notin S THEN answers[q]
                   ELSE Keep(q, [poisoned |-> q \in bad, from |-> from])]
  /\ attempts' = [q \in Questions |-> IF q \notin S THEN attempts[q]
                   ELSE AtMost(attempts[q] + 1, AttemptBound)]
  /\ UNCHANGED <<questions, retrieved>>

Delete(retry, dropped) ==
  /\ questions' = questions \ dropped /\ retrieved' = retrieved \ dropped
  /\ answers' = [q \in Questions |-> IF q \in retry \union dropped THEN None ELSE answers[q]]
  /\ UNCHANGED attempts

(***************************************************************************)
(* teacher retrieval, reset-retrieval, revalidate.                         *)
(***************************************************************************)
\* attach_retrieval: the first `limit` questions without chunk ids; a commit is
\* of the first ones too.
AttachRetrieval(limit) ==
  LET missing == questions \ retrieved IN
  /\ Starts /\ missing # {} /\ Reserve(0)
  /\ retrieved' = retrieved \union {q \in missing : Cardinality({p \in missing : p < q}) < limit}
  /\ UNCHANGED <<questions, attempts, answers, openai, parts, ledger, report, cmd, faults, dryRuns, changes>>

\* The answers stay, and what is on order too.
ResetRetrieval ==
  /\ Starts /\ changes < MaxChanges
  /\ retrieved' = {} /\ changes' = changes + 1
  /\ UNCHANGED <<questions, attempts, answers, openai, parts, ledger, report, cmd, faults, dryRuns>>

\* Other rules than those it was stored under may turn any verdict. An answer
\* whose question has lost its chunk ids raises.
Revalidate ==
  /\ Starts /\ changes < MaxChanges
  /\ LET stored == {q \in questions : answers[q] # None} IN
     /\ stored \subseteq retrieved
     /\ \E bad \in SUBSET stored :
          answers' = [q \in Questions |->
            IF q \in stored THEN [answers[q] EXCEPT !.poisoned = q \in bad] ELSE answers[q]]
  /\ changes' = changes + 1
  /\ UNCHANGED <<questions, retrieved, attempts, openai, parts, ledger, report, cmd, faults, dryRuns>>

(***************************************************************************)
(* teacher dry-run.                                                        *)
(***************************************************************************)
Probed == {q \in questions : answers[q] # None /\ answers[q].from = "dryrun"}

\* The answers of an earlier probe are deleted and committed first. The sample, by
\* quotas of categories, may fall short of n, and an empty one raises.
DryRun(redo) ==
  /\ Starts /\ dryRuns < MaxDryRuns
  /\ dryRuns' = dryRuns + 1 /\ Waits
  /\ LET cleared == IF redo THEN Probed ELSE {} IN
     /\ answers' = [q \in Questions |-> IF q \in cleared THEN None ELSE answers[q]]
     /\ attempts' = [q \in Questions |-> IF q \in cleared /\ attempts[q] > 0
                                         THEN attempts[q] - 1 ELSE attempts[q]]
  /\ \E S \in SUBSET Pending(answers') :
       /\ Cardinality(S) <= DryRunSize
       /\ \/ S # {} /\ Reserve(DryReserve) /\ Goes("calls", S, 0)
          \/ ~(S # {} /\ Reserve(DryReserve)) /\ UNCHANGED cmd
  /\ UNCHANGED <<questions, retrieved, openai, parts, ledger, report, changes>>

\* Synchronous calls, stored in one commit.
Calls ==
  /\ cmd.at = "calls"
  /\ \E cost \in Costs(cmd.asks) :
       /\ Buy(cmd.asks, cost)
       /\ Goes("dry_charge", cmd.asks, cost)
  /\ \E bad \in SUBSET cmd.asks : Store(cmd.asks, "dryrun", bad)
  /\ UNCHANGED <<ceiling, batches, parts, ledger, report, faults, dryRuns, changes>>

\* A call fails, or its content does not parse: what was stored is rolled back.
CallsFail ==
  /\ cmd.at = "calls"
  /\ Fault
  /\ \E S \in SUBSET cmd.asks : \E cost \in Costs(S) : Buy(S, cost)
  /\ cmd' = Idle
  /\ UNCHANGED <<db, ceiling, batches, parts, ledger, report, dryRuns, changes>>

\* record raises once the ceiling is crossed.
DryCharge ==
  /\ cmd.at = "dry_charge"
  /\ Record(cmd.amount)
  /\ cmd' = IF ledger' > ceiling THEN Idle ELSE [cmd EXCEPT !.at = "report"]
  /\ UNCHANGED <<db, openai, parts, report, faults, dryRuns, changes>>

\* The mean, rounded down.
Report ==
  /\ cmd.at = "report"
  /\ \E mean \in 1..Dearest[ceiling] :
       /\ mean * Cardinality(cmd.asks) <= cmd.amount
       /\ cmd.amount < (mean + 1) * Cardinality(cmd.asks)
       /\ report' = mean
  /\ cmd' = Idle
  /\ UNCHANGED <<db, openai, parts, ledger, faults, dryRuns, changes>>

(***************************************************************************)
(* teacher submit: reserve, create the batch, write the job file.          *)
(***************************************************************************)
\* The first that wait, up to the budget; the very first is taken anyhow.
Before(q) == Cardinality({p \in Pending(answers) : p < q})
Shard == {q \in Pending(answers) : Before(q) = 0 \/ (Before(q) + 1) * report <= ShardSize}

Submit ==
  /\ Starts /\ report # 0 /\ Shard # {} /\ Reserve(Cardinality(Shard) * report)
  /\ Goes("create", Shard, 0)
  /\ Waits
  /\ UNCHANGED <<db, openai, parts, ledger, report, dryRuns, changes>>

Create ==
  /\ cmd.at = "create"
  /\ batches' = Append(batches, [asks |-> cmd.asks, status |-> "in_progress", collected |-> FALSE,
                                 got |-> [q \in Questions |-> "error"], cost |-> 0])
  /\ Goes("record_batch", {}, 0)
  /\ UNCHANGED <<db, ceiling, paid, parts, ledger, report, faults, dryRuns, changes>>

\* Mutant: submit writes the job too.
RecordBatchTwice ==
  /\ cmd.at = "record_batch"
  /\ parts' = parts \o <<Len(batches), Len(batches)>>
  /\ cmd' = Idle
  /\ UNCHANGED <<db, openai, ledger, report, faults, dryRuns, changes>>

\* next_part() is the number of jobs there are.
RecordBatch ==
  /\ cmd.at = "record_batch"
  /\ parts' = Append(parts, Len(batches))
  /\ cmd' = Idle
  /\ UNCHANGED <<db, openai, ledger, report, faults, dryRuns, changes>>

\* A lost batch is paid for as far as it went; what a completed one reports is the
\* usage of the answers that parse.
BatchEnds(b) ==
  /\ batches[b].status = "in_progress"
  /\ \/ \E got \in [Questions -> Outcomes] :
          LET made == {q \in Questions : got[q] # "error"}
              parsed == {q \in Questions : got[q] \in Answered}
          IN  /\ made # {} /\ made \subseteq batches[b].asks
              /\ \E cost \in Costs(parsed), unread \in Costs(made \ parsed) :
                   /\ batches' = [batches EXCEPT ![b] = [asks |-> @.asks, status |-> "completed",
                                    got |-> got, cost |-> cost, collected |-> @.collected]]
                   /\ Buy(made, cost + unread)
              /\ IF parsed = batches[b].asks THEN UNCHANGED faults ELSE Fault
     \/ /\ batches' = [batches EXCEPT ![b].status = "lost"]
        /\ \E S \in SUBSET batches[b].asks : \E cost \in Costs(S) : Buy(S, cost)
        /\ Fault
  /\ UNCHANGED <<db, ceiling, parts, ledger, report, cmd, dryRuns, changes>>

(***************************************************************************)
(* teacher collect: store and commit, then record.                         *)
(***************************************************************************)
\* An answer that did not parse, or errored, is recorded as no tokens. One whose
\* question has lost its chunk ids raises, and all is rolled back.
Collect(n) ==
  /\ Starts /\ n \in DOMAIN parts /\ batches[parts[n]].status = "completed"
  /\ LET b == parts[n]
         stored == {q \in batches[b].asks : batches[b].got[q] \in Answered}
         bad == {q \in stored : batches[b].got[q] = "poisoned"}
     IN  /\ stored \intersect questions \subseteq retrieved
         /\ Store(stored \intersect questions, "batch", bad)
         /\ batches' = [batches EXCEPT ![b].collected = TRUE]
         /\ Goes("charge", {}, batches[b].cost)
         /\ IF batches[b].collected THEN Fault ELSE UNCHANGED faults
  /\ UNCHANGED <<ceiling, paid, parts, ledger, report, dryRuns, changes>>

Charge ==
  /\ cmd.at = "charge"
  /\ Record(cmd.amount)
  /\ cmd' = Idle
  /\ UNCHANGED <<db, openai, parts, report, faults, dryRuns, changes>>

(***************************************************************************)
(* teacher audit.                                                          *)
(***************************************************************************)
\* Mutant: rows out of attempts are left where they are.
RegenerateOnly ==
  /\ Starts /\ Flagged # {}
  /\ Delete({q \in Flagged : attempts[q] < MaxAttempts}, {})
  /\ UNCHANGED <<openai, parts, ledger, report, cmd, faults, dryRuns, changes>>

\* regenerate_invalid: out of attempts, the question goes too.
Regenerate ==
  /\ Starts /\ Flagged # {}
  /\ LET retry == {q \in Flagged : attempts[q] < MaxAttempts}
     IN  Delete(retry, Flagged \ retry)
  /\ UNCHANGED <<openai, parts, ledger, report, cmd, faults, dryRuns, changes>>

DropInvalidQuestions ==
  /\ Starts /\ Flagged # {}
  /\ Delete({}, Flagged)
  /\ UNCHANGED <<openai, parts, ledger, report, cmd, faults, dryRuns, changes>>

\* The command is killed between two commits.
Killed ==
  /\ cmd # Idle /\ Fault
  /\ cmd' = Idle
  /\ UNCHANGED <<db, openai, parts, ledger, report, dryRuns, changes>>

Proceeds == Calls \/ DryCharge \/ Report \/ Create \/ RecordBatch \/ Charge
CollectsNew == \E n \in DOMAIN parts : ~batches[parts[n]].collected /\ Collect(n)

Next ==
  \/ \E limit \in 1..Cardinality(Questions) : AttachRetrieval(limit)
  \/ ResetRetrieval \/ Revalidate
  \/ \E redo \in BOOLEAN : DryRun(redo)
  \/ Calls \/ CallsFail \/ DryCharge \/ Report
  \/ Submit \/ Create \/ RecordBatch
  \/ \E b \in DOMAIN batches : BatchEnds(b)
  \/ \E n \in DOMAIN parts : Collect(n)
  \/ Charge \/ Regenerate \/ DropInvalidQuestions \/ Killed

\* The service ends its batches, a command that runs goes on, and the operator
\* goes round the loop of retrieval, submit, collect and audit.
Spec ==
  /\ Init /\ [][Next]_vars
  /\ WF_vars(\E b \in DOMAIN batches : BatchEnds(b))
  /\ WF_vars(AttachRetrieval(Cardinality(Questions)))
  /\ WF_vars(Proceeds) /\ WF_vars(Waited /\ Submit) /\ WF_vars(CollectsNew) /\ WF_vars(Regenerate)

(***************************************************************************)
(* Properties.                                                             *)
(***************************************************************************)
InProgress == SumFunction([b \in DOMAIN batches |->
                IF batches[b].status = "in_progress" THEN Cardinality(batches[b].asks) ELSE 0])

\* What one command may cost above its reservation: a shard that was projected from
\* the cheapest answers, or a dry run, which reserves a flat amount.
Overrun ==
  LET shard == (Dearest[ceiling] - 1) * ShardSize
      probe == Dearest[ceiling] * DryRunSize - DryReserve
  IN  IF probe > shard THEN probe ELSE shard

\* "A hard halt": however many shards and dry runs there are, the bill, with what is
\* on order at its dearest, exceeds the ceiling by no more than one command does, but
\* for what a fault kept from the ledger.
BudgetHolds ==
  bill + Dearest[ceiling] * InProgress
    <= ceiling + Overrun + Dearest[ceiling] * (faults * (ShardSize + DryRunSize))

\* "Hard cap on teacher regeneration per row": no question is generated more often
\* than MAX_TEACHER_ATTEMPTS, but for faults and probes that were redone.
RetriesAreCapped ==
  \A q \in Questions : bought[q] <= MaxAttempts + faults + dryRuns

\* Room for every attempt, every fault and every probe.
Ample == Dearest[ceiling] *
  (Cardinality(Questions) * (MaxAttempts + MaxFaults + MaxDryRuns) + MaxFaults * ShardSize)

\* "Would otherwise loop and burn budget forever": where the ceiling has room, the
\* cap ends the loop of submit, collect and audit, and not the ceiling: every
\* question has an answer that is not poisoned, or is dropped, even when the
\* retrieval is cleared under a batch on order or the rules change.
LoopConverges ==
  ceiling >= Ample =>
    <>[](Flagged = {} /\ (report # 0 => \A q \in questions : answers[q] # None))

\* "Rows dropped after 2 failed attempts each": a question that audit
\* --regenerate drops was generated that many times.
DropsAfterFailedAttempts ==
  [][Regenerate => \A q \in questions \ questions' : bought[q] >= MaxAttempts]_vars
==============================================================================
