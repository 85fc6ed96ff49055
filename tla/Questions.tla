------------------------------ MODULE Questions -------------------------------
(***************************************************************************)
(* The question table: batches of generated questions are collected into   *)
(* it, verification deletes what the corpus could answer and what repeats, *)
(* top-ups refill the cells that fell short of their target and trimming   *)
(* drops what a cell has too many of. Commands are run one at a time; any  *)
(* of them may be killed between two of its transactions.                  *)
(***************************************************************************)
EXTENDS Naturals, FiniteSets

CONSTANTS
  Generated,    \* the questions a generator may come up with
  Target,       \* of each cell, a category and a repository: category_repo_quota
  PerCall,      \* QUESTIONS_PER_CALL
  Overshoot,    \* topup_overshoot of each cell, in tenths
  Rounds        \* 0, the first batch, and the top-up rounds; bound: each is
                \* submitted once, for submitting it again is a round more

ASSUME GeneratedAssumption ==
  /\ Generated \subseteq [id : Nat, cell : DOMAIN Target, text : Nat, leaks : BOOLEAN]
  /\ \A q, r \in Generated : q.id = r.id => q = r
ASSUME QuotaAssumption ==
  /\ PerCall \in Nat \ {0} /\ IsFiniteSet(Generated)
  /\ \A c \in DOMAIN Target : Target[c] \in Nat /\ Overshoot[c] \in Nat /\ Overshoot[c] >= 10

VARIABLES
  rows,         \* the questions table
  answered,     \* the rows with a teacher answer
  batches,      \* of each round submitted, the questions its batch came back with
  recorded,     \* the questions whose batches the ledger has been charged with
  task          \* what a command has still to do, or Waiting

questionVars == <<rows, answered, batches, recorded, task>>

Waiting == [does |-> "nothing"]
Cells == DOMAIN Target
InCell(S, c) == {q \in S : q.cell = c}
Count(c) == Cardinality(InCell(rows, c))

QuestionsTypeOK ==
  /\ rows \subseteq Generated /\ answered \subseteq rows /\ recorded \subseteq Generated
  /\ DOMAIN batches \subseteq Rounds /\ \A r \in DOMAIN batches : batches[r] \subseteq Generated
  /\ task.does \in {"nothing", "insert", "dedupe"}

QuestionsInit ==
  /\ rows = {} /\ answered = {} /\ batches = [r \in {} |-> {}] /\ recorded = {} /\ task = Waiting

\* plan_calls and plan_topup_calls: whole calls, each for PerCall questions.
Ordered(n) == ((n + PerCall - 1) \div PerCall) * PerCall
Gap(c) == ((Target[c] - Count(c)) * Overshoot[c]) \div 10
Wanted(r) ==
  [c \in Cells |-> IF r = 0 THEN Ordered(Target[c])
                   ELSE IF Count(c) < Target[c] THEN Ordered(Gap(c)) ELSE 0]

\* submit, and submit_topup when a cell is short. What the batch comes back with
\* is known when it is collected; calls may fail and give less.
SubmitRound(r) ==
  /\ task = Waiting /\ r \notin DOMAIN batches
  /\ r > 0 => \E c \in Cells : Count(c) < Target[c]
  /\ \E out \in SUBSET Generated :
       /\ \A c \in Cells : Cardinality(InCell(out, c)) <= Wanted(r)[c]
       /\ batches' = [s \in DOMAIN batches \union {r} |-> IF s = r THEN out ELSE batches[s]]
  /\ UNCHANGED <<rows, answered, recorded, task>>

\* Mutant: the rows are inserted before their spend is recorded.
InsertFirst(r) ==
  /\ task = Waiting /\ r \in DOMAIN batches
  /\ rows' = rows \union batches[r]
  /\ UNCHANGED <<answered, batches, recorded, task>>

\* collect: the spend is recorded, and then the rows are inserted unless there.
CollectRound(r) ==
  /\ task = Waiting /\ r \in DOMAIN batches
  /\ recorded' = recorded \union batches[r]
  /\ task' = [does |-> "insert", new |-> batches[r]]
  /\ UNCHANGED <<rows, answered, batches>>

Insert ==
  /\ task.does = "insert"
  /\ rows' = rows \union task.new /\ task' = Waiting
  /\ UNCHANGED <<answered, batches, recorded>>

\* An answer goes with its question, ON DELETE CASCADE.
Delete(doomed) == rows' = rows \ doomed /\ answered' = answered \ doomed

\* verify_adversarial: the symbol is in the corpus after all, or missing.
Verify ==
  /\ task = Waiting
  /\ Delete({q \in rows : q.leaks}) /\ task' = [does |-> "dedupe"]
  /\ UNCHANGED <<batches, recorded>>

\* The copy with the smallest id stays, in whatever cell it is.
Dedupe ==
  /\ task.does = "dedupe"
  /\ Delete({q \in rows : \E p \in rows : p.text = q.text /\ p.id < q.id}) /\ task' = Waiting
  /\ UNCHANGED <<batches, recorded>>

\* Mutant: the rows with an answer go first.
AnsweredGoBefore(p, q) ==
  IF (p \in answered) = (q \in answered) THEN p.id > q.id ELSE p \in answered

\* Fresh rows go before answered ones, and the greater id before the smaller.
GoesBefore(p, q) ==
  IF (p \in answered) = (q \in answered) THEN p.id > q.id ELSE q \in answered

Surplus(c) ==
  {q \in InCell(rows, c) :
     Cardinality({p \in InCell(rows, c) : GoesBefore(p, q)}) + Target[c] < Count(c)}

Trim ==
  /\ task = Waiting
  /\ Delete(UNION {Surplus(c) : c \in Cells})
  /\ UNCHANGED <<batches, recorded, task>>

\* The teacher answers a question that is in the table (TeacherBatch).
Answer ==
  /\ task = Waiting
  /\ \E q \in rows : answered' = answered \union {q}
  /\ UNCHANGED <<rows, batches, recorded, task>>

KillCommand == task # Waiting /\ task' = Waiting /\ UNCHANGED <<rows, answered, batches, recorded>>

QuestionsNext ==
  \/ \E r \in Rounds : SubmitRound(r) \/ CollectRound(r)
  \/ Insert \/ Verify \/ Dedupe \/ Trim \/ Answer \/ KillCommand

QuestionsSpec == QuestionsInit /\ [][QuestionsNext]_questionVars

(***************************************************************************)
(* Properties.                                                             *)
(***************************************************************************)
\* Spend first: no kill leaves a question in the table whose batch the ledger
\* does not know, over any order of submits, collects and deletions.
RowsAreInTheLedger == rows \subseteq recorded

\* A teacher answer is paid for, and deleting its question deletes it: that
\* happens only to a question the corpus answers, to one whose text stays under
\* another id, and to the surplus of a cell that keeps its target in answered
\* questions.
AnswersAreGivenUpForAReason ==
  [][\A q \in answered \ rows' :
       \/ q.leaks
       \/ \E p \in rows' : p.text = q.text
       \/ /\ InCell(rows', q.cell) \subseteq answered
          /\ Cardinality(InCell(rows', q.cell)) = Target[q.cell]]_questionVars
==============================================================================
