-------------------------- MODULE TeacherBatch_proofs --------------------------
(***************************************************************************)
(* The teacher's bill, for any questions, ceilings, sizes of shards and    *)
(* probes, costs of a generation, and any number of faults, probes and     *)
(* changes: every variable keeps its type, and what is bought stays within *)
(* the ceiling and the cap on attempts, but for what the faults account    *)
(* for.                                                                    *)
(***************************************************************************)
EXTENDS TeacherBatch, CountingTheorems, SequenceTheorems

\* What so many generations cost at the dearest.
Dear(n) == Dearest[ceiling] * n

CmdShape ==
  /\ cmd.at = "create" => Cardinality(cmd.asks) <= ShardSize
  /\ cmd.at = "calls" => Cardinality(cmd.asks) <= DryRunSize
  /\ cmd.at = "charge" => cmd.amount <= Dear(ShardSize)
  /\ cmd.at = "dry_charge" => cmd.amount <= Dear(DryRunSize)
  /\ cmd.at = "record_batch" => Len(batches) \in DOMAIN batches /\ Len(batches) \notin Range(parts)

\* No batch is larger than a shard or costs more, and only a completed one is collected.
BatchShape ==
  \A b \in DOMAIN batches :
    /\ Cardinality(batches[b].asks) <= ShardSize
    /\ batches[b].cost <= Dear(ShardSize)
    /\ batches[b].collected => batches[b].status = "completed"

Shapes == TypeOK /\ CmdShape /\ BatchShape

LEMMA Sizes ==
  /\ \A S \in SUBSET Questions :
       /\ IsFiniteSet(S) /\ Cardinality(S) \in Nat /\ Cardinality(S) \in 0..Cardinality(Questions)
       /\ \A T \in SUBSET S : Cardinality(T) <= Cardinality(S)
  /\ {MaxAttempts, ShardSize, DryRunSize} \subseteq Nat \ {0} /\ Ceilings \subseteq Nat \ {0}
  /\ {DryReserve, MaxFaults, MaxDryRuns, MaxChanges} \subseteq Nat
  /\ AttemptBound \in Nat /\ AttemptBound = MaxAttempts + MaxDryRuns
  /\ Cardinality({}) = 0
<1>1. ASSUME NEW S \in SUBSET Questions
      PROVE  /\ IsFiniteSet(S) /\ Cardinality(S) \in Nat /\ Cardinality(S) \in 0..Cardinality(Questions)
             /\ \A T \in SUBSET S : Cardinality(T) <= Cardinality(S)
  <2>1. IsFiniteSet(S) /\ Cardinality(S) <= Cardinality(Questions)
    BY TeacherAssumption, FS_Subset
  <2>2. Cardinality(S) \in Nat /\ Cardinality(Questions) \in Nat
    BY <2>1, TeacherAssumption, FS_CardinalityType
  <2>3. \A T \in SUBSET S : Cardinality(T) <= Cardinality(S)
    BY <2>1, FS_Subset
  <2> QED BY <2>1, <2>2, <2>3
<1>2. /\ {MaxAttempts, ShardSize, DryRunSize} \subseteq Nat \ {0} /\ Ceilings \subseteq Nat \ {0}
      /\ {DryReserve, MaxFaults, MaxDryRuns, MaxChanges} \subseteq Nat
  BY TeacherAssumption
<1>3. AttemptBound \in Nat /\ AttemptBound = MaxAttempts + MaxDryRuns
  BY <1>2 DEF AttemptBound
<1> QED BY <1>1, <1>2, <1>3, FS_EmptySet

\* Costs add up as generations do.
LEMMA DearIs ==
  ASSUME TypeOK, NEW m \in Nat, NEW n \in Nat
  PROVE  /\ Dearest[ceiling] \in Nat \ {0}
         /\ Dear(m) \in Nat /\ Dear(m) >= m /\ Dear(0) = 0
         /\ Dear(m + n) = Dear(m) + Dear(n)
         /\ n <= m => Dear(m - n) = Dear(m) - Dear(n) /\ Dear(n) <= Dear(m)
<1>1. Dearest[ceiling] \in Nat \ {0}
  BY TeacherAssumption DEF TypeOK
<1> DEFINE d == Dearest[ceiling]
<1>2. d \in Nat /\ d >= 1
  BY <1>1
<1> HIDE DEF d
<1>3. d * m \in Nat /\ d * n \in Nat /\ d * (m + n) = d * m + d * n /\ d * 0 = 0 /\ d * m >= m
  BY <1>2
<1>4. n <= m => d * (m - n) = d * m - d * n
  BY <1>2
<1>5. ASSUME n <= m PROVE d * n <= d * m
  <2>1. m - n \in Nat
    BY <1>5
  <2>2. d * (m - n) \in Nat
    BY <1>2, <2>1
  <2> QED BY <1>3, <1>4, <1>5, <2>2
<1> QED BY <1>1, <1>3, <1>4, <1>5 DEF Dear, d

LEMMA AtMostIs ==
  ASSUME NEW n \in Nat, NEW bound \in Nat
  PROVE  /\ AtMost(n, bound) \in 0..bound /\ AtMost(n, bound) <= n
         /\ AtMost(n, bound) < bound => AtMost(n, bound) = n
BY DEF AtMost

LEMMA InitShapes == Init => Shapes
<1> SUFFICES ASSUME Init PROVE Shapes
  OBVIOUS
<1>1. cmd \in Command /\ cmd = Idle /\ cmd.at = "idle" /\ cmd.asks = {}
  BY Sizes DEF Init, Command, Idle
<1>2. attempts \in [Questions -> 0..AttemptBound] /\ bought \in [Questions -> Nat]
  BY Sizes DEF Init
<1>3. answers \in [Questions -> Answer \union {None}]
  BY DEF Init
<1>4. batches = <<>> /\ parts = <<>> /\ batches \in Seq(Batch) /\ parts \in Seq(DOMAIN batches)
  BY DEF Init
<1>5. IsInjective(parts)
  BY <1>4 DEF IsInjective
<1>6. ceiling \in Ceilings /\ ledger \in 0..(ceiling + 1) /\ bill \in Nat
  BY Sizes DEF Init
<1>7. faults \in 0..MaxFaults /\ dryRuns \in 0..MaxDryRuns /\ changes \in 0..MaxChanges
  BY Sizes DEF Init
<1>8. report \in 0..Dearest[ceiling]
  <2>1. Dearest[ceiling] \in Nat /\ report = 0
    BY TeacherAssumption DEF Init
  <2> QED BY <2>1
<1>9. retrieved \subseteq questions /\ questions \subseteq Questions
  BY DEF Init
<1>10. TypeOK
  BY <1>1, <1>2, <1>3, <1>4, <1>5, <1>6, <1>7, <1>8, <1>9 DEF TypeOK
<1> QED BY <1>1, <1>4, <1>10 DEF Shapes, CmdShape, BatchShape

(***************************************************************************)
(* What the helpers leave behind.                                          *)
(***************************************************************************)
LEMMA Bought ==
  ASSUME TypeOK, NEW S, NEW n \in Nat, Buy(S, n)
  PROVE  /\ bought' \in [Questions -> Nat] /\ bill' \in Nat /\ bill' = bill + n
         /\ \A q \in Questions : bought'[q] = bought[q] + (IF q \in S THEN 1 ELSE 0)
BY DEF TypeOK, Buy

LEMMA Stores ==
  ASSUME TypeOK, NEW S \in SUBSET Questions, NEW from \in {"dryrun", "batch"}, NEW bad,
         Store(S, from, bad)
  PROVE  /\ attempts' \in [Questions -> 0..AttemptBound]
         /\ answers' \in [Questions -> Answer \union {None}]
         /\ \A q \in S : answers'[q] # None /\ attempts'[q] = AtMost(attempts[q] + 1, AttemptBound)
         /\ \A q \in Questions \ S : answers'[q] = answers[q] /\ attempts'[q] = attempts[q]
         /\ questions' = questions /\ retrieved' = retrieved
<1>1. \A q \in Questions : /\ attempts[q] \in 0..AttemptBound /\ attempts[q] + 1 \in Nat
                           /\ answers[q] \in Answer \union {None}
  BY Sizes DEF TypeOK
<1>2. \A q \in Questions : AtMost(attempts[q] + 1, AttemptBound) \in 0..AttemptBound
  BY <1>1, Sizes, AtMostIs
<1>3. attempts' \in [Questions -> 0..AttemptBound]
  BY <1>1, <1>2 DEF Store
<1>4. ASSUME NEW q \in Questions PROVE Keep(q, [poisoned |-> q \in bad, from |-> from]) \in Answer
  <2> DEFINE bit == q \in bad
             a == [poisoned |-> bit, from |-> from]
             kept == IF answers[q] = None THEN from ELSE answers[q].from
  <2>1. bit \in BOOLEAN
    OBVIOUS
  <2>2. kept \in {"dryrun", "batch"}
    BY <1>1 DEF Answer
  <2>3. Keep(q, a) = [a EXCEPT !.from = kept]
    BY DEF Keep
  <2> HIDE DEF bit, kept
  <2>4. [a EXCEPT !.from = kept] = [poisoned |-> bit, from |-> kept]
    OBVIOUS
  <2> QED BY <2>1, <2>2, <2>3, <2>4 DEF Answer, bit
<1>5. answers' \in [Questions -> Answer \union {None}]
  BY <1>1, <1>4 DEF Store
<1>6. \A q \in S : answers'[q] \in Answer
  BY <1>4 DEF Store
<1>7. None \notin Answer
  BY TeacherAssumption DEF Answer
<1> QED BY <1>3, <1>5, <1>6, <1>7 DEF Store

LEMMA Deletes ==
  ASSUME TypeOK, NEW retry, NEW dropped, Delete(retry, dropped)
  PROVE  /\ attempts' = attempts
         /\ answers' \in [Questions -> Answer \union {None}]
         /\ \A q \in Questions : answers'[q] = IF q \in retry \union dropped THEN None ELSE answers[q]
         /\ questions' = questions \ dropped /\ retrieved' \subseteq questions'
         /\ questions' \subseteq Questions
BY DEF TypeOK, Delete

LEMMA Records ==
  ASSUME TypeOK, NEW n \in Nat, Record(n), ceiling' = ceiling
  PROVE  /\ ledger' \in 0..(ceiling + 1)
         /\ ledger' <= ceiling => ledger' = ledger + n /\ ledger <= ceiling
<1>1. ceiling \in Nat /\ ceiling + 1 \in Nat /\ ledger \in Nat /\ ledger + n \in Nat
  BY Sizes DEF TypeOK
<1>2. ledger' = AtMost(ledger + n, ceiling + 1)
  BY DEF Record
<1>3. /\ ledger' \in 0..(ceiling + 1)
      /\ ledger' < ceiling + 1 => ledger' = ledger + n
  BY <1>1, <1>2, AtMostIs
<1> QED BY <1>1, <1>3

LEMMA Faults ==
  ASSUME TypeOK, Fault
  PROVE  faults' \in 0..MaxFaults /\ faults' = faults + 1
BY Sizes DEF TypeOK, Fault

\* What generations may cost is at least their number.
LEMMA CostsAre ==
  ASSUME TypeOK, NEW S \in SUBSET Questions, NEW n \in Costs(S)
  PROVE  n \in Nat /\ Cardinality(S) <= n /\ n <= Dear(Cardinality(S))
<1>1. Cardinality(S) \in Nat
  BY Sizes
<1>2. Dear(Cardinality(S)) \in Nat
  BY <1>1, DearIs
<1> QED BY <1>1, <1>2 DEF Costs, Dear

\* A shard takes the first of the questions that wait, and no more than its budget
\* has room for at the cheapest.
LEMMA ShardIsSmall ==
  ASSUME TypeOK, report # 0
  PROVE  /\ Shard \in SUBSET Questions /\ Cardinality(Shard) <= ShardSize
         /\ Shard \subseteq Pending(answers)
         /\ Cardinality(Shard) * report \in Nat /\ Cardinality(Shard) <= Cardinality(Shard) * report
<1> DEFINE R == Pending(answers)
           before == [q \in R |-> {p \in R : p < q}]
           First == {q \in R : Cardinality(before[q]) < ShardSize}
<1>1. R \in SUBSET Questions /\ R \in SUBSET Nat
  BY TeacherAssumption DEF TypeOK, Pending
<1>2. Orders(before, R)
  <2> HIDE DEF R
  <2>1. \A p, q \in R : p \in Nat /\ q \in Nat
    BY <1>1
  <2> QED BY <2>1 DEF Orders
<1>3. report \in Nat /\ report >= 1 /\ ShardSize \in Nat /\ ShardSize >= 1
  <2>1. Dearest[ceiling] \in Nat /\ report \in 0..Dearest[ceiling]
    BY DearIs DEF TypeOK
  <2> QED BY <2>1, Sizes
<1>4. ASSUME NEW q \in Shard PROVE q \in First
  <2>1. q \in R /\ (Before(q) = 0 \/ (Before(q) + 1) * report <= ShardSize)
    BY <1>4 DEF Shard
  <2>2. Before(q) = Cardinality(before[q]) /\ before[q] \in SUBSET Questions
    BY <1>1, <2>1 DEF Before
  <2>3. Before(q) \in Nat
    BY <2>2, Sizes
  <2>4. (Before(q) + 1) * report >= Before(q) + 1 /\ (Before(q) + 1) * report \in Nat
    BY <1>3, <2>3
  <2>5. Before(q) < ShardSize
    BY <1>3, <2>1, <2>3, <2>4
  <2> QED BY <2>1, <2>2, <2>5
<1>5. Shard \subseteq First /\ First \in SUBSET Questions /\ Shard \subseteq R
  BY <1>1, <1>4 DEF Shard
<1> HIDE DEF R, before
<1>6. IsFiniteSet(R) /\ ShardSize \in Nat
  BY <1>1, Sizes
<1>7. Cardinality(First) <= ShardSize
  BY <1>2, <1>6, FirstAreFew
<1> HIDE DEF First
<1>8. Cardinality(Shard) <= Cardinality(First) /\ Cardinality(Shard) \in Nat /\ Cardinality(First) \in Nat
  BY <1>5, Sizes
<1>9. Cardinality(Shard) * report \in Nat /\ Cardinality(Shard) <= Cardinality(Shard) * report
  BY <1>3, <1>8
<1> QED BY <1>3, <1>5, <1>7, <1>8, <1>9 DEF R

(***************************************************************************)
(* Every variable keeps its type, a command its shape and a batch its size.*)
(***************************************************************************)
LEMMA IdleShape == cmd' = Idle => cmd' \in Command /\ CmdShape'
<1> SUFFICES ASSUME cmd' = Idle PROVE cmd' \in Command /\ CmdShape'
  OBVIOUS
<1>1. cmd'.at = "idle" /\ cmd'.asks = {} /\ cmd'.amount = 0 /\ cmd' \in Command
  BY Sizes DEF Idle, Command
<1> QED BY <1>1 DEF CmdShape

\* A command goes on with something to ask, or something to record.
LEMMA GoesShape ==
  ASSUME NEW S \in SUBSET Questions, NEW n \in Nat, ceiling' = ceiling,
         NEW at \in {"create", "record_batch", "charge", "calls", "dry_charge", "report"}, Goes(at, S, n),
         at = "create" => Cardinality(S) <= ShardSize, at = "calls" => Cardinality(S) <= DryRunSize,
         at = "charge" => n <= Dear(ShardSize), at = "dry_charge" => n <= Dear(DryRunSize),
         at = "record_batch" => (Len(batches) \in DOMAIN batches /\ Len(batches) \notin Range(parts))'
  PROVE  cmd' \in Command /\ CmdShape'
<1>1. cmd'.at = at /\ cmd'.asks = S /\ cmd'.amount = n /\ cmd' \in Command
  BY DEF Goes, Command
<1> QED BY <1>1 DEF CmdShape, Dear

\* A step that leaves the batches and the job file alone.
LEMMA StandingShapes ==
  ASSUME Shapes, UNCHANGED <<batches, parts, ceiling>>, cmd' \in Command, CmdShape',
         retrieved' \subseteq questions', questions' \subseteq Questions,
         attempts' \in [Questions -> 0..AttemptBound],
         answers' \in [Questions -> Answer \union {None}],
         ledger' \in 0..(ceiling + 1), report' \in 0..Dearest[ceiling],
         bought' \in [Questions -> Nat], bill' \in Nat,
         faults' \in 0..MaxFaults, dryRuns' \in 0..MaxDryRuns, changes' \in 0..MaxChanges
  PROVE  Shapes'
<1>1. TypeOK'
  BY DEF Shapes, TypeOK
<1>2. BatchShape'
  BY DEF Shapes, BatchShape, Dear
<1> QED BY <1>1, <1>2 DEF Shapes

\* Of the questions and their answers, nothing but those is changed.
LEMMA DbShapes ==
  ASSUME Shapes, UNCHANGED <<openai, parts, ledger, report, cmd, faults, dryRuns>>,
         retrieved' \subseteq questions', questions' \subseteq Questions,
         attempts' \in [Questions -> 0..AttemptBound],
         answers' \in [Questions -> Answer \union {None}], changes' \in 0..MaxChanges
  PROVE  Shapes'
<1>1. cmd' \in Command /\ CmdShape'
  BY DEF Shapes, TypeOK, CmdShape, Dear, openai, paid
<1> QED BY <1>1, StandingShapes DEF Shapes, TypeOK, openai, paid

LEMMA AttachRetrievalShapes ==
  ASSUME Shapes, NEW limit, AttachRetrieval(limit) PROVE Shapes'
<1>1. retrieved' \subseteq questions' /\ questions' \subseteq Questions
  BY DEF AttachRetrieval, Shapes, TypeOK
<1> QED BY <1>1, DbShapes DEF AttachRetrieval, Shapes, TypeOK

LEMMA ChangesShapes == ASSUME Shapes, changes < MaxChanges, changes' = changes + 1
                       PROVE  changes' \in 0..MaxChanges
BY Sizes DEF Shapes, TypeOK

LEMMA ResetRetrievalShapes == ASSUME Shapes, ResetRetrieval PROVE Shapes'
<1>1. retrieved' \subseteq questions' /\ questions' \subseteq Questions
  BY DEF ResetRetrieval, Shapes, TypeOK
<1>2. changes' \in 0..MaxChanges
  BY ChangesShapes DEF ResetRetrieval
<1> QED BY <1>1, <1>2, DbShapes DEF ResetRetrieval, Shapes, TypeOK

\* A revalidation gives no answer and takes none away.
LEMMA Revalidates ==
  ASSUME TypeOK, Revalidate
  PROVE  /\ answers' \in [Questions -> Answer \union {None}]
         /\ \A q \in Questions : answers'[q] = None <=> answers[q] = None
<1> DEFINE stored == {q \in questions : answers[q] # None}
<1>1. PICK bad \in SUBSET stored :
        answers' = [q \in Questions |->
          IF q \in stored THEN [answers[q] EXCEPT !.poisoned = q \in bad] ELSE answers[q]]
  BY DEF Revalidate
<1>2. ASSUME NEW q \in Questions
      PROVE  /\ answers'[q] \in Answer \union {None}
             /\ answers'[q] = None <=> answers[q] = None
  <2>1. None \notin Answer
    BY TeacherAssumption DEF Answer
  <2>2. CASE q \in stored
    <3> DEFINE bit == q \in bad
    <3>1. answers[q] \in Answer /\ bit \in BOOLEAN
      BY <2>2 DEF TypeOK
    <3>2. answers'[q] = [answers[q] EXCEPT !.poisoned = bit]
      BY <1>1, <2>2
    <3> HIDE DEF bit, stored
    <3>3. answers'[q] \in Answer
      BY <3>1, <3>2 DEF Answer
    <3> QED BY <2>1, <3>1, <3>3
  <2>3. CASE q \notin stored
    BY <1>1, <2>3 DEF TypeOK
  <2> QED BY <2>2, <2>3
<1>3. answers' = [q \in Questions |-> answers'[q]]
  BY <1>1
<1> QED BY <1>2, <1>3

LEMMA RevalidateShapes == ASSUME Shapes, Revalidate PROVE Shapes'
<1>1. answers' \in [Questions -> Answer \union {None}]
  BY Revalidates DEF Shapes
<1>2. changes' \in 0..MaxChanges
  BY ChangesShapes DEF Revalidate
<1> QED BY <1>1, <1>2, DbShapes DEF Revalidate, Shapes, TypeOK

LEMMA DeleteShapes ==
  ASSUME Shapes, NEW retry, NEW dropped, Delete(retry, dropped),
         UNCHANGED <<openai, parts, ledger, report, cmd, faults, dryRuns, changes>>
  PROVE  Shapes'
<1>1. TypeOK
  BY DEF Shapes
<1> QED BY <1>1, Deletes, DbShapes DEF TypeOK

(***************************************************************************)
(* teacher dry-run.                                                        *)
(***************************************************************************)
\* What a probe deletes, and what it is about to ask.
LEMMA Probes ==
  ASSUME Shapes, NEW redo, DryRun(redo)
  PROVE  /\ attempts' \in [Questions -> 0..AttemptBound]
         /\ answers' \in [Questions -> Answer \union {None}]
         /\ \A q \in Questions : attempts'[q] \in {attempts[q], attempts[q] - 1}
         /\ \A q \in Questions : answers'[q] \in {answers[q], None}
         /\ dryRuns' \in 0..MaxDryRuns /\ dryRuns' = dryRuns + 1
         /\ faults' \in 0..MaxFaults
         /\ cmd = Idle /\ cmd' \in Command /\ CmdShape'
         /\ \/ cmd'.at = "calls" /\ ledger + DryReserve <= ceiling
            \/ cmd' = Idle
<1>1. PICK cleared : /\ answers' = [q \in Questions |-> IF q \in cleared THEN None ELSE answers[q]]
                     /\ attempts' = [q \in Questions |-> IF q \in cleared /\ attempts[q] > 0
                                                         THEN attempts[q] - 1 ELSE attempts[q]]
  BY DEF DryRun
<1>2. \A q \in Questions : attempts[q] \in 0..AttemptBound /\ answers[q] \in Answer \union {None}
  BY DEF Shapes, TypeOK
<1>3. attempts' \in [Questions -> 0..AttemptBound] /\ answers' \in [Questions -> Answer \union {None}]
  BY <1>1, <1>2, Sizes
<1>4. dryRuns' \in 0..MaxDryRuns /\ dryRuns' = dryRuns + 1
  BY Sizes DEF DryRun, Shapes, TypeOK
<1>5. cmd = Idle /\ UNCHANGED <<ceiling, batches, parts, ledger, retrieved, questions>>
  BY DEF DryRun, Starts, openai, paid
<1>6. ASSUME NEW S \in SUBSET Pending(answers'), Reserve(DryReserve),
             Cardinality(S) <= DryRunSize, Goes("calls", S, 0)
      PROVE  cmd' \in Command /\ CmdShape' /\ cmd'.at = "calls" /\ ledger + DryReserve <= ceiling
  <2>1. S \in SUBSET Questions
    BY <1>5 DEF Pending, Shapes, TypeOK
  <2> QED BY <1>5, <1>6, <2>1, GoesShape DEF Goes, Reserve
<1>7. ASSUME UNCHANGED cmd PROVE cmd' = Idle /\ cmd' \in Command /\ CmdShape'
  BY <1>5, <1>7, IdleShape
<1>8. /\ cmd' \in Command /\ CmdShape'
      /\ \/ cmd'.at = "calls" /\ ledger + DryReserve <= ceiling
         \/ cmd' = Idle
  BY <1>6, <1>7 DEF DryRun
<1>9. faults' \in 0..MaxFaults
  BY Faults DEF DryRun, Waits, Shapes, TypeOK
<1> QED BY <1>1, <1>3, <1>4, <1>5, <1>8, <1>9

LEMMA DryRunShapes == ASSUME Shapes, NEW redo, DryRun(redo) PROVE Shapes'
BY Probes, StandingShapes DEF DryRun, openai, paid, Shapes, TypeOK

\* What a command asks is questions, and few.
LEMMA AsksAre ==
  ASSUME Shapes
  PROVE  /\ cmd.asks \in SUBSET Questions /\ cmd.amount \in Nat
         /\ Cardinality(cmd.asks) \in Nat
<1>1. cmd.asks \in SUBSET Questions /\ cmd.amount \in Nat
  BY DEF Shapes, TypeOK, Command
<1> QED BY <1>1, Sizes

\* What the calls cost is paid, and is to be recorded.
LEMMA CallsCost ==
  ASSUME Shapes, Calls
  PROVE  \E n \in Nat :
           /\ Buy(cmd.asks, n) /\ Goes("dry_charge", cmd.asks, n)
           /\ n <= Dear(Cardinality(cmd.asks)) /\ n <= Dear(DryRunSize)
<1>1. TypeOK /\ cmd.asks \in SUBSET Questions /\ Cardinality(cmd.asks) \in Nat /\ cmd.at = "calls"
  BY AsksAre DEF Shapes, Calls
<1>2. PICK n \in Costs(cmd.asks) : Buy(cmd.asks, n) /\ Goes("dry_charge", cmd.asks, n)
  BY DEF Calls
<1>3. n \in Nat /\ n <= Dear(Cardinality(cmd.asks))
  BY <1>1, CostsAre
<1>4. Cardinality(cmd.asks) <= DryRunSize /\ DryRunSize \in Nat
  BY <1>1, Sizes DEF Shapes, CmdShape
<1>5. Dear(Cardinality(cmd.asks)) <= Dear(DryRunSize) /\ Dear(DryRunSize) \in Nat
      /\ Dear(Cardinality(cmd.asks)) \in Nat
  BY <1>1, <1>4, DearIs
<1> QED BY <1>2, <1>3, <1>5

LEMMA CallsShapes == ASSUME Shapes, Calls PROVE Shapes'
<1>1. TypeOK /\ cmd.asks \in SUBSET Questions /\ ceiling' = ceiling
  BY AsksAre DEF Shapes, Calls
<1>2. PICK bad : Store(cmd.asks, "dryrun", bad)
  BY DEF Calls
<1>3. PICK n \in Nat : Buy(cmd.asks, n) /\ Goes("dry_charge", cmd.asks, n) /\ n <= Dear(DryRunSize)
  BY CallsCost
<1>4. cmd' \in Command /\ CmdShape'
  BY <1>1, <1>3, GoesShape
<1>5. bought' \in [Questions -> Nat] /\ bill' \in Nat
  BY <1>1, <1>3, Bought
<1>6. /\ attempts' \in [Questions -> 0..AttemptBound]
      /\ answers' \in [Questions -> Answer \union {None}]
      /\ questions' = questions /\ retrieved' = retrieved
  BY <1>1, <1>2, Stores
<1> QED BY <1>4, <1>5, <1>6, StandingShapes DEF Calls, Shapes, TypeOK

\* What a call that fails leaves to pay.
LEMMA CallsFailCost ==
  ASSUME Shapes, CallsFail
  PROVE  \E S \in SUBSET cmd.asks : \E n \in Nat :
           /\ Buy(S, n) /\ n <= Dear(Cardinality(cmd.asks))
<1>1. TypeOK /\ cmd.asks \in SUBSET Questions /\ Cardinality(cmd.asks) \in Nat
  BY AsksAre DEF Shapes
<1>6. PICK S \in SUBSET cmd.asks : \E n \in Costs(S) : Buy(S, n)
  BY DEF CallsFail
<1>2. PICK n \in Costs(S) : Buy(S, n)
  BY <1>6
<1>3. S \in SUBSET Questions /\ Cardinality(S) \in Nat /\ Cardinality(S) <= Cardinality(cmd.asks)
  BY <1>1, Sizes
<1>4. n \in Nat /\ n <= Dear(Cardinality(S))
  BY <1>1, <1>3, CostsAre
<1>5. Dear(Cardinality(S)) <= Dear(Cardinality(cmd.asks)) /\ Dear(Cardinality(S)) \in Nat
      /\ Dear(Cardinality(cmd.asks)) \in Nat
  BY <1>1, <1>3, DearIs
<1> QED BY <1>2, <1>4, <1>5

LEMMA CallsFailShapes == ASSUME Shapes, CallsFail PROVE Shapes'
<1>1. TypeOK
  BY DEF Shapes
<1>2. bought' \in [Questions -> Nat] /\ bill' \in Nat /\ faults' \in 0..MaxFaults
  BY <1>1, CallsFailCost, Bought, Faults DEF CallsFail
<1>3. cmd' \in Command /\ CmdShape'
  BY IdleShape DEF CallsFail
<1> QED BY <1>2, <1>3, StandingShapes DEF CallsFail, db, Shapes, TypeOK

LEMMA DryChargeShapes == ASSUME Shapes, DryCharge PROVE Shapes'
<1>1. TypeOK /\ cmd.amount \in Nat /\ ceiling' = ceiling
  BY AsksAre DEF Shapes, DryCharge, openai, paid
<1>2. ledger' \in 0..(ceiling + 1)
  BY <1>1, Records DEF DryCharge
<1>3. cmd' \in Command /\ CmdShape'
  <2>1. CASE cmd' = Idle
    BY <2>1, IdleShape
  <2>2. CASE cmd' = [cmd EXCEPT !.at = "report"]
    <3>1. cmd \in Command
      BY <1>1 DEF TypeOK
    <3>2. cmd' \in Command /\ cmd'.at = "report"
      BY <2>2, <3>1 DEF Command
    <3> QED BY <3>2 DEF CmdShape
  <2> QED BY <2>1, <2>2 DEF DryCharge
<1> QED BY <1>2, <1>3, StandingShapes DEF DryCharge, db, openai, paid, Shapes, TypeOK

LEMMA ReportShapes == ASSUME Shapes, Report PROVE Shapes'
<1>1. cmd' \in Command /\ CmdShape'
  BY IdleShape DEF Report
<1>2. report' \in 0..Dearest[ceiling]
  <2>1. Dearest[ceiling] \in Nat
    BY TeacherAssumption DEF Shapes, TypeOK
  <2>2. report' \in 1..Dearest[ceiling]
    BY DEF Report
  <2> QED BY <2>1, <2>2
<1> QED BY <1>1, <1>2, StandingShapes DEF Report, db, openai, paid, Shapes, TypeOK

LEMMA ChargeShapes == ASSUME Shapes, Charge PROVE Shapes'
<1>1. TypeOK /\ cmd.amount \in Nat /\ ceiling' = ceiling
  BY AsksAre DEF Shapes, Charge, openai, paid
<1>2. ledger' \in 0..(ceiling + 1)
  BY <1>1, Records DEF Charge
<1>3. cmd' \in Command /\ CmdShape'
  BY IdleShape DEF Charge
<1> QED BY <1>2, <1>3, StandingShapes DEF Charge, db, openai, paid, Shapes, TypeOK

LEMMA KilledShapes == ASSUME Shapes, Killed PROVE Shapes'
<1>1. faults' \in 0..MaxFaults
  BY Faults DEF Shapes, Killed
<1>2. cmd' \in Command /\ CmdShape'
  BY IdleShape DEF Killed
<1> QED BY <1>1, <1>2, StandingShapes DEF Killed, db, openai, paid, Shapes, TypeOK

(***************************************************************************)
(* teacher submit and collect.                                             *)
(***************************************************************************)
LEMMA SubmitShapes == ASSUME Shapes, Submit PROVE Shapes'
<1>1. Shard \in SUBSET Questions /\ Cardinality(Shard) <= ShardSize /\ Goes("create", Shard, 0)
  BY ShardIsSmall DEF Shapes, Submit
<1>2. cmd' \in Command /\ CmdShape'
  BY <1>1, GoesShape DEF Submit, openai
<1>3. faults' \in 0..MaxFaults
  BY Faults DEF Submit, Waits, Shapes, TypeOK
<1> QED BY <1>2, <1>3, StandingShapes DEF Submit, db, openai, paid, Shapes, TypeOK

\* The batches there are, and those that a command can collect.
LEMMA BatchesAre ==
  ASSUME TypeOK
  PROVE  /\ Len(batches) \in Nat /\ DOMAIN batches = 1..Len(batches)
         /\ \A b \in DOMAIN batches : batches[b] \in Batch
         /\ Range(parts) \subseteq DOMAIN batches
<1>1. parts \in Seq(DOMAIN batches) /\ batches \in Seq(Batch)
  BY DEF TypeOK
<1> QED BY <1>1, LenProperties DEF Range

LEMMA CreateShapes == ASSUME Shapes, Create PROVE Shapes'
<1> DEFINE o == [asks |-> cmd.asks, status |-> "in_progress", collected |-> FALSE,
                 got |-> [q \in Questions |-> "error"], cost |-> 0]
<1>1. TypeOK /\ batches \in Seq(Batch) /\ parts \in Seq(DOMAIN batches) /\ IsInjective(parts)
  BY DEF Shapes, TypeOK
<1>2. o \in Batch /\ o.asks = cmd.asks /\ ~o.collected /\ o.cost = 0
  BY AsksAre DEF Batch, Outcomes
<1>3. Cardinality(cmd.asks) <= ShardSize /\ 0 <= Dear(ShardSize)
  <2>1. Dear(ShardSize) \in Nat
    BY <1>1, Sizes, DearIs
  <2> QED BY <2>1 DEF Create, Shapes, CmdShape
<1>4. batches' = Append(batches, o) /\ parts' = parts /\ ceiling' = ceiling
  BY DEF Create
<1> HIDE DEF o
<1>5. /\ batches' \in Seq(Batch) /\ Len(batches') = Len(batches) + 1
      /\ DOMAIN batches' = DOMAIN batches \union {Len(batches) + 1}
      /\ batches'[Len(batches) + 1] = o /\ \A b \in DOMAIN batches : batches'[b] = batches[b]
      /\ Len(batches) + 1 \notin DOMAIN batches
  <2>1. Len(batches) \in Nat /\ DOMAIN batches = 1..Len(batches)
    BY <1>1, BatchesAre
  <2> QED BY <1>1, <1>2, <1>4, <2>1, AppendProperties, LenProperties
<1>6. parts' \in Seq(DOMAIN batches')
  BY <1>1, <1>4, <1>5, SeqMonotonic
<1>7. cmd' \in Command /\ CmdShape'
  <2>1. Goes("record_batch", {}, 0)
    BY DEF Create
  <2>2. (Len(batches) \in DOMAIN batches /\ Len(batches) \notin Range(parts))'
    BY <1>1, <1>4, <1>5, BatchesAre
  <2> QED BY <1>4, <2>1, <2>2, GoesShape
<1>8. TypeOK'
  BY <1>1, <1>4, <1>5, <1>6, <1>7 DEF Create, db, paid, TypeOK
<1>9. BatchShape'
  BY <1>2, <1>3, <1>4, <1>5 DEF Shapes, BatchShape, Dear
<1> QED BY <1>7, <1>8, <1>9 DEF Shapes

\* The batch it has just created becomes a part.
LEMMA Recorded ==
  ASSUME Shapes, RecordBatch
  PROVE  /\ parts' \in Seq(DOMAIN batches) /\ IsInjective(parts')
         /\ Range(parts') = Range(parts) \union {Len(batches)}
<1> DEFINE n == Len(batches)
<1>1. /\ parts \in Seq(DOMAIN batches) /\ IsInjective(parts)
      /\ n \in DOMAIN batches /\ n \notin Range(parts) /\ parts' = Append(parts, n)
  BY DEF Shapes, TypeOK, CmdShape, RecordBatch
<1> HIDE DEF n
<1>2. Len(parts) \in Nat /\ DOMAIN parts = 1..Len(parts)
  BY <1>1, LenProperties
<1>3. /\ parts' \in Seq(DOMAIN batches) /\ DOMAIN parts' = 1..(Len(parts) + 1)
      /\ parts'[Len(parts) + 1] = n /\ \A i \in 1..Len(parts) : parts'[i] = parts[i]
  <2>1. parts' \in Seq(DOMAIN batches) /\ Len(parts') = Len(parts) + 1
    BY <1>1, AppendProperties
  <2> QED BY <1>1, <1>2, <2>1, AppendProperties, LenProperties
<1>4. \A i \in DOMAIN parts' : i = Len(parts) + 1 \/ i \in 1..Len(parts)
  BY <1>2, <1>3
<1>5. Range(parts') = Range(parts) \union {n}
  <2>1. Len(parts) + 1 \in DOMAIN parts' /\ DOMAIN parts \subseteq DOMAIN parts'
    BY <1>2, <1>3
  <2> QED BY <1>2, <1>3, <1>4, <2>1 DEF Range
<1>6. IsInjective(parts')
  <2> SUFFICES ASSUME NEW i \in DOMAIN parts', NEW j \in DOMAIN parts', parts'[i] = parts'[j]
               PROVE  i = j
    BY DEF IsInjective
  <2>1. \A k \in 1..Len(parts) : parts'[k] \in Range(parts) /\ parts'[k] # n
    BY <1>1, <1>2, <1>3 DEF Range
  <2>2. CASE i \in 1..Len(parts) /\ j \in 1..Len(parts)
    BY <1>1, <1>2, <1>3, <2>2 DEF IsInjective
  <2> QED BY <1>3, <1>4, <2>1, <2>2
<1> QED BY <1>3, <1>5, <1>6 DEF n

LEMMA RecordBatchShapes == ASSUME Shapes, RecordBatch PROVE Shapes'
<1>1. cmd' \in Command /\ CmdShape'
  BY IdleShape DEF RecordBatch
<1>2. batches' = batches /\ ceiling' = ceiling
  BY DEF RecordBatch, openai
<1>3. TypeOK'
  BY <1>1, <1>2, Recorded DEF RecordBatch, db, openai, paid, Shapes, TypeOK
<1>4. BatchShape'
  BY <1>2 DEF Shapes, BatchShape, Dear
<1> QED BY <1>1, <1>3, <1>4 DEF Shapes

\* One batch changes where it stands.
LEMMA BatchChanges ==
  ASSUME Shapes, NEW b \in DOMAIN batches, NEW o \in Batch, batches' = [batches EXCEPT ![b] = o],
         o.asks = batches[b].asks, o.collected => o.status = "completed",
         o.cost <= Dear(ShardSize), ceiling' = ceiling
  PROVE  /\ batches' \in Seq(Batch) /\ DOMAIN batches' = DOMAIN batches /\ Len(batches') = Len(batches)
         /\ batches'[b] = o /\ \A x \in DOMAIN batches \ {b} : batches'[x] = batches[x]
         /\ BatchShape'
<1>1. batches \in Seq(Batch)
  BY DEF Shapes, TypeOK
<1>2. batches' \in Seq(Batch) /\ Len(batches') = Len(batches)
  BY <1>1, ExceptSeq, LenProperties
<1>3. /\ DOMAIN batches' = DOMAIN batches
      /\ batches'[b] = o /\ \A x \in DOMAIN batches \ {b} : batches'[x] = batches[x]
  OBVIOUS
<1>4. BatchShape'
  BY <1>3 DEF Shapes, BatchShape, Dear
<1> QED BY <1>2, <1>3, <1>4

\* A batch that ends is no longer on order, and what was paid for was asked.
EndsAs(b, o, S, n) ==
  /\ batches' = [batches EXCEPT ![b] = o]
  /\ o.asks = batches[b].asks /\ ~o.collected /\ o.status \in {"completed", "lost"}
  /\ o.cost <= Dear(ShardSize)
  /\ Buy(S, n) /\ n <= Dear(Cardinality(o.asks))
  /\ \/ /\ UNCHANGED faults /\ n = o.cost
        /\ o.status = "completed" /\ S = o.asks /\ \A q \in S : o.got[q] \in Answered
     \/ Fault

LEMMA Ends ==
  ASSUME Shapes, NEW b \in DOMAIN batches, BatchEnds(b)
  PROVE  \E o \in Batch, S \in SUBSET batches[b].asks : \E n \in Nat : EndsAs(b, o, S, n)
<1> DEFINE A == batches[b].asks
<1>1. /\ batches[b] \in Batch /\ batches[b].status = "in_progress" /\ ~batches[b].collected /\ TypeOK
      /\ Cardinality(A) <= ShardSize /\ batches[b].cost <= Dear(ShardSize)
  BY BatchesAre DEF Shapes, TypeOK, BatchShape, BatchEnds
<1>2. A \in SUBSET Questions /\ Cardinality(A) \in Nat /\ ShardSize \in Nat
  BY <1>1, Sizes DEF Batch
<1>3. /\ Dear(Cardinality(A)) <= Dear(ShardSize) /\ Dear(Cardinality(A)) \in Nat
      /\ Dear(ShardSize) \in Nat
  BY <1>1, <1>2, DearIs
<1>4. ASSUME NEW got \in [Questions -> Outcomes],
             LET made == {q \in Questions : got[q] # "error"}
                 parsed == {q \in Questions : got[q] \in Answered}
             IN  /\ made # {} /\ made \subseteq batches[b].asks
                 /\ \E cost \in Costs(parsed), unread \in Costs(made \ parsed) :
                      /\ batches' = [batches EXCEPT ![b] = [asks |-> @.asks, status |-> "completed",
                                       got |-> got, cost |-> cost, collected |-> @.collected]]
                      /\ Buy(made, cost + unread)
                 /\ IF parsed = batches[b].asks THEN UNCHANGED faults ELSE Fault
      PROVE  \E o \in Batch, S \in SUBSET A : \E n \in Nat : EndsAs(b, o, S, n)
  <2> DEFINE made == {q \in Questions : got[q] # "error"}
             parsed == {q \in Questions : got[q] \in Answered}
  <2>1. PICK cost \in Costs(parsed), unread \in Costs(made \ parsed) :
          /\ batches' = [batches EXCEPT ![b] = [asks |-> A, status |-> "completed",
                           got |-> got, cost |-> cost, collected |-> batches[b].collected]]
          /\ Buy(made, cost + unread)
    BY <1>4
  <2>2. made \subseteq A /\ IF parsed = A THEN UNCHANGED faults ELSE Fault
    BY <1>4
  <2>3. parsed \subseteq made /\ (\A q \in parsed : got[q] \in Answered)
    BY DEF Answered
  <2> HIDE DEF made, parsed
  <2>4. /\ parsed \in SUBSET Questions /\ made \ parsed \in SUBSET Questions
        /\ made \in SUBSET Questions
    BY <1>2, <2>2, <2>3
  <2>5. /\ Cardinality(parsed) \in Nat /\ Cardinality(made \ parsed) \in Nat /\ Cardinality(made) \in Nat
        /\ Cardinality(made) <= Cardinality(A) /\ Cardinality(parsed) <= Cardinality(A)
    BY <1>2, <2>2, <2>3, <2>4, Sizes
  <2>6. Cardinality(parsed) + Cardinality(made \ parsed) = Cardinality(made)
    <3>1. IsFiniteSet(made) /\ parsed = made \intersect parsed
      BY <2>3, <2>4, Sizes
    <3>2. Cardinality(made \ parsed) = Cardinality(made) - Cardinality(made \intersect parsed)
      BY <3>1, FS_Difference
    <3>3. Cardinality(made \intersect parsed) = Cardinality(parsed)
      BY <3>1, Zenon
    <3> QED BY <2>5, <3>2, <3>3
  <2>7. /\ cost \in Nat /\ cost <= Dear(Cardinality(parsed))
        /\ unread \in Nat /\ unread <= Dear(Cardinality(made \ parsed))
    BY <1>1, <2>4, CostsAre
  <2>8. /\ Dear(Cardinality(parsed)) + Dear(Cardinality(made \ parsed)) = Dear(Cardinality(made))
        /\ Dear(Cardinality(made)) <= Dear(Cardinality(A))
        /\ Dear(Cardinality(parsed)) <= Dear(Cardinality(A))
        /\ Dear(Cardinality(parsed)) \in Nat /\ Dear(Cardinality(made \ parsed)) \in Nat
    BY <1>1, <1>2, <2>5, <2>6, DearIs
  <2>9. cost + unread \in Nat /\ cost + unread <= Dear(Cardinality(A)) /\ cost <= Dear(Cardinality(A))
        /\ cost <= Dear(ShardSize)
    BY <1>3, <2>7, <2>8
  <2> DEFINE o == [asks |-> A, status |-> "completed", got |-> got, cost |-> cost,
                   collected |-> batches[b].collected]
  <2>10. /\ o \in Batch /\ o.asks = A /\ ~o.collected /\ o.status = "completed"
         /\ o.got = got /\ o.cost = cost
    BY <1>1, <2>7 DEF Batch
  <2>11. batches' = [batches EXCEPT ![b] = o]
    BY <2>1
  <2>12. parsed = A => made = A /\ cost + unread = cost
    <3> SUFFICES ASSUME parsed = A PROVE made = A /\ cost + unread = cost
      OBVIOUS
    <3>1. made = A /\ made \ parsed = {}
      BY <2>2, <2>3
    <3>2. unread \in Costs({}) /\ Cardinality({}) = 0 /\ Dear(0) = 0
      BY <1>1, <3>1, Sizes, DearIs
    <3>3. unread <= Dear(0)
      BY <2>7, <3>1, <3>2
    <3> QED BY <2>7, <3>1, <3>2, <3>3
  <2> HIDE DEF o, A
  <2>13. EndsAs(b, o, made, cost + unread)
    <3>1. CASE parsed = A
      BY <2>1, <2>2, <2>3, <2>9, <2>10, <2>11, <2>12, <3>1 DEF EndsAs, A
    <3>2. CASE parsed # A
      BY <2>1, <2>2, <2>9, <2>10, <2>11, <3>2 DEF EndsAs, A
    <3> QED BY <3>1, <3>2
  <2> QED BY <2>2, <2>9, <2>10, <2>13
<1>5. ASSUME batches' = [batches EXCEPT ![b].status = "lost"],
             NEW S \in SUBSET batches[b].asks, NEW n \in Costs(S), Buy(S, n), Fault
      PROVE  \E o \in Batch, T \in SUBSET A : \E m \in Nat : EndsAs(b, o, T, m)
  <2> DEFINE l == [batches[b] EXCEPT !.status = "lost"]
  <2>1. /\ l \in Batch /\ l.asks = A /\ ~l.collected /\ l.status = "lost" /\ l.cost = batches[b].cost
    BY <1>1 DEF Batch
  <2>2. batches' = [batches EXCEPT ![b] = l]
    BY <1>5
  <2>3. S \in SUBSET Questions /\ Cardinality(S) \in Nat /\ Cardinality(S) <= Cardinality(A)
    BY <1>2, Sizes
  <2>4. n \in Nat /\ n <= Dear(Cardinality(S)) /\ Dear(Cardinality(S)) <= Dear(Cardinality(A))
        /\ Dear(Cardinality(S)) \in Nat
    BY <1>1, <1>2, <2>3, CostsAre, DearIs
  <2>5. n <= Dear(Cardinality(A))
    BY <1>3, <2>4
  <2> HIDE DEF l, A
  <2> QED BY <1>1, <1>5, <2>1, <2>2, <2>4, <2>5 DEF EndsAs, A
<1> QED BY <1>4, <1>5 DEF BatchEnds

LEMMA BatchEndsShapes == ASSUME Shapes, NEW b \in DOMAIN batches, BatchEnds(b) PROVE Shapes'
<1>1. PICK o \in Batch, S \in SUBSET batches[b].asks : \E n \in Nat : EndsAs(b, o, S, n)
  BY Ends
<1>2. PICK n \in Nat : EndsAs(b, o, S, n)
  BY <1>1
<1>3. TypeOK /\ ceiling' = ceiling
  BY DEF Shapes, BatchEnds
<1>4. /\ batches' \in Seq(Batch) /\ DOMAIN batches' = DOMAIN batches /\ Len(batches') = Len(batches)
      /\ BatchShape'
  BY <1>2, <1>3, BatchChanges DEF EndsAs
<1>5. bought' \in [Questions -> Nat] /\ bill' \in Nat /\ faults' \in 0..MaxFaults
  <2>1. faults \in 0..MaxFaults
    BY <1>3 DEF TypeOK
  <2> QED BY <1>2, <1>3, <2>1, Bought, Faults DEF EndsAs
<1>6. CmdShape' /\ TypeOK'
  <2>1. CmdShape'
    BY <1>3, <1>4 DEF BatchEnds, Shapes, CmdShape, Dear
  <2> QED BY <1>3, <1>4, <1>5, <2>1 DEF BatchEnds, TypeOK, db
<1> QED BY <1>4, <1>6 DEF Shapes

Answers(o) == {q \in o.asks : o.got[q] \in Answered}

\* What a collect stores, and that the batch is marked.
LEMMA Collects ==
  ASSUME Shapes, NEW n, Collect(n)
  PROVE  LET b == parts[n]
             S == Answers(batches[b])
             o == [batches[b] EXCEPT !.collected = TRUE]
         IN  /\ b \in DOMAIN batches /\ b \in Range(parts) /\ batches[b].status = "completed"
             /\ S \in SUBSET Questions /\ S \subseteq batches[b].asks /\ cmd = Idle
             /\ o \in Batch /\ o.asks = batches[b].asks /\ o.got = batches[b].got
             /\ o.cost = batches[b].cost /\ o.cost \in Nat
             /\ o.status = "completed" /\ o.collected
             /\ batches' = [batches EXCEPT ![b] = o]
             /\ \E bad : Store(S \intersect questions, "batch", bad)
             /\ Goes("charge", {}, batches[b].cost)
             /\ cmd' \in Command /\ CmdShape'
             /\ UNCHANGED <<ceiling, bought, bill, parts, ledger, report, dryRuns, changes>>
             /\ IF batches[b].collected THEN Fault ELSE UNCHANGED faults
<1> DEFINE b == parts[n]
           S == Answers(batches[b])
           o == [batches[b] EXCEPT !.collected = TRUE]
<1>1. /\ n \in DOMAIN parts /\ batches[b].status = "completed" /\ cmd = Idle
      /\ Goes("charge", {}, batches[b].cost)
      /\ batches' = [batches EXCEPT ![b] = o]
      /\ UNCHANGED <<ceiling, bought, bill, parts, ledger, report, dryRuns, changes>>
      /\ IF batches[b].collected THEN Fault ELSE UNCHANGED faults
  BY DEF Collect, Answers, Starts, paid
<1>2. \E bad : Store(S \intersect questions, "batch", bad)
  BY DEF Collect, Answers
<1>3. b \in DOMAIN batches /\ b \in Range(parts) /\ batches[b] \in Batch
  <2>1. b \in Range(parts)
    BY <1>1 DEF Range
  <2> QED BY <2>1, BatchesAre DEF Shapes
<1>4. o \in Batch /\ o.asks = batches[b].asks /\ o.got = batches[b].got
      /\ o.status = "completed" /\ o.collected /\ o.cost = batches[b].cost /\ o.cost \in Nat
  BY <1>1, <1>3 DEF Batch
<1>5. S \in SUBSET Questions /\ S \subseteq batches[b].asks /\ batches[b].asks \in SUBSET Questions
  BY <1>3 DEF Answers, Batch
<1> HIDE DEF b, S, o
<1>6. cmd' \in Command /\ CmdShape'
  <2>1. batches[b].cost <= Dear(ShardSize)
    BY <1>3 DEF Shapes, BatchShape
  <2> QED BY <1>1, <1>4, <2>1, GoesShape
<1> QED BY <1>1, <1>2, <1>3, <1>4, <1>5, <1>6 DEF b, S, o

LEMMA CollectShapes == ASSUME Shapes, NEW n, Collect(n) PROVE Shapes'
<1> DEFINE b == parts[n]
           S == Answers(batches[b])
           o == [batches[b] EXCEPT !.collected = TRUE]
<1>1. /\ b \in DOMAIN batches /\ o \in Batch /\ o.asks = batches[b].asks /\ o.status = "completed"
      /\ batches' = [batches EXCEPT ![b] = o] /\ S \in SUBSET Questions
      /\ cmd' \in Command /\ CmdShape' /\ o.cost <= Dear(ShardSize)
      /\ UNCHANGED <<ceiling, bought, bill, parts, ledger, report, dryRuns, changes>>
      /\ IF batches[b].collected THEN Fault ELSE UNCHANGED faults
  BY Collects DEF Shapes, BatchShape
<1>2. PICK bad : Store(S \intersect questions, "batch", bad)
  BY Collects
<1> HIDE DEF b, S, o
<1>3. batches' \in Seq(Batch) /\ DOMAIN batches' = DOMAIN batches /\ BatchShape'
  BY <1>1, BatchChanges
<1>4. TypeOK /\ S \intersect questions \in SUBSET Questions
  BY <1>1 DEF Shapes
<1>5. /\ attempts' \in [Questions -> 0..AttemptBound]
      /\ answers' \in [Questions -> Answer \union {None}]
      /\ questions' = questions /\ retrieved' = retrieved
  BY <1>2, <1>4, Stores
<1>6. faults' \in 0..MaxFaults
  BY <1>1, <1>4, Faults DEF TypeOK
<1>7. TypeOK'
  BY <1>1, <1>3, <1>4, <1>5, <1>6 DEF TypeOK
<1> QED BY <1>1, <1>3, <1>7 DEF Shapes

LEMMA ShapesInductive == Shapes /\ [Next]_vars => Shapes'
<1> SUFFICES ASSUME Shapes, [Next]_vars PROVE Shapes'
  OBVIOUS
<1>1. CASE \E limit \in 1..Cardinality(Questions) : AttachRetrieval(limit)
  BY <1>1, AttachRetrievalShapes
<1>2. CASE ResetRetrieval \/ Revalidate
  BY <1>2, ResetRetrievalShapes, RevalidateShapes
<1>3. CASE \E redo \in BOOLEAN : DryRun(redo)
  BY <1>3, DryRunShapes
<1>4. CASE Calls \/ CallsFail \/ DryCharge \/ Report
  BY <1>4, CallsShapes, CallsFailShapes, DryChargeShapes, ReportShapes
<1>5. CASE Submit \/ Create \/ RecordBatch
  BY <1>5, SubmitShapes, CreateShapes, RecordBatchShapes
<1>6. CASE \E b \in DOMAIN batches : BatchEnds(b)
  BY <1>6, BatchEndsShapes
<1>7. CASE \E n \in DOMAIN parts : Collect(n)
  BY <1>7, CollectShapes
<1>8. CASE Charge \/ Killed
  BY <1>8, ChargeShapes, KilledShapes
<1>9. CASE Regenerate \/ DropInvalidQuestions
  BY <1>9, DeleteShapes DEF Regenerate, DropInvalidQuestions
<1>10. CASE UNCHANGED vars
  BY <1>10 DEF vars, Shapes, TypeOK, CmdShape, BatchShape, Dear
<1> QED BY <1>1, <1>2, <1>3, <1>4, <1>5, <1>6, <1>7, <1>8, <1>9, <1>10 DEF Next

LEMMA ShapesHold == Spec => []Shapes
<1> QED BY InitShapes, ShapesInductive, PTL DEF Spec

\* Every variable keeps its type.
THEOREM TeacherTyped == Spec => []TypeOK
<1>1. Shapes => TypeOK
  BY DEF Shapes
<1> QED BY <1>1, ShapesHold, PTL

(***************************************************************************)
(* What is on order, and what a command has still to collect and record.   *)
(***************************************************************************)
Asked(o) == IF o.status = "in_progress" THEN o.asks ELSE {}

\* What a batch can still bring in: all it asks, or the answers it has given.
Awaited(o) ==
  IF o.status = "in_progress" THEN o.asks
  ELSE IF o.status = "completed" /\ ~o.collected THEN Answers(o) ELSE {}

\* And what it will have the ledger record, at the dearest.
Price(o) ==
  IF o.status = "in_progress" THEN Dear(Cardinality(o.asks))
  ELSE IF o.status = "completed" /\ ~o.collected THEN o.cost ELSE 0

\* The batches a command can collect, or is about to write down.
Tracked == Range(parts) \union (IF cmd.at = "record_batch" THEN {Len(batches)} ELSE {})

OnOrder == [b \in DOMAIN batches |-> Asked(batches[b])]
Expected == [b \in DOMAIN batches |-> IF b \in Tracked THEN Awaited(batches[b]) ELSE {}]
Prices == [b \in DOMAIN batches |-> IF b \in Tracked THEN Price(batches[b]) ELSE 0]
Planned == IF cmd.at \in {"create", "calls"} THEN cmd.asks ELSE {}

Ordered == Total(OnOrder)
Owed == SumFunctionOnSet(Prices, DOMAIN batches)
Due == IF cmd.at \in {"charge", "dry_charge"} THEN cmd.amount ELSE 0

LEMMA AwaitedIs ==
  ASSUME NEW o \in Batch
  PROVE  /\ Asked(o) \in SUBSET Questions /\ Awaited(o) \in SUBSET Questions
         /\ o.asks \in SUBSET Questions /\ Awaited(o) \subseteq o.asks
         /\ o.status = "completed" => Asked(o) = {} /\ Awaited(o) = IF o.collected THEN {} ELSE Answers(o)
         /\ o.status = "lost" => Asked(o) = {} /\ Awaited(o) = {}
         /\ o.status = "in_progress" => Asked(o) = o.asks /\ Awaited(o) = o.asks
BY DEF Batch, Asked, Awaited, Answers

LEMMA PriceIs ==
  ASSUME TypeOK, NEW o \in Batch
  PROVE  /\ Price(o) \in Nat
         /\ o.status = "in_progress" => Price(o) = Dear(Cardinality(o.asks))
         /\ o.status = "completed" => Price(o) = IF o.collected THEN 0 ELSE o.cost
         /\ o.status = "lost" => Price(o) = 0
<1>1. o.asks \in SUBSET Questions /\ o.cost \in Nat
  BY DEF Batch
<1>2. Cardinality(o.asks) \in Nat
  BY <1>1, Sizes
<1>3. Dear(Cardinality(o.asks)) \in Nat
  BY <1>2, DearIs
<1> QED BY <1>1, <1>3 DEF Price

LEMMA OrdersAre ==
  ASSUME Shapes
  PROVE  /\ IsFiniteSet(DOMAIN batches)
         /\ Family(Questions, DOMAIN batches, OnOrder)
         /\ Family(Questions, DOMAIN batches, Expected)
         /\ Ordered \in Nat /\ Owed \in Nat /\ InProgress = Ordered
         /\ \A b \in DOMAIN batches : Prices[b] \in Nat
         /\ \A q : Times(OnOrder, q) \in Nat /\ Times(Expected, q) \in Nat
<1>1. Len(batches) \in Nat /\ DOMAIN batches = 1..Len(batches) /\ \A b \in DOMAIN batches : batches[b] \in Batch
  BY BatchesAre DEF Shapes
<1>2. IsFiniteSet(DOMAIN batches) /\ IsFiniteSet(Questions)
  BY <1>1, FS_Interval, TeacherAssumption
<1>3. /\ Family(Questions, DOMAIN batches, OnOrder)
      /\ Family(Questions, DOMAIN batches, Expected)
  BY <1>1, <1>2, AwaitedIs DEF OnOrder, Expected, Family
<1>4. Ordered \in Nat /\ \A q : Times(OnOrder, q) \in Nat
  BY <1>3, FamilyType DEF Ordered
<1>5. \A q : Times(Expected, q) \in Nat
  BY <1>3, FamilyType
<1>7. \A b \in DOMAIN batches : Prices[b] \in Nat
  BY <1>1, PriceIs DEF Prices, Shapes
<1>8. Owed \in Nat
  <2> DEFINE D == DOMAIN batches
             f == Prices
  <2>1. IsFiniteSet(D) /\ \A b \in D : f[b] \in Nat
    BY <1>2, <1>7
  <2> HIDE DEF D, f
  <2>2. SumFunctionOnSet(f, D) \in Nat
    BY <2>1, SumOfNaturals
  <2> QED BY <2>2 DEF Owed, D, f
<1>6. InProgress = Ordered
  <2> DEFINE f == [b \in DOMAIN batches |->
                     IF batches[b].status = "in_progress" THEN Cardinality(batches[b].asks) ELSE 0]
             g == [b \in DOMAIN OnOrder |-> Cardinality(OnOrder[b])]
  <2>1. DOMAIN OnOrder = DOMAIN batches
    BY DEF OnOrder
  <2>2. \A b \in DOMAIN batches : f[b] = g[b]
    BY <2>1, FS_EmptySet DEF OnOrder, Asked
  <2>3. f = g /\ DOMAIN f = DOMAIN OnOrder
    BY <2>1, <2>2
  <2> QED BY <2>3 DEF InProgress, Ordered, Total, SumFunction
<1> QED BY <1>2, <1>3, <1>4, <1>5, <1>6, <1>7, <1>8

\* It is a number in the next state too.
OrdersTyped == Ordered \in Nat /\ Owed \in Nat

LEMMA NextOrdersTyped == Shapes' => OrdersTyped'
<1>1. Shapes => OrdersTyped
  BY OrdersAre DEF OrdersTyped
<1> QED BY <1>1, PTL

LEMMA NextOrdersAre == Shapes' => Ordered' \in Nat /\ Owed' \in Nat
BY NextOrdersTyped DEF OrdersTyped

(***************************************************************************)
(* How each step changes what is on order and what is expected.            *)
(***************************************************************************)
LEMMA OrdersStand ==
  ASSUME UNCHANGED <<batches, parts>>, cmd.at # "record_batch", cmd'.at # "record_batch"
  PROVE  UNCHANGED <<OnOrder, Expected, Ordered>>
BY DEF Tracked, OnOrder, Expected, Ordered

LEMMA NextPrices ==
  ASSUME ceiling' = ceiling
  PROVE  /\ Prices' = [b \in DOMAIN batches' |-> IF b \in Tracked' THEN Price(batches'[b]) ELSE 0]
         /\ Owed' = SumFunctionOnSet(Prices', DOMAIN batches')
BY DEF Prices, Price, Dear, Owed

LEMMA OwedStands ==
  ASSUME UNCHANGED <<batches, parts, ceiling>>, cmd.at # "record_batch", cmd'.at # "record_batch"
  PROVE  UNCHANGED Owed
<1>1. Prices' = Prices
  BY NextPrices DEF Prices, Tracked
<1> QED BY <1>1, NextPrices DEF Owed

LEMMA OrdersAfterCreate ==
  ASSUME Shapes, Create
  PROVE  /\ Ordered' = Ordered + Cardinality(cmd.asks) /\ Owed' = Owed + Dear(Cardinality(cmd.asks))
         /\ \A q : /\ Times(OnOrder', q) = Times(OnOrder, q) + (IF q \in cmd.asks THEN 1 ELSE 0)
                   /\ Times(Expected', q) = Times(Expected, q) + (IF q \in cmd.asks THEN 1 ELSE 0)
<1> DEFINE D == DOMAIN batches
           x == Len(batches) + 1
           E == D \union {x}
           o == [asks |-> cmd.asks, status |-> "in_progress", collected |-> FALSE,
                 got |-> [q \in Questions |-> "error"], cost |-> 0]
<1>1. Shapes' /\ batches' = Append(batches, o) /\ parts' = parts /\ cmd.at = "create"
      /\ cmd'.at = "record_batch" /\ ceiling' = ceiling /\ TypeOK
  BY CreateShapes DEF Create, Goes, Shapes
<1>2. o \in Batch /\ o.asks = cmd.asks /\ o.status = "in_progress"
  BY AsksAre DEF Batch, Outcomes
<1> HIDE DEF o
<1>3. /\ DOMAIN batches' = D \union {x} /\ x \notin D /\ Len(batches') = x
      /\ batches'[x] = o /\ \A b \in D : batches'[b] = batches[b]
  <2>1. Len(batches) \in Nat /\ D = 1..Len(batches) /\ batches \in Seq(Batch)
    BY BatchesAre DEF Shapes, TypeOK
  <2> QED BY <1>1, <1>2, <2>1, AppendProperties, LenProperties
<1>4. Range(parts) \subseteq D
  BY BatchesAre DEF Shapes
<1>5. Family(Questions, E, OnOrder') /\ Family(Questions, E, Expected')
  <2>1. ASSUME NEW b \in D \union {x} PROVE batches'[b] \in Batch
    BY <1>2, <1>3, BatchesAre DEF Shapes
  <2>2. IsFiniteSet(E) /\ IsFiniteSet(Questions)
    BY OrdersAre, FS_AddElement, TeacherAssumption
  <2>3. OnOrder' \in [E -> SUBSET Questions] /\ Expected' \in [E -> SUBSET Questions]
    BY <1>3, <2>1, AwaitedIs DEF OnOrder, Expected
  <2> QED BY <2>2, <2>3 DEF Family
<1>6. Tracked' = Range(parts) \union {x} /\ Tracked = Range(parts)
  BY <1>1, <1>3 DEF Tracked
<1>7. /\ OnOrder'[x] = cmd.asks /\ \A b \in D : OnOrder'[b] = OnOrder[b]
      /\ Expected'[x] = cmd.asks /\ \A b \in D : Expected'[b] = Expected[b]
  <2>1. Asked(o) = cmd.asks /\ Awaited(o) = cmd.asks
    BY <1>2, AwaitedIs
  <2>2. \A b \in D : b # x
    BY <1>3
  <2> QED BY <1>3, <1>4, <1>6, <2>1, <2>2 DEF OnOrder, Expected
<1>8. /\ Family(Questions, D, OnOrder) /\ Family(Questions, D, Expected)
      /\ E = D \union {x} /\ x \notin D
  BY <1>3, OrdersAre
<1>13. Owed' = Owed + Dear(Cardinality(cmd.asks))
  <2> DEFINE f == Prices
             g == Prices'
  <2>1. Price(o) = Dear(Cardinality(cmd.asks)) /\ Price(o) \in Nat
    BY <1>1, <1>2, PriceIs
  <2>2. g = [b \in E |-> IF b \in Tracked' THEN Price(batches'[b]) ELSE 0]
    BY <1>1, <1>3, NextPrices
  <2>3. \A b \in D : f[b] \in Nat
    BY OrdersAre
  <2>4. \A b \in D : b # x /\ g[b] = f[b]
    BY <1>3, <1>4, <1>6, <2>2 DEF Prices
  <2>5. g[x] = Dear(Cardinality(cmd.asks))
    BY <1>3, <1>6, <2>1, <2>2
  <2>6. Owed' = SumFunctionOnSet(g, E) /\ Owed = SumFunctionOnSet(f, D)
    BY <1>1, <1>3, NextPrices DEF Owed
  <2>7. IsFiniteSet(D) /\ x \notin D /\ E = D \union {x}
    BY <1>8, OrdersAre
  <2> HIDE DEF D, x, E, f, g
  <2>8. \A b \in D \union {x} : g[b] \in Int
    BY <2>1, <2>3, <2>4, <2>5
  <2>9. SumFunctionOnSet(g, E) = g[x] + SumFunctionOnSet(g, D)
    BY <2>7, <2>8, SumOfMore
  <2>10. SumFunctionOnSet(f, D) = SumFunctionOnSet(g, D) /\ SumFunctionOnSet(f, D) \in Int
    <3>1. \A b \in D : f[b] \in Int /\ f[b] = g[b]
      BY <2>3, <2>4
    <3> QED BY <2>7, <3>1, SumOfSame, SumType
  <2> QED BY <2>1, <2>5, <2>6, <2>9, <2>10
<1> HIDE DEF D, x, E
<1>9. Ordered' = Ordered + Cardinality(cmd.asks)
  BY <1>5, <1>7, <1>8, FamilyGrown DEF Ordered
<1>11. ASSUME NEW q PROVE Times(OnOrder', q) = Times(OnOrder, q) + (IF q \in cmd.asks THEN 1 ELSE 0)
  BY <1>5, <1>7, <1>8, FamilyGrown
<1>12. ASSUME NEW q PROVE Times(Expected', q) = Times(Expected, q) + (IF q \in cmd.asks THEN 1 ELSE 0)
  BY <1>5, <1>7, <1>8, FamilyGrown
<1> QED BY <1>9, <1>11, <1>12, <1>13

LEMMA OrdersAfterRecord ==
  ASSUME Shapes, RecordBatch
  PROVE  UNCHANGED <<OnOrder, Expected, Ordered, Owed>>
<1>1. Tracked' = Tracked /\ batches' = batches /\ ceiling' = ceiling
  <2>1. Range(parts') = Range(parts) \union {Len(batches)} /\ cmd.at = "record_batch" /\ cmd'.at # "record_batch"
    BY Recorded DEF RecordBatch, Idle
  <2> QED BY <2>1 DEF RecordBatch, openai, paid, Tracked
<1>2. Owed' = Owed
  BY <1>1, NextPrices DEF Prices, Owed
<1> QED BY <1>1, <1>2 DEF OnOrder, Expected, Ordered

\* One batch takes the place of another, which is how a batch ends or is collected.
Becomes(b, o) ==
  /\ Shapes /\ Shapes' /\ b \in DOMAIN batches /\ o \in Batch
  /\ batches' = [batches EXCEPT ![b] = o] /\ Tracked' = Tracked /\ ceiling' = ceiling

Hoped(b, o) == IF b \in Tracked THEN Awaited(o) ELSE {}
PriceOf(b, o) == IF b \in Tracked THEN Price(o) ELSE 0

LEMMA OrdersAfterChange ==
  ASSUME NEW b, NEW o, Becomes(b, o)
  PROVE  /\ Ordered' = Ordered - Cardinality(Asked(batches[b])) + Cardinality(Asked(o))
         /\ Owed' = Owed - PriceOf(b, batches[b]) + PriceOf(b, o)
         /\ \A q : /\ Times(OnOrder', q) = Times(OnOrder, q) - (IF q \in Asked(batches[b]) THEN 1 ELSE 0)
                                                              + (IF q \in Asked(o) THEN 1 ELSE 0)
                   /\ Times(Expected', q) = Times(Expected, q) - (IF q \in Hoped(b, batches[b]) THEN 1 ELSE 0)
                                                                + (IF q \in Hoped(b, o) THEN 1 ELSE 0)
<1> DEFINE D == DOMAIN batches
<1>1. /\ Shapes /\ Shapes' /\ b \in D /\ o \in Batch /\ Tracked' = Tracked /\ ceiling' = ceiling
      /\ DOMAIN batches' = D /\ batches'[b] = o /\ \A x \in D \ {b} : batches'[x] = batches[x]
  BY DEF Becomes
<1>2. Family(Questions, D, OnOrder) /\ Family(Questions, D, Expected)
  BY <1>1, OrdersAre
<1>3. Family(Questions, D, OnOrder') /\ Family(Questions, D, Expected')
  <2>1. \A x \in D : batches'[x] \in Batch
    BY <1>1, BatchesAre DEF Shapes
  <2>2. OnOrder' \in [D -> SUBSET Questions] /\ Expected' \in [D -> SUBSET Questions]
    BY <1>1, <2>1, AwaitedIs DEF OnOrder, Expected
  <2> QED BY <1>2, <2>2 DEF Family
<1>4. /\ OnOrder[b] = Asked(batches[b]) /\ OnOrder'[b] = Asked(o)
      /\ DifferAt(b, D, OnOrder, OnOrder')
  BY <1>1 DEF OnOrder, DifferAt
<1>5. /\ Expected[b] = Hoped(b, batches[b]) /\ Expected'[b] = Hoped(b, o)
      /\ DifferAt(b, D, Expected, Expected')
  BY <1>1 DEF Expected, Hoped, DifferAt
<1>7. Owed' = Owed - PriceOf(b, batches[b]) + PriceOf(b, o)
  <2> DEFINE f == Prices
             g == Prices'
  <2>1. g = [x \in D |-> IF x \in Tracked THEN Price(batches'[x]) ELSE 0]
    BY <1>1, NextPrices
  <2>2. /\ f[b] = PriceOf(b, batches[b]) /\ g[b] = PriceOf(b, o)
        /\ \A x \in D \ {b} : f[x] = g[x]
    BY <1>1, <2>1 DEF Prices, PriceOf
  <2>3. IsFiniteSet(D) /\ \A x \in D : f[x] \in Nat
    BY <1>1, OrdersAre
  <2>4. g[b] \in Nat
    BY <1>1, <2>2, PriceIs DEF PriceOf, Shapes
  <2>5. Owed' = SumFunctionOnSet(g, D) /\ Owed = SumFunctionOnSet(f, D)
    BY <1>1, NextPrices DEF Owed
  <2> HIDE DEF D, f, g
  <2>6. \A x \in D : f[x] \in Int /\ g[x] \in Int
    BY <2>2, <2>3, <2>4
  <2>7. SumFunctionOnSet(g, D) = SumFunctionOnSet(f, D) - f[b] + g[b]
    BY <1>1, <2>2, <2>3, <2>6, SumOfChanged
  <2> QED BY <2>2, <2>5, <2>7
<1> HIDE DEF D
<1>6. Ordered' = Ordered - Cardinality(OnOrder[b]) + Cardinality(OnOrder'[b])
  BY <1>2, <1>3, <1>4, FamilyChanged DEF Ordered
<1>8. ASSUME NEW q
      PROVE  Times(OnOrder', q) = Times(OnOrder, q) - (IF q \in OnOrder[b] THEN 1 ELSE 0)
                                                    + (IF q \in OnOrder'[b] THEN 1 ELSE 0)
  BY <1>2, <1>3, <1>4, FamilyChanged
<1>9. ASSUME NEW q
      PROVE  Times(Expected', q) = Times(Expected, q) - (IF q \in Expected[b] THEN 1 ELSE 0)
                                                      + (IF q \in Expected'[b] THEN 1 ELSE 0)
  BY <1>2, <1>3, <1>5, FamilyChanged
<1> QED BY <1>4, <1>5, <1>6, <1>7, <1>8, <1>9

\* When a batch of A ends, S being paid for at n, either there is a fault, or the
\* ledger hears of what was paid.
EndsWith(A, S, n) ==
  /\ Cardinality(A) <= ShardSize /\ Buy(S, n) /\ n <= Dear(Cardinality(A))
  /\ Ordered' = Ordered - Cardinality(A) /\ Owed' >= Owed - Dear(Cardinality(A))
  /\ \A q : /\ Times(OnOrder', q) = Times(OnOrder, q) - (IF q \in A THEN 1 ELSE 0)
            /\ Times(Expected', q) >= Times(Expected, q) - (IF q \in A THEN 1 ELSE 0)
  /\ \/ Fault
     \/ /\ UNCHANGED faults /\ S = A /\ Owed' >= Owed - Dear(Cardinality(A)) + n
        /\ \A q : Times(Expected', q) = Times(Expected, q)

LEMMA OrdersAfterEnd ==
  ASSUME Shapes, NEW b \in DOMAIN batches, BatchEnds(b)
  PROVE  \E A \in SUBSET Questions : \E S \in SUBSET A : \E n \in Nat : EndsWith(A, S, n)
<1> DEFINE A == batches[b].asks
           In(q, S) == IF q \in S THEN 1 ELSE 0
<1>0. PICK o \in Batch, S \in SUBSET A : \E n \in Nat : EndsAs(b, o, S, n)
  BY Ends
<1>1. PICK n \in Nat :
           /\ batches' = [batches EXCEPT ![b] = o]
           /\ o.asks = A /\ ~o.collected /\ o.status \in {"completed", "lost"}
           /\ o.cost <= Dear(ShardSize)
           /\ Buy(S, n) /\ n <= Dear(Cardinality(A))
           /\ \/ /\ UNCHANGED faults /\ n = o.cost
                 /\ o.status = "completed" /\ S = A /\ \A q \in S : o.got[q] \in Answered
              \/ Fault
  BY <1>0 DEF EndsAs
<1>2. Shapes' /\ Tracked' = Tracked /\ ceiling' = ceiling
  <2>1. ceiling' = ceiling /\ parts' = parts /\ cmd' = cmd
    BY DEF BatchEnds
  <2>2. Len(batches') = Len(batches)
    <3>1. o.asks = batches[b].asks /\ (o.collected => o.status = "completed")
      BY <1>1
    <3> QED BY <1>1, <2>1, <3>1, BatchChanges
  <2> QED BY <2>1, <2>2, BatchEndsShapes DEF Tracked
<1>3. batches[b] \in Batch /\ batches[b].status = "in_progress" /\ Cardinality(A) <= ShardSize
  BY BatchesAre DEF Shapes, BatchEnds, BatchShape
<1> DEFINE old == Hoped(b, batches[b])
           new == Hoped(b, o)
           was == PriceOf(b, batches[b])
           is == PriceOf(b, o)
<1>4. /\ A \in SUBSET Questions /\ Asked(batches[b]) = A /\ Asked(o) = {}
      /\ old \in SUBSET A /\ new \in SUBSET A
  BY <1>1, <1>3, AwaitedIs DEF Hoped
<1>5. /\ Cardinality(A) \in Nat /\ Dear(Cardinality(A)) \in Nat
      /\ was = (IF b \in Tracked THEN Dear(Cardinality(A)) ELSE 0)
      /\ is \in Nat /\ (o.status = "completed" => is = (IF b \in Tracked THEN o.cost ELSE 0))
  <2>1. Cardinality(A) \in Nat /\ TypeOK
    BY <1>4, Sizes DEF Shapes
  <2>2. Dear(Cardinality(A)) \in Nat
    BY <2>1, DearIs
  <2>3. /\ Price(batches[b]) = Dear(Cardinality(A)) /\ Price(o) \in Nat
        /\ o.status = "completed" => Price(o) = o.cost
    BY <1>1, <1>3, <2>1, PriceIs
  <2> QED BY <2>1, <2>2, <2>3 DEF PriceOf
<1>6. /\ Ordered' = Ordered - Cardinality(A) + Cardinality({})
      /\ Owed' = Owed - was + is
      /\ \A q : /\ Times(OnOrder', q) = Times(OnOrder, q) - In(q, A) + In(q, {})
                /\ Times(Expected', q) = Times(Expected, q) - In(q, old) + In(q, new)
  <2>1. Becomes(b, o)
    BY <1>1, <1>2 DEF Becomes
  <2>2. A = Asked(batches[b]) /\ {} = Asked(o)
    BY <1>4
  <2> HIDE DEF A
  <2> QED BY <2>1, <2>2, OrdersAfterChange
<1>7. /\ Ordered \in Nat /\ Owed \in Nat
      /\ \A q : Times(OnOrder, q) \in Nat /\ Times(Expected, q) \in Nat
  BY OrdersAre
<1>8. ~Fault => UNCHANGED faults /\ S = A /\ new = old /\ n = o.cost /\ o.status = "completed"
  <2> SUFFICES ASSUME ~Fault
               PROVE  UNCHANGED faults /\ S = A /\ new = old /\ n = o.cost /\ o.status = "completed"
    OBVIOUS
  <2>1. /\ UNCHANGED faults /\ n = o.cost
        /\ o.status = "completed" /\ S = A /\ \A q \in A : o.got[q] \in Answered
    BY <1>1
  <2>2. Answers(o) = A
    BY <1>1, <2>1 DEF Answers
  <2>3. Awaited(o) = A /\ Awaited(batches[b]) = A
    BY <1>1, <1>3, <2>1, <2>2, AwaitedIs
  <2> QED BY <2>1, <2>3 DEF Hoped
<1> HIDE DEF A, old, new, was, is
<1>9. Ordered' = Ordered - Cardinality(A) /\ Owed' >= Owed - Dear(Cardinality(A))
  BY <1>5, <1>6, <1>7, Sizes
<1>10. ASSUME NEW q
       PROVE  /\ Times(OnOrder', q) = Times(OnOrder, q) - In(q, A)
              /\ Times(Expected', q) >= Times(Expected, q) - In(q, A)
  <2>1. Times(OnOrder, q) \in Nat /\ Times(Expected, q) \in Nat
    BY <1>7
  <2>2. /\ Times(OnOrder', q) = Times(OnOrder, q) - In(q, A) + In(q, {})
        /\ Times(Expected', q) = Times(Expected, q) - In(q, old) + In(q, new)
    BY <1>6
  <2>3. q \in old => q \in A
    BY <1>4
  <2> QED BY <2>1, <2>2, <2>3
<1>11. \/ Fault
       \/ /\ UNCHANGED faults /\ S = A /\ Owed' >= Owed - Dear(Cardinality(A)) + n
          /\ \A q : Times(Expected', q) = Times(Expected, q)
  <2> SUFFICES ASSUME ~Fault
               PROVE  /\ UNCHANGED faults /\ S = A /\ Owed' >= Owed - Dear(Cardinality(A)) + n
                      /\ \A q : Times(Expected', q) = Times(Expected, q)
    OBVIOUS
  <2>1. UNCHANGED faults /\ S = A /\ new = old /\ n = o.cost /\ o.status = "completed"
    BY <1>8
  <2>2. Owed' >= Owed - Dear(Cardinality(A)) + n
    <3>1. CASE b \in Tracked
      BY <1>5, <1>6, <1>7, <2>1, <3>1
    <3>2. CASE b \notin Tracked
      <4>1. was = 0 /\ is = 0
        BY <1>5, <2>1, <3>2
      <4> QED BY <1>1, <1>5, <1>6, <1>7, <4>1
    <3> QED BY <3>1, <3>2
  <2>3. ASSUME NEW q PROVE Times(Expected', q) = Times(Expected, q)
    BY <1>6, <1>7, <2>1
  <2> QED BY <2>1, <2>2, <2>3
<1>12. EndsWith(A, S, n)
  BY <1>1, <1>3, <1>9, <1>10, <1>11 DEF EndsWith, A
<1>13. A \in SUBSET Questions
  BY <1>4
<1> QED BY <1>12, <1>13

LEMMA OrdersAfterCollect ==
  ASSUME Shapes, NEW n, Collect(n)
  PROVE  \E S \in SUBSET Questions : \E cost \in Nat :
           /\ Ordered' = Ordered /\ \A q : Times(OnOrder', q) = Times(OnOrder, q)
           /\ \E bad : Store(S \intersect questions, "batch", bad)
           /\ cmd = Idle /\ Goes("charge", {}, cost)
           /\ \/ /\ Fault /\ Owed' = Owed
                 /\ \A q : Times(Expected', q) = Times(Expected, q)
              \/ /\ UNCHANGED faults /\ Owed' = Owed - cost
                 /\ \A q : Times(Expected', q) = Times(Expected, q) - (IF q \in S THEN 1 ELSE 0)
<1> DEFINE b == parts[n]
           S == Answers(batches[b])
           o == [batches[b] EXCEPT !.collected = TRUE]
           cost == batches[b].cost
           In(q, X) == IF q \in X THEN 1 ELSE 0
<1>1. /\ b \in DOMAIN batches /\ b \in Range(parts) /\ batches[b].status = "completed"
      /\ S \in SUBSET Questions /\ cmd = Idle
      /\ o \in Batch /\ o.asks = batches[b].asks /\ o.status = "completed" /\ o.collected
      /\ o.cost = cost /\ cost \in Nat
      /\ batches' = [batches EXCEPT ![b] = o]
      /\ Goes("charge", {}, cost) /\ parts' = parts /\ ceiling' = ceiling
      /\ IF batches[b].collected THEN Fault ELSE UNCHANGED faults
  BY Collects
<1>2. \E bad : Store(S \intersect questions, "batch", bad)
  BY Collects
<1>3. batches[b] \in Batch
  BY <1>1, BatchesAre DEF Shapes
<1>4. Asked(batches[b]) = {} /\ Awaited(batches[b]) = (IF batches[b].collected THEN {} ELSE S)
  BY <1>1, <1>3, AwaitedIs
<1> DEFINE was == PriceOf(b, batches[b])
           is == PriceOf(b, o)
<1>13. was = (IF batches[b].collected THEN 0 ELSE cost) /\ is = 0
  <2>1. b \in Tracked /\ TypeOK
    BY <1>1 DEF Tracked, Shapes
  <2> QED BY <1>1, <1>3, <2>1, PriceIs DEF PriceOf
<1> HIDE DEF b, S, o, was, is, cost
<1>5. Shapes' /\ Tracked' = Tracked
  <2>1. cmd.at = "idle" /\ cmd'.at = "charge"
    BY <1>1 DEF Idle, Goes
  <2> QED BY <1>1, <2>1, CollectShapes DEF Tracked
<1>6. b \in Tracked /\ Asked(o) = {} /\ Awaited(o) = {}
  BY <1>1, AwaitedIs DEF Tracked
<1> DEFINE old == IF b \in Tracked THEN Awaited(batches[b]) ELSE {}
           new == IF b \in Tracked THEN Awaited(o) ELSE {}
<1>7. old = (IF batches[b].collected THEN {} ELSE S) /\ new = {}
  BY <1>4, <1>6
<1>8. /\ Ordered' = Ordered - Cardinality({}) + Cardinality({})
      /\ Owed' = Owed - was + is
      /\ \A q : /\ Times(OnOrder', q) = Times(OnOrder, q) - In(q, {}) + In(q, {})
                /\ Times(Expected', q) = Times(Expected, q) - In(q, old) + In(q, new)
  <2>1. Becomes(b, o)
    BY <1>1, <1>5 DEF Becomes
  <2>2. old = Hoped(b, batches[b]) /\ new = Hoped(b, o)
    BY DEF Hoped
  <2>3. {} = Asked(batches[b]) /\ {} = Asked(o)
    BY <1>4, <1>6
  <2> HIDE DEF old, new
  <2> QED BY <2>1, <2>2, <2>3, OrdersAfterChange DEF was, is
<1>9. /\ Ordered \in Nat /\ Owed \in Nat
      /\ \A q : Times(OnOrder, q) \in Nat /\ Times(Expected, q) \in Nat
      /\ Cardinality({}) = 0
  BY <1>1, OrdersAre, Sizes
<1> HIDE DEF old, new
<1>10. Ordered' = Ordered /\ \A q : Times(OnOrder', q) = Times(OnOrder, q)
  <2>1. ASSUME NEW q PROVE Times(OnOrder', q) = Times(OnOrder, q)
    BY <1>8, <1>9
  <2> QED BY <1>8, <1>9, <2>1
<1>11. CASE batches[b].collected
  <2>1. old = {} /\ new = {} /\ Fault
    BY <1>1, <1>7, <1>11
  <2>2. Owed' = Owed
    BY <1>8, <1>9, <1>11, <1>13
  <2>3. ASSUME NEW q PROVE Times(Expected', q) = Times(Expected, q)
    BY <1>8, <1>9, <2>1
  <2> QED BY <1>1, <1>2, <1>10, <2>1, <2>2, <2>3
<1>12. CASE ~batches[b].collected
  <2>1. old = S /\ new = {} /\ UNCHANGED faults
    BY <1>1, <1>7, <1>12
  <2>2. Owed' = Owed - cost
    BY <1>1, <1>8, <1>9, <1>12, <1>13
  <2>3. ASSUME NEW q PROVE Times(Expected', q) = Times(Expected, q) - In(q, S)
    BY <1>8, <1>9, <2>1
  <2> QED BY <1>1, <1>2, <1>10, <2>1, <2>2, <2>3
<1> QED BY <1>11, <1>12

\* A kill loses at most the batch that no part was written for.
LEMMA OrdersAfterKill ==
  ASSUME Shapes, Killed
  PROVE  /\ Ordered' = Ordered /\ OnOrder' = OnOrder
         /\ Owed' = Owed \/ (cmd.at = "record_batch" /\ Owed' >= Owed - Dear(ShardSize))
         /\ \A q : Times(Expected', q) = Times(Expected, q)
                   \/ (cmd.at = "record_batch" /\ Times(Expected', q) >= Times(Expected, q) - 1)
<1>1. batches' = batches /\ parts' = parts /\ cmd'.at # "record_batch" /\ Shapes' /\ ceiling' = ceiling
  BY KilledShapes DEF Killed, openai, paid, Idle
<1>2. CASE cmd.at # "record_batch"
  BY <1>1, <1>2, OrdersStand, OwedStands
<1>3. CASE cmd.at = "record_batch"
  <2> DEFINE D == DOMAIN batches
             x == Len(batches)
             In(q, S) == IF q \in S THEN 1 ELSE 0
  <2>1. x \in D /\ x \notin Range(parts) /\ Tracked = Range(parts) \union {x} /\ Tracked' = Range(parts)
    BY <1>1, <1>3 DEF Shapes, CmdShape, Tracked
  <2>2. /\ Family(Questions, D, Expected)
        /\ Owed \in Nat /\ \A q : Times(Expected, q) \in Nat
    BY OrdersAre
  <2>3. OnOrder' = OnOrder /\ Ordered' = Ordered
    BY <1>1 DEF OnOrder, Ordered
  <2>4. /\ Family(Questions, D, Expected') /\ Expected'[x] = {}
        /\ DifferAt(x, D, Expected, Expected')
    <3>1. \A b \in D : batches[b] \in Batch
      BY BatchesAre DEF Shapes
    <3>2. Expected' = [b \in D |-> IF b \in Range(parts) THEN Awaited(batches[b]) ELSE {}]
      BY <1>1, <2>1 DEF Expected
    <3>3. Expected' \in [D -> SUBSET Questions]
      BY <3>1, <3>2, AwaitedIs
    <3> QED BY <2>1, <2>2, <3>2, <3>3 DEF Expected, Family, DifferAt
  <2>5. Expected[x] \in SUBSET batches[x].asks /\ Cardinality(batches[x].asks) <= ShardSize
    <3>1. batches[x] \in Batch
      BY <2>1, BatchesAre DEF Shapes
    <3> QED BY <2>1, <3>1, AwaitedIs DEF Expected, Shapes, BatchShape
  <2>6. batches[x].asks \in SUBSET Questions
    BY <2>1, BatchesAre, AwaitedIs DEF Shapes
  <2>7. PriceOf(x, batches[x]) \in Nat /\ PriceOf(x, batches[x]) <= Dear(ShardSize)
    <3>1. batches[x] \in Batch /\ TypeOK /\ Cardinality(batches[x].asks) \in Nat
      BY <2>1, <2>6, BatchesAre, Sizes DEF Shapes
    <3>2. Dear(Cardinality(batches[x].asks)) <= Dear(ShardSize) /\ Dear(ShardSize) \in Nat
      BY <2>5, <3>1, Sizes, DearIs
    <3>3. batches[x].cost <= Dear(ShardSize) /\ batches[x].status \in {"in_progress", "completed", "lost"}
      BY <2>1, <3>1 DEF Shapes, BatchShape, Batch
    <3> QED BY <3>1, <3>2, <3>3, PriceIs DEF PriceOf
  <2>10. Owed' >= Owed - Dear(ShardSize)
    <3> DEFINE f == Prices
               g == Prices'
               p == PriceOf(x, batches[x])
    <3>1. g = [b \in D |-> IF b \in Range(parts) THEN Price(batches[b]) ELSE 0]
      BY <1>1, <2>1, NextPrices
    <3>2. f[x] = p /\ g[x] = 0 /\ \A b \in D \ {x} : f[b] = g[b]
      BY <2>1, <3>1 DEF Prices, PriceOf
    <3>3. IsFiniteSet(D) /\ \A b \in D : f[b] \in Nat
      BY OrdersAre
    <3>4. Owed' = SumFunctionOnSet(g, D) /\ Owed = SumFunctionOnSet(f, D)
      BY <1>1, NextPrices DEF Owed
    <3>5. p \in Nat /\ p <= Dear(ShardSize) /\ Dear(ShardSize) \in Nat /\ x \in D
      BY <2>1, <2>7, Sizes, DearIs DEF Shapes
    <3> HIDE DEF D, x, f, g, p
    <3>6. \A b \in D : f[b] \in Int /\ g[b] \in Int
      BY <3>2, <3>3
    <3>7. SumFunctionOnSet(g, D) = SumFunctionOnSet(f, D) - f[x] + g[x]
      BY <3>2, <3>3, <3>5, <3>6, SumOfChanged
    <3> QED BY <2>2, <3>2, <3>4, <3>5, <3>7
  <2> HIDE DEF D, x
  <2>9. ASSUME NEW q PROVE Times(Expected', q) = Times(Expected, q) - In(q, Expected[x]) + In(q, Expected'[x])
    BY <2>2, <2>4, FamilyChanged
  <2>11. ASSUME NEW q PROVE Times(Expected', q) >= Times(Expected, q) - 1
    <3>1. Times(Expected', q) = Times(Expected, q) - In(q, Expected[x]) /\ Times(Expected, q) \in Nat
      BY <2>2, <2>4, <2>9
    <3> QED BY <3>1
  <2> QED BY <1>3, <2>3, <2>10, <2>11
<1> QED BY <1>2, <1>3

(***************************************************************************)
(* The budget.                                                             *)
(***************************************************************************)
Plans == Cardinality(Planned)
Loss == Dear(faults * (ShardSize + DryRunSize))

\* While the ledger is within the ceiling, it lacks what is still to be collected
\* and recorded, and what was lost.
LedgerCovers == ledger <= ceiling => bill + Dear(Ordered) <= ledger + Owed + Due + Loss

CeilingCovers == bill + Dear(Ordered) + Dear(Plans) <= ceiling + Overrun + Loss

BudgetInv == Shapes /\ LedgerCovers /\ CeilingCovers

LEMMA BudgetTypes ==
  ASSUME Shapes
  PROVE  /\ bill \in Nat /\ Ordered \in Nat /\ Owed \in Nat /\ Plans \in Nat /\ Due \in Nat
         /\ Dear(Ordered) \in Nat /\ Dear(Plans) \in Nat
         /\ Loss \in Nat /\ ledger \in Nat /\ ceiling \in Nat
         /\ Dear(ShardSize) \in Nat /\ Dear(DryRunSize) \in Nat
<1>1. /\ ledger \in Nat /\ ceiling \in Nat /\ ShardSize \in Nat /\ DryRunSize \in Nat
      /\ faults \in Nat /\ bill \in Nat /\ TypeOK
  <2>1. TypeOK /\ ceiling \in Ceilings /\ ledger \in 0..(ceiling + 1) /\ bill \in Nat
        /\ faults \in 0..MaxFaults
    BY DEF Shapes, TypeOK
  <2>2. ceiling \in Nat /\ MaxFaults \in Nat /\ ShardSize \in Nat /\ DryRunSize \in Nat
    BY <2>1, Sizes
  <2> QED BY <2>1, <2>2
<1>2. faults * (ShardSize + DryRunSize) \in Nat
  BY <1>1, SMT
<1>3. Loss \in Nat
  BY <1>1, <1>2, DearIs DEF Loss
<1>4. Planned \in SUBSET Questions /\ Due \in Nat
  BY AsksAre DEF Planned, Due
<1>5. Plans \in Nat /\ Ordered \in Nat /\ Owed \in Nat
  BY <1>4, Sizes, OrdersAre DEF Plans
<1>6. Dear(Ordered) \in Nat /\ Dear(Plans) \in Nat /\ Dear(ShardSize) \in Nat /\ Dear(DryRunSize) \in Nat
  BY <1>1, <1>5, DearIs
<1> QED BY <1>1, <1>3, <1>4, <1>5, <1>6

LEMMA LossGrows ==
  ASSUME Shapes, ceiling' = ceiling
  PROVE  /\ Fault => Loss' = Loss + Dear(ShardSize) + Dear(DryRunSize)
         /\ UNCHANGED faults => Loss' = Loss
         /\ Dear(Ordered)' = Dear(Ordered') /\ Dear(Plans)' = Dear(Plans')
         /\ Overrun' = Overrun
<1>1. /\ ShardSize \in Nat /\ DryRunSize \in Nat /\ faults \in Nat /\ TypeOK
  BY Sizes DEF Shapes, TypeOK
<1>2. UNCHANGED faults => Loss' = Loss
  BY DEF Loss, Dear
<1>3. ASSUME Fault PROVE Loss' = Loss + Dear(ShardSize) + Dear(DryRunSize)
  <2> DEFINE k == ShardSize + DryRunSize
             m == faults * k
  <2>1. k \in Nat /\ m \in Nat /\ (faults + 1) * k = m + k
    BY <1>1, SMT
  <2>2. faults' = faults + 1
    BY <1>3 DEF Fault
  <2>3. Loss' = Dear((faults + 1) * k) /\ Loss = Dear(m)
    BY <2>2 DEF Loss, Dear
  <2> HIDE DEF m
  <2>4. Dear(m + k) = Dear(m) + Dear(k) /\ Dear(m) \in Nat
    BY <1>1, <2>1, DearIs
  <2>5. Dear(k) = Dear(ShardSize) + Dear(DryRunSize) /\ Dear(ShardSize) \in Nat /\ Dear(DryRunSize) \in Nat
    BY <1>1, DearIs
  <2> HIDE DEF k
  <2> QED BY <2>1, <2>3, <2>4, <2>5
<1> QED BY <1>2, <1>3 DEF Dear, Overrun

\* What one command may cost above what it reserves.
LEMMA OverrunIs ==
  ASSUME TypeOK
  PROVE  /\ Overrun \in Nat
         /\ \A n \in Nat : n <= ShardSize => Dear(n) <= n + Overrun
         /\ Dear(DryRunSize) <= DryReserve + Overrun
<1> DEFINE d == Dearest[ceiling]
<1>1. d \in Nat /\ d >= 1 /\ ShardSize \in Nat /\ DryRunSize \in Nat /\ DryReserve \in Nat
  <2>1. d \in Nat \ {0}
    BY DearIs, Sizes
  <2> QED BY <2>1, Sizes
<1> DEFINE shard == (d - 1) * ShardSize
           probe == d * DryRunSize
<1>2. Overrun = (IF probe - DryReserve > shard THEN probe - DryReserve ELSE shard)
  BY DEF Overrun
<1>3. Dear(DryRunSize) = probe
  BY DEF Dear
<1>4. shard \in Nat /\ probe \in Nat
  BY <1>1, SMT
<1>5. ASSUME NEW n \in Nat, n <= ShardSize PROVE Dear(n) <= n + shard /\ Dear(n) \in Nat
  <2>1. Dear(n) = d * n
    BY DEF Dear
  <2> HIDE DEF d
  <2> DEFINE e == d - 1
             m == ShardSize - n
  <2>2. e \in Nat /\ m \in Nat /\ d = e + 1 /\ ShardSize = n + m
    BY <1>1, <1>5
  <2> HIDE DEF e, m
  <2>3. e * m \in Nat /\ e * n \in Nat
    BY <2>2, SMT
  <2>4. (e + 1) * n = e * n + n /\ e * (n + m) = e * n + e * m
    BY <2>2, SMT
  <2>5. d * n = e * n + n /\ shard = e * n + e * m
    BY <2>2, <2>4 DEF e
  <2> QED BY <2>1, <2>3, <2>5
<1> HIDE DEF d, shard, probe
<1>6. Overrun \in Nat /\ Overrun >= shard /\ Overrun >= probe - DryReserve
  BY <1>1, <1>2, <1>4
<1>7. ASSUME NEW n \in Nat, n <= ShardSize PROVE Dear(n) <= n + Overrun
  BY <1>4, <1>5, <1>6, <1>7
<1>8. Dear(DryRunSize) <= DryReserve + Overrun
  BY <1>1, <1>3, <1>4, <1>6
<1> QED BY <1>6, <1>7, <1>8

\* What a command plans and has to record, at its steps.
LEMMA CommandCosts ==
  ASSUME Shapes
  PROVE  /\ cmd.at \in {"create", "calls"} => Plans = Cardinality(cmd.asks)
         /\ cmd.at \notin {"create", "calls"} => Plans = 0
         /\ cmd.at \in {"charge", "dry_charge"} =>
              Due = cmd.amount /\ Due <= Dear(ShardSize) + Dear(DryRunSize)
         /\ cmd.at \notin {"charge", "dry_charge"} => Due = 0
<1>1. Cardinality({}) = 0 /\ Dear(ShardSize) \in Nat /\ Dear(DryRunSize) \in Nat
  BY Sizes, BudgetTypes
<1>2. cmd.amount \in Nat /\ Cardinality(cmd.asks) \in Nat
  BY AsksAre
<1> QED BY <1>1, <1>2 DEF Shapes, CmdShape, Plans, Planned, Due

\* And at the next step.
LEMMA NextCosts ==
  /\ cmd' = Idle => Plans' = 0 /\ Due' = 0 /\ cmd'.at = "idle"
  /\ \A S, n : Goes("create", S, n) \/ Goes("calls", S, n) => Plans' = Cardinality(S) /\ Due' = 0
  /\ \A S, n : Goes("record_batch", S, n) => Plans' = 0 /\ Due' = 0
  /\ \A S, n : Goes("charge", S, n) \/ Goes("dry_charge", S, n) => Plans' = 0 /\ Due' = n
  /\ cmd' = cmd => Plans' = Plans /\ Due' = Due
<1>1. Cardinality({}) = 0
  BY Sizes
<1> QED BY <1>1 DEF Idle, Goes, Plans, Planned, Due

\* A command that starts plans nothing and owes nothing to the ledger.
LEMMA StartCosts == Starts => Plans = 0 /\ Due = 0 /\ cmd.at = "idle"
<1>1. Cardinality({}) = 0
  BY Sizes
<1> QED BY <1>1 DEF Starts, Idle, Plans, Planned, Due

LEMMA DearOfNone == TypeOK => Dear(0) = 0
<1> SUFFICES ASSUME TypeOK PROVE Dear(0) = 0
  OBVIOUS
<1>1. 0 \in Nat
  OBVIOUS
<1> QED BY <1>1, DearIs

LEMMA InitBudget == Init => BudgetInv
<1> SUFFICES ASSUME Init PROVE BudgetInv
  OBVIOUS
<1>1. Shapes /\ TypeOK
  BY InitShapes DEF Shapes
<1>2. Ordered = 0
  <2>1. DOMAIN OnOrder = {} /\ IsFiniteSet({})
    BY FS_EmptySet DEF OnOrder, Init
  <2> QED BY <2>1, FamilyOfNone DEF Ordered
<1>3. bill = 0 /\ Plans = 0
  BY StartCosts DEF Init, Starts
<1>4. Dear(Ordered) = 0 /\ Dear(Plans) = 0 /\ Overrun \in Nat
  BY <1>1, <1>2, <1>3, DearOfNone, OverrunIs
<1> QED BY <1>1, <1>3, <1>4, BudgetTypes DEF BudgetInv, LedgerCovers, CeilingCovers

(***************************************************************************)
(* Each step keeps the budget.                                             *)
(***************************************************************************)
\* The numbers before a step and after it, and how the fixed ones stand.
BudgetStep ==
  /\ BudgetInv /\ Shapes'
  /\ ceiling' = ceiling
  /\ UNCHANGED faults \/ Fault

LEMMA StepNumbers ==
  ASSUME BudgetStep
  PROVE  /\ bill \in Nat /\ ledger \in Nat /\ ceiling \in Nat /\ Loss \in Nat /\ Overrun \in Nat
         /\ Owed \in Nat /\ Due \in Nat /\ Dear(Ordered) \in Nat /\ Dear(Plans) \in Nat
         /\ Owed' \in Nat /\ Overrun' = Overrun
         /\ Dear(ShardSize) \in Nat /\ Dear(DryRunSize) \in Nat
         /\ (UNCHANGED faults /\ Loss' = Loss)
            \/ (Fault /\ Loss' = Loss + Dear(ShardSize) + Dear(DryRunSize))
         /\ Loss' \in Nat /\ Loss' >= Loss
         /\ Dear(Ordered)' = Dear(Ordered') /\ Dear(Plans)' = Dear(Plans')
         /\ LedgerCovers /\ CeilingCovers
<1>1. Shapes /\ TypeOK /\ Shapes' /\ ceiling' = ceiling /\ LedgerCovers /\ CeilingCovers
  BY DEF BudgetStep, BudgetInv, Shapes
<1>2. /\ Dear(ShardSize) \in Nat /\ Dear(DryRunSize) \in Nat /\ Loss \in Nat
      /\ (UNCHANGED faults /\ Loss' = Loss)
         \/ (Fault /\ Loss' = Loss + Dear(ShardSize) + Dear(DryRunSize))
  BY <1>1, BudgetTypes, LossGrows DEF BudgetStep
<1>3. Loss' \in Nat /\ Loss' >= Loss
  BY <1>2
<1> QED BY <1>1, <1>2, <1>3, BudgetTypes, NextOrdersAre, OverrunIs, LossGrows

LEMMA IdleBudget ==
  ASSUME BudgetInv, Shapes', UNCHANGED <<openai, parts, ledger, cmd, faults>>
  PROVE  BudgetInv'
<1>1. UNCHANGED <<Ordered, Owed>>
  BY DEF openai, paid, Tracked, OnOrder, Prices, Price, Dear, Ordered, Owed
<1>2. UNCHANGED <<Plans, Due, Loss, bill, ledger, ceiling, Overrun>>
  BY DEF openai, paid, Plans, Planned, Due, Loss, Dear, Overrun
<1> QED BY <1>1, <1>2 DEF BudgetInv, LedgerCovers, CeilingCovers, Dear

\* The operator waits: nothing is expected of any part when a shard is reserved.
LEMMA NothingIsOwed ==
  ASSUME Shapes, Starts, Waited
  PROVE  Owed = 0 /\ \A q : Times(Expected, q) = 0
<1>1. Tracked = Range(parts) /\ Range(parts) \subseteq DOMAIN batches
  BY StartCosts, BatchesAre DEF Tracked, Shapes
<1>2. ASSUME NEW b \in DOMAIN batches, b \in Tracked
      PROVE  Awaited(batches[b]) = {} /\ Price(batches[b]) = 0
  <2>1. PICK n \in DOMAIN parts : b = parts[n]
    BY <1>1, <1>2 DEF Range
  <2>2. batches[b].status = "lost" \/ batches[b].collected
    BY <2>1 DEF Waited, Finished
  <2>3. batches[b] \in Batch /\ (batches[b].collected => batches[b].status = "completed") /\ TypeOK
    BY BatchesAre DEF Shapes, BatchShape
  <2> QED BY <2>2, <2>3, AwaitedIs, PriceIs
<1>3. DOMAIN Expected = DOMAIN batches /\ \A b \in DOMAIN batches : Expected[b] = {}
  BY <1>2 DEF Expected
<1>4. IsFiniteSet(DOMAIN batches)
  BY OrdersAre
<1>5. \A b \in DOMAIN batches : Prices[b] = 0
  BY <1>2 DEF Prices
<1>6. Owed = 0 * Cardinality(DOMAIN batches) /\ Cardinality(DOMAIN batches) \in Nat
  BY <1>4, <1>5, SumOfConstant, FS_CardinalityType DEF Owed
<1>7. Owed = 0
  BY <1>6
<1> QED BY <1>3, <1>4, <1>7, FamilyOfNone

\* A command that has reserved what it asks: having waited, or at the cost of a fault.
LEMMA ReservedBudget ==
  ASSUME BudgetInv, Shapes', Starts, Waits, UNCHANGED <<openai, parts, ledger>>,
         cmd'.at # "record_batch", Due' = 0, Plans' \in Nat,
         Dear(Plans') <= Dear(ShardSize) + Dear(DryRunSize), Dear(Plans') \in Nat,
         NEW n \in Nat, Plans' # 0 => ledger + n <= ceiling /\ Dear(Plans') <= n + Overrun
  PROVE  BudgetInv'
<1>1. /\ Shapes /\ TypeOK /\ Plans = 0 /\ Due = 0 /\ cmd.at = "idle"
      /\ ceiling' = ceiling /\ UNCHANGED <<batches, parts, bill, ledger>>
  BY StartCosts DEF BudgetInv, Shapes, openai, paid
<1>2. UNCHANGED <<Ordered, Owed>>
  BY <1>1, OrdersStand, OwedStands
<1>3. BudgetStep
  BY <1>1 DEF BudgetStep, Waits
<1>4. Dear(0) = 0
  BY <1>1, DearOfNone
<1>5. LedgerCovers'
  BY <1>1, <1>2, <1>3, StepNumbers DEF LedgerCovers
<1>6. CeilingCovers'
  <2>1. CASE Plans' = 0
    BY <1>1, <1>2, <1>3, <1>4, <2>1, StepNumbers DEF CeilingCovers
  <2>2. CASE Plans' # 0 /\ Waited
    <3>1. Owed = 0
      BY <1>1, <2>2, NothingIsOwed
    <3>2. bill + Dear(Ordered) <= ledger + Loss
      BY <1>1, <1>3, <2>2, <3>1, StepNumbers DEF LedgerCovers
    <3> QED BY <1>1, <1>2, <1>3, <2>2, <3>2, StepNumbers DEF CeilingCovers
  <2>3. CASE ~Waited
    <3>1. Fault /\ Loss' = Loss + Dear(ShardSize) + Dear(DryRunSize)
      BY <1>1, <2>3, LossGrows DEF Waits
    <3> QED BY <1>1, <1>2, <1>3, <1>4, <3>1, StepNumbers DEF CeilingCovers
  <2> QED BY <2>1, <2>2, <2>3
<1> QED BY <1>5, <1>6 DEF BudgetInv

LEMMA DryRunBudget == ASSUME BudgetInv, NEW redo, DryRun(redo) PROVE BudgetInv'
<1>1. /\ Shapes /\ TypeOK /\ Shapes' /\ Starts /\ Waits
      /\ UNCHANGED <<openai, parts, ledger>>
  BY DryRunShapes DEF BudgetInv, Shapes, DryRun
<1>2. /\ Plans' \in Nat /\ Plans' <= DryRunSize /\ Due' = 0 /\ cmd'.at # "record_batch"
      /\ (Plans' # 0 => ledger + DryReserve <= ceiling)
  <2>1. CASE cmd' = Idle
    BY <2>1, NextCosts, Sizes
  <2>2. CASE cmd'.at = "calls" /\ ledger + DryReserve <= ceiling
    <3>1. Plans' = Cardinality(cmd'.asks) /\ Due' = 0 /\ Cardinality(cmd'.asks) <= DryRunSize
      BY <1>1, <2>2 DEF Plans, Planned, Due, Shapes, CmdShape
    <3>2. cmd'.asks \in SUBSET Questions
      BY <1>1 DEF Shapes, TypeOK, Command
    <3> QED BY <2>2, <3>1, <3>2, Sizes
  <2> QED BY <1>1, <2>1, <2>2, Probes
<1>3. /\ Dear(Plans') <= Dear(DryRunSize) /\ Dear(Plans') \in Nat /\ Dear(DryRunSize) \in Nat
      /\ Dear(ShardSize) \in Nat
  BY <1>1, <1>2, Sizes, DearIs
<1>4. Dear(Plans') <= DryReserve + Overrun /\ DryReserve \in Nat
  <2>1. Dear(DryRunSize) <= DryReserve + Overrun /\ Overrun \in Nat /\ DryReserve \in Nat
    BY <1>1, OverrunIs, Sizes
  <2> QED BY <1>3, <2>1
<1>5. Dear(Plans') <= Dear(ShardSize) + Dear(DryRunSize)
  BY <1>3
<1> QED BY <1>1, <1>2, <1>3, <1>4, <1>5, ReservedBudget

LEMMA SubmitBudget == ASSUME BudgetInv, Submit PROVE BudgetInv'
<1> DEFINE n == Cardinality(Shard)
<1>1. /\ Shapes /\ TypeOK /\ Shapes' /\ Starts /\ Waits /\ report # 0
      /\ Goes("create", Shard, 0) /\ cmd'.at = "create" /\ ledger + n * report <= ceiling
      /\ UNCHANGED <<openai, parts, ledger>>
  BY SubmitShapes DEF BudgetInv, Shapes, Submit, Goes, Reserve
<1>2. /\ Shard \in SUBSET Questions /\ n <= ShardSize /\ n * report \in Nat /\ n <= n * report
  BY <1>1, ShardIsSmall
<1>3. n \in Nat /\ Plans' = n /\ Due' = 0
  BY <1>1, <1>2, NextCosts, Sizes
<1> DEFINE reserved == n * report
<1> HIDE DEF n, reserved
<1>4. /\ Dear(n) <= Dear(ShardSize) /\ Dear(n) \in Nat /\ Dear(ShardSize) \in Nat
      /\ Dear(DryRunSize) \in Nat
  BY <1>1, <1>2, <1>3, Sizes, DearIs
<1>5. Dear(n) <= reserved + Overrun /\ reserved \in Nat /\ ledger + reserved <= ceiling
  <2>1. Dear(n) <= n + Overrun /\ Overrun \in Nat
    BY <1>1, <1>2, <1>3, OverrunIs
  <2>2. n <= reserved /\ reserved \in Nat /\ ledger + reserved <= ceiling
    BY <1>1, <1>2 DEF reserved
  <2> QED BY <1>3, <1>4, <2>1, <2>2
<1>6. Dear(n) <= Dear(ShardSize) + Dear(DryRunSize)
  BY <1>4
<1> QED BY <1>1, <1>3, <1>4, <1>5, <1>6, ReservedBudget

LEMMA CallsBudget == ASSUME BudgetInv, Calls PROVE BudgetInv'
<1>1. /\ Shapes /\ TypeOK /\ Shapes' /\ cmd.at = "calls"
      /\ UNCHANGED <<batches, parts, ceiling, ledger, faults>>
  BY CallsShapes DEF BudgetInv, Shapes, Calls
<1>2. PICK n \in Nat : /\ Buy(cmd.asks, n) /\ Goes("dry_charge", cmd.asks, n)
                       /\ n <= Dear(Cardinality(cmd.asks))
  BY <1>1, CallsCost
<1>3. /\ Plans = Cardinality(cmd.asks) /\ Due = 0 /\ Plans' = 0 /\ Due' = n /\ cmd'.at = "dry_charge"
  BY <1>1, <1>2, CommandCosts, NextCosts DEF Goes
<1>4. bill' = bill + n /\ UNCHANGED <<Ordered, Owed>>
  BY <1>1, <1>2, <1>3, Bought, OrdersStand, OwedStands
<1>5. BudgetStep /\ Dear(0) = 0
  BY <1>1, DearOfNone DEF BudgetStep
<1>6. Loss' = Loss
  BY <1>1, LossGrows
<1> QED BY <1>1, <1>2, <1>3, <1>4, <1>5, <1>6, StepNumbers DEF BudgetInv, LedgerCovers, CeilingCovers

LEMMA CallsFailBudget == ASSUME BudgetInv, CallsFail PROVE BudgetInv'
<1>1. /\ Shapes /\ TypeOK /\ Shapes' /\ cmd.at = "calls" /\ cmd' = Idle
      /\ UNCHANGED <<batches, parts, ceiling, ledger>> /\ Fault
  BY CallsFailShapes DEF BudgetInv, Shapes, CallsFail
<1>2. PICK S \in SUBSET cmd.asks : \E n \in Nat : Buy(S, n) /\ n <= Dear(Cardinality(cmd.asks))
  BY <1>1, CallsFailCost
<1>3. PICK n \in Nat : Buy(S, n) /\ n <= Dear(Cardinality(cmd.asks))
  BY <1>2
<1>4. Plans = Cardinality(cmd.asks) /\ Due = 0 /\ Plans' = 0 /\ Due' = 0 /\ cmd'.at = "idle"
  BY <1>1, CommandCosts, NextCosts
<1>5. bill' = bill + n /\ UNCHANGED <<Ordered, Owed>>
  BY <1>1, <1>3, <1>4, Bought, OrdersStand, OwedStands
<1>6. BudgetStep /\ Dear(0) = 0 /\ Loss' = Loss + Dear(ShardSize) + Dear(DryRunSize)
  BY <1>1, DearOfNone, LossGrows DEF BudgetStep
<1>7. Dear(Plans) <= Dear(DryRunSize)
  <2>1. Cardinality(cmd.asks) \in Nat /\ Cardinality(cmd.asks) <= DryRunSize /\ DryRunSize \in Nat
    BY <1>1, AsksAre, Sizes DEF Shapes, CmdShape
  <2> QED BY <1>1, <1>4, <2>1, DearIs
<1> QED BY <1>1, <1>3, <1>4, <1>5, <1>6, <1>7, StepNumbers DEF BudgetInv, LedgerCovers, CeilingCovers

\* Recording what is due.
LEMMA RecordBudget ==
  ASSUME BudgetInv, Shapes', cmd.at \in {"charge", "dry_charge"}, Record(cmd.amount),
         cmd'.at \in {"idle", "report"}, UNCHANGED <<openai, parts, faults>>
  PROVE  BudgetInv'
<1>1. Shapes /\ TypeOK /\ cmd.amount \in Nat /\ ceiling' = ceiling /\ UNCHANGED <<batches, parts, bill, faults>>
  BY AsksAre DEF BudgetInv, Shapes, openai, paid
<1>2. Plans = 0 /\ Due = cmd.amount /\ Plans' = 0 /\ Due' = 0
  <2>1. Cardinality({}) = 0
    BY Sizes
  <2> QED BY <1>1, <2>1, CommandCosts DEF Plans, Planned, Due
<1>3. ledger' \in Nat /\ (ledger' <= ceiling => ledger' = ledger + cmd.amount /\ ledger <= ceiling)
  <2>1. ledger' \in 0..(ceiling + 1) /\ ceiling \in Nat
    BY <1>1, Records, BudgetTypes
  <2> QED BY <1>1, <2>1, Records
<1>4. UNCHANGED <<Ordered, Owed, Loss>>
  BY <1>1, OrdersStand, OwedStands, LossGrows
<1>5. BudgetStep
  BY <1>1 DEF BudgetStep
<1> QED BY <1>1, <1>2, <1>3, <1>4, <1>5, StepNumbers DEF BudgetInv, LedgerCovers, CeilingCovers

LEMMA DryChargeBudget == ASSUME BudgetInv, DryCharge PROVE BudgetInv'
<1>1. cmd'.at \in {"idle", "report"}
  <2>1. cmd \in Command
    BY DEF BudgetInv, Shapes, TypeOK
  <2> QED BY <2>1 DEF DryCharge, Idle, Command
<1> QED BY <1>1, RecordBudget, DryChargeShapes DEF DryCharge, BudgetInv

LEMMA ChargeBudget == ASSUME BudgetInv, Charge PROVE BudgetInv'
<1>1. cmd'.at \in {"idle", "report"}
  BY DEF Charge, Idle
<1> QED BY <1>1, RecordBudget, ChargeShapes DEF Charge, BudgetInv

\* The report and the job file cost nothing.
LEMMA WrittenBudget ==
  ASSUME BudgetInv, Shapes', cmd.at \in {"report", "record_batch"}, cmd' = Idle,
         UNCHANGED <<openai, ledger, faults, Ordered, Owed>>
  PROVE  BudgetInv'
<1>1. Shapes /\ ceiling' = ceiling /\ UNCHANGED <<bill, ledger, faults>>
  BY DEF BudgetInv, openai, paid
<1>2. Plans = 0 /\ Due = 0 /\ Plans' = 0 /\ Due' = 0
  BY <1>1, CommandCosts, NextCosts
<1>3. Loss' = Loss /\ BudgetStep
  BY <1>1, LossGrows DEF BudgetStep
<1> QED BY <1>1, <1>2, <1>3, StepNumbers DEF BudgetInv, LedgerCovers, CeilingCovers

LEMMA ReportBudget == ASSUME BudgetInv, Report PROVE BudgetInv'
<1>1. /\ Shapes' /\ cmd.at = "report" /\ cmd' = Idle /\ cmd'.at = "idle"
      /\ UNCHANGED <<openai, parts, ledger, faults>>
  BY ReportShapes DEF BudgetInv, Report, Idle
<1>2. UNCHANGED <<Ordered, Owed>>
  BY <1>1, OrdersStand, OwedStands DEF openai
<1> QED BY <1>1, <1>2, WrittenBudget

LEMMA RecordBatchBudget == ASSUME BudgetInv, RecordBatch PROVE BudgetInv'
<1>1. /\ Shapes' /\ cmd.at = "record_batch" /\ cmd' = Idle
      /\ UNCHANGED <<openai, ledger, faults>>
  BY RecordBatchShapes DEF BudgetInv, RecordBatch
<1>2. UNCHANGED <<Ordered, Owed>>
  BY OrdersAfterRecord DEF BudgetInv
<1> QED BY <1>1, <1>2, WrittenBudget

LEMMA CreateBudget == ASSUME BudgetInv, Create PROVE BudgetInv'
<1> DEFINE n == Cardinality(cmd.asks)
<1>1. /\ Shapes /\ TypeOK /\ Shapes' /\ cmd.at = "create" /\ Goes("record_batch", {}, 0)
      /\ UNCHANGED <<ceiling, bill, ledger, faults>>
  BY CreateShapes DEF BudgetInv, Shapes, Create, paid
<1>2. Plans = n /\ Due = 0 /\ Plans' = 0 /\ Due' = 0 /\ n \in Nat
  BY <1>1, CommandCosts, NextCosts, AsksAre
<1>3. Ordered' = Ordered + n /\ Owed' = Owed + Dear(n)
  BY <1>1, OrdersAfterCreate
<1> HIDE DEF n
<1>4. Dear(Ordered + n) = Dear(Ordered) + Dear(n) /\ Dear(0) = 0 /\ Dear(n) \in Nat
  <2>1. Ordered \in Nat
    BY <1>1, BudgetTypes
  <2>2. Dear(Ordered + n) = Dear(Ordered) + Dear(n)
    BY <1>1, <1>2, <2>1, DearIs
  <2> QED BY <1>1, <1>2, <2>2, DearIs, DearOfNone
<1>5. BudgetStep /\ Loss' = Loss
  BY <1>1, LossGrows DEF BudgetStep
<1> QED BY <1>1, <1>2, <1>3, <1>4, <1>5, StepNumbers DEF BudgetInv, LedgerCovers, CeilingCovers

LEMMA BatchEndsBudget == ASSUME BudgetInv, NEW b \in DOMAIN batches, BatchEnds(b) PROVE BudgetInv'
<1>1. /\ Shapes /\ TypeOK /\ Shapes' /\ UNCHANGED <<ceiling, ledger, cmd>>
  BY BatchEndsShapes DEF BudgetInv, Shapes, BatchEnds
<1>2. PICK A \in SUBSET Questions : \E S \in SUBSET A : \E n \in Nat : EndsWith(A, S, n)
  BY <1>1, OrdersAfterEnd
<1>3. PICK S \in SUBSET A, n \in Nat : EndsWith(A, S, n)
  BY <1>2
<1> DEFINE a == Cardinality(A)
<1>4. /\ a <= ShardSize /\ Buy(S, n) /\ n <= Dear(a)
      /\ Ordered' = Ordered - a /\ Owed' >= Owed - Dear(a)
      /\ Fault \/ (UNCHANGED faults /\ Owed' >= Owed - Dear(a) + n)
  BY <1>3 DEF EndsWith
<1>5. bill' = bill + n /\ a \in Nat
  BY <1>1, <1>4, Bought, Sizes
<1>6. Plans' = Plans /\ Due' = Due
  BY <1>1, NextCosts
<1> HIDE DEF a
<1>7. Dear(Ordered') = Dear(Ordered) - Dear(a) /\ Dear(a) <= Dear(ShardSize) /\ Dear(a) \in Nat
  <2>1. Ordered \in Nat /\ Ordered' \in Nat /\ ShardSize \in Nat
    BY <1>1, BudgetTypes, NextOrdersAre, Sizes
  <2>2. a <= Ordered
    BY <1>4, <1>5, <2>1
  <2>3. Dear(Ordered - a) = Dear(Ordered) - Dear(a)
    BY <1>1, <1>5, <2>1, <2>2, DearIs
  <2>4. Dear(a) <= Dear(ShardSize) /\ Dear(a) \in Nat
    BY <1>1, <1>4, <1>5, <2>1, DearIs
  <2> QED BY <1>4, <2>3, <2>4
<1>8. BudgetStep
  BY <1>1, <1>4 DEF BudgetInv, BudgetStep
<1>9. CASE Fault
  <2>1. Loss' = Loss + Dear(ShardSize) + Dear(DryRunSize)
    BY <1>1, <1>9, LossGrows
  <2> QED BY <1>1, <1>4, <1>5, <1>6, <1>7, <1>8, <2>1, StepNumbers DEF BudgetInv, LedgerCovers, CeilingCovers
<1>10. CASE UNCHANGED faults /\ Owed' >= Owed - Dear(a) + n
  <2>1. Loss' = Loss
    BY <1>1, <1>10, LossGrows
  <2> QED BY <1>1, <1>4, <1>5, <1>6, <1>7, <1>8, <1>10, <2>1, StepNumbers DEF BudgetInv, LedgerCovers, CeilingCovers
<1> QED BY <1>4, <1>9, <1>10

LEMMA CollectBudget == ASSUME BudgetInv, NEW n, Collect(n) PROVE BudgetInv'
<1>1. /\ Shapes /\ Shapes' /\ UNCHANGED <<ceiling, bill, ledger>>
  BY CollectShapes DEF BudgetInv, Collect, paid
<1>2. PICK S \in SUBSET Questions : \E cost \in Nat :
           /\ Ordered' = Ordered /\ cmd = Idle /\ Goes("charge", {}, cost)
           /\ \/ Fault /\ Owed' = Owed
              \/ UNCHANGED faults /\ Owed' = Owed - cost
  BY <1>1, OrdersAfterCollect
<1>3. PICK cost \in Nat :
           /\ Ordered' = Ordered /\ cmd = Idle /\ Goes("charge", {}, cost)
           /\ \/ Fault /\ Owed' = Owed
              \/ UNCHANGED faults /\ Owed' = Owed - cost
  BY <1>2
<1>4. Plans = 0 /\ Due = 0 /\ Plans' = 0 /\ Due' = cost
  BY <1>3, StartCosts, NextCosts DEF Starts
<1>5. BudgetStep
  BY <1>1, <1>3 DEF BudgetStep
<1>6. CASE Fault /\ Owed' = Owed
  BY <1>1, <1>3, <1>4, <1>5, <1>6, StepNumbers DEF BudgetInv, LedgerCovers, CeilingCovers
<1>7. CASE UNCHANGED faults /\ Owed' = Owed - cost
  <2>1. Loss' = Loss
    BY <1>1, <1>7, LossGrows
  <2> QED BY <1>1, <1>3, <1>4, <1>5, <1>7, <2>1, StepNumbers DEF BudgetInv, LedgerCovers, CeilingCovers
<1> QED BY <1>3, <1>6, <1>7

LEMMA KilledBudget == ASSUME BudgetInv, Killed PROVE BudgetInv'
<1>1. /\ Shapes /\ TypeOK /\ Shapes' /\ Fault /\ cmd' = Idle
      /\ UNCHANGED <<ceiling, bill, ledger>>
  BY KilledShapes DEF BudgetInv, Shapes, Killed, openai, paid
<1>2. /\ Plans' = 0 /\ Due' = 0 /\ Due \in Nat
      /\ Due <= Dear(ShardSize) + Dear(DryRunSize) /\ (cmd.at = "record_batch" => Due = 0)
  <2>1. Dear(ShardSize) \in Nat /\ Dear(DryRunSize) \in Nat
    BY <1>1, BudgetTypes
  <2> QED BY <1>1, <2>1, NextCosts, CommandCosts, BudgetTypes
<1>3. /\ Loss' = Loss + Dear(ShardSize) + Dear(DryRunSize)
      /\ Ordered' = Ordered
      /\ Owed' = Owed \/ (cmd.at = "record_batch" /\ Owed' >= Owed - Dear(ShardSize))
  BY <1>1, LossGrows, OrdersAfterKill
<1>4. BudgetStep /\ Dear(0) = 0
  BY <1>1, DearOfNone DEF BudgetStep
<1>5. CASE Owed' = Owed
  BY <1>1, <1>2, <1>3, <1>4, <1>5, StepNumbers DEF BudgetInv, LedgerCovers, CeilingCovers
<1>6. CASE cmd.at = "record_batch" /\ Owed' >= Owed - Dear(ShardSize)
  BY <1>1, <1>2, <1>3, <1>4, <1>6, StepNumbers DEF BudgetInv, LedgerCovers, CeilingCovers
<1> QED BY <1>3, <1>5, <1>6

LEMMA BudgetInductive == BudgetInv /\ [Next]_vars => BudgetInv'
<1> SUFFICES ASSUME BudgetInv, [Next]_vars PROVE BudgetInv'
  OBVIOUS
<1>1. Shapes /\ Shapes'
  BY ShapesInductive DEF BudgetInv
<1>2. CASE \/ \E limit \in 1..Cardinality(Questions) : AttachRetrieval(limit)
           \/ ResetRetrieval \/ Revalidate \/ Regenerate \/ DropInvalidQuestions
  <2>1. UNCHANGED <<openai, parts, ledger, cmd, faults>>
    BY <1>2 DEF AttachRetrieval, ResetRetrieval, Revalidate, Regenerate, DropInvalidQuestions
  <2> QED BY <1>1, <2>1, IdleBudget
<1>3. CASE \E redo \in BOOLEAN : DryRun(redo)
  BY <1>3, DryRunBudget
<1>4. CASE Calls \/ CallsFail \/ DryCharge \/ Report
  BY <1>4, CallsBudget, CallsFailBudget, DryChargeBudget, ReportBudget
<1>5. CASE Submit \/ Create \/ RecordBatch
  BY <1>5, SubmitBudget, CreateBudget, RecordBatchBudget
<1>6. CASE \E b \in DOMAIN batches : BatchEnds(b)
  BY <1>6, BatchEndsBudget
<1>7. CASE \E n \in DOMAIN parts : Collect(n)
  BY <1>7, CollectBudget
<1>8. CASE Charge \/ Killed
  BY <1>8, ChargeBudget, KilledBudget
<1>9. CASE UNCHANGED vars
  <2>1. UNCHANGED <<openai, parts, ledger, cmd, faults>>
    BY <1>9 DEF vars, openai, paid
  <2> QED BY <1>1, <2>1, IdleBudget
<1> QED BY <1>2, <1>3, <1>4, <1>5, <1>6, <1>7, <1>8, <1>9 DEF Next

\* "A hard halt": however much a generation costs above its projection, the bill, with
\* what is on order at its dearest, exceeds the ceiling by no more than one command
\* does, and than each fault kept from the ledger; a shard or a dry run that was not
\* waited for is one.
THEOREM BudgetIsKept == Spec => []BudgetHolds
<1>1. BudgetInv => BudgetHolds
  <2> SUFFICES ASSUME BudgetInv PROVE BudgetHolds
    OBVIOUS
  <2>1. Shapes /\ TypeOK /\ InProgress = Ordered
    BY OrdersAre DEF BudgetInv, Shapes
  <2>2. bill + Dear(Ordered) + Dear(Plans) <= ceiling + Overrun + Loss
    BY DEF BudgetInv, CeilingCovers
  <2>3. Overrun \in Nat
    BY <2>1, OverrunIs
  <2>4. bill + Dear(Ordered) <= ceiling + Overrun + Loss
    BY <2>1, <2>2, <2>3, BudgetTypes
  <2>5. /\ Dear(Ordered) = Dearest[ceiling] * InProgress
        /\ Loss = Dearest[ceiling] * (faults * (ShardSize + DryRunSize))
    BY <2>1 DEF Loss, Dear
  <2> QED BY <2>4, <2>5 DEF BudgetHolds
<1> QED BY <1>1, BudgetInductive, InitBudget, PTL DEF Spec

(***************************************************************************)
(* The cap on the attempts of a question.                                  *)
(***************************************************************************)
Load(q) == bought[q] + Times(OnOrder, q)
Coming(q) == Times(Expected, q)
OfPlan(q) == IF q \in Planned THEN 1 ELSE 0
Cap == MaxAttempts + faults + dryRuns

\* Below the cap, teacher_attempts counts what was generated, but for what is still
\* to be collected, for the probes, which take one back, and for the faults.
Counted(q) ==
  attempts[q] < AttemptBound - dryRuns => Load(q) <= attempts[q] + Coming(q) + dryRuns + faults

Capped(q) == Load(q) + OfPlan(q) <= Cap

\* A question without an answer, of which nothing is to come, may be asked again.
HasRoom(q) ==
  answers[q] = None /\ Coming(q) = 0 /\ q \notin Planned => Load(q) < Cap

RetryInv ==
  /\ Shapes
  /\ \A q \in Questions : Capped(q)
  /\ \A q \in questions : Counted(q) /\ HasRoom(q)

\* What the arithmetic is about.
Numbers(q) ==
  /\ bought[q] \in Nat /\ Times(OnOrder, q) \in Nat /\ Load(q) \in Nat /\ Coming(q) \in Nat
  /\ attempts[q] \in Nat /\ attempts[q] <= AttemptBound
  /\ faults \in Nat /\ dryRuns \in Nat /\ dryRuns <= MaxDryRuns /\ OfPlan(q) \in 0..1

LEMMA NumbersAre ==
  /\ Shapes => \A q \in Questions : Numbers(q)
  /\ MaxAttempts \in Nat \ {0} /\ MaxDryRuns \in Nat /\ AttemptBound = MaxAttempts + MaxDryRuns
<1>1. ASSUME Shapes, NEW q \in Questions PROVE Numbers(q)
  <2>1. Times(OnOrder, q) \in Nat /\ Times(Expected, q) \in Nat
    BY <1>1, OrdersAre
  <2>2. bought[q] \in Nat /\ attempts[q] \in 0..AttemptBound /\ AttemptBound \in Nat
    BY <1>1, Sizes DEF Shapes, TypeOK
  <2>3. faults \in Nat /\ dryRuns \in Nat /\ dryRuns <= MaxDryRuns
    BY <1>1, Sizes DEF Shapes, TypeOK
  <2> QED BY <2>1, <2>2, <2>3 DEF Numbers, Load, Coming, OfPlan
<1> QED BY <1>1, Sizes

AllNumbers == \A q \in Questions : Numbers(q)

LEMMA NextNumbers == Shapes' => AllNumbers'
<1>1. Shapes => AllNumbers
  BY NumbersAre DEF AllNumbers
<1> QED BY <1>1, PTL

LEMMA NextNumbersAre == Shapes' => \A q \in Questions : Numbers(q)'
BY NextNumbers DEF AllNumbers

LEMMA InitRetries == Init => RetryInv
<1> SUFFICES ASSUME Init PROVE RetryInv
  OBVIOUS
<1>1. Shapes
  BY InitShapes
<1>2. \A q : Times(OnOrder, q) = 0
  <2>1. DOMAIN OnOrder = {} /\ IsFiniteSet({})
    BY FS_EmptySet DEF OnOrder, Init
  <2> QED BY <2>1, FamilyOfNone
<1>3. \A q \in Questions : bought[q] = 0 /\ OfPlan(q) = 0
  BY DEF Init, Idle, Planned, OfPlan
<1>4. \A q \in Questions : Load(q) = 0
  BY <1>2, <1>3 DEF Load
<1>5. Cap \in Nat \ {0} /\ questions = Questions
  BY NumbersAre DEF Init, Cap
<1>6. ASSUME NEW q \in Questions PROVE Capped(q) /\ HasRoom(q) /\ Counted(q)
  <2>1. Numbers(q)
    BY <1>1, NumbersAre
  <2> QED BY <1>3, <1>4, <1>5, <2>1 DEF Capped, HasRoom, Counted, Numbers
<1> QED BY <1>1, <1>5, <1>6 DEF RetryInv

\* Where nothing is bought, asked or deleted.
LEMMA QuietRetries ==
  ASSUME RetryInv, Shapes', UNCHANGED <<bought, attempts, OnOrder, Expected, Planned, faults, dryRuns>>,
         questions' \subseteq questions, \A q \in questions' : answers'[q] = None => answers[q] = None
  PROVE  RetryInv'
<1>1. \A q : UNCHANGED <<Load(q), Coming(q), OfPlan(q), Cap>>
  BY DEF Load, Coming, OfPlan, Cap
<1> QED BY <1>1 DEF RetryInv, Capped, Counted, HasRoom

\* Where a fault makes up for one generation.
LosesOne(q) ==
  /\ Load(q)' + OfPlan(q)' <= Load(q) + OfPlan(q)
  /\ attempts[q] <= attempts'[q]
  /\ attempts[q] + Coming(q) + Load(q)' <= attempts'[q] + Coming(q)' + Load(q) + 1

LEMMA FaultRetries ==
  ASSUME RetryInv, Shapes', Fault, UNCHANGED <<dryRuns, questions>>, \A q \in Questions : LosesOne(q)
  PROVE  RetryInv'
<1>1. Cap' = Cap + 1 /\ faults' = faults + 1
  <2>1. faults' = faults + 1 /\ dryRuns' = dryRuns /\ faults \in Nat /\ dryRuns \in Nat
    BY Sizes DEF Fault, RetryInv, Shapes, TypeOK
  <2> QED BY <2>1, NumbersAre DEF Cap
<1>2. ASSUME NEW q \in Questions
      PROVE  /\ Capped(q)' /\ HasRoom(q)'
             /\ Counted(q) => Counted(q)'
  <2>1. Numbers(q) /\ Numbers(q)' /\ Capped(q) /\ LosesOne(q)
    BY NumbersAre, NextNumbersAre DEF RetryInv
  <2>2. Cap \in Nat
    BY <2>1, NumbersAre DEF Numbers, Cap
  <2>3. Load(q)' + OfPlan(q)' <= Cap
    BY <2>1, <2>2 DEF Numbers, LosesOne, Capped
  <2>4. Capped(q)' /\ HasRoom(q)'
    BY <1>1, <2>1, <2>2, <2>3 DEF Numbers, Capped, HasRoom
  <2>5. Counted(q) => Counted(q)'
    BY <1>1, <2>1, NumbersAre DEF Numbers, LosesOne, Counted
  <2> QED BY <2>4, <2>5
<1>3. questions' \subseteq Questions
  BY DEF RetryInv, Shapes, TypeOK
<1> QED BY <1>2, <1>3 DEF RetryInv

(***************************************************************************)
(* Each step keeps the cap.                                                *)
(***************************************************************************)
LEMMA NothingPlanned == cmd.at \notin {"create", "calls"} => Planned = {} /\ \A q : OfPlan(q) = 0
BY DEF Planned, OfPlan

LEMMA NothingPlannedNext ==
  cmd'.at \notin {"create", "calls"} => Planned' = {} /\ \A q : OfPlan(q)' = 0
BY DEF Planned, OfPlan

\* An attempt is counted, up to the bound.
LEMMA CountedOnce ==
  ASSUME NEW q, Numbers(q), attempts'[q] = AtMost(attempts[q] + 1, AttemptBound)
  PROVE  /\ attempts'[q] < AttemptBound => attempts'[q] = attempts[q] + 1
         /\ attempts[q] <= attempts'[q]
<1>1. attempts[q] \in Nat /\ attempts[q] <= AttemptBound /\ AttemptBound \in Nat
  BY Sizes DEF Numbers
<1> QED BY <1>1 DEF AtMost

LEMMA DryRunRetries == ASSUME RetryInv, NEW redo, DryRun(redo) PROVE RetryInv'
<1>1. /\ Shapes /\ Shapes' /\ Starts /\ cmd.at = "idle" /\ cmd'.at # "record_batch"
      /\ UNCHANGED <<questions, batches, bought, parts>> /\ dryRuns' = dryRuns + 1
      /\ faults' \in {faults, faults + 1}
  <2>1. Shapes /\ Shapes'
    BY DryRunShapes DEF RetryInv
  <2>2. cmd'.at # "record_batch" /\ dryRuns' = dryRuns + 1
    BY <2>1, Probes DEF Idle
  <2>3. /\ Starts /\ UNCHANGED <<questions, batches, bought, parts>>
        /\ faults' \in {faults, faults + 1}
    BY DEF DryRun, openai, paid, Waits, Fault
  <2> QED BY <2>1, <2>2, <2>3 DEF Starts, Idle
<1>2. /\ \A q \in Questions : attempts'[q] \in {attempts[q], attempts[q] - 1}
      /\ \A q : OfPlan(q) = 0
  BY <1>1, Probes, NothingPlanned
<1>3. UNCHANGED <<OnOrder, Expected>>
  BY <1>1, OrdersStand
<1>4. \A q : UNCHANGED <<Load(q), Coming(q)>>
  BY <1>1, <1>3 DEF Load, Coming
<1>5. ASSUME NEW q \in Questions
      PROVE  Capped(q)' /\ HasRoom(q)' /\ (Counted(q) => Counted(q)')
  <2>1. Numbers(q) /\ Numbers(q)' /\ Capped(q)
    BY <1>1, NumbersAre, NextNumbersAre DEF RetryInv
  <2>2. Cap' >= Cap + 1 /\ Cap \in Nat /\ Cap' \in Nat
    <3>1. /\ MaxAttempts \in Nat /\ faults \in Nat /\ dryRuns \in Nat
          /\ Cap = MaxAttempts + faults + dryRuns /\ Cap' = MaxAttempts + faults' + (dryRuns + 1)
      BY <1>1, <2>1, NumbersAre DEF Numbers, Cap
    <3>2. faults' = faults \/ faults' = faults + 1
      BY <1>1
    <3> QED BY <3>1, <3>2
  <2>3. Load(q)' <= Cap
    BY <1>2, <1>4, <2>1, <2>2 DEF Numbers, Capped
  <2>4. Capped(q)' /\ HasRoom(q)'
    BY <2>1, <2>2, <2>3 DEF Numbers, Capped, HasRoom
  <2>5. Counted(q) => Counted(q)'
    <3>1. attempts'[q] <= attempts[q] /\ attempts[q] <= attempts'[q] + 1
      BY <1>2, <2>1 DEF Numbers
    <3> QED BY <1>1, <1>4, <2>1, <3>1, NumbersAre DEF Numbers, Counted
  <2> QED BY <2>4, <2>5
<1>6. questions' = questions /\ questions' \subseteq Questions
  BY <1>1 DEF Shapes, TypeOK
<1> QED BY <1>1, <1>5, <1>6 DEF RetryInv

LEMMA CallsRetries == ASSUME RetryInv, Calls PROVE RetryInv'
<1>1. /\ Shapes /\ Shapes' /\ cmd.at = "calls" /\ cmd'.at = "dry_charge"
      /\ cmd.asks \in SUBSET Questions
      /\ UNCHANGED <<batches, parts, faults, dryRuns>>
  BY CallsShapes, AsksAre DEF RetryInv, Calls, Goes
<1>7. PICK n \in Nat : Buy(cmd.asks, n)
  BY <1>1, CallsCost
<1>2. PICK bad : Store(cmd.asks, "dryrun", bad)
  BY DEF Calls
<1>3. /\ \A q \in cmd.asks : answers'[q] # None /\ attempts'[q] = AtMost(attempts[q] + 1, AttemptBound)
      /\ \A q \in Questions \ cmd.asks : answers'[q] = answers[q] /\ attempts'[q] = attempts[q]
      /\ questions' = questions
  BY <1>1, <1>2, Stores DEF Shapes
<1>4. UNCHANGED <<OnOrder, Expected>>
  BY <1>1, OrdersStand
<1>5. ASSUME NEW q \in Questions
      PROVE  /\ Capped(q)' /\ (HasRoom(q) => HasRoom(q)') /\ (Counted(q) => Counted(q)')
  <2>1. Numbers(q) /\ Numbers(q)' /\ Capped(q) /\ Cap' = Cap /\ Coming(q)' = Coming(q)
        /\ OfPlan(q)' = 0 /\ Cap \in Nat
    BY <1>1, <1>4, NumbersAre, NextNumbersAre, NothingPlannedNext DEF RetryInv, Cap, Coming, Numbers
  <2>2. CASE q \in cmd.asks
    <3>1. Load(q)' = Load(q) + 1 /\ OfPlan(q) = 1
      <4>1. bought'[q] = bought[q] + 1
        BY <1>1, <1>7, <2>2, Bought DEF Shapes
      <4>2. Load(q)' = bought'[q] + Times(OnOrder, q)
        BY <1>4 DEF Load
      <4> QED BY <1>1, <2>1, <2>2, <4>1, <4>2 DEF Load, Numbers, OfPlan, Planned
    <3>2. Capped(q)' /\ HasRoom(q)'
      BY <1>3, <2>1, <2>2, <3>1 DEF Capped, HasRoom, Numbers
    <3>3. attempts'[q] < AttemptBound => attempts'[q] = attempts[q] + 1
      BY <1>3, <2>1, <2>2, CountedOnce
    <3> QED BY <1>1, <2>1, <3>1, <3>2, <3>3, NumbersAre DEF Counted, Numbers
  <2>3. CASE q \notin cmd.asks
    <3>1. Load(q)' = Load(q) /\ OfPlan(q) = 0 /\ q \notin Planned
      <4>1. bought'[q] = bought[q]
        BY <1>1, <1>7, <2>1, <2>3, Bought DEF Shapes, Numbers
      <4> QED BY <1>1, <1>4, <2>3, <4>1 DEF Load, OfPlan, Planned
    <3>2. Capped(q)' /\ (HasRoom(q) => HasRoom(q)')
      BY <1>3, <2>1, <2>3, <3>1 DEF Capped, HasRoom, Numbers
    <3> QED BY <1>1, <1>3, <2>1, <2>3, <3>1, <3>2 DEF Counted, Numbers
  <2> QED BY <2>2, <2>3
<1>6. questions' = questions /\ questions' \subseteq Questions
  BY <1>1, <1>3 DEF Shapes, TypeOK
<1> QED BY <1>1, <1>5, <1>6 DEF RetryInv

LEMMA CallsFailRetries == ASSUME RetryInv, CallsFail PROVE RetryInv'
<1>1. /\ Shapes /\ Shapes' /\ cmd.at = "calls" /\ cmd'.at = "idle" /\ Fault
      /\ cmd.asks \in SUBSET Questions
      /\ UNCHANGED <<questions, attempts, batches, parts, dryRuns>>
  BY CallsFailShapes, AsksAre DEF RetryInv, CallsFail, db, Idle
<1>5. PICK S \in SUBSET cmd.asks : \E n \in Nat : Buy(S, n)
  BY <1>1, CallsFailCost
<1>2. PICK n \in Nat : Buy(S, n)
  BY <1>5
<1>3. UNCHANGED <<OnOrder, Expected>>
  BY <1>1, OrdersStand
<1>4. ASSUME NEW q \in Questions PROVE LosesOne(q)
  <2>1. Numbers(q) /\ Numbers(q)' /\ OfPlan(q)' = 0 /\ Coming(q)' = Coming(q) /\ attempts'[q] = attempts[q]
    BY <1>1, <1>3, NumbersAre, NextNumbersAre, NothingPlannedNext DEF Coming
  <2>2. bought'[q] = bought[q] + (IF q \in S THEN 1 ELSE 0)
    BY <1>1, <1>2, Bought DEF Shapes
  <2>3. Load(q)' = Load(q) + (IF q \in S THEN 1 ELSE 0)
    <3>1. Load(q)' = bought'[q] + Times(OnOrder, q)
      BY <1>3 DEF Load
    <3> QED BY <2>1, <2>2, <3>1 DEF Load, Numbers
  <2>4. q \in S => OfPlan(q) = 1
    BY <1>1 DEF OfPlan, Planned
  <2> QED BY <2>1, <2>3, <2>4 DEF LosesOne, Numbers
<1> QED BY <1>1, <1>4, FaultRetries

\* A command records what is due, or is done, or has its batch written down.
LEMMA LedgerRetries ==
  ASSUME RetryInv, DryCharge \/ Report \/ Charge \/ RecordBatch
  PROVE  RetryInv'
<1>1. /\ Shapes' /\ cmd.at \notin {"create", "calls"} /\ cmd'.at \notin {"create", "calls", "record_batch"}
      /\ UNCHANGED <<questions, attempts, answers, bought, batches, faults, dryRuns>>
  <2>1. cmd \in Command
    BY DEF RetryInv, Shapes, TypeOK
  <2>2. cmd.at \notin {"create", "calls"} /\ cmd'.at \notin {"create", "calls", "record_batch"}
    BY <2>1 DEF DryCharge, Report, Charge, RecordBatch, Idle, Command
  <2> QED BY <2>2, DryChargeShapes, ReportShapes, ChargeShapes, RecordBatchShapes
          DEF DryCharge, Report, Charge, RecordBatch, db, openai, paid, RetryInv
<1>2. UNCHANGED <<OnOrder, Expected>>
  <2>1. CASE RecordBatch
    BY <2>1, OrdersAfterRecord DEF RetryInv
  <2>2. CASE DryCharge \/ Report \/ Charge
    BY <1>1, <2>2, OrdersStand DEF DryCharge, Report, Charge
  <2> QED BY <2>1, <2>2
<1>3. UNCHANGED Planned
  BY <1>1, NothingPlanned, NothingPlannedNext
<1> QED BY <1>1, <1>2, <1>3, QuietRetries

LEMMA SubmitRetries == ASSUME RetryInv, Submit PROVE RetryInv'
<1>1. /\ Shapes /\ Shapes' /\ Starts /\ Waits /\ report # 0
      /\ cmd.at = "idle" /\ cmd'.at = "create" /\ cmd'.asks = Shard
      /\ UNCHANGED <<questions, attempts, answers, bought, batches, parts, dryRuns>>
  BY SubmitShapes DEF RetryInv, Submit, Starts, Idle, Goes, db, openai, paid
<1>2. UNCHANGED <<OnOrder, Expected>>
  BY <1>1, OrdersStand
<1>3. Waited => \A q : Coming(q) = 0
  BY <1>1, NothingIsOwed DEF Coming
<1>4. Planned = {} /\ Planned' = Shard /\ \A q : OfPlan(q) = 0
  BY <1>1, NothingPlanned DEF Planned
<1>5. \A q \in Shard : q \in questions /\ answers[q] = None
  BY <1>1, ShardIsSmall DEF Shapes, TypeOK, Pending
<1>6. \A q : UNCHANGED <<Load(q), Coming(q)>>
  BY <1>1, <1>2 DEF Load, Coming
<1>7. ASSUME NEW q \in Questions
      PROVE  Capped(q)' /\ (HasRoom(q) => HasRoom(q)') /\ (Counted(q) => Counted(q)')
  <2>1. Numbers(q) /\ Numbers(q)' /\ Capped(q) /\ Cap \in Nat
    BY <1>1, NumbersAre, NextNumbersAre DEF RetryInv, Numbers, Cap
  <2>2. CASE Waited
    <3>1. faults' = faults /\ Cap' = Cap
      BY <1>1, <2>2 DEF Waits, Cap
    <3>2. CASE q \in Shard
      <4>1. Load(q) < Cap /\ OfPlan(q)' = 1
        BY <1>3, <1>4, <1>5, <2>2, <3>2 DEF RetryInv, HasRoom, OfPlan
      <4> QED BY <1>1, <1>4, <1>6, <2>1, <3>1, <3>2, <4>1 DEF Capped, Counted, HasRoom, Numbers
    <3>3. CASE q \notin Shard
      <4>1. OfPlan(q)' = 0
        BY <1>4, <3>3 DEF OfPlan
      <4> QED BY <1>1, <1>4, <1>6, <2>1, <3>1, <4>1 DEF Capped, Counted, HasRoom
    <3> QED BY <3>2, <3>3
  <2>3. CASE ~Waited
    <3>1. faults' = faults + 1 /\ Cap' = Cap + 1
      <4>1. faults' = faults + 1
        BY <1>1, <2>3 DEF Waits, Fault
      <4> QED BY <1>1, <2>1, <4>1, NumbersAre DEF Cap, Numbers
    <3>2. Load(q) <= Cap
      BY <1>4, <2>1 DEF Capped, Numbers
    <3>3. Capped(q)' /\ HasRoom(q)'
      BY <1>6, <2>1, <3>1, <3>2 DEF Capped, HasRoom, Numbers
    <3>4. Counted(q) => Counted(q)'
      BY <1>1, <1>6, <2>1, <3>1, NumbersAre DEF Counted, Numbers
    <3> QED BY <3>3, <3>4
  <2> QED BY <2>2, <2>3
<1>8. questions' = questions /\ questions' \subseteq Questions
  BY <1>1 DEF Shapes, TypeOK
<1> QED BY <1>1, <1>7, <1>8 DEF RetryInv

LEMMA CreateRetries == ASSUME RetryInv, Create PROVE RetryInv'
<1>1. /\ Shapes /\ Shapes' /\ cmd.at = "create" /\ cmd'.at = "record_batch"
      /\ UNCHANGED <<questions, attempts, answers, bought, faults, dryRuns>>
  BY CreateShapes DEF RetryInv, Create, Goes, db, paid
<1>2. Planned = cmd.asks /\ \A q : OfPlan(q)' = 0
  BY <1>1, NothingPlannedNext DEF Planned
<1>3. ASSUME NEW q \in Questions
      PROVE  Capped(q)' /\ (HasRoom(q) => HasRoom(q)') /\ (Counted(q) => Counted(q)')
  <2>1. Numbers(q) /\ Numbers(q)' /\ Capped(q) /\ Cap' = Cap /\ Cap \in Nat
    BY <1>1, NumbersAre, NextNumbersAre DEF RetryInv, Numbers, Cap
  <2>2. Load(q)' = Load(q) + OfPlan(q) /\ Coming(q)' = Coming(q) + OfPlan(q)
    <3>1. /\ Times(OnOrder', q) = Times(OnOrder, q) + OfPlan(q)
          /\ Times(Expected', q) = Times(Expected, q) + OfPlan(q)
      BY <1>1, <1>2, OrdersAfterCreate DEF OfPlan
    <3> QED BY <1>1, <2>1, <3>1 DEF Load, Coming, Numbers
  <2>3. Capped(q)'
    BY <1>2, <2>1, <2>2 DEF Capped, Numbers
  <2>4. HasRoom(q) => HasRoom(q)'
    <3>1. CASE q \in cmd.asks
      BY <1>2, <2>1, <2>2, <3>1 DEF HasRoom, OfPlan, Numbers
    <3>2. CASE q \notin cmd.asks
      BY <1>1, <1>2, <2>1, <2>2, <3>2 DEF HasRoom, OfPlan, Numbers
    <3> QED BY <3>1, <3>2
  <2>5. Counted(q) => Counted(q)'
    BY <1>1, <2>1, <2>2 DEF Counted, Numbers
  <2> QED BY <2>3, <2>4, <2>5
<1>4. questions' = questions /\ questions' \subseteq Questions
  BY <1>1 DEF Shapes, TypeOK
<1> QED BY <1>1, <1>3, <1>4 DEF RetryInv

LEMMA BatchEndsRetries ==
  ASSUME RetryInv, NEW b \in DOMAIN batches, BatchEnds(b) PROVE RetryInv'
<1>1. /\ Shapes /\ Shapes'
      /\ UNCHANGED <<questions, attempts, answers, cmd, dryRuns>>
  BY BatchEndsShapes DEF RetryInv, BatchEnds, db
<1>2. PICK A \in SUBSET Questions : \E S \in SUBSET A : \E n \in Nat : EndsWith(A, S, n)
  BY <1>1, OrdersAfterEnd
<1>7. PICK S \in SUBSET A, n \in Nat : EndsWith(A, S, n)
  BY <1>2
<1>3. /\ Buy(S, n)
      /\ \A q : /\ Times(OnOrder', q) = Times(OnOrder, q) - (IF q \in A THEN 1 ELSE 0)
                /\ Times(Expected', q) >= Times(Expected, q) - (IF q \in A THEN 1 ELSE 0)
      /\ \/ Fault
         \/ /\ UNCHANGED faults /\ S = A
            /\ \A q : Times(Expected', q) = Times(Expected, q)
  BY <1>7 DEF EndsWith
<1>4. ASSUME NEW q \in Questions
      PROVE  /\ Numbers(q) /\ Numbers(q)' /\ OfPlan(q)' = OfPlan(q)
             /\ Load(q)' = Load(q) + (IF q \in S THEN 1 ELSE 0) - (IF q \in A THEN 1 ELSE 0)
             /\ Coming(q)' >= Coming(q) - (IF q \in A THEN 1 ELSE 0)
  <2>1. Numbers(q) /\ Numbers(q)' /\ OfPlan(q)' = OfPlan(q)
    BY <1>1, NumbersAre, NextNumbersAre DEF OfPlan, Planned
  <2>2. bought'[q] = bought[q] + (IF q \in S THEN 1 ELSE 0)
    BY <1>1, <1>3, Bought DEF Shapes
  <2>3. /\ Times(OnOrder', q) = Times(OnOrder, q) - (IF q \in A THEN 1 ELSE 0)
        /\ Times(Expected', q) >= Times(Expected, q) - (IF q \in A THEN 1 ELSE 0)
    BY <1>3
  <2> QED BY <2>1, <2>2, <2>3 DEF Load, Coming, Numbers
<1>5. CASE Fault
  <2>1. ASSUME NEW q \in Questions PROVE LosesOne(q)
    <3>1. q \in S => q \in A
      OBVIOUS
    <3> QED BY <1>1, <1>4, <3>1 DEF LosesOne, Numbers
  <2> QED BY <1>1, <1>5, <2>1, FaultRetries
<1>6. CASE /\ UNCHANGED faults /\ S = A /\ \A q : Times(Expected', q) = Times(Expected, q)
  <2>1. ASSUME NEW q \in Questions PROVE UNCHANGED <<Load(q), Coming(q), OfPlan(q)>>
    BY <1>4, <1>6 DEF Numbers, Coming
  <2>2. Cap' = Cap /\ Planned' = Planned /\ questions' \subseteq Questions
    BY <1>1, <1>6 DEF Cap, Planned, Shapes, TypeOK
  <2> QED BY <1>1, <1>6, <2>1, <2>2 DEF RetryInv, Capped, Counted, HasRoom
<1> QED BY <1>3, <1>5, <1>6

LEMMA CollectRetries == ASSUME RetryInv, NEW n, Collect(n) PROVE RetryInv'
<1>1. /\ Shapes /\ Shapes' /\ UNCHANGED <<bought, dryRuns>>
  BY CollectShapes DEF RetryInv, Collect, paid
<1>2. PICK S \in SUBSET Questions :
           /\ \A q : Times(OnOrder', q) = Times(OnOrder, q)
           /\ \E bad : Store(S \intersect questions, "batch", bad)
           /\ cmd = Idle /\ \E cost : Goes("charge", {}, cost)
           /\ \/ Fault /\ \A q : Times(Expected', q) = Times(Expected, q)
              \/ /\ UNCHANGED faults
                 /\ \A q : Times(Expected', q) = Times(Expected, q) - (IF q \in S THEN 1 ELSE 0)
  BY <1>1, OrdersAfterCollect
<1>3. PICK bad : Store(S \intersect questions, "batch", bad)
  BY <1>2
<1> DEFINE T == S \intersect questions
<1>4. /\ \A q \in T : answers'[q] # None /\ attempts'[q] = AtMost(attempts[q] + 1, AttemptBound)
      /\ \A q \in Questions \ T : answers'[q] = answers[q] /\ attempts'[q] = attempts[q]
      /\ questions' = questions
  <2>1. T \in SUBSET Questions /\ TypeOK
    BY <1>1 DEF Shapes
  <2>2. Store(T, "batch", bad)
    BY <1>3
  <2> HIDE DEF T
  <2> QED BY <2>1, <2>2, Stores
<1>5. Planned = {} /\ Planned' = {}
  BY <1>2 DEF Idle, Goes, Planned
<1>6. ASSUME NEW q \in Questions
      PROVE  /\ Numbers(q) /\ Numbers(q)' /\ OfPlan(q) = 0 /\ OfPlan(q)' = 0
             /\ Load(q)' = Load(q) /\ attempts[q] <= attempts'[q]
             /\ q \in T /\ attempts'[q] < AttemptBound => attempts'[q] = attempts[q] + 1
  <2>1. Numbers(q) /\ Numbers(q)' /\ OfPlan(q) = 0 /\ OfPlan(q)' = 0
    BY <1>1, <1>5, NumbersAre, NextNumbersAre DEF OfPlan
  <2>2. Load(q)' = Load(q)
    BY <1>1, <1>2 DEF Load
  <2>3. CASE q \in T
    <3>1. attempts'[q] = AtMost(attempts[q] + 1, AttemptBound)
      BY <1>4, <2>3
    <3> QED BY <2>1, <2>2, <3>1, CountedOnce
  <2>4. CASE q \notin T
    BY <1>4, <2>1, <2>2, <2>4 DEF Numbers
  <2> QED BY <2>3, <2>4
<1>7. CASE Fault /\ \A q : Times(Expected', q) = Times(Expected, q)
  <2>1. ASSUME NEW q \in Questions PROVE LosesOne(q)
    <3>1. Coming(q)' = Coming(q)
      BY <1>7 DEF Coming
    <3> QED BY <1>6, <3>1 DEF LosesOne, Numbers
  <2> QED BY <1>1, <1>4, <1>7, <2>1, FaultRetries
<1>8. CASE /\ UNCHANGED faults
           /\ \A q : Times(Expected', q) = Times(Expected, q) - (IF q \in S THEN 1 ELSE 0)
  <2>1. Cap' = Cap /\ questions' \subseteq Questions
    BY <1>1, <1>4, <1>8 DEF Cap, Shapes, TypeOK
  <2>2. \A q \in Questions : Capped(q)'
    BY <1>6, <2>1 DEF RetryInv, Capped
  <2>3. ASSUME NEW q \in questions PROVE Counted(q)' /\ HasRoom(q)'
    <3>1. q \in Questions /\ Counted(q) /\ HasRoom(q) /\ (q \in S <=> q \in T)
      BY <1>1, <2>3 DEF RetryInv, Shapes, TypeOK
    <3>2. Coming(q)' = Coming(q) - (IF q \in T THEN 1 ELSE 0)
      BY <1>8, <3>1 DEF Coming
    <3>3. Counted(q)'
      <4>1. /\ Numbers(q) /\ Numbers(q)' /\ Load(q)' = Load(q) /\ attempts[q] <= attempts'[q]
            /\ UNCHANGED <<faults, dryRuns>>
            /\ attempts'[q] < AttemptBound - dryRuns =>
                 attempts'[q] = attempts[q] + (IF q \in T THEN 1 ELSE 0)
        <5>1. q \notin T => attempts'[q] = attempts[q]
          BY <1>4, <3>1
        <5>2. Numbers(q) /\ Numbers(q)' /\ AttemptBound \in Nat
          BY <1>6, <3>1, Sizes
        <5> QED BY <1>1, <1>6, <1>8, <3>1, <5>1, <5>2 DEF Numbers
      <4> HIDE DEF T
      <4> QED BY <3>1, <3>2, <4>1, Sizes DEF Counted, Numbers
    <3>4. CASE q \in T
      BY <1>4, <3>3, <3>4 DEF HasRoom
    <3>5. CASE q \notin T
      <4>1. answers'[q] = answers[q] /\ Coming(q)' = Coming(q) /\ Load(q)' = Load(q)
        BY <1>4, <1>6, <3>1, <3>2, <3>5 DEF Numbers
      <4> QED BY <1>5, <2>1, <3>1, <3>3, <4>1 DEF HasRoom
    <3> QED BY <3>4, <3>5
  <2> QED BY <1>1, <1>4, <2>2, <2>3 DEF RetryInv
<1> QED BY <1>2, <1>7, <1>8

LEMMA KilledRetries == ASSUME RetryInv, Killed PROVE RetryInv'
<1>1. /\ Shapes /\ Shapes' /\ Fault /\ cmd'.at = "idle"
      /\ UNCHANGED <<questions, attempts, bought, dryRuns>>
  BY KilledShapes DEF RetryInv, Killed, db, openai, paid, Idle
<1>2. ASSUME NEW q \in Questions PROVE LosesOne(q)
  <2>1. Numbers(q) /\ Numbers(q)' /\ OfPlan(q)' = 0 /\ attempts'[q] = attempts[q]
    BY <1>1, NumbersAre, NextNumbersAre, NothingPlannedNext
  <2>2. Load(q)' = Load(q)
    BY <1>1, OrdersAfterKill DEF Load
  <2>3. Coming(q)' >= Coming(q) - 1
    <3>1. Times(Expected', q) = Times(Expected, q) \/ Times(Expected', q) >= Times(Expected, q) - 1
      BY <1>1, OrdersAfterKill
    <3> QED BY <2>1, <3>1 DEF Coming, Numbers
  <2> QED BY <2>1, <2>2, <2>3 DEF LosesOne, Numbers
<1> QED BY <1>1, <1>2, FaultRetries

\* The steps that touch nothing but the rows.
LEMMA RowsRetries ==
  ASSUME RetryInv, Shapes', UNCHANGED <<attempts, openai, parts, cmd, faults, dryRuns>>,
         questions' \subseteq questions,
         \A q \in questions' : answers'[q] = None => answers[q] = None \/ attempts[q] < MaxAttempts
  PROVE  RetryInv'
<1>1. \A q : UNCHANGED <<Load(q), Coming(q), OfPlan(q), Cap, Planned>>
  BY DEF openai, paid, Load, Coming, OfPlan, Planned, Cap, OnOrder, Expected, Tracked
<1>2. questions \subseteq Questions /\ Shapes
  BY DEF RetryInv, Shapes, TypeOK
<1>3. ASSUME NEW q \in questions' PROVE HasRoom(q)'
  <2>1. Numbers(q) /\ HasRoom(q) /\ Counted(q)
    BY <1>2, NumbersAre DEF RetryInv
  <2>2. CASE attempts[q] < MaxAttempts
    <3>1. attempts[q] < AttemptBound - dryRuns
      BY <2>1, <2>2, NumbersAre DEF Numbers
    <3>2. Coming(q) = 0 => Load(q) < Cap
      BY <2>1, <2>2, <3>1, NumbersAre DEF Counted, Numbers, Cap
    <3> QED BY <1>1, <3>2 DEF HasRoom
  <2>3. CASE answers'[q] = None => answers[q] = None
    BY <1>1, <2>1, <2>3 DEF HasRoom
  <2> QED BY <2>2, <2>3
<1>4. \A q \in questions' : Counted(q)'
  BY <1>1 DEF RetryInv, Counted
<1>5. \A q \in Questions : Capped(q)'
  BY <1>1 DEF RetryInv, Capped
<1> QED BY <1>3, <1>4, <1>5 DEF RetryInv

LEMMA RetriesInductive == RetryInv /\ [Next]_vars => RetryInv'
<1> SUFFICES ASSUME RetryInv, [Next]_vars PROVE RetryInv'
  OBVIOUS
<1>1. Shapes /\ Shapes' /\ TypeOK
  BY ShapesInductive DEF RetryInv, Shapes
<1>2. CASE \/ \E limit \in 1..Cardinality(Questions) : AttachRetrieval(limit)
           \/ ResetRetrieval
           \/ UNCHANGED vars
  BY <1>1, <1>2, RowsRetries DEF AttachRetrieval, ResetRetrieval, vars, openai, paid
<1>3. CASE Revalidate
  <2>1. \A q \in questions : answers'[q] = None => answers[q] = None
    BY <1>1, <1>3, Revalidates DEF TypeOK
  <2> QED BY <1>1, <1>3, <2>1, RowsRetries DEF Revalidate
<1>4. CASE Regenerate
  <2> DEFINE retry == {q \in Flagged : attempts[q] < MaxAttempts}
             dropped == Flagged \ retry
  <2>1. Delete(retry, dropped) /\ UNCHANGED <<openai, parts, cmd, faults, dryRuns>>
    BY <1>4 DEF Regenerate
  <2>2. \A q \in retry : attempts[q] < MaxAttempts
    OBVIOUS
  <2> HIDE DEF retry, dropped
  <2>3. /\ questions' = questions \ dropped /\ attempts' = attempts /\ questions \subseteq Questions
        /\ \A q \in Questions : answers'[q] = IF q \in retry \union dropped THEN None ELSE answers[q]
    BY <1>1, <2>1, Deletes DEF TypeOK
  <2>4. \A q \in questions' : answers'[q] = None => answers[q] = None \/ attempts[q] < MaxAttempts
    BY <2>2, <2>3
  <2> QED BY <1>1, <2>1, <2>3, <2>4, RowsRetries
<1>5. CASE DropInvalidQuestions
  <2>1. Delete({}, Flagged) /\ UNCHANGED <<openai, parts, cmd, faults, dryRuns>>
    BY <1>5 DEF DropInvalidQuestions
  <2>2. /\ questions' = questions \ Flagged /\ attempts' = attempts /\ questions \subseteq Questions
        /\ \A q \in Questions : answers'[q] = IF q \in {} \union Flagged THEN None ELSE answers[q]
    BY <1>1, <2>1, Deletes DEF TypeOK
  <2>3. \A q \in questions' : answers'[q] = None => answers[q] = None
    BY <2>2
  <2> QED BY <1>1, <2>1, <2>2, <2>3, RowsRetries
<1>6. CASE \E redo \in BOOLEAN : DryRun(redo)
  BY <1>6, DryRunRetries
<1>7. CASE Calls \/ CallsFail \/ Submit \/ Create
  BY <1>7, CallsRetries, CallsFailRetries, SubmitRetries, CreateRetries
<1>8. CASE DryCharge \/ Report \/ Charge \/ RecordBatch
  BY <1>8, LedgerRetries
<1>9. CASE \E b \in DOMAIN batches : BatchEnds(b)
  BY <1>9, BatchEndsRetries
<1>10. CASE \E n \in DOMAIN parts : Collect(n)
  BY <1>10, CollectRetries
<1>11. CASE Killed
  BY <1>11, KilledRetries
<1> QED BY <1>2, <1>3, <1>4, <1>5, <1>6, <1>7, <1>8, <1>9, <1>10, <1>11 DEF Next

\* "Hard cap on teacher regeneration per row": no question is generated more than
\* MAX_TEACHER_ATTEMPTS times, but for the probes that were redone and for the faults,
\* of which a shard that was not waited for is one.
THEOREM RetriesStayCapped == Spec => []RetriesAreCapped
<1>1. RetryInv => RetriesAreCapped
  <2> SUFFICES ASSUME RetryInv, NEW q \in Questions PROVE bought[q] <= MaxAttempts + faults + dryRuns
    BY DEF RetriesAreCapped
  <2>1. Numbers(q) /\ Capped(q)
    BY NumbersAre DEF RetryInv
  <2> QED BY <2>1, NumbersAre DEF Numbers, Capped, Load, Cap
<1>2. RetryInv /\ [Next]_vars => RetryInv'
  BY RetriesInductive
<1> QED BY <1>1, <1>2, InitRetries, PTL DEF Spec
==============================================================================
