------------------------------ MODULE DataSplits ------------------------------
(***************************************************************************)
(* From the valid teacher answers to the rows a model is trained on:       *)
(* `golden select`, `dataset export, export-v2, recovery-export, restore`  *)
(* and `train v2` (golden/select.py, dataset/, cli.py).                    *)
(*                                                                         *)
(* One operator runs one command at a time.  A command reads, commits, and *)
(* then writes its files one after the other; it may be killed at any      *)
(* file.  Between commands the teacher stage may change an answer.         *)
(*                                                                         *)
(* A row is a question and its answer; a digest is the content it is of.   *)
(***************************************************************************)
EXTENDS Naturals, FiniteSets, Sequences

CONSTANTS
  Ids, Category, Repo,             \* questions, and the cell each is in
  GoldenKey, SplitKey, MixKey,     \* the sha256 orders of the three seeds
  PerCell,                         \* GOLDEN_PER_CELL
  AdversarialKeep,                 \* DATASET_V2_ADVERSARIAL_KEEP
  Texts,                           \* answers a question may have
  Unsettled,                       \* bound: questions the teacher stage comes back to
  MaxChanges, MaxKills,            \* bounds
  None, Torn                       \* no valid answer or no file; half a file

Splits == {"train", "valid", "test"}

ASSUME SplitsAssumption ==
  /\ Ids \subseteq Nat /\ IsFiniteSet(Ids) /\ Unsettled \subseteq Ids
  /\ {GoldenKey, SplitKey, MixKey} \subseteq [Ids -> Nat]
  /\ \A f \in {GoldenKey, SplitKey, MixKey}, p, q \in Ids : f[p] = f[q] => p = q
  /\ {PerCell, AdversarialKeep, MaxChanges, MaxKills} \subseteq Nat
  /\ None \notin Texts

VARIABLES
  answers,   \* valid teacher answers
  golden,    \* questions with split = 'golden'
  disk,      \* the files of the artifacts directory
  writes,    \* what the command being run has yet to write
  trained,   \* what `train v2` has just been launched on
  changes, kills

vars == <<answers, golden, disk, writes, trained, changes, kills>>

V1 == [train |-> "dataset/train", valid |-> "dataset/valid", test |-> "dataset/test"]
V2 == [train |-> "dataset-v2/train", valid |-> "dataset-v2/valid", test |-> "dataset-v2/test"]
Files == {V1[s] : s \in Splits} \union {V2[s] : s \in Splits}
           \union {"golden_manifest", "golden_ids", "dataset_manifest", "dataset_v2_manifest",
                   "recovery"}

Row == [id: Ids, text: Texts]
Rows == SUBSET Row
Digests == [Splits -> Rows]
Record == [id: Ids, text: Texts \union {None}, split: {"train", "golden"}]

FileType(f) ==
  CASE f \in {"golden_manifest", "golden_ids"} -> SUBSET Ids
    [] f = "dataset_manifest" -> Digests
    [] f = "dataset_v2_manifest" -> [sha256: Digests, derived_from: Digests]
    [] f = "recovery" -> SUBSET Record
    [] OTHER -> Rows

\* The type of every file, of what is about to be written, and of a launch.
TypeOK ==
  /\ answers \in [Ids -> Texts \union {None}]
  /\ golden \subseteq Ids
  /\ DOMAIN disk = Files /\ \A f \in Files : disk[f] \in {None, Torn} \/ disk[f] \in FileType(f)
  /\ \A n \in DOMAIN writes : writes[n].content \in FileType(writes[n].file)
  /\ trained = None \/ trained \in [data: Digests, v1: Digests, v2: FileType("dataset_v2_manifest")]
  /\ changes \in 0..MaxChanges /\ kills \in 0..MaxKills

Init ==
  /\ \E t \in Texts : answers = [q \in Ids |-> t]
  /\ golden = {}
  /\ disk = [f \in Files |-> None]
  /\ writes = <<>>
  /\ trained = None
  /\ changes = 0 /\ kills = 0

(***************************************************************************)
(* Which rows go where: functions of the ids alone, no RNG.                *)
(***************************************************************************)
First(S, key, n) == {q \in S : Cardinality({p \in S : key[p] < key[q]}) < n}

Cells(S) == {{q \in S : Category[q] = Category[p] /\ Repo[q] = Repo[p]} : p \in S}

\* golden plan(): every cell its quota, then short cells from their category.
Sample(eligible) ==
  LET own == UNION {First(c, GoldenKey, PerCell) : c \in Cells(eligible)}
      quota == PerCell * Cardinality({Repo[q] : q \in eligible})
      Of(S, k) == {q \in S : Category[q] = k}
      fill(k) == First(Of(eligible, k) \ own, GoldenKey, quota - Cardinality(Of(own, k)))
  IN  own \union UNION {fill(Category[q]) : q \in eligible}

\* max(1, round(n * 0.08)), for both fractions.
HeldOut(n) == LET r == (8 * n + 50) \div 100 IN IF r = 0 THEN 1 ELSE r

\* dataset plan(): per cell test, valid, train.
Plan(S) ==
  LET test == UNION {First(c, SplitKey, HeldOut(Cardinality(c))) : c \in Cells(S)}
      valid == UNION {First(c \ test, SplitKey, HeldOut(Cardinality(c))) : c \in Cells(S)}
  IN  [train |-> S \ (test \union valid), valid |-> valid, test |-> test]

IdsOf(rows) == {r.id : r \in rows}
Adversarial(rows) == {r \in rows : Category[r.id] = "adversarial"}

(***************************************************************************)
(* Commands and files.                                                     *)
(***************************************************************************)
Starts == writes = <<>>
Readable(f) == disk[f] \notin {None, Torn}
Write(f, x) == <<[file |-> f, content |-> x]>>
WriteSplits(dir, x) == Write(dir.train, x.train) \o Write(dir.valid, x.valid) \o Write(dir.test, x.test)

Writes ==
  /\ writes # <<>>
  /\ disk' = [disk EXCEPT ![Head(writes).file] = Head(writes).content]
  /\ writes' = Tail(writes)
  /\ UNCHANGED <<answers, golden, changes, kills>>
  /\ trained' = None

\* What is left of a file that was being written.  A file of lines may end at the
\* end of one, and recovery.jsonl is the one that is read without its digest.
Halves(w) ==
  {Torn} \union IF w.file = "recovery" THEN {{r \in w.content : r.id < q} : q \in Ids} ELSE {}

\* Killed before a file, or while it is written; or what comes before the next
\* file raises (the tokenizer of measure_tokens is not there).
Killed ==
  /\ writes # <<>> /\ kills < MaxKills
  /\ \E x \in {disk[Head(writes).file]} \union Halves(Head(writes)) :
       disk' = [disk EXCEPT ![Head(writes).file] = x]
  /\ writes' = <<>> /\ kills' = kills + 1
  /\ UNCHANGED <<answers, golden, changes>>
  /\ trained' = None

\* The teacher stage: an answer is regenerated, flagged, dropped or collected.
ChangeAnswer(q) ==
  /\ Starts /\ changes < MaxChanges
  /\ \E t \in Texts \union {None} : t # answers[q] /\ answers' = [answers EXCEPT ![q] = t]
  /\ changes' = changes + 1
  /\ UNCHANGED <<golden, disk, writes, kills>>
  /\ trained' = None

Eligible == {q \in Ids : answers[q] # None}

\* golden select: the commit, then the manifest, then the ids.
Select ==
  /\ Starts
  /\ golden' = Sample(Eligible)
  /\ writes' = Write("golden_manifest", golden') \o Write("golden_ids", golden')
  /\ UNCHANGED <<answers, disk, changes, kills>>
  /\ trained' = None

RowsOf(S, text) == {[id |-> q, text |-> text[q]] : q \in S}
Rendered(S, text) ==
  LET p == Plan(S) IN [s \in Splits |-> RowsOf(p[s], text)]

\* Mutant: the ids file is not consulted.
ExportUnchecked ==
  /\ Starts /\ Readable("golden_ids")
  /\ LET x == Rendered(Eligible \ golden, answers)
     IN  writes' = WriteSplits(V1, x) \o Write("dataset_manifest", x)
  /\ UNCHANGED <<answers, golden, disk, changes, kills>>
  /\ trained' = None

\* dataset export: raises if an id of the golden ids file is in the pool.
Export ==
  /\ Starts /\ Readable("golden_ids")
  /\ LET pool == Eligible \ golden
         x == Rendered(pool, answers)
     IN  /\ pool \intersect disk["golden_ids"] = {}
         /\ writes' = WriteSplits(V1, x) \o Write("dataset_manifest", x)
  /\ UNCHANGED <<answers, golden, disk, changes, kills>>
  /\ trained' = None

OnDisk(dir) == [s \in Splits |-> disk[dir[s]]]

\* Mutant: v2's rows are rendered again from the database.
ExportV2Rendered ==
  /\ Starts /\ Readable("dataset_manifest") /\ OnDisk(V1) = disk["dataset_manifest"]
  /\ LET v1 == disk["dataset_manifest"]
         kept == First(IdsOf(Adversarial(v1.train)), MixKey, AdversarialKeep)
         train == RowsOf({q \in IdsOf(v1.train) : Category[q] = "adversarial" => q \in kept}, answers)
         x == [v1 EXCEPT !.train = train]
         good == /\ train # v1.train
                 /\ Readable("golden_ids") /\ IdsOf(train) \intersect disk["golden_ids"] = {}
     IN  /\ AdversarialKeep <= Cardinality(Adversarial(v1.train))
         /\ writes' = WriteSplits(V2, x) \o
              (IF good THEN Write("dataset_v2_manifest", [sha256 |-> x, derived_from |-> v1]) ELSE <<>>)
  /\ UNCHANGED <<answers, golden, disk, changes, kills>>
  /\ trained' = None

\* dataset export-v2: derived from files that match the committed manifest; the
\* strict subset and the golden ids are checked when the files are written.
ExportV2 ==
  /\ Starts /\ Readable("dataset_manifest") /\ OnDisk(V1) = disk["dataset_manifest"]
  /\ LET v1 == disk["dataset_manifest"]
         kept == First(IdsOf(Adversarial(v1.train)), MixKey, AdversarialKeep)
         train == {r \in v1.train : Category[r.id] = "adversarial" => r.id \in kept}
         x == [v1 EXCEPT !.train = train]
         good == /\ train # v1.train
                 /\ Readable("golden_ids") /\ IdsOf(train) \intersect disk["golden_ids"] = {}
     IN  /\ AdversarialKeep <= Cardinality(Adversarial(v1.train))
         /\ writes' = WriteSplits(V2, x) \o
              (IF good THEN Write("dataset_v2_manifest", [sha256 |-> x, derived_from |-> v1]) ELSE <<>>)
  /\ UNCHANGED <<answers, golden, disk, changes, kills>>
  /\ trained' = None

\* dataset recovery-export: every question, trainable or not.
RecoveryExport ==
  /\ Starts
  /\ writes' = Write("recovery",
       {[id |-> q, text |-> answers[q], split |-> IF q \in golden THEN "golden" ELSE "train"] : q \in Ids})
  /\ UNCHANGED <<answers, golden, disk, changes, kills>>
  /\ trained' = None

\* Mutant: rows without a valid answer are restored too.
RestoreAll ==
  /\ Starts /\ Readable("dataset_manifest") /\ Readable("recovery")
  /\ LET pool == {r \in disk["recovery"] : r.split = "train"}
         text == [q \in IdsOf(pool) |-> (CHOOSE r \in pool : r.id = q).text]
     IN  writes' = WriteSplits(V1, Rendered(IdsOf(pool), text))
  /\ UNCHANGED <<answers, golden, disk, changes, kills>>
  /\ trained' = None

\* dataset restore --target training/artifacts/dataset: the files are written,
\* and then compared.
Restore ==
  /\ Starts /\ Readable("dataset_manifest") /\ Readable("recovery")
  /\ LET pool == {r \in disk["recovery"] : r.split = "train" /\ r.text # None}
         text == [q \in IdsOf(pool) |-> (CHOOSE r \in pool : r.id = q).text]
     IN  writes' = WriteSplits(V1, Rendered(IdsOf(pool), text))
  /\ UNCHANGED <<answers, golden, disk, changes, kills>>
  /\ trained' = None

\* Mutant: v2 is compared with its own manifest alone.
VerifyOwnManifest ==
  /\ Readable("dataset_manifest") /\ Readable("dataset_v2_manifest")
  /\ OnDisk(V2) = disk["dataset_v2_manifest"].sha256

\* verify_v2, as `train v2` runs it.
VerifyV2 ==
  /\ Readable("dataset_manifest") /\ Readable("dataset_v2_manifest")
  /\ OnDisk(V2) = disk["dataset_v2_manifest"].sha256
  /\ \A s \in {"valid", "test"} : disk[V2[s]] = disk["dataset_manifest"][s]

TrainV2 ==
  /\ Starts /\ VerifyV2
  /\ trained' = [data |-> OnDisk(V2), v1 |-> disk["dataset_manifest"],
                 v2 |-> disk["dataset_v2_manifest"]]
  /\ UNCHANGED <<answers, golden, disk, writes, changes, kills>>

Next ==
  \/ Writes \/ Killed
  \/ \E q \in Unsettled : ChangeAnswer(q)
  \/ Select \/ Export \/ ExportV2 \/ RecoveryExport \/ Restore \/ TrainV2

Spec == Init /\ [][Next]_vars

(***************************************************************************)
(* Properties.                                                             *)
(***************************************************************************)
\* A sample that two killed selections left in the manifest alone is in neither of
\* the places an export looks at.
UnderReview == IF kills <= 1 /\ Readable("golden_manifest") THEN disk["golden_manifest"] ELSE {}

\* "Disjointness from the golden 96": wherever selections were killed, and whatever
\* was regenerated in between, no row of a sample that is in the database or in the
\* ids file is in a dataset manifest when it is written, nor, with one command
\* killed, of the sample that is under review.
GoldenNeverExported ==
  [][disk'["dataset_manifest"] # disk["dataset_manifest"] /\ disk'["dataset_manifest"] # Torn =>
       \A s \in Splits :
         IdsOf(disk'["dataset_manifest"][s]) \intersect (golden \union UnderReview \union disk["golden_ids"])
           = {}]_vars

\* "Refusing to start a 9-hour run": what v2 is trained on was exported whole, by
\* one export, however many were killed, repeated or restored over: no row is
\* both trained and scored on, and the rows scored on are v1's.
LaunchIsHeldOut ==
  trained # None =>
    /\ IdsOf(trained.data.train) \intersect (IdsOf(trained.data.valid) \union IdsOf(trained.data.test)) = {}
    /\ \A s \in {"valid", "test"} : trained.data[s] = trained.v1[s]

\* "Only train may differ": as long as v1 is the split v2 was derived from, v2 is
\* trained on a strict subset of v1's rows, word for word.
LaunchIsSubsetOfItsV1 ==
  (trained # None /\ trained.v2.derived_from = trained.v1) =>
    trained.data.train \subseteq trained.v1.train /\ trained.data.train # trained.v1.train
==============================================================================
