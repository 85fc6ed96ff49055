-------------------------- MODULE DataSplits_proofs --------------------------
(***************************************************************************)
(* The splits, for any questions, cells, orders, quotas and texts, and any *)
(* number of kills and changes: every file keeps its type, what v2 is      *)
(* trained on is one whole export, and no golden row is exported.          *)
(***************************************************************************)
EXTENDS DataSplits, SequenceTheorems, TLAPS

\* A split whose train shares no question with what it is scored on.
Whole(x) == IdsOf(x.train) \intersect (IdsOf(x.valid) \union IdsOf(x.test)) = {}

\* A v2 manifest: v1's split but for train, which lost rows.
Derived(m) ==
  /\ Whole(m.sha256)
  /\ m.sha256.train \subseteq m.derived_from.train /\ m.sha256.train # m.derived_from.train

\* No row of a split is golden.
Clear(x) ==
  \A s \in Splits : IdsOf(x[s]) \intersect (golden \union UnderReview \union disk["golden_ids"]) = {}

GoldenFiles == {"golden_manifest", "golden_ids"}

\* What may be written of one command.
Entries ==
  {w \in [file : Files, content : UNION {FileType(f) : f \in Files}] : w.content \in FileType(w.file)}

\* What a command other than a selection has yet to write.
Plain ==
  {w \in Entries :
     /\ w.file \notin GoldenFiles
     /\ w.file = "dataset_manifest" => Whole(w.content) /\ Clear(w.content)
     /\ w.file = "dataset_v2_manifest" => Derived(w.content)}

Selecting == writes = <<[file |-> "golden_manifest", content |-> golden],
                        [file |-> "golden_ids", content |-> golden]>>
Storing == writes = <<[file |-> "golden_ids", content |-> golden]>>

Manifest == disk["golden_manifest"]

\* Where a selection has come to, and what the ones before it left: with one kill
\* the manifest is that of the database or that of the ids file.
SelectionInv ==
  \/ Selecting /\ (kills = 0 => Manifest = disk["golden_ids"])
  \/ Storing /\ Manifest = golden
  \/ /\ writes \in Seq(Plain)
     /\ kills <= 1 /\ Readable("golden_manifest") => Manifest \in {golden, disk["golden_ids"]}
     /\ kills = 0 => Manifest = disk["golden_ids"]

ManifestInv ==
  /\ Readable("dataset_manifest") => Whole(disk["dataset_manifest"])
  /\ Readable("dataset_v2_manifest") => Derived(disk["dataset_v2_manifest"])

SplitsInv == TypeOK /\ ManifestInv /\ SelectionInv /\ LaunchIsHeldOut /\ LaunchIsSubsetOfItsV1

(***************************************************************************)
(* The files and their types.                                              *)
(***************************************************************************)
LEMMA FileTypes ==
  /\ FileType("golden_manifest") = SUBSET Ids /\ FileType("golden_ids") = SUBSET Ids
  /\ FileType("dataset_manifest") = Digests
  /\ FileType("dataset_v2_manifest") = [sha256: Digests, derived_from: Digests]
  /\ FileType("recovery") = SUBSET Record
  /\ \A s \in Splits : /\ FileType(V1[s]) = Rows /\ FileType(V2[s]) = Rows
                       /\ V1[s] \in Files /\ V2[s] \in Files
                       /\ {V1[s], V2[s]} \intersect (GoldenFiles \union {"dataset_manifest", "dataset_v2_manifest", "recovery"}) = {}
  /\ GoldenFiles \union {"dataset_manifest", "dataset_v2_manifest", "recovery"} \subseteq Files
<1>1. /\ FileType("golden_manifest") = SUBSET Ids /\ FileType("golden_ids") = SUBSET Ids
      /\ FileType("dataset_manifest") = Digests
      /\ FileType("dataset_v2_manifest") = [sha256: Digests, derived_from: Digests]
      /\ FileType("recovery") = SUBSET Record
  BY DEF FileType
<1>2. \A f \in {"dataset/train", "dataset/valid", "dataset/test",
                "dataset-v2/train", "dataset-v2/valid", "dataset-v2/test"} : FileType(f) = Rows
  BY DEF FileType
<1>3. \A s \in Splits : /\ V1[s] \in {"dataset/train", "dataset/valid", "dataset/test"}
                        /\ V2[s] \in {"dataset-v2/train", "dataset-v2/valid", "dataset-v2/test"}
  BY DEF V1, V2, Splits
<1>4. \A s \in Splits : /\ FileType(V1[s]) = Rows /\ FileType(V2[s]) = Rows
                        /\ {V1[s], V2[s]} \intersect (GoldenFiles \union
                             {"dataset_manifest", "dataset_v2_manifest", "recovery"}) = {}
  BY <1>2, <1>3 DEF GoldenFiles
<1>5. /\ \A s \in Splits : V1[s] \in Files /\ V2[s] \in Files
      /\ GoldenFiles \union {"dataset_manifest", "dataset_v2_manifest", "recovery"} \subseteq Files
  BY DEF Files, GoldenFiles
<1> QED BY <1>1, <1>4, <1>5

LEMMA ReadableTypes ==
  ASSUME TypeOK, NEW f \in Files, Readable(f)
  PROVE  disk[f] \in FileType(f)
BY DEF TypeOK, Readable

\* A file to write, and three.
LEMMA EntryIs ==
  ASSUME NEW f \in Files, NEW x \in FileType(f)
  PROVE  /\ [file |-> f, content |-> x] \in Entries
         /\ [file |-> f, content |-> x].file = f /\ [file |-> f, content |-> x].content = x
BY DEF Entries

LEMMA PlainWrites ==
  ASSUME NEW f \in Files, NEW x \in FileType(f), f \notin GoldenFiles,
         f = "dataset_manifest" => Whole(x) /\ Clear(x),
         f = "dataset_v2_manifest" => Derived(x)
  PROVE  Write(f, x) \in Seq(Plain)
<1> DEFINE w == [file |-> f, content |-> x]
<1>1. w \in Entries /\ w.file = f /\ w.content = x
  BY EntryIs
<1>2. Write(f, x) = <<w>>
  BY DEF Write
<1> HIDE DEF w
<1>3. w \in Plain
  BY <1>1 DEF Plain
<1> QED BY <1>2, <1>3

LEMMA PlainSplits ==
  ASSUME NEW dir \in {V1, V2}, NEW x \in Digests
  PROVE  WriteSplits(dir, x) \in Seq(Plain)
<1>1. ASSUME NEW s \in Splits PROVE Write(dir[s], x[s]) \in Seq(Plain)
  <2>1. /\ dir[s] \in Files /\ x[s] \in FileType(dir[s]) /\ dir[s] \notin GoldenFiles
        /\ dir[s] # "dataset_manifest" /\ dir[s] # "dataset_v2_manifest"
    BY FileTypes DEF Digests
  <2> QED BY <2>1, PlainWrites
<1>2. /\ Write(dir.train, x.train) \in Seq(Plain) /\ Write(dir.valid, x.valid) \in Seq(Plain)
      /\ Write(dir.test, x.test) \in Seq(Plain)
  BY <1>1 DEF Splits
<1> QED BY <1>2, ConcatProperties DEF WriteSplits

(***************************************************************************)
(* Which rows go where.                                                    *)
(***************************************************************************)
LEMMA FirstOf == \A S, key, n : First(S, key, n) \subseteq S
BY DEF First

LEMMA CellsOf == \A S : \A c \in Cells(S) : c \subseteq S
BY DEF Cells

LEMMA SampleOf == ASSUME NEW S \in SUBSET Ids PROVE Sample(S) \in SUBSET Ids
<1> DEFINE own == UNION {First(c, GoldenKey, PerCell) : c \in Cells(S)}
           quota == PerCell * Cardinality({Repo[q] : q \in S})
           Of(T, k) == {q \in T : Category[q] = k}
           fill(k) == First(Of(S, k) \ own, GoldenKey, quota - Cardinality(Of(own, k)))
<1>1. own \subseteq S
  BY FirstOf, CellsOf
<1>2. ASSUME NEW k PROVE fill(k) \subseteq S
  <2>1. fill(k) \subseteq Of(S, k) \ own
    BY FirstOf
  <2> QED BY <2>1
<1>3. Sample(S) = own \union UNION {fill(Category[q]) : q \in S}
  BY DEF Sample
<1> HIDE DEF own, fill
<1> QED BY <1>1, <1>2, <1>3

LEMMA PlanOf ==
  ASSUME NEW S
  PROVE  /\ \A s \in Splits : Plan(S)[s] \subseteq S
         /\ Plan(S).train \intersect (Plan(S).valid \union Plan(S).test) = {}
<1> DEFINE test == UNION {First(c, SplitKey, HeldOut(Cardinality(c))) : c \in Cells(S)}
           valid == UNION {First(c \ test, SplitKey, HeldOut(Cardinality(c))) : c \in Cells(S)}
<1>1. test \subseteq S
  BY FirstOf, CellsOf
<1>2. valid \subseteq S
  <2>1. ASSUME NEW c \in Cells(S) PROVE First(c \ test, SplitKey, HeldOut(Cardinality(c))) \subseteq S
    <3>1. First(c \ test, SplitKey, HeldOut(Cardinality(c))) \subseteq c \ test /\ c \subseteq S
      BY FirstOf, CellsOf
    <3> QED BY <3>1
  <2> QED BY <2>1
<1>3. Plan(S) = [train |-> S \ (test \union valid), valid |-> valid, test |-> test]
  BY DEF Plan
<1> HIDE DEF test, valid
<1> QED BY <1>1, <1>2, <1>3 DEF Splits

LEMMA RowsAre ==
  ASSUME NEW S \in SUBSET Ids, NEW text, \A q \in S : text[q] \in Texts
  PROVE  RowsOf(S, text) \in Rows /\ IdsOf(RowsOf(S, text)) = S
<1>1. RowsOf(S, text) \in Rows
  BY DEF RowsOf, Rows, Row
<1>2. IdsOf(RowsOf(S, text)) = S
  <2>1. ASSUME NEW q \in S PROVE q \in IdsOf(RowsOf(S, text))
    <3>1. [id |-> q, text |-> text[q]] \in RowsOf(S, text)
      BY DEF RowsOf
    <3>2. [id |-> q, text |-> text[q]].id = q
      OBVIOUS
    <3> QED BY <3>1, <3>2 DEF IdsOf
  <2>2. IdsOf(RowsOf(S, text)) \subseteq S
    BY DEF RowsOf, IdsOf
  <2> QED BY <2>1, <2>2
<1> QED BY <1>1, <1>2

\* What an export renders: whole, and of no other questions.
LEMMA RenderedIs ==
  ASSUME NEW S \in SUBSET Ids, NEW text, \A q \in S : text[q] \in Texts
  PROVE  /\ Rendered(S, text) \in Digests /\ Whole(Rendered(S, text))
         /\ \A s \in Splits : IdsOf(Rendered(S, text)[s]) \subseteq S
<1> DEFINE x == Rendered(S, text)
<1>1. x = [s \in Splits |-> RowsOf(Plan(S)[s], text)]
  BY DEF Rendered
<1>2. ASSUME NEW s \in Splits PROVE x[s] \in Rows /\ IdsOf(x[s]) = Plan(S)[s] /\ Plan(S)[s] \subseteq S
  <2>1. Plan(S)[s] \in SUBSET Ids /\ (\A q \in Plan(S)[s] : text[q] \in Texts) /\ Plan(S)[s] \subseteq S
    BY PlanOf
  <2>2. x[s] = RowsOf(Plan(S)[s], text)
    BY <1>1
  <2> QED BY <2>1, <2>2, RowsAre
<1>3. x \in Digests
  BY <1>1, <1>2 DEF Digests
<1>4. Whole(x)
  <2>1. /\ IdsOf(x.train) = Plan(S).train /\ IdsOf(x.valid) = Plan(S).valid
        /\ IdsOf(x.test) = Plan(S).test
    BY <1>2 DEF Splits
  <2> QED BY <2>1, PlanOf DEF Whole
<1> QED BY <1>2, <1>3, <1>4

(***************************************************************************)
(* The steps.                                                              *)
(***************************************************************************)
LEMMA EntriesTyped ==
  ASSUME NEW w \in Seq(Entries)
  PROVE  \A n \in DOMAIN w : w[n].file \in Files /\ w[n].content \in FileType(w[n].file)
<1>1. \A n \in DOMAIN w : w[n] \in Entries
  OBVIOUS
<1> QED BY <1>1 DEF Entries

LEMMA PlainIsTyped == Seq(Plain) \subseteq Seq(Entries)
BY DEF Plain

\* One thing to write, and two.
LEMMA OneAndTwo ==
  ASSUME NEW a, NEW b
  PROVE  /\ <<a, b>> # <<>> /\ Head(<<a, b>>) = a /\ Tail(<<a, b>>) = <<b>>
         /\ <<b>> # <<>> /\ Head(<<b>>) = b /\ Tail(<<b>>) = <<>>
         /\ <<a>> \o <<b>> = <<a, b>>
<1>1. <<a, b>> # <<>> /\ Head(<<a, b>>) = a /\ Tail(<<a, b>>) = <<b>>
  OBVIOUS
<1>2. <<b>> # <<>> /\ Head(<<b>>) = b /\ Tail(<<b>>) = <<>>
  OBVIOUS
<1>3. <<a>> \o <<b>> = <<a, b>>
  <2> DEFINE S == {a, b}
             w == <<a>> \o <<b>>
  <2>1. /\ <<a>> \in Seq(S) /\ <<b>> \in Seq(S) /\ <<a, b>> \in Seq(S)
        /\ Len(<<a>>) = 1 /\ Len(<<b>>) = 1 /\ Len(<<a, b>>) = 2
    OBVIOUS
  <2>2. /\ w \in Seq(S) /\ Len(w) = 1 + 1
        /\ \A n \in 1 .. 1 + 1 : w[n] = IF n <= 1 THEN <<a>>[n] ELSE <<b>>[n - 1]
    <3> HIDE DEF S
    <3> QED BY <2>1, ConcatProperties
  <2> HIDE DEF S, w
  <2>3. \A n \in 1..2 : w[n] = <<a, b>>[n]
    BY <2>2
  <2>4. w = <<a, b>>
    BY <2>1, <2>2, <2>3, SeqEqual
  <2> QED BY <2>4 DEF w
<1> QED BY <1>1, <1>2, <1>3

\* The sequences of a selection, from one file to the next.
LEMMA SelectionWrites ==
  /\ Selecting => /\ writes # <<>> /\ Head(writes).file = "golden_manifest"
                  /\ Head(writes).content = golden
                  /\ Tail(writes) = <<[file |-> "golden_ids", content |-> golden]>>
  /\ Storing => /\ writes # <<>> /\ Head(writes).file = "golden_ids"
                /\ Head(writes).content = golden /\ Tail(writes) = <<>>
<1> DEFINE m == [file |-> "golden_manifest", content |-> golden]
           i == [file |-> "golden_ids", content |-> golden]
<1>1. m.file = "golden_manifest" /\ m.content = golden /\ i.file = "golden_ids" /\ i.content = golden
  OBVIOUS
<1>2. (Selecting => writes = <<m, i>>) /\ (Storing => writes = <<i>>)
  BY DEF Selecting, Storing
<1> HIDE DEF m, i
<1>3. Selecting => writes # <<>> /\ Head(writes) = m /\ Tail(writes) = <<i>>
  BY <1>2, OneAndTwo
<1>4. Storing => writes # <<>> /\ Head(writes) = i /\ Tail(writes) = <<>>
  BY <1>2, OneAndTwo
<1>5. <<i>> = <<[file |-> "golden_ids", content |-> golden]>>
  BY DEF i
<1>6. Selecting => /\ writes # <<>> /\ Head(writes).file = "golden_manifest"
                   /\ Head(writes).content = golden
  BY <1>1, <1>3
<1>7. Storing => /\ writes # <<>> /\ Head(writes).file = "golden_ids"
                 /\ Head(writes).content = golden /\ Tail(writes) = <<>>
  BY <1>1, <1>4
<1> QED BY <1>3, <1>5, <1>6, <1>7

LEMMA WritesAre ==
  ASSUME SplitsInv
  PROVE  writes \in Seq(Entries)
<1>1. golden \in FileType("golden_manifest") /\ golden \in FileType("golden_ids")
  BY FileTypes DEF SplitsInv, TypeOK
<1>2. [file |-> "golden_manifest", content |-> golden] \in Entries
  BY <1>1, EntryIs, FileTypes DEF GoldenFiles
<1>3. [file |-> "golden_ids", content |-> golden] \in Entries
  BY <1>1, EntryIs, FileTypes DEF GoldenFiles
<1>4. Selecting => writes \in Seq(Entries)
  BY <1>2, <1>3 DEF Selecting
<1>5. Storing => writes \in Seq(Entries)
  BY <1>3 DEF Storing
<1> QED BY <1>4, <1>5, PlainIsTyped DEF SplitsInv, SelectionInv

\* A command starts where no selection is being written.
LEMMA StartsPlain ==
  ASSUME SplitsInv, Starts
  PROVE  /\ kills <= 1 /\ Readable("golden_manifest") => Manifest \in {golden, disk["golden_ids"]}
         /\ kills = 0 => Manifest = disk["golden_ids"]
BY SelectionWrites DEF SplitsInv, SelectionInv, Starts

LEMMA CommandKeeps ==
  ASSUME SplitsInv, Starts, UNCHANGED <<golden, disk, kills>>, trained' = None, writes' \in Seq(Plain),
         answers' \in [Ids -> Texts \union {None}], changes' \in 0..MaxChanges
  PROVE  SplitsInv'
<1>1. TypeOK'
  <2>1. \A n \in DOMAIN writes' : writes'[n].content \in FileType(writes'[n].file)
    BY PlainIsTyped, EntriesTyped
  <2> QED BY <2>1 DEF SplitsInv, TypeOK
<1>2. Plain' = Plain
  BY DEF Plain, Clear, UnderReview, Readable
<1>3. SelectionInv'
  BY <1>2, StartsPlain DEF SelectionInv, Manifest, Readable
<1>4. ManifestInv'
  BY DEF SplitsInv, ManifestInv, Readable
<1>5. LaunchIsHeldOut' /\ LaunchIsSubsetOfItsV1'
  BY DEF LaunchIsHeldOut, LaunchIsSubsetOfItsV1
<1> QED BY <1>1, <1>3, <1>4, <1>5 DEF SplitsInv

LEMMA SplitsTypes ==
  ASSUME SplitsInv
  PROVE  /\ answers \in [Ids -> Texts \union {None}] /\ golden \subseteq Ids
         /\ changes \in 0..MaxChanges /\ kills \in 0..MaxKills /\ MaxChanges \in Nat /\ MaxKills \in Nat
         /\ Eligible \in SUBSET Ids /\ \A q \in Eligible : answers[q] \in Texts
BY SplitsAssumption DEF SplitsInv, TypeOK, Eligible

LEMMA ChangeKeeps == ASSUME SplitsInv, NEW q \in Unsettled, ChangeAnswer(q) PROVE SplitsInv'
<1>1. answers' \in [Ids -> Texts \union {None}] /\ changes' \in 0..MaxChanges
  <2>1. PICK t \in Texts \union {None} : answers' = [answers EXCEPT ![q] = t]
    BY DEF ChangeAnswer
  <2>2. changes' = changes + 1 /\ changes < MaxChanges
    BY DEF ChangeAnswer
  <2>3. answers' \in [Ids -> Texts \union {None}]
    BY <2>1, SplitsTypes
  <2>4. changes' \in 0..MaxChanges
    BY <2>2, SplitsTypes
  <2> QED BY <2>3, <2>4
<1>2. writes' \in Seq(Plain)
  BY DEF ChangeAnswer, Starts
<1> QED BY <1>1, <1>2, CommandKeeps DEF ChangeAnswer

LEMMA RecoveryKeeps == ASSUME SplitsInv, RecoveryExport PROVE SplitsInv'
<1> DEFINE x == {[id |-> q, text |-> answers[q], split |-> IF q \in golden THEN "golden" ELSE "train"] : q \in Ids}
<1>1. x \in SUBSET Record
  BY SplitsTypes DEF Record
<1>2. writes' = Write("recovery", x)
  BY DEF RecoveryExport
<1> HIDE DEF x
<1>3. writes' \in Seq(Plain)
  BY <1>1, <1>2, FileTypes, PlainWrites DEF GoldenFiles
<1> QED BY <1>3, CommandKeeps, SplitsTypes DEF RecoveryExport

LEMMA RestoreKeeps == ASSUME SplitsInv, Restore PROVE SplitsInv'
<1> DEFINE pool == {r \in disk["recovery"] : r.split = "train" /\ r.text # None}
           text == [q \in IdsOf(pool) |-> (CHOOSE r \in pool : r.id = q).text]
<1>1. writes' = WriteSplits(V1, Rendered(IdsOf(pool), text))
  BY DEF Restore
<1>2. disk["recovery"] \in SUBSET Record
  BY ReadableTypes, FileTypes DEF SplitsInv, Restore
<1>3. IdsOf(pool) \in SUBSET Ids /\ \A r \in pool : r.text \in Texts
  BY <1>2 DEF IdsOf, Record
<1>4. ASSUME NEW q \in IdsOf(pool) PROVE text[q] \in Texts
  <2>1. \E r \in pool : r.id = q
    BY <1>4 DEF IdsOf
  <2>2. (CHOOSE r \in pool : r.id = q) \in pool
    BY <2>1
  <2> QED BY <1>3, <1>4, <2>2
<1> HIDE DEF pool, text
<1>5. Rendered(IdsOf(pool), text) \in Digests
  BY <1>3, <1>4, RenderedIs
<1>6. writes' \in Seq(Plain)
  BY <1>1, <1>5, PlainSplits
<1> QED BY <1>6, CommandKeeps, SplitsTypes DEF Restore

\* The pool holds no golden row of the database or of the ids file, and so, with one
\* kill, none of the manifest.
LEMMA ExportKeeps == ASSUME SplitsInv, Export PROVE SplitsInv'
<1> DEFINE pool == Eligible \ golden
           x == Rendered(pool, answers)
<1>1. /\ Starts /\ pool \intersect disk["golden_ids"] = {} /\ pool \intersect golden = {}
      /\ writes' = WriteSplits(V1, x) \o Write("dataset_manifest", x)
  BY DEF Export
<1>2. pool \in SUBSET Ids /\ \A q \in pool : answers[q] \in Texts
  BY SplitsTypes
<1> HIDE DEF pool
<1>3. x \in Digests /\ Whole(x) /\ \A s \in Splits : IdsOf(x[s]) \subseteq pool
  BY <1>2, RenderedIs
<1>4. UnderReview \subseteq golden \union disk["golden_ids"]
  BY <1>1, StartsPlain DEF UnderReview, Manifest
<1>5. Clear(x)
  BY <1>1, <1>3, <1>4 DEF Clear
<1> HIDE DEF x
<1>6. Write("dataset_manifest", x) \in Seq(Plain)
  BY <1>3, <1>5, FileTypes, PlainWrites DEF GoldenFiles
<1>7. WriteSplits(V1, x) \in Seq(Plain)
  BY <1>3, PlainSplits
<1>8. writes' \in Seq(Plain)
  BY <1>1, <1>6, <1>7, ConcatProperties
<1> QED BY <1>8, CommandKeeps, SplitsTypes DEF Export

LEMMA ExportV2Keeps == ASSUME SplitsInv, ExportV2 PROVE SplitsInv'
<1> DEFINE v1 == disk["dataset_manifest"]
           kept == First(IdsOf(Adversarial(v1.train)), MixKey, AdversarialKeep)
           train == {r \in v1.train : Category[r.id] = "adversarial" => r.id \in kept}
           x == [v1 EXCEPT !.train = train]
           good == /\ train # v1.train
                   /\ Readable("golden_ids") /\ IdsOf(train) \intersect disk["golden_ids"] = {}
           m == [sha256 |-> x, derived_from |-> v1]
<1>1. writes' = WriteSplits(V2, x) \o (IF good THEN Write("dataset_v2_manifest", m) ELSE <<>>)
  BY DEF ExportV2
<1>2. v1 \in Digests /\ Whole(v1)
  BY ReadableTypes, FileTypes DEF SplitsInv, ManifestInv, ExportV2
<1>3. train \subseteq v1.train
  OBVIOUS
<1>4. good => train # v1.train
  OBVIOUS
<1> HIDE DEF v1, train, good
<1>5. /\ x \in Digests /\ x.train = train /\ x.valid = v1.valid /\ x.test = v1.test
  BY <1>2, <1>3 DEF Digests, Splits, Rows
<1>6. Whole(x)
  BY <1>2, <1>3, <1>5 DEF Whole, IdsOf
<1> HIDE DEF x
<1>7. m \in [sha256: Digests, derived_from: Digests] /\ (good => Derived(m))
  BY <1>2, <1>3, <1>4, <1>5, <1>6 DEF Derived
<1> HIDE DEF m
<1>8. good => Write("dataset_v2_manifest", m) \in Seq(Plain)
  BY <1>7, FileTypes, PlainWrites DEF GoldenFiles
<1>9. WriteSplits(V2, x) \in Seq(Plain)
  BY <1>5, PlainSplits
<1>10. (IF good THEN Write("dataset_v2_manifest", m) ELSE <<>>) \in Seq(Plain)
  BY <1>8
<1>11. writes' \in Seq(Plain)
  BY <1>1, <1>9, <1>10, ConcatProperties
<1> QED BY <1>11, CommandKeeps, SplitsTypes DEF ExportV2

\* After the commit a selection has both its files to write.
LEMMA SelectKeeps == ASSUME SplitsInv, Select PROVE SplitsInv'
<1>1. /\ golden' \in SUBSET Ids /\ writes = <<>> /\ UNCHANGED <<answers, disk, changes, kills>>
      /\ trained' = None
  BY SampleOf, SplitsTypes DEF Select, Starts
<1>2. Selecting'
  <2> DEFINE m == [file |-> "golden_manifest", content |-> golden']
             i == [file |-> "golden_ids", content |-> golden']
  <2>1. writes' = <<m>> \o <<i>>
    BY DEF Select, Write
  <2>2. <<m>> \o <<i>> = <<m, i>>
    BY OneAndTwo
  <2> QED BY <2>1, <2>2 DEF Selecting
<1>3. SelectionInv'
  BY <1>1, <1>2, StartsPlain DEF SelectionInv, Manifest, Select, Readable
<1>4. \A n \in DOMAIN writes' : writes'[n].content \in FileType(writes'[n].file)
  <2>1. golden' \in FileType("golden_manifest") /\ golden' \in FileType("golden_ids")
    BY <1>1, FileTypes
  <2>2. /\ DOMAIN writes' = 1..2
        /\ writes'[1] = [file |-> "golden_manifest", content |-> golden']
        /\ writes'[2] = [file |-> "golden_ids", content |-> golden']
    BY <1>2 DEF Selecting
  <2> QED BY <2>1, <2>2
<1>5. TypeOK'
  BY <1>1, <1>4 DEF SplitsInv, TypeOK
<1>6. ManifestInv' /\ LaunchIsHeldOut' /\ LaunchIsSubsetOfItsV1'
  BY <1>1 DEF SplitsInv, ManifestInv, Readable, LaunchIsHeldOut, LaunchIsSubsetOfItsV1
<1> QED BY <1>3, <1>5, <1>6 DEF SplitsInv

\* A launch has checked v2's files with v2's manifest, and two of them with v1's.
LEMMA TrainKeeps == ASSUME SplitsInv, TrainV2 PROVE SplitsInv'
<1> DEFINE v1 == disk["dataset_manifest"]
           v2 == disk["dataset_v2_manifest"]
           data == OnDisk(V2)
<1>1. /\ trained' = [data |-> data, v1 |-> v1, v2 |-> v2] /\ data = v2.sha256
      /\ \A s \in {"valid", "test"} : disk[V2[s]] = v1[s]
      /\ UNCHANGED <<answers, golden, disk, writes, changes, kills>>
  BY DEF TrainV2, VerifyV2
<1>2. /\ v1 \in Digests /\ v2 \in [sha256: Digests, derived_from: Digests] /\ Derived(v2)
  BY ReadableTypes, FileTypes DEF SplitsInv, ManifestInv, TrainV2, VerifyV2
<1>3. \A s \in {"valid", "test"} : data[s] = v1[s]
  BY <1>1 DEF OnDisk, Splits
<1>4. data \in Digests
  BY <1>1, <1>2
<1> HIDE DEF data, v1, v2
<1>5. trained' \in [data: Digests, v1: Digests, v2: FileType("dataset_v2_manifest")]
  BY <1>1, <1>2, <1>4, FileTypes
<1>6. trained'.data = data /\ trained'.v1 = v1 /\ trained'.v2 = v2
  BY <1>1
<1>7. LaunchIsHeldOut'
  BY <1>1, <1>2, <1>3, <1>6 DEF LaunchIsHeldOut, Derived, Whole
<1>8. LaunchIsSubsetOfItsV1'
  BY <1>1, <1>2, <1>6 DEF LaunchIsSubsetOfItsV1, Derived
<1>9. TypeOK'
  BY <1>1, <1>5 DEF SplitsInv, TypeOK
<1>10. ManifestInv'
  BY <1>1 DEF SplitsInv, ManifestInv, Readable
<1>11. SelectionInv'
  <2>1. Plain' = Plain
    BY <1>1 DEF Plain, Clear, UnderReview, Readable
  <2> QED BY <1>1, <2>1 DEF SplitsInv, SelectionInv, Selecting, Storing, Manifest, Readable
<1> QED BY <1>7, <1>8, <1>9, <1>10, <1>11 DEF SplitsInv

\* One file is replaced.
LEMMA FileReplaced ==
  ASSUME SplitsInv, NEW f \in Files, NEW x, x \in {None, Torn} \/ x \in FileType(f),
         disk' = [disk EXCEPT ![f] = x], trained' = None,
         writes' \in Seq(Entries), kills' \in 0..MaxKills, UNCHANGED <<answers, golden, changes>>
  PROVE  /\ TypeOK' /\ LaunchIsHeldOut' /\ LaunchIsSubsetOfItsV1'
         /\ disk'[f] = x /\ \A g \in Files \ {f} : disk'[g] = disk[g]
<1>1. disk'[f] = x /\ DOMAIN disk' = Files /\ \A g \in Files \ {f} : disk'[g] = disk[g]
  BY DEF SplitsInv, TypeOK
<1>2. \A g \in Files : disk'[g] \in {None, Torn} \/ disk'[g] \in FileType(g)
  BY <1>1 DEF SplitsInv, TypeOK
<1>3. \A n \in DOMAIN writes' : writes'[n].content \in FileType(writes'[n].file)
  BY EntriesTyped
<1>4. TypeOK'
  BY <1>1, <1>2, <1>3 DEF SplitsInv, TypeOK
<1>5. LaunchIsHeldOut' /\ LaunchIsSubsetOfItsV1'
  BY DEF LaunchIsHeldOut, LaunchIsSubsetOfItsV1
<1> QED BY <1>1, <1>4, <1>5

\* The file that is being written, and where the selection is.
LEMMA HeadIs ==
  ASSUME SplitsInv, writes # <<>>
  PROVE  /\ Head(writes).file \in Files /\ Head(writes).content \in FileType(Head(writes).file)
         /\ Tail(writes) \in Seq(Entries)
         /\ \/ Selecting /\ Head(writes).file = "golden_manifest"
            \/ Storing /\ Head(writes).file = "golden_ids"
            \/ writes \in Seq(Plain) /\ Head(writes) \in Plain /\ Tail(writes) \in Seq(Plain)
<1>1. writes \in Seq(Entries)
  BY WritesAre
<1>2. Head(writes) \in Entries /\ Tail(writes) \in Seq(Entries)
  BY <1>1, HeadTailProperties
<1>3. writes \in Seq(Plain) => Head(writes) \in Plain /\ Tail(writes) \in Seq(Plain)
  BY HeadTailProperties
<1> QED BY <1>2, <1>3, SelectionWrites DEF SplitsInv, SelectionInv, Entries

LEMMA StoringIs == ASSUME SplitsInv, Storing PROVE Manifest = golden
<1>1. writes # <<>> /\ Head(writes).file = "golden_ids"
  BY SelectionWrites
<1>2. ~Selecting
  BY <1>1, SelectionWrites
<1>3. writes \notin Seq(Plain)
  <2>1. \A S : writes \in Seq(S) => Head(writes) \in S
    BY <1>1, HeadTailProperties
  <2> QED BY <1>1, <2>1 DEF Plain, GoldenFiles
<1> QED BY <1>2, <1>3 DEF SplitsInv, SelectionInv

\* A file that is no golden one leaves the golden ones, and so what is clear of them.
LEMMA GoldenFilesStand ==
  ASSUME \A g \in GoldenFiles : disk'[g] = disk[g], UNCHANGED <<golden, kills>>
  PROVE  UNCHANGED <<Plain, Manifest>> /\ Readable("golden_manifest")' = Readable("golden_manifest")
BY DEF GoldenFiles, Plain, Clear, UnderReview, Manifest, Readable

LEMMA WritesKeeps == ASSUME SplitsInv, Writes PROVE SplitsInv'
<1> DEFINE f == Head(writes).file
           x == Head(writes).content
<1>1. /\ writes # <<>> /\ disk' = [disk EXCEPT ![f] = x] /\ writes' = Tail(writes)
      /\ UNCHANGED <<answers, golden, changes, kills>> /\ trained' = None
  BY DEF Writes
<1>2. f \in Files /\ x \in FileType(f) /\ Tail(writes) \in Seq(Entries)
  BY <1>1, HeadIs
<1>3. /\ TypeOK' /\ LaunchIsHeldOut' /\ LaunchIsSubsetOfItsV1'
      /\ disk'[f] = x /\ \A g \in Files \ {f} : disk'[g] = disk[g]
  <2> HIDE DEF f, x
  <2> QED BY <1>1, <1>2, FileReplaced, SplitsTypes
<1>4. CASE Selecting /\ f = "golden_manifest"
  <2>1. Storing' /\ disk'["golden_manifest"] = golden'
    BY <1>1, <1>3, <1>4, SelectionWrites DEF Storing
  <2>2. SelectionInv'
    BY <2>1 DEF SelectionInv, Manifest
  <2>3. ManifestInv'
    BY <1>3, <1>4, FileTypes DEF SplitsInv, ManifestInv, Readable, GoldenFiles
  <2> QED BY <1>3, <2>2, <2>3 DEF SplitsInv
<1>5. CASE Storing /\ f = "golden_ids"
  <2>1. writes' = <<>> /\ disk'["golden_ids"] = golden
    BY <1>1, <1>3, <1>5, SelectionWrites
  <2>2. disk'["golden_manifest"] = golden
    <3>1. Manifest = golden
      BY <1>5, StoringIs
    <3> QED BY <1>3, <1>5, <3>1, FileTypes DEF Manifest, GoldenFiles
  <2>3. SelectionInv'
    <3>1. writes' \in Seq(Plain')
      BY <2>1
    <3>2. Manifest' = golden' /\ disk'["golden_ids"] = golden'
      BY <1>1, <2>1, <2>2 DEF Manifest
    <3> QED BY <3>1, <3>2 DEF SelectionInv
  <2>4. ManifestInv'
    BY <1>3, <1>5, FileTypes DEF SplitsInv, ManifestInv, Readable, GoldenFiles
  <2> QED BY <1>3, <2>3, <2>4 DEF SplitsInv
<1>6. CASE writes \in Seq(Plain) /\ Head(writes) \in Plain /\ Tail(writes) \in Seq(Plain)
  <2>1. /\ f \notin GoldenFiles
        /\ f = "dataset_manifest" => Whole(x)
        /\ f = "dataset_v2_manifest" => Derived(x)
    BY <1>6 DEF Plain
  <2>2. \A g \in GoldenFiles : disk'[g] = disk[g]
    BY <1>3, <2>1, FileTypes
  <2>3. disk'["golden_ids"] = disk["golden_ids"]
    BY <2>2 DEF GoldenFiles
  <2>4. UNCHANGED <<Plain, Manifest>> /\ Readable("golden_manifest")' = Readable("golden_manifest")
    BY <1>1, <2>2, GoldenFilesStand
  <2>5. SelectionInv'
    <3>1. /\ kills <= 1 /\ Readable("golden_manifest") => Manifest \in {golden, disk["golden_ids"]}
          /\ kills = 0 => Manifest = disk["golden_ids"]
      <4>1. ~Selecting /\ ~Storing
        <5>1. f \notin GoldenFiles
          BY <2>1
        <5> QED BY <5>1, SelectionWrites DEF GoldenFiles
      <4> QED BY <4>1 DEF SplitsInv, SelectionInv
    <3> QED BY <1>1, <1>6, <2>3, <2>4, <3>1 DEF SelectionInv
  <2>6. ManifestInv'
    <3> HIDE DEF f, x
    <3> QED BY <1>3, <2>1, FileTypes DEF SplitsInv, ManifestInv, Readable
  <2> QED BY <1>3, <2>5, <2>6 DEF SplitsInv
<1> QED BY <1>1, <1>4, <1>5, <1>6, HeadIs

Target == Head(writes).file

\* What a kill leaves of a file: what it was, half of it, or the first lines.
LeftAs(x) ==
  /\ x \in {None, Torn} \/ x \in FileType(Target)
  /\ Target # "recovery" => x \in {disk[Target], Torn}
  /\ disk' = [disk EXCEPT ![Target] = x]

LEMMA KilledFile == ASSUME SplitsInv, Killed PROVE \E x : LeftAs(x)
<1> DEFINE w == Head(writes)
<1>1. w.file = Target /\ Target \in Files /\ w.content \in FileType(Target)
  BY HeadIs DEF Killed, Target
<1>2. PICK x \in {disk[Target]} \union Halves(w) : disk' = [disk EXCEPT ![Target] = x]
  BY DEF Killed, Target
<1>3. disk[Target] \in {None, Torn} \/ disk[Target] \in FileType(Target)
  BY <1>1 DEF SplitsInv, TypeOK
<1>4. CASE Target = "recovery"
  <2>1. w.content \in SUBSET Record
    BY <1>1, <1>4, FileTypes
  <2>2. \A y \in Halves(w) : y = Torn \/ y \in SUBSET Record
    BY <1>1, <2>1 DEF Halves
  <2> QED BY <1>2, <1>3, <1>4, <2>2, FileTypes DEF LeftAs
<1>5. CASE Target # "recovery"
  <2>1. Halves(w) = {Torn}
    BY <1>1, <1>5 DEF Halves
  <2> QED BY <1>2, <1>3, <1>5, <2>1 DEF LeftAs
<1> QED BY <1>4, <1>5

LEMMA KilledKeeps == ASSUME SplitsInv, Killed PROVE SplitsInv'
<1>1. /\ writes # <<>> /\ writes' = <<>> /\ kills < MaxKills /\ kills' = kills + 1
      /\ UNCHANGED <<answers, golden, changes>> /\ trained' = None
  BY DEF Killed
<1>2. PICK x : LeftAs(x)
  BY KilledFile
<1>3. Target \in Files
  BY <1>1, HeadIs DEF Target
<1>4. kills \in Nat /\ kills' \in 0..MaxKills /\ writes' \in Seq(Entries) /\ writes' \in Seq(Plain')
  <2>1. kills' \in 0..MaxKills /\ kills \in Nat
    BY <1>1, SplitsTypes
  <2> QED BY <1>1, <2>1
<1>5. /\ TypeOK' /\ LaunchIsHeldOut' /\ LaunchIsSubsetOfItsV1'
      /\ disk'[Target] = x /\ \A g \in Files \ {Target} : disk'[g] = disk[g]
  BY <1>1, <1>2, <1>3, <1>4, FileReplaced DEF LeftAs
<1>6. \A g \in Files \ {"recovery"} : disk'[g] = disk[g] \/ (g = Target /\ disk'[g] = Torn)
  BY <1>2, <1>5 DEF LeftAs
<1>7. ManifestInv'
  BY <1>6, FileTypes DEF SplitsInv, ManifestInv, Readable
<1>8. kills' <= 1 /\ Readable("golden_manifest")' => Manifest' \in {golden', disk'["golden_ids"]}
  <2> SUFFICES ASSUME kills = 0 \/ kills <= 1, kills' <= 1, disk'["golden_manifest"] # Torn,
                      Readable("golden_manifest")'
               PROVE  Manifest' \in {golden, disk'["golden_ids"]}
    BY <1>1, <1>4 DEF Readable
  <2>1. kills = 0 /\ Manifest' = Manifest
    <3>1. kills = 0
      BY <1>1, <1>4
    <3>2. {"golden_manifest", "golden_ids"} \subseteq Files \ {"recovery"}
      BY FileTypes DEF GoldenFiles
    <3> QED BY <1>6, <3>1, <3>2 DEF Manifest
  <2>2. CASE Storing /\ Manifest = golden
    BY <2>1, <2>2
  <2>3. CASE Manifest = disk["golden_ids"] /\ Target # "golden_ids"
    <3>1. "golden_ids" \in Files
      BY FileTypes DEF GoldenFiles
    <3> QED BY <1>5, <2>1, <2>3, <3>1
  <2> QED BY <1>1, <2>1, <2>2, <2>3, HeadIs, SelectionWrites
          DEF SplitsInv, SelectionInv, Plain, GoldenFiles, Target
<1>9. SelectionInv'
  BY <1>1, <1>4, <1>8 DEF SelectionInv
<1> QED BY <1>5, <1>7, <1>9 DEF SplitsInv

(***************************************************************************)
(* The theorems.                                                           *)
(***************************************************************************)
LEMMA InitSplits == Init => SplitsInv
<1> SUFFICES ASSUME Init PROVE SplitsInv
  OBVIOUS
<1>1. TypeOK
  <2>1. answers \in [Ids -> Texts \union {None}] /\ golden \subseteq Ids /\ writes = <<>> /\ trained = None
    BY DEF Init
  <2>2. DOMAIN disk = Files /\ \A f \in Files : disk[f] = None
    BY DEF Init
  <2>3. changes \in 0..MaxChanges /\ kills \in 0..MaxKills
    BY SplitsAssumption DEF Init
  <2> QED BY <2>1, <2>2, <2>3 DEF TypeOK
<1>2. \A f \in Files : ~Readable(f)
  BY DEF Init, Readable
<1>3. ManifestInv
  BY <1>2, FileTypes DEF ManifestInv
<1>4. SelectionInv
  <2>1. Manifest = disk["golden_ids"] /\ writes \in Seq(Plain) /\ ~Readable("golden_manifest")
    BY <1>2, FileTypes DEF Init, Manifest, GoldenFiles
  <2> QED BY <2>1 DEF SelectionInv
<1>5. LaunchIsHeldOut /\ LaunchIsSubsetOfItsV1
  BY DEF Init, LaunchIsHeldOut, LaunchIsSubsetOfItsV1
<1> QED BY <1>1, <1>3, <1>4, <1>5 DEF SplitsInv

LEMMA SplitsInductive == SplitsInv /\ [Next]_vars => SplitsInv'
<1> SUFFICES ASSUME SplitsInv, [Next]_vars PROVE SplitsInv'
  OBVIOUS
<1>1. CASE Writes \/ Killed
  BY <1>1, WritesKeeps, KilledKeeps
<1>2. CASE \E q \in Unsettled : ChangeAnswer(q)
  BY <1>2, ChangeKeeps
<1>3. CASE Select \/ TrainV2
  BY <1>3, SelectKeeps, TrainKeeps
<1>4. CASE Export \/ ExportV2 \/ RecoveryExport \/ Restore
  BY <1>4, ExportKeeps, ExportV2Keeps, RecoveryKeeps, RestoreKeeps
<1>5. CASE UNCHANGED vars
  <2>1. UNCHANGED <<answers, golden, disk, writes, trained, changes, kills>>
    BY <1>5 DEF vars
  <2>2. Plain' = Plain
    BY <2>1 DEF Plain, Clear, UnderReview, Readable
  <2>3. SelectionInv'
    BY <2>1, <2>2 DEF SplitsInv, SelectionInv, Selecting, Storing, Manifest, Readable
  <2>4. TypeOK' /\ ManifestInv' /\ LaunchIsHeldOut' /\ LaunchIsSubsetOfItsV1'
    BY <2>1 DEF SplitsInv, TypeOK, ManifestInv, Readable, LaunchIsHeldOut, LaunchIsSubsetOfItsV1
  <2> QED BY <2>3, <2>4 DEF SplitsInv
<1> QED BY <1>1, <1>2, <1>3, <1>4, <1>5 DEF Next

LEMMA SplitsHold == Spec => []SplitsInv
<1> QED BY InitSplits, SplitsInductive, PTL DEF Spec

\* Every file is of its type, or torn, or not there.
THEOREM SplitsTyped == Spec => []TypeOK
<1>1. SplitsInv => TypeOK
  BY DEF SplitsInv
<1> QED BY <1>1, SplitsHold, PTL

\* "Refusing to start a 9-hour run": whatever was killed, repeated or restored over, no
\* row v2 is trained on is one it is scored on, and those are v1's.
THEOREM LaunchesAreHeldOut == Spec => []LaunchIsHeldOut
<1>1. SplitsInv => LaunchIsHeldOut
  BY DEF SplitsInv
<1> QED BY <1>1, SplitsHold, PTL

\* "Only train may differ": where v1 is still the split v2 was derived from, v2 is
\* trained on a strict subset of its rows.
THEOREM LaunchesAreSubsets == Spec => []LaunchIsSubsetOfItsV1
<1>1. SplitsInv => LaunchIsSubsetOfItsV1
  BY DEF SplitsInv
<1> QED BY <1>1, SplitsHold, PTL

\* A dataset manifest that appears was waiting to be written, and was clear.
LEMMA ManifestIsClear ==
  ASSUME SplitsInv, [Next]_vars,
         disk'["dataset_manifest"] # disk["dataset_manifest"], disk'["dataset_manifest"] # Torn
  PROVE  Clear(disk'["dataset_manifest"])
<1>1. CASE Writes
  <2>1. /\ writes # <<>> /\ disk' = [disk EXCEPT ![Target] = Head(writes).content]
    BY <1>1 DEF Writes, Target
  <2>2. /\ Target = "dataset_manifest" /\ disk'["dataset_manifest"] = Head(writes).content
    <3>1. DOMAIN disk = Files /\ "dataset_manifest" \in Files
      BY FileTypes DEF SplitsInv, TypeOK
    <3> QED BY <2>1, <3>1
  <2>3. Head(writes) \in Plain
    BY <2>1, <2>2, HeadIs DEF Target
  <2> QED BY <2>2, <2>3 DEF Plain, Target
<1>2. CASE Killed
  <2>1. PICK x : LeftAs(x)
    BY <1>2, KilledFile
  <2>2. DOMAIN disk = Files /\ "dataset_manifest" \in Files
    BY FileTypes DEF SplitsInv, TypeOK
  <2> QED BY <2>1, <2>2 DEF LeftAs
<1>3. CASE ~Writes /\ ~Killed
  <2>1. disk' = disk
    BY <1>3 DEF Next, vars, ChangeAnswer, Select, Export, ExportV2, RecoveryExport, Restore, TrainV2
  <2> QED BY <2>1
<1> QED BY <1>1, <1>2, <1>3

\* "Disjointness from the golden 96": no manifest of a dataset is written with a row of
\* a sample in the database or in the ids file, nor, with one command killed, of the
\* sample under review.
THEOREM GoldenIsKeptBack == Spec => GoldenNeverExported
<1>1. SplitsInv /\ [Next]_vars =>
        [disk'["dataset_manifest"] # disk["dataset_manifest"] /\ disk'["dataset_manifest"] # Torn =>
           \A s \in Splits :
             IdsOf(disk'["dataset_manifest"][s]) \intersect (golden \union UnderReview \union disk["golden_ids"])
               = {}]_vars
  BY ManifestIsClear DEF Clear
<1> QED BY <1>1, SplitsHold, PTL DEF Spec, GoldenNeverExported
==============================================================================
