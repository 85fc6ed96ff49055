----------------------------- MODULE CorpusEmbed ------------------------------
(***************************************************************************)
(* The corpus table and the paid embedding of it: `corpus load` replaces   *)
(* rows, `corpus embed` buys embeddings a window at a time under the       *)
(* ceilings of the spend ledger, and may be killed or fail between any two *)
(* of its steps. Commands of the pipeline are run one at a time.           *)
(***************************************************************************)
EXTENDS Naturals, Sequences, FiniteSets

CONSTANTS
  Repos,         \* the chunk ids each repository may have: numbers, for rows
                 \* are read in the order of their ids
  Contents,      \* the contents a parse may find for a chunk
  Window,        \* BATCH_SIZE
  UsdCeiling, TokenCeiling,   \* in tokens of the embedding model and in tokens
  MaxUsage,      \* bound: tokens a call may bill for one chunk
  MaxLost        \* bound: purchases whose record is lost

ASSUME ReposAssumption == IsFiniteSet(UNION Repos) /\ UNION Repos \subseteq Nat
ASSUME WindowAssumption == Window \in Nat \ {0}
ASSUME CeilingAssumption == {UsdCeiling, TokenCeiling, MaxUsage, MaxLost} \subseteq Nat

VARIABLES
  chunks,      \* the rows: of each id loaded, its content and its embedding
  ledger,      \* the tokens recorded in the ledger file
  torn,        \* was the file left empty by a write that was cut short
  command,     \* the embed command at work, or Resting
  bill,        \* what the provider charged
  lost         \* purchases that ended before their record was written

corpusVars == <<chunks, ledger, torn, command, bill, lost>>

NoEmbedding == "NULL"
Ids == UNION Repos
Resting == [pc |-> "rest"]
TokenCount == 1     \* of every chunk, as the tokenizer of parse.py counts it

CorpusTypeOK ==
  /\ DOMAIN chunks \subseteq Ids
  /\ \A i \in DOMAIN chunks :
       chunks[i] \in [content : Contents, embedding : Contents \union {NoEmbedding}]
  /\ ledger \in Nat /\ torn \in BOOLEAN /\ bill \in Nat /\ lost \in 0..MaxLost
  /\ command.pc \in {"rest", "call", "update", "record", "rewrite"}

CorpusInit ==
  /\ chunks = [i \in {} |-> 0] /\ ledger = 0 /\ torn = FALSE /\ command = Resting /\ bill = 0 /\ lost = 0

\* Mutant: a changed content keeps the embedding of the old one.
LoadKeepingEmbedding ==
  /\ command = Resting
  /\ \E repo \in Repos : \E S \in SUBSET repo : \E parsed \in [S -> Contents] :
       chunks' = [i \in DOMAIN chunks \union S |->
         [content |-> IF i \in S THEN parsed[i] ELSE chunks[i].content,
          embedding |-> IF i \in DOMAIN chunks THEN chunks[i].embedding ELSE NoEmbedding]]
  /\ UNCHANGED <<ledger, torn, command, bill, lost>>

\* load_chunks of a repository, in one transaction: what is not parsed any more
\* stays. A load of all repositories is one of each in turn.
Load ==
  /\ command = Resting
  /\ \E repo \in Repos : \E S \in SUBSET repo : \E parsed \in [S -> Contents] :
       chunks' = [i \in DOMAIN chunks \union S |->
         IF i \notin S THEN chunks[i]
         ELSE IF i \in DOMAIN chunks /\ chunks[i].content = parsed[i] THEN chunks[i]
         ELSE [content |-> parsed[i], embedding |-> NoEmbedding]]
  /\ UNCHANGED <<ledger, torn, command, bill, lost>>

Pending == {i \in DOMAIN chunks : chunks[i].embedding = NoEmbedding}

\* Ledger.reserve: would the projected tokens cross a ceiling?
Reserved(spent, projected) ==
  spent + projected <= UsdCeiling /\ spent + projected <= TokenCeiling

\* embed_pending: the rows are read once, with their contents, and paid for
\* window by window.
Embed ==
  /\ command = Resting /\ ~torn /\ Pending # {}
  /\ \E limit \in 1..Cardinality(Ids) :
       LET rows == {i \in Pending : Cardinality({j \in Pending : j < i}) < limit}
       IN  /\ Reserved(ledger, Cardinality(rows) * TokenCount)
           /\ command' = [pc |-> "call", spent |-> ledger,
                          pending |-> [i \in rows |-> chunks[i].content]]
  /\ UNCHANGED <<chunks, ledger, torn, bill, lost>>

Todo == DOMAIN command.pending
InWindow == {i \in Todo : Cardinality({j \in Todo : j < i}) < Window}
MostOf(S) == Cardinality(S) * MaxUsage

\* The usage billed is the provider's count, not the one projected.
CallEmbeddings ==
  /\ command.pc = "call"
  /\ \E usage \in Cardinality(InWindow)..MostOf(InWindow) :
       /\ bill' = bill + usage
       /\ command' = [pc |-> "update", usage |-> usage, spent |-> command.spent,
                      pending |-> command.pending]
  /\ UNCHANGED <<chunks, ledger, torn, lost>>

Update ==
  /\ command.pc = "update"
  /\ chunks' = [i \in DOMAIN chunks |->
       IF i \in InWindow THEN [chunks[i] EXCEPT !.embedding = command.pending[i]] ELSE chunks[i]]
  /\ command' = [command EXCEPT !.pc = "record"]
  /\ UNCHANGED <<ledger, torn, bill, lost>>

\* Ledger.record: flush opens the file for writing, which empties it.
Truncate ==
  /\ command.pc = "record"
  /\ torn' = TRUE
  /\ command' = [pc |-> "rewrite", usage |-> command.usage, pending |-> command.pending,
                  spent |-> command.spent + command.usage]
  /\ UNCHANGED <<chunks, ledger, bill, lost>>

\* Mutant: record does not look at the ceiling.
RewriteUnchecked ==
  LET rest == Todo \ InWindow IN
  /\ command.pc = "rewrite"
  /\ ledger' = command.spent /\ torn' = FALSE
  /\ command' = IF rest = {} THEN Resting
                ELSE [pc |-> "call", spent |-> command.spent,
                      pending |-> [i \in rest |-> command.pending[i]]]
  /\ UNCHANGED <<chunks, bill, lost>>

\* Past the USD ceiling record raises; the token ceiling it does not look at.
Rewrite ==
  LET rest == Todo \ InWindow IN
  /\ command.pc = "rewrite"
  /\ ledger' = command.spent /\ torn' = FALSE
  /\ command' = IF rest = {} \/ command.spent > UsdCeiling THEN Resting
                ELSE [pc |-> "call", spent |-> command.spent,
                      pending |-> [i \in rest |-> command.pending[i]]]
  /\ UNCHANGED <<chunks, bill, lost>>

Unrecorded == command.pc \in {"update", "record", "rewrite"}

\* A kill, or an exception of the client or of the database.
Die ==
  /\ command # Resting
  /\ IF Unrecorded THEN lost < MaxLost /\ lost' = lost + 1 ELSE UNCHANGED lost
  /\ command' = Resting
  /\ UNCHANGED <<chunks, ledger, torn, bill>>

CorpusNext ==
  Load \/ Embed \/ CallEmbeddings \/ Update \/ Truncate \/ Rewrite \/ Die

CorpusSpec == CorpusInit /\ [][CorpusNext]_corpusVars

(***************************************************************************)
(* Properties.                                                             *)
(***************************************************************************)
\* A row is found by what it says now: no sequence of loads, embeds, failures
\* and kills leaves a chunk with the embedding of another content.
EmbeddingIsOfTheContent ==
  \A i \in DOMAIN chunks : chunks[i].embedding \in {NoEmbedding, chunks[i].content}

\* The hard halt: the provider's bill never exceeds the USD ceiling by more
\* than the window that crosses it, and one window for each purchase whose
\* record a kill or a failure lost; neither a rerun nor a call that costs more
\* than projected adds to that.
OverspendIsBounded == bill <= UsdCeiling + (1 + lost) * Window * MaxUsage
==============================================================================
