---------------------------- MODULE Training_proofs ----------------------------
(***************************************************************************)
(* The small parts of the training pipeline, each a component of its own:  *)
(* the retry loop, the paid embedding of the corpus, the question table,   *)
(* for any repositories, quotas, ceilings, domains and delays, the review  *)
(* of the golden set, for any manifest, any number of handler threads and  *)
(* a log of any length, the shares of the repositories, for any numbers of *)
(* chunks and calls, and the chunks of a file, for any lines and limits.   *)
(***************************************************************************)
EXTENDS Allocation, CorpusEmbed, CorpusParse, Questions, RetryApply, GoldenReview, CountingTheorems, SequenceTheorems

(***************************************************************************)
(* RetryApply: what one turn of the loop leaves the next one.              *)
(***************************************************************************)
\* The domains before the next attempt's are those that refused, and all of
\* them once the attempts have gone round; a throttle at the first domain is not
\* that, so the count of throttles tells the two apart.
RefusedInTurn ==
  loop \in {"apply", "sleep"} =>
    refused = IF loop = "sleep" /\ adIndex = 0 /\ throttles = 0 THEN Ads
              ELSE {a \in Ads : a < adIndex}

RetryInv == RetryTypeOK /\ RefusedInTurn

\* The domain after a domain, in turn.
LEMMA NextDomain ==
  ASSUME NEW a \in Ads
  PROVE  /\ a + 1 < AdCount => (a + 1) % AdCount = a + 1
         /\ a + 1 >= AdCount => a + 1 = AdCount /\ (a + 1) % AdCount = 0
         /\ (a + 1) % AdCount \in Ads
<1>1. AdCount \in Nat /\ AdCount > 0 /\ a \in Nat /\ a < AdCount
  BY DelayAssumption DEF Ads
<1>2. CASE a + 1 < AdCount
  BY <1>1, <1>2 DEF Ads
<1>3. CASE a + 1 >= AdCount
  <2>1. a + 1 = AdCount /\ AdCount % AdCount = 0
    BY <1>1, <1>3
  <2> QED BY <1>1, <2>1 DEF Ads
<1> QED BY <1>1, <1>2, <1>3

\* A doubled backoff is four limbs again, and no pause exceeds the ceiling.
LEMMA BackoffTyped ==
  /\ Word(0) \in Words /\ Word(ThrottleDelayBase) \in Words
  /\ \A w \in Words : Doubled(w) \in Words /\ Slept(w) \in 0..MaxDelay
<1> DEFINE Values == 0..(Limb - 1)
<1>1. Limb \in Nat \ {0} /\ \A n \in Values : n \in Nat
  BY SMT DEF Limb
<1>2. 0 \in Values /\ ThrottleDelayBase \in Values /\ \A n \in Nat : n % Limb \in Values
  <2>1. 0 \in Values /\ ThrottleDelayBase \in Values
    BY <1>1, DelayAssumption, SMT
  <2>2. \A n \in Nat : n % Limb \in Values
    BY <1>1, SMT
  <2> HIDE DEF Values
  <2> QED BY <2>1, <2>2
<1>3. Words = [Limbs -> Values]
  BY DEF Words
<1> HIDE DEF Values
<1>4. ASSUME NEW n \in Values PROVE Word(n) \in Words
  BY <1>2, <1>3 DEF Word
<1>5. ASSUME NEW w \in Words PROVE Doubled(w) \in Words /\ Slept(w) \in 0..MaxDelay
  <2>1. \A i \in Limbs : w[i] \in Nat
    BY <1>1, <1>3
  <2>2. 1 \in Limbs /\ 2 \in Limbs /\ \A i \in Limbs : i > 1 => i - 1 \in Limbs
    BY DEF Limbs
  <2>3. \A i \in Limbs : 2 * w[i] + (IF i > 1 /\ 2 * w[i - 1] >= Limb THEN 1 ELSE 0) \in Nat
    BY <1>1, <2>1, <2>2, SMT
  <2>4. Doubled(w) \in Words
    BY <1>2, <1>3, <2>3, SMT DEF Doubled
  <2>5. Slept(w) \in 0..MaxDelay
    BY <1>1, <2>1, <2>2, DelayAssumption, SMT DEF Slept, Smaller
  <2> QED BY <2>4, <2>5
<1> QED BY <1>2, <1>4, <1>5

LEMMA RetryInitInv == RetryInit => RetryInv
BY DelayAssumption, BackoffTyped DEF RetryInit, RetryInv, RetryTypeOK, RefusedInTurn, Ads

LEMMA RetryInductive == RetryInv /\ [RetryNext]_retryVars => RetryInv'
<1> SUFFICES ASSUME RetryInv, [RetryNext]_retryVars PROVE RetryInv'
  OBVIOUS
<1> USE DEF RetryInv, RetryTypeOK, RefusedInTurn
<1>1. CASE Launch
  BY <1>1 DEF Launch
<1>2. CASE Capacity
  <2>1. AdCount \in Nat /\ AdCount > 0 /\ adIndex \in Nat /\ adIndex < AdCount
    BY DelayAssumption DEF Ads
  <2>2. refused = {a \in Ads : a < adIndex} /\ adIndex' = (adIndex + 1) % AdCount
    BY <1>2 DEF Capacity
  <2>3. refused' = {a \in Ads : a < adIndex + 1}
    BY <1>2, <2>1, <2>2 DEF Capacity, Ads
  <2>4. adIndex' = 0 => refused' = Ads
    <3>1. adIndex' = 0 => adIndex + 1 >= AdCount
      BY <2>1, <2>2, NextDomain
    <3> QED BY <2>1, <2>3, <3>1 DEF Ads
  <2>5. adIndex' # 0 => adIndex' = adIndex + 1
    BY <2>1, <2>2, NextDomain
  <2>6. RefusedInTurn'
    BY <1>2, <2>3, <2>4, <2>5 DEF Capacity
  <2>7. pause' \in 0..MaxDelay
    BY <1>2, DelayAssumption DEF Capacity, Smaller
  <2>8. adIndex' \in Ads /\ refused' \subseteq Ads
    BY <2>2, <2>3, NextDomain
  <2> QED BY <1>2, <2>6, <2>7, <2>8, BackoffTyped, DelayAssumption DEF Capacity
<1>3. CASE Throttle
  <2>1. throttles' \in 1..MaxThrottles
    BY <1>3, DelayAssumption DEF Throttle
  <2>2. backoff' \in Words
    BY <1>3, BackoffTyped DEF Throttle
  <2>3. pause' \in 0..MaxDelay
    BY <1>3, <2>2, BackoffTyped DEF Throttle
  <2> QED BY <1>3, <2>1, <2>2, <2>3 DEF Throttle
<1>4. CASE Stop
  BY <1>4 DEF Stop
<1>5. CASE Wake
  <2>1. refused' = {a \in Ads : a < adIndex'}
    BY <1>5, DelayAssumption DEF Wake, Ads
  <2> QED BY <1>5, <2>1 DEF Wake
<1>6. CASE Resume
  BY <1>6, DelayAssumption, BackoffTyped DEF Resume, Ads
<1>7. CASE UNCHANGED retryVars
  BY <1>7 DEF retryVars
<1> QED BY <1>1, <1>2, <1>3, <1>4, <1>5, <1>6, <1>7 DEF RetryNext

\* Every variable of the loop keeps its type: a backoff is a 64-bit word at any
\* number of throttles, and a pause never exceeds the ceiling.
THEOREM RetryTyped == RetrySpec => []RetryTypeOK
<1>1. RetryInv => RetryTypeOK
  BY DEF RetryInv
<1> QED BY <1>1, RetryInitInv, RetryInductive, PTL DEF RetrySpec

\* The cycle pause of the loop means what it says, for any number of domains: all
\* of them were out of capacity since the last one.
THEOREM CyclesAreWhole == RetrySpec => []CycleSkipsNoDomain
<1>1. RetryInv => CycleSkipsNoDomain
  BY DEF RetryInv, RefusedInTurn, CycleSkipsNoDomain
<1> QED BY <1>1, RetryInitInv, RetryInductive, PTL DEF RetrySpec

(***************************************************************************)
(* CorpusEmbed: an embed command at work, and what it may still charge.    *)
(***************************************************************************)
Purchases == UNION {[S -> Contents] : S \in SUBSET Ids}
Calling == [pc : {"call"}, spent : Nat, pending : Purchases]
Buying == [pc : {"update", "record", "rewrite"}, usage : Nat, spent : Nat, pending : Purchases]

\* What is pending is what the rows say: no load comes between.
PendingIsCurrent ==
  command # Resting =>
    \A i \in Todo : i \in DOMAIN chunks /\ chunks[i].content = command.pending[i]

\* What n windows cost at most.
PriceOf(n) == n * Window * MaxUsage

\* What has been charged for the window at work and is not in the ledger.
OnTheWay == IF Unrecorded THEN command.usage ELSE 0

\* The bill is the ledger, the window on its way and the lost ones; only a command
\* that starts under the ceiling takes it over, once.
BillIsAccountedFor ==
  /\ bill <= ledger + OnTheWay + PriceOf(lost)
  /\ OnTheWay <= PriceOf(1)
  /\ ledger <= UsdCeiling + PriceOf(1)
  /\ command # Resting => ledger <= UsdCeiling
  /\ command.pc \in {"call", "update", "record"} => command.spent = ledger
  /\ command.pc = "rewrite" => command.spent = ledger + command.usage

CorpusInv ==
  /\ CorpusTypeOK
  /\ command \in {Resting} \union Calling \union Buying
  /\ PendingIsCurrent
  /\ EmbeddingIsOfTheContent
  /\ BillIsAccountedFor

LEMMA CommandShapes ==
  ASSUME CorpusInv
  PROVE  /\ command.pc = "rest" <=> command = Resting
         /\ command.pc = "call" => command \in Calling
         /\ Unrecorded => command \in Buying
         /\ command # Resting => command \in Calling \union Buying /\ Todo \subseteq Ids
BY DEF CorpusInv, Resting, Calling, Buying, Unrecorded, Todo, Purchases

LEMMA Prices ==
  /\ \A n \in Nat : PriceOf(n) \in Nat /\ PriceOf(n + 1) = PriceOf(n) + PriceOf(1)
  /\ \A n \in 0..Window : n * MaxUsage \in Nat /\ n * MaxUsage <= PriceOf(1)
<1>1. Window \in Nat /\ MaxUsage \in Nat
  BY WindowAssumption, CeilingAssumption
<1>2. ASSUME NEW n \in Nat
      PROVE  PriceOf(n) \in Nat /\ PriceOf(n + 1) = PriceOf(n) + PriceOf(1)
  BY <1>1, SMT DEF PriceOf
<1>3. ASSUME NEW n \in 0..Window PROVE n * MaxUsage \in Nat /\ n * MaxUsage <= PriceOf(1)
  <2>1. n \in Nat /\ Window - n \in Nat
    BY <1>1
  <2>2. n * MaxUsage \in Nat /\ (Window - n) * MaxUsage \in Nat
    BY <1>1, <2>1, SMT
  <2>3. PriceOf(1) = n * MaxUsage + (Window - n) * MaxUsage
    BY <1>1, <2>1, SMT DEF PriceOf
  <2> QED BY <2>2, <2>3, SMT
<1> QED BY <1>2, <1>3

\* A window is no longer than BATCH_SIZE, whatever the ids of its rows.
LEMMA WindowIsPriced ==
  ASSUME CorpusInv, command # Resting
  PROVE  Cardinality(InWindow) \in Nat /\ MostOf(InWindow) \in Nat /\ MostOf(InWindow) <= PriceOf(1)
<1> DEFINE before == [i \in Todo |-> {j \in Todo : j < i}]
<1>1. Todo \subseteq Ids /\ IsFiniteSet(Ids) /\ Ids \subseteq Nat
  BY CommandShapes, ReposAssumption DEF Ids
<1>2. IsFiniteSet(Todo) /\ Todo \subseteq Nat
  BY <1>1, FS_Subset
<1>3. Orders(before, Todo)
  <2>1. before \in [Todo -> SUBSET Todo]
    OBVIOUS
  <2>2. \A p, q \in Todo : p \in before[q] <=> p < q
    OBVIOUS
  <2>3. \A p, q \in Todo : p \in before[q] => before[p] \subseteq before[q]
    <3>1. \A p, q, r \in Todo : p < q /\ r < p => r < q
      BY <1>2
    <3> QED BY <3>1
  <2>4. \A p, q \in Todo : ~(p < p) /\ (p = q \/ p < q \/ q < p)
    BY <1>2
  <2> QED BY <2>1, <2>2, <2>3, <2>4 DEF Orders
<1>4. InWindow = {i \in Todo : Cardinality(before[i]) < Window}
  BY DEF InWindow
<1>5. Cardinality(InWindow) \in Nat /\ Cardinality(InWindow) <= Window
  <2> HIDE DEF before
  <2> QED BY <1>2, <1>3, <1>4, FirstAreFew, WindowAssumption
<1>6. Cardinality(InWindow) \in 0..Window
  BY <1>5, WindowAssumption
<1> QED BY <1>6, Prices DEF MostOf

LEMMA CorpusInitInv == CorpusInit => CorpusInv
<1> SUFFICES ASSUME CorpusInit PROVE CorpusInv
  OBVIOUS
<1>1. PriceOf(0) \in Nat /\ PriceOf(1) \in Nat /\ UsdCeiling \in Nat /\ MaxLost \in Nat
  BY Prices, CeilingAssumption
<1>2. command = Resting /\ command.pc = "rest" /\ DOMAIN chunks = {} /\ OnTheWay = 0
  BY DEF CorpusInit, Resting, OnTheWay, Unrecorded
<1>3. BillIsAccountedFor
  BY <1>1, <1>2 DEF CorpusInit, BillIsAccountedFor
<1>4. CorpusTypeOK
  <2>1. lost \in 0..MaxLost /\ ledger \in Nat /\ bill \in Nat
    BY <1>1 DEF CorpusInit
  <2>2. torn \in BOOLEAN
    BY DEF CorpusInit
  <2> QED BY <1>2, <2>1, <2>2 DEF CorpusTypeOK
<1> QED BY <1>2, <1>3, <1>4 DEF CorpusInv, PendingIsCurrent, EmbeddingIsOfTheContent

\* The rest of the window's rows is a purchase again.
LEMMA RestIsAPurchase ==
  ASSUME NEW p \in Purchases, NEW S \in SUBSET DOMAIN p
  PROVE  [i \in S |-> p[i]] \in Purchases
<1>1. PICK D \in SUBSET Ids : p \in [D -> Contents]
  BY DEF Purchases
<1>2. S \in SUBSET Ids /\ [i \in S |-> p[i]] \in [S -> Contents]
  BY <1>1
<1> QED BY <1>2 DEF Purchases

LEMMA CorpusInductive == CorpusInv /\ [CorpusNext]_corpusVars => CorpusInv'
<1> SUFFICES ASSUME CorpusInv, [CorpusNext]_corpusVars PROVE CorpusInv'
  OBVIOUS
<1>a. /\ ledger \in Nat /\ bill \in Nat /\ lost \in 0..MaxLost /\ lost \in Nat /\ torn \in BOOLEAN
      /\ PriceOf(1) \in Nat /\ PriceOf(lost) \in Nat /\ UsdCeiling \in Nat /\ MaxLost \in Nat
  <2>1. lost \in 0..MaxLost /\ MaxLost \in Nat /\ UsdCeiling \in Nat
    BY CeilingAssumption DEF CorpusInv, CorpusTypeOK
  <2>2. lost \in Nat
    BY <2>1
  <2>3. torn \in BOOLEAN
    BY DEF CorpusInv, CorpusTypeOK
  <2> QED BY <2>1, <2>2, <2>3, Prices DEF CorpusInv, CorpusTypeOK
<1>1. CASE Load
  <2>1. command = Resting /\ UNCHANGED <<ledger, torn, command, bill, lost>>
    BY <1>1 DEF Load
  <2>2. PICK S \in SUBSET Ids : \E parsed \in [S -> Contents] :
          chunks' = [i \in DOMAIN chunks \union S |->
            IF i \notin S THEN chunks[i]
            ELSE IF i \in DOMAIN chunks /\ chunks[i].content = parsed[i] THEN chunks[i]
            ELSE [content |-> parsed[i], embedding |-> NoEmbedding]]
    <3>1. \A repo \in Repos : SUBSET repo \subseteq SUBSET Ids
      BY DEF Ids
    <3> QED BY <1>1, <3>1 DEF Load
  <2>3. PICK parsed \in [S -> Contents] :
          chunks' = [i \in DOMAIN chunks \union S |->
            IF i \notin S THEN chunks[i]
            ELSE IF i \in DOMAIN chunks /\ chunks[i].content = parsed[i] THEN chunks[i]
            ELSE [content |-> parsed[i], embedding |-> NoEmbedding]]
    BY <2>2
  <2>4. /\ DOMAIN chunks' \subseteq Ids
        /\ \A i \in DOMAIN chunks' :
             /\ chunks'[i] \in [content : Contents, embedding : Contents \union {NoEmbedding}]
             /\ chunks'[i].embedding \in {NoEmbedding, chunks'[i].content}
    BY <2>3 DEF CorpusInv, CorpusTypeOK, EmbeddingIsOfTheContent
  <2> QED BY <2>1, <2>4 DEF CorpusInv, CorpusTypeOK, EmbeddingIsOfTheContent, PendingIsCurrent,
                BillIsAccountedFor, OnTheWay, Unrecorded
<1>2. CASE Embed
  <2>1. command = Resting /\ UNCHANGED <<chunks, ledger, torn, bill, lost>>
    BY <1>2 DEF Embed
  <2>2. PICK taken \in SUBSET Pending :
          /\ Reserved(ledger, Cardinality(taken) * TokenCount)
          /\ command' = [pc |-> "call", spent |-> ledger,
                         pending |-> [i \in taken |-> chunks[i].content]]
    BY <1>2 DEF Embed
  <2>3. taken \subseteq DOMAIN chunks /\ DOMAIN chunks \subseteq Ids
    BY DEF Pending, CorpusInv, CorpusTypeOK
  <2>4. [i \in taken |-> chunks[i].content] \in Purchases
    <3>1. [i \in taken |-> chunks[i].content] \in [taken -> Contents]
      BY <2>3 DEF CorpusInv, CorpusTypeOK
    <3> QED BY <2>3, <3>1 DEF Purchases
  <2>5. command' \in Calling /\ command'.pc = "call" /\ command'.spent = ledger
    BY <1>a, <2>2, <2>4 DEF Calling
  <2>6. ledger <= UsdCeiling
    <3>1. IsFiniteSet(taken)
      <4>1. IsFiniteSet(Ids) /\ taken \in SUBSET Ids
        BY <2>3, ReposAssumption DEF Ids
      <4> QED BY <4>1, FS_Subset
    <3>2. Cardinality(taken) \in Nat
      BY <3>1, FS_CardinalityType
    <3> QED BY <1>a, <2>2, <3>2 DEF Reserved, TokenCount
  <2>7. PendingIsCurrent'
    BY <2>1, <2>2, <2>3 DEF PendingIsCurrent, Todo
  <2>8. BillIsAccountedFor'
    <3>1. OnTheWay = 0 /\ OnTheWay' = 0
      BY <2>1, <2>5 DEF OnTheWay, Unrecorded, Resting
    <3> QED BY <2>1, <2>5, <2>6, <3>1 DEF BillIsAccountedFor, CorpusInv, PriceOf
  <2> QED BY <2>1, <2>5, <2>7, <2>8 DEF CorpusInv, CorpusTypeOK, EmbeddingIsOfTheContent
<1>3. CASE CallEmbeddings
  <2>1. command.pc = "call" /\ UNCHANGED <<chunks, ledger, torn, lost>>
    BY <1>3 DEF CallEmbeddings
  <2>2. PICK usage \in Cardinality(InWindow)..MostOf(InWindow) :
          /\ bill' = bill + usage
          /\ command' = [pc |-> "update", usage |-> usage, spent |-> command.spent,
                         pending |-> command.pending]
    BY <1>3 DEF CallEmbeddings
  <2>3. command \in Calling /\ command # Resting
    BY <2>1, CommandShapes DEF Resting
  <2>4. usage \in Nat /\ usage <= PriceOf(1)
    BY <1>a, <2>3, WindowIsPriced
  <2>5. command' \in Buying /\ command'.pc = "update" /\ command'.usage = usage
        /\ command'.spent = command.spent /\ command'.pending = command.pending
    BY <2>2, <2>3, <2>4 DEF Buying, Calling
  <2>6. OnTheWay = 0 /\ OnTheWay' = usage
    BY <2>1, <2>5 DEF OnTheWay, Unrecorded
  <2>7. BillIsAccountedFor'
    BY <1>a, <2>1, <2>2, <2>3, <2>4, <2>5, <2>6 DEF BillIsAccountedFor, CorpusInv, PriceOf
  <2>8. PendingIsCurrent'
    BY <2>1, <2>3, <2>5 DEF PendingIsCurrent, CorpusInv, Todo
  <2> QED BY <1>a, <2>1, <2>2, <2>4, <2>5, <2>7, <2>8 DEF CorpusInv, CorpusTypeOK,
                EmbeddingIsOfTheContent
<1>4. CASE Update
  <2>1. command.pc = "update" /\ UNCHANGED <<ledger, torn, bill, lost>>
    BY <1>4 DEF Update
  <2>2. command \in Buying /\ command # Resting
    BY <2>1, CommandShapes DEF Resting, Unrecorded
  <2>3. /\ command' \in Buying /\ command'.pc = "record" /\ command'.usage = command.usage
        /\ command'.spent = command.spent /\ command'.pending = command.pending
    BY <1>4, <2>2 DEF Update, Buying
  <2>4. chunks' = [i \in DOMAIN chunks |->
          IF i \in InWindow THEN [chunks[i] EXCEPT !.embedding = command.pending[i]] ELSE chunks[i]]
    BY <1>4 DEF Update
  <2>5. ASSUME NEW i \in DOMAIN chunks
        PROVE  /\ chunks'[i] \in [content : Contents, embedding : Contents \union {NoEmbedding}]
               /\ chunks'[i].content = chunks[i].content
               /\ chunks'[i].embedding \in {NoEmbedding, chunks'[i].content}
    <3>1. chunks[i] \in [content : Contents, embedding : Contents \union {NoEmbedding}]
          /\ chunks[i].embedding \in {NoEmbedding, chunks[i].content}
      BY DEF CorpusInv, CorpusTypeOK, EmbeddingIsOfTheContent
    <3>2. i \in InWindow => command.pending[i] = chunks[i].content
      BY <2>2 DEF InWindow, CorpusInv, PendingIsCurrent
    <3> QED BY <2>4, <3>1, <3>2
  <2>6. DOMAIN chunks' = DOMAIN chunks
    BY <2>4
  <2>7. PendingIsCurrent'
    BY <2>2, <2>3, <2>5, <2>6 DEF CorpusInv, PendingIsCurrent, Todo
  <2>8. BillIsAccountedFor'
    <3>1. OnTheWay' = OnTheWay
      BY <2>1, <2>3 DEF OnTheWay, Unrecorded
    <3> QED BY <2>1, <2>2, <2>3, <3>1 DEF BillIsAccountedFor, CorpusInv, PriceOf
  <2> QED BY <2>1, <2>3, <2>5, <2>6, <2>7, <2>8 DEF CorpusInv, CorpusTypeOK, EmbeddingIsOfTheContent
<1>5. CASE Truncate
  <2>1. command.pc = "record" /\ torn' = TRUE /\ UNCHANGED <<chunks, ledger, bill, lost>>
    BY <1>5 DEF Truncate
  <2>2. command \in Buying /\ command # Resting
    BY <2>1, CommandShapes DEF Resting, Unrecorded
  <2>3. /\ command' \in Buying /\ command'.pc = "rewrite" /\ command'.usage = command.usage
        /\ command'.spent = command.spent + command.usage /\ command'.pending = command.pending
    BY <1>5, <2>2 DEF Truncate, Buying
  <2>4. PendingIsCurrent'
    BY <2>1, <2>2, <2>3 DEF CorpusInv, PendingIsCurrent, Todo
  <2>5. BillIsAccountedFor'
    <3>1. OnTheWay' = OnTheWay
      BY <2>1, <2>3 DEF OnTheWay, Unrecorded
    <3> QED BY <2>1, <2>2, <2>3, <3>1 DEF BillIsAccountedFor, CorpusInv, PriceOf
  <2> QED BY <2>1, <2>3, <2>4, <2>5 DEF CorpusInv, CorpusTypeOK, EmbeddingIsOfTheContent
<1>6. CASE Rewrite
  <2>1. command.pc = "rewrite" /\ ledger' = command.spent /\ torn' = FALSE
        /\ UNCHANGED <<chunks, bill, lost>>
    BY <1>6 DEF Rewrite
  <2>2. command \in Buying /\ command # Resting
    BY <2>1, CommandShapes DEF Resting, Unrecorded
  <2>3. ledger' \in Nat /\ OnTheWay = command.usage /\ command.usage \in Nat
    BY <2>1, <2>2 DEF Buying, OnTheWay, Unrecorded
  <2>4. bill' <= ledger' + PriceOf(lost') /\ ledger' <= UsdCeiling + PriceOf(1)
    BY <1>a, <2>1, <2>2, <2>3 DEF CorpusInv, BillIsAccountedFor
  <2>5. CASE command' = Resting
    <3>1. command'.pc = "rest" /\ OnTheWay' = 0
      BY <2>5 DEF Resting, OnTheWay, Unrecorded
    <3>2. BillIsAccountedFor'
      BY <1>a, <2>3, <2>4, <2>5, <3>1 DEF BillIsAccountedFor, PriceOf
    <3> QED BY <2>1, <2>3, <2>5, <3>1, <3>2 DEF CorpusInv, CorpusTypeOK, EmbeddingIsOfTheContent,
                  PendingIsCurrent
  <2>6. CASE command' # Resting
    <3> DEFINE left == Todo \ InWindow
    <3>1. command' = [pc |-> "call", spent |-> command.spent,
                      pending |-> [i \in left |-> command.pending[i]]]
          /\ ~(command.spent > UsdCeiling)
      BY <1>6, <2>6 DEF Rewrite
    <3>2. [i \in left |-> command.pending[i]] \in Purchases
      BY <2>2, RestIsAPurchase DEF Buying, Todo
    <3>3. command' \in Calling /\ command'.pc = "call" /\ command'.spent = ledger' /\ OnTheWay' = 0
      BY <2>1, <2>3, <3>1, <3>2 DEF Calling, OnTheWay, Unrecorded
    <3>4. ledger' <= UsdCeiling
      BY <1>a, <2>1, <2>3, <3>1
    <3>5. BillIsAccountedFor'
      BY <1>a, <2>3, <2>4, <3>3, <3>4 DEF BillIsAccountedFor, PriceOf
    <3>6. PendingIsCurrent'
      <4>1. Todo' = left /\ \A i \in left : command'.pending[i] = command.pending[i]
        BY <3>1 DEF Todo
      <4> QED BY <2>1, <2>2, <4>1 DEF CorpusInv, PendingIsCurrent
    <3> QED BY <2>1, <2>3, <3>3, <3>5, <3>6 DEF CorpusInv, CorpusTypeOK, EmbeddingIsOfTheContent
  <2> QED BY <2>5, <2>6
<1>7. CASE Die
  <2>1. command # Resting /\ command' = Resting /\ UNCHANGED <<chunks, ledger, torn, bill>>
    BY <1>7 DEF Die
  <2>2. command'.pc = "rest" /\ OnTheWay' = 0
    BY <2>1 DEF Resting, OnTheWay, Unrecorded
  <2>3. lost' \in 0..MaxLost /\ bill <= ledger + PriceOf(lost') /\ PriceOf(lost') \in Nat
    <3>1. CASE Unrecorded
      <4>1. lost' = lost + 1 /\ lost < MaxLost /\ PriceOf(lost + 1) = PriceOf(lost) + PriceOf(1)
        BY <1>7, <1>a, <3>1, Prices DEF Die
      <4>2. command.usage \in Nat /\ OnTheWay = command.usage
        BY <3>1, CommandShapes DEF Buying, OnTheWay
      <4> QED BY <1>a, <4>1, <4>2 DEF CorpusInv, BillIsAccountedFor
    <3>2. CASE ~Unrecorded
      BY <1>7, <1>a, <3>2 DEF Die, CorpusInv, BillIsAccountedFor, OnTheWay
    <3> QED BY <3>1, <3>2
  <2>4. BillIsAccountedFor'
    BY <1>a, <2>1, <2>2, <2>3 DEF CorpusInv, BillIsAccountedFor, PriceOf
  <2> QED BY <2>1, <2>2, <2>3, <2>4 DEF CorpusInv, CorpusTypeOK, EmbeddingIsOfTheContent,
                PendingIsCurrent
<1>8. CASE UNCHANGED corpusVars
  BY <1>8 DEF corpusVars, CorpusInv, CorpusTypeOK, EmbeddingIsOfTheContent, PendingIsCurrent, Todo,
        BillIsAccountedFor, OnTheWay, Unrecorded, PriceOf
<1> QED BY <1>1, <1>2, <1>3, <1>4, <1>5, <1>6, <1>7, <1>8 DEF CorpusNext

\* Whatever is killed, the chunks, the ledger and the command at work keep their
\* types, and no more than MaxLost records are lost.
THEOREM CorpusTyped == CorpusSpec => []CorpusTypeOK
<1>1. CorpusInv => CorpusTypeOK
  BY DEF CorpusInv
<1> QED BY <1>1, CorpusInitInv, CorpusInductive, PTL DEF CorpusSpec

\* A search finds a row by what it says, for any repositories and any contents:
\* no order of loads, purchases and kills leaves the embedding of another text.
THEOREM EmbeddingsAreCurrent == CorpusSpec => []EmbeddingIsOfTheContent
<1>1. CorpusInv => EmbeddingIsOfTheContent
  BY DEF CorpusInv
<1> QED BY <1>1, CorpusInitInv, CorpusInductive, PTL DEF CorpusSpec

\* The hard halt bounds the bill for any ceiling, window and price: the window
\* that crosses the ceiling, and one for each purchase whose record is lost.
THEOREM HardHalt == CorpusSpec => []OverspendIsBounded
<1>1. CorpusInv => OverspendIsBounded
  <2> SUFFICES ASSUME CorpusInv PROVE OverspendIsBounded
    OBVIOUS
  <2>1. /\ lost \in Nat /\ bill \in Nat /\ ledger \in Nat /\ UsdCeiling \in Nat
        /\ PriceOf(lost + 1) = PriceOf(lost) + PriceOf(1) /\ PriceOf(lost) \in Nat /\ PriceOf(1) \in Nat
    <3>1. lost \in 0..MaxLost /\ MaxLost \in Nat /\ UsdCeiling \in Nat
      BY CeilingAssumption DEF CorpusInv, CorpusTypeOK
    <3>2. lost \in Nat
      BY <3>1
    <3> QED BY <3>1, <3>2, Prices DEF CorpusInv, CorpusTypeOK
  <2>2. bill <= UsdCeiling + PriceOf(lost + 1)
    <3>1. CASE command = Resting
      BY <2>1, <3>1 DEF CorpusInv, BillIsAccountedFor, OnTheWay, Unrecorded, Resting
    <3>2. CASE command # Resting
      <4>1. OnTheWay \in Nat
        BY CommandShapes DEF OnTheWay, Buying
      <4> QED BY <2>1, <3>2, <4>1 DEF CorpusInv, BillIsAccountedFor
    <3> QED BY <3>1, <3>2
  <2>3. PriceOf(lost + 1) = (1 + lost) * Window * MaxUsage
    BY <2>1 DEF PriceOf
  <2> QED BY <2>2, <2>3 DEF OverspendIsBounded
<1> QED BY <1>1, CorpusInitInv, CorpusInductive, PTL DEF CorpusSpec

(***************************************************************************)
(* Questions: rows come after their spend.                                 *)
(***************************************************************************)
Tasks == {Waiting, [does |-> "dedupe"]} \union [does : {"insert"}, new : SUBSET Generated]

QuestionsInv ==
  /\ QuestionsTypeOK
  /\ task \in Tasks
  /\ RowsAreInTheLedger
  /\ task.does = "insert" => task.new \subseteq recorded

LEMMA TaskShapes ==
  ASSUME NEW t \in Tasks
  PROVE  /\ t.does = "nothing" <=> t = Waiting
         /\ t.does = "insert" => t.new \subseteq Generated
         /\ t.does \in {"nothing", "insert", "dedupe"}
BY DEF Tasks, Waiting

\* Deleting questions, and their answers with them.
LEMMA Deleting ==
  ASSUME QuestionsInv, NEW doomed, Delete(doomed), UNCHANGED <<batches, recorded>>,
         task' \in Tasks, task'.does # "insert"
  PROVE  QuestionsInv'
<1>1. rows' \subseteq rows /\ answered' \subseteq rows' /\ task'.does \in {"nothing", "insert", "dedupe"}
  BY TaskShapes DEF Delete, QuestionsInv, QuestionsTypeOK
<1> QED BY <1>1 DEF QuestionsInv, QuestionsTypeOK, RowsAreInTheLedger

LEMMA QuestionsInitInv == QuestionsInit => QuestionsInv
BY DEF QuestionsInit, QuestionsInv, QuestionsTypeOK, Tasks, Waiting, RowsAreInTheLedger

LEMMA QuestionsInductive == QuestionsInv /\ [QuestionsNext]_questionVars => QuestionsInv'
<1> SUFFICES ASSUME QuestionsInv, [QuestionsNext]_questionVars PROVE QuestionsInv'
  OBVIOUS
<1> USE DEF QuestionsInv, QuestionsTypeOK, RowsAreInTheLedger
<1>1. ASSUME NEW r \in Rounds, SubmitRound(r) PROVE QuestionsInv'
  <2>1. PICK out \in SUBSET Generated :
          batches' = [s \in DOMAIN batches \union {r} |-> IF s = r THEN out ELSE batches[s]]
    BY <1>1 DEF SubmitRound
  <2> QED BY <1>1, <2>1 DEF SubmitRound
<1>2. ASSUME NEW r \in Rounds, CollectRound(r) PROVE QuestionsInv'
  BY <1>2 DEF CollectRound, Tasks
<1>3. CASE Insert
  BY <1>3, TaskShapes DEF Insert, Tasks, Waiting
<1>4. CASE Verify
  BY <1>4, Deleting DEF Verify, Tasks
<1>5. CASE Dedupe
  BY <1>5, Deleting DEF Dedupe, Tasks, Waiting
<1>6. CASE Trim
  BY <1>6, Deleting DEF Trim, Tasks, Waiting
<1>7. CASE Answer
  BY <1>7 DEF Answer
<1>8. CASE KillCommand
  BY <1>8 DEF KillCommand, Tasks, Waiting
<1>9. CASE UNCHANGED questionVars
  BY <1>9 DEF questionVars
<1> QED BY <1>1, <1>2, <1>3, <1>4, <1>5, <1>6, <1>7, <1>8, <1>9 DEF QuestionsNext

\* Whatever is inserted and deleted, in whatever order, the question table holds
\* generated questions alone, and an answer is of a row that is still there.
THEOREM QuestionsTyped == QuestionsSpec => []QuestionsTypeOK
<1>1. QuestionsInv => QuestionsTypeOK
  BY DEF QuestionsInv
<1> QED BY <1>1, QuestionsInitInv, QuestionsInductive, PTL DEF QuestionsSpec

\* Spend first: whatever commands are killed and in whatever order rounds are
\* submitted and collected, the ledger knows what every row was charged with.
THEOREM SpendComesFirst == QuestionsSpec => []RowsAreInTheLedger
<1>1. QuestionsInv => RowsAreInTheLedger
  BY DEF QuestionsInv
<1> QED BY <1>1, QuestionsInitInv, QuestionsInductive, PTL DEF QuestionsSpec

(***************************************************************************)
(* Questions: what a deletion keeps.                                       *)
(***************************************************************************)
\* The fresh rows of a cell go before its answered ones, and then the greatest
\* id: an order of the rows, for no two of them have one id.
LEMMA TrimOrder ==
  ASSUME QuestionsInv, NEW c \in Cells
  PROVE  LET R == InCell(rows, c)
         IN  IsFiniteSet(R) /\ Orders([q \in R |-> {p \in R : GoesBefore(p, q)}], R)
<1> DEFINE R == InCell(rows, c)
           before == [q \in R |-> {p \in R : GoesBefore(p, q)}]
<1>1. R \subseteq Generated
  BY DEF InCell, QuestionsInv, QuestionsTypeOK
<1>2. IsFiniteSet(R)
  <2> HIDE DEF R
  <2> QED BY <1>1, QuotaAssumption, FS_Subset
<1>3. \A p \in R : p.id \in Nat
  BY <1>1, GeneratedAssumption
<1>4. \A p, q \in R : p.id = q.id => p = q
  BY <1>1, GeneratedAssumption
<1> HIDE DEF R
<1>5. before \in [R -> SUBSET R]
  OBVIOUS
<1>6. \A p, q \in R : p \in before[q] <=> GoesBefore(p, q)
  OBVIOUS
<1>7. \A p \in R : ~GoesBefore(p, p)
  BY <1>3 DEF GoesBefore
<1>8. ASSUME NEW p \in R, NEW q \in R PROVE p = q \/ GoesBefore(p, q) \/ GoesBefore(q, p)
  BY <1>3, <1>4 DEF GoesBefore
<1>9. ASSUME NEW p \in R, NEW q \in R, NEW r \in R, GoesBefore(p, q), GoesBefore(r, p)
      PROVE  GoesBefore(r, q)
  BY <1>3, <1>9 DEF GoesBefore
<1>10. \A p, q \in R : p \in before[q] => before[p] \subseteq before[q]
  BY <1>9
<1> HIDE DEF before
<1>11. Orders(before, R)
  BY <1>5, <1>6, <1>7, <1>8, <1>10 DEF Orders
<1> QED BY <1>2, <1>11 DEF R, before

\* What trimming leaves of a cell that had too many.
LEMMA TrimKeepsTheTarget ==
  ASSUME QuestionsInv, NEW c \in Cells, NEW q \in Surplus(c), q \in answered
  PROVE  /\ InCell(rows, c) \ Surplus(c) \subseteq answered
         /\ Cardinality(InCell(rows, c) \ Surplus(c)) = Target[c]
<1> DEFINE R == InCell(rows, c)
           before == [x \in R |-> {p \in R : GoesBefore(p, x)}]
           n == Cardinality(R) - Target[c]
           Gone == {x \in R : Cardinality(before[x]) < n}
<1>1. IsFiniteSet(R) /\ Orders(before, R)
  BY TrimOrder
<1>2. Cardinality(R) \in Nat /\ Target[c] \in Nat
  BY <1>1, FS_CardinalityType, QuotaAssumption DEF Cells
<1>3. \A x \in R : Cardinality(before[x]) \in Nat
  <2> HIDE DEF before, R
  <2> QED BY <1>1, <1>2, RankGrows
<1>4. Surplus(c) = Gone
  <2>1. Surplus(c) = {x \in R : Cardinality(before[x]) + Target[c] < Cardinality(R)}
    BY DEF Surplus, Count
  <2> HIDE DEF before, R
  <2> QED BY <1>2, <1>3, <2>1
<1>5. q \in R /\ Cardinality(before[q]) < n
  BY <1>4
<1>6. n \in Nat /\ n <= Cardinality(R)
  <2> HIDE DEF before, R
  <2> QED BY <1>2, <1>3, <1>5
<1>7. ASSUME NEW p \in R \ Gone PROVE p \in answered
  <2>1. Cardinality(before[q]) < Cardinality(before[p])
    <3> HIDE DEF before, R
    <3> QED BY <1>3, <1>5, <1>6
  <2>2. ~GoesBefore(p, q)
    <3>1. p \in before[q] => Cardinality(before[p]) < Cardinality(before[q])
      <4> HIDE DEF before, R
      <4> QED BY <1>1, <1>5, RankGrows
    <3>2. Cardinality(before[q]) \in Nat /\ Cardinality(before[p]) \in Nat
      BY <1>3, <1>5
    <3>3. p \notin before[q]
      <4> HIDE DEF before
      <4> QED BY <2>1, <3>1, <3>2
    <3> QED BY <1>5, <3>3
  <2> QED BY <2>2 DEF GoesBefore
<1>8. Cardinality(R \ Gone) = Target[c]
  <2>1. Cardinality(Gone) = n
    <3> HIDE DEF before, R, n
    <3> QED BY <1>1, <1>6, FirstAreFew
  <2>2. R \cap Gone = Gone
    OBVIOUS
  <2>3. Cardinality(R \ Gone) = Cardinality(R) - Cardinality(R \cap Gone)
    <3> HIDE DEF R, Gone
    <3> QED BY <1>1, FS_Difference
  <2> HIDE DEF R, Gone
  <2> QED BY <1>2, <2>1, <2>2, <2>3
<1> QED BY <1>4, <1>7, <1>8

\* Of the rows with one text, the one with the smallest id stays.
LEMMA DedupeKeepsACopy ==
  ASSUME QuestionsInv, NEW q \in rows
  PROVE  \E p \in rows : /\ p.text = q.text
                         /\ ~\E o \in rows : o.text = p.text /\ o.id < p.id
<1> DEFINE Copies == {p \in rows : p.text = q.text}
           S == {p.id : p \in Copies}
<1>1. \A p \in rows : p.id \in Nat
  BY GeneratedAssumption DEF QuestionsInv, QuestionsTypeOK
<1>2. S \in SUBSET Nat /\ S # {}
  BY <1>1
<1>3. PICK i \in S : \A j \in S : i <= j
  <2> HIDE DEF S
  <2> QED BY <1>2, SmallestOf
<1>4. PICK p \in Copies : i = p.id
  OBVIOUS
<1>5. ~\E o \in rows : o.text = p.text /\ o.id < p.id
  <2> SUFFICES ASSUME NEW o \in rows, o.text = p.text PROVE ~(o.id < p.id)
    OBVIOUS
  <2>1. o.id \in S
    OBVIOUS
  <2>2. p.id <= o.id
    BY <1>3, <1>4, <2>1
  <2> QED BY <1>1, <2>2
<1> QED BY <1>5

LEMMA GivingUp ==
  ASSUME QuestionsInv, [QuestionsNext]_questionVars, NEW q \in answered \ rows'
  PROVE  \/ q.leaks
         \/ \E p \in rows' : p.text = q.text
         \/ /\ InCell(rows', q.cell) \subseteq answered
            /\ Cardinality(InCell(rows', q.cell)) = Target[q.cell]
<1>1. q \in rows /\ answered \subseteq rows /\ q.cell \in Cells
  BY GeneratedAssumption DEF QuestionsInv, QuestionsTypeOK, Cells
<1>2. ~(rows \subseteq rows')
  BY <1>1
<1>3. CASE Verify
  BY <1>1, <1>3 DEF Verify, Delete
<1>4. CASE Dedupe
  <2>1. PICK p \in rows : p.text = q.text /\ ~\E o \in rows : o.text = p.text /\ o.id < p.id
    BY <1>1, DedupeKeepsACopy
  <2>2. p \in rows'
    BY <1>4, <2>1 DEF Dedupe, Delete
  <2> QED BY <2>1, <2>2
<1>5. CASE Trim
  <2>1. rows' = rows \ UNION {Surplus(c) : c \in Cells}
    BY <1>5 DEF Trim, Delete
  <2>2. PICK c \in Cells : q \in Surplus(c)
    BY <1>1, <2>1
  <2>3. c = q.cell /\ \A d \in Cells : Surplus(d) \subseteq InCell(rows, d)
    BY <2>2 DEF Surplus, InCell
  <2>4. InCell(rows', c) = InCell(rows, c) \ Surplus(c)
    BY <2>1, <2>3 DEF InCell
  <2> QED BY <2>2, <2>3, <2>4, TrimKeepsTheTarget
<1>6. CASE ~(Verify \/ Dedupe \/ Trim)
  <2>1. rows \subseteq rows'
    BY <1>6 DEF QuestionsNext, questionVars, SubmitRound, CollectRound, Insert, Answer, KillCommand
  <2> QED BY <1>2, <2>1
<1> QED BY <1>3, <1>4, <1>5, <1>6

\* Of any number of questions, texts and cells: a paid answer goes with a question
\* that leaks, that is there under another id, or that is surplus in a cell whose
\* target is met with answered questions alone.
THEOREM AnswersAreKept == QuestionsSpec => AnswersAreGivenUpForAReason
<1>1. QuestionsInv /\ [QuestionsNext]_questionVars =>
        [\A q \in answered \ rows' :
           \/ q.leaks
           \/ \E p \in rows' : p.text = q.text
           \/ /\ InCell(rows', q.cell) \subseteq answered
              /\ Cardinality(InCell(rows', q.cell)) = Target[q.cell]]_questionVars
  BY GivingUp
<1> QED BY <1>1, QuestionsInitInv, QuestionsInductive, PTL DEF QuestionsSpec, AnswersAreGivenUpForAReason

(***************************************************************************)
(* GoldenReview: the map of the review server is its log, and the review   *)
(* is over only when it is complete on disk.                               *)
(***************************************************************************)
Records == [case : ReviewCases, verdict : Verdicts]
Requests == {Idle} \union Judging \union Scanning \union Summarising

\* The log l has a record of case c with verdict v.
InLog(l, c, v) == \E i \in DOMAIN l : l[i] = [case |-> c, verdict |-> v]

(***************************************************************************)
(* The last record of a case.                                              *)
(***************************************************************************)
IsLastFor(l, c, i) == i \in DOMAIN l /\ l[i].case = c /\ \A j \in DOMAIN l : l[j].case = c => j <= i

LEMMA LastForIsLast ==
  ASSUME NEW l \in Seq(Records), NEW c \in Judged(l)
  PROVE  IsLastFor(l, c, LastFor(l, c))
<1> DEFINE S == {i \in DOMAIN l : l[i].case = c}
<1>1. S # {} /\ S \in SUBSET (0..Len(l)) /\ Len(l) \in Nat
  BY DEF Judged
<1>2. PICK i \in S : \A j \in S : j <= i
  <2> HIDE DEF S
  <2> QED BY <1>1, GreatestOf
<1>3. IsLastFor(l, c, i)
  BY <1>2 DEF IsLastFor
<1> QED BY <1>3 DEF LastFor, IsLastFor

LEMMA LastForUnique ==
  ASSUME NEW l \in Seq(Records), NEW c, NEW i, IsLastFor(l, c, i)
  PROVE  c \in Judged(l) /\ LastFor(l, c) = i
<1>1. c \in Judged(l)
  BY DEF IsLastFor, Judged
<1>2. IsLastFor(l, c, LastFor(l, c))
  BY <1>1, LastForIsLast
<1>3. i \in 1..Len(l) /\ LastFor(l, c) \in 1..Len(l)
  BY <1>2 DEF IsLastFor
<1>4. i <= LastFor(l, c) /\ LastFor(l, c) <= i
  BY <1>2 DEF IsLastFor
<1> QED BY <1>1, <1>3, <1>4

\* What a restart reads back is in the log.
LEMMA CurrentInLog ==
  ASSUME NEW l \in Seq(Records)
  PROVE  /\ DOMAIN Current(l) = Judged(l) /\ Judged(l) \subseteq ReviewCases
         /\ \A c \in Judged(l) : /\ InLog(l, c, Current(l)[c])
                                 /\ Current(l)[c] \in Verdicts
<1>1. DOMAIN Current(l) = Judged(l)
  BY DEF Current
<1>2. Judged(l) \subseteq ReviewCases
  <2>1. \A i \in DOMAIN l : l[i] \in Records
    OBVIOUS
  <2> QED BY <2>1 DEF Judged, Records
<1>3. ASSUME NEW c \in Judged(l)
      PROVE  InLog(l, c, Current(l)[c]) /\ Current(l)[c] \in Verdicts
  <2> DEFINE i == LastFor(l, c)
  <2>1. i \in DOMAIN l /\ l[i].case = c /\ l[i] \in Records
    BY LastForIsLast DEF IsLastFor
  <2>2. Current(l)[c] = l[i].verdict
    BY DEF Current
  <2>3. l[i] = [case |-> c, verdict |-> l[i].verdict]
    BY <2>1 DEF Records
  <2> QED BY <2>1, <2>2, <2>3 DEF InLog, Records
<1> QED BY <1>1, <1>2, <1>3

\* One record more changes what is read back as the map of the server changes.
LEMMA CurrentOfAppend ==
  ASSUME NEW l \in Seq(Records), NEW c \in ReviewCases, NEW v \in Verdicts
  PROVE  Current(Append(l, [case |-> c, verdict |-> v])) = Put(Current(l), c, v)
<1> DEFINE r == [case |-> c, verdict |-> v]
           m == Append(l, r)
<1>1. r \in Records
  BY DEF Records
<1>2. /\ m \in Seq(Records) /\ Len(m) = Len(l) + 1 /\ Len(l) \in Nat
      /\ DOMAIN l = 1..Len(l) /\ DOMAIN m = 1..(Len(l) + 1)
      /\ m[Len(l) + 1] = r /\ \A i \in 1..Len(l) : m[i] = l[i]
  <2> HIDE DEF r
  <2> QED BY <1>1, AppendProperties, LenProperties
<1> HIDE DEF m
<1>3. Judged(m) = Judged(l) \union {c}
  <2>1. ASSUME NEW i \in DOMAIN m PROVE m[i].case \in Judged(l) \union {c}
    <3>1. CASE i = Len(l) + 1
      BY <1>2, <3>1
    <3>2. CASE i \in 1..Len(l)
      BY <1>2, <3>2 DEF Judged
    <3> QED BY <1>2, <3>1, <3>2
  <2>2. c \in Judged(m)
    <3>1. Len(l) + 1 \in DOMAIN m /\ m[Len(l) + 1].case = c
      BY <1>2
    <3> QED BY <3>1 DEF Judged
  <2>3. ASSUME NEW i \in DOMAIN l PROVE l[i].case \in Judged(m)
    BY <1>2 DEF Judged
  <2> QED BY <2>1, <2>2, <2>3 DEF Judged
<1>4. Current(m)[c] = v
  <2>1. IsLastFor(m, c, Len(l) + 1)
    BY <1>2 DEF IsLastFor
  <2> QED BY <1>2, <2>1, LastForUnique DEF Current
<1>5. ASSUME NEW x \in Judged(l), x # c PROVE Current(m)[x] = Current(l)[x]
  <2> DEFINE i == LastFor(l, x)
  <2>1. IsLastFor(l, x, i)
    BY LastForIsLast
  <2>2. IsLastFor(m, x, i)
    BY <1>2, <1>5, <2>1 DEF IsLastFor
  <2>3. x \in Judged(m) /\ LastFor(m, x) = i
    BY <1>2, <2>2, LastForUnique
  <2> QED BY <1>2, <2>1, <2>3 DEF Current, IsLastFor
<1>6. DOMAIN Current(m) = Judged(m) /\ DOMAIN Current(l) = Judged(l)
  BY DEF Current
<1>7. Current(m) = [x \in Judged(m) |-> Current(m)[x]]
  BY DEF Current
<1>8. Put(Current(l), c, v) = [x \in Judged(m) |-> Current(m)[x]]
  BY <1>3, <1>4, <1>5, <1>6 DEF Put
<1> QED BY <1>7, <1>8 DEF m

(***************************************************************************)
(* The inductive invariant.                                                *)
(***************************************************************************)
Writing(t) == request[t].pc \in {"record", "publish"}

\* The lock of do_POST: whoever writes holds it, and nobody else writes.
LockExcludes ==
  /\ \A t \in Handlers : Writing(t) => lock
  /\ \A s, t \in Handlers : Writing(s) /\ Writing(t) => s = t

DownIsIdle == server = "down" => ~lock /\ \A t \in Handlers : request[t] = Idle

\* Between the append to the log and the write to the map, the map lacks that
\* one record; at any other time of a server that is up it lacks nothing.
MapFollowsTheLog ==
  server # "down" =>
    /\ (\A t \in Handlers : request[t].pc # "publish") => judgments = Current(log)
    /\ \A t \in Handlers : request[t].pc = "publish" =>
         Current(log) = Put(judgments, Order[request[t].at], request[t].verdict)

\* What the scans without the lock see of the map is in the log, stale or not.
MapIsInTheLog == \A c \in DOMAIN judgments : InLog(log, c, judgments[c])

\* Of a request q and the log l: a judgment that is to be published was well formed; a scan
\* from the first case has passed only cases the log has; a summary under way
\* has only verdicts of the log.
ThreadOK(q, l) ==
  /\ q.pc = "publish" => q.verdict # "malformed"
  /\ q.pc = "first" => \A i \in 1..(q.at - 1) : Order[i] \in Judged(l)
  /\ q.pc = "summarise" => \A c \in DOMAIN q.seen : InLog(l, c, q.seen[c])

ReviewInv ==
  /\ ReviewTypeOK
  /\ LockExcludes
  /\ DownIsIdle
  /\ MapFollowsTheLog
  /\ MapIsInTheLog
  /\ \A t \in Handlers : ThreadOK(request[t], log)
  /\ SummaryMeansAllJudged
  /\ SummaryIsOfTheLog

LEMMA ReviewInitInv == ReviewInit => ReviewInv
<1> SUFFICES ASSUME ReviewInit PROVE ReviewInv
  OBVIOUS
<1>1. /\ log \in Seq(Records) /\ DOMAIN judgments = {} /\ DOMAIN summary = {}
      /\ request \in [Handlers -> Requests]
  BY DEF ReviewInit, Nothing, Requests
<1>2. \A t \in Handlers : request[t] = Idle /\ Idle.pc = "idle"
  BY DEF ReviewInit, Idle
<1>3. lock \in BOOLEAN /\ told \in BOOLEAN
  BY DEF ReviewInit
<1>4. ReviewTypeOK
  BY <1>1, <1>3 DEF ReviewInit, ReviewTypeOK, Records, Requests
<1>5. judgments = Current(log)
  BY <1>1 DEF ReviewInit, Nothing, Current, Judged
<1> QED BY <1>2, <1>4, <1>5 DEF ReviewInit, ReviewInv, LockExcludes, Writing, DownIsIdle, MapFollowsTheLog,
              MapIsInTheLog, Nothing, ThreadOK, SummaryMeansAllJudged, SummaryIsOfTheLog

(***************************************************************************)
(* What requests are.                                                      *)
(***************************************************************************)
LEMMA RequestShapes ==
  ASSUME NEW q \in Requests
  PROVE  /\ q.pc = "idle" => q = Idle
         /\ q.pc \in {"wait", "record", "publish"} => q \in Judging
         /\ q.pc \in {"next", "first"} => q \in Scanning
         /\ q.pc = "summarise" => q \in Summarising
         /\ q.pc \in {"idle", "wait", "record", "publish", "next", "first", "summarise"}
  BY DEF Requests, Idle, Judging, Scanning, Summarising

\* The log m has everything the log l has.
Grows(l, m) ==
  /\ \A c, v : InLog(l, c, v) => InLog(m, c, v)
  /\ Judged(l) \subseteq Judged(m)

LEMMA AppendGrows ==
  ASSUME NEW l \in Seq(Records), NEW r \in Records
  PROVE  Append(l, r) \in Seq(Records) /\ Grows(l, Append(l, r))
<1>1. /\ Append(l, r) \in Seq(Records)
      /\ DOMAIN l = 1..Len(l) /\ DOMAIN Append(l, r) = 1..(Len(l) + 1) /\ Len(l) \in Nat
      /\ \A i \in 1..Len(l) : Append(l, r)[i] = l[i]
  BY AppendProperties, LenProperties
<1>2. \A i \in DOMAIN l : i \in DOMAIN Append(l, r) /\ Append(l, r)[i] = l[i]
  BY <1>1
<1> HIDE DEF Grows
<1> QED BY <1>1, <1>2 DEF Grows, InLog, Judged

LEMMA ThreadStable ==
  ASSUME NEW q \in Requests, NEW l, NEW m, Grows(l, m), ThreadOK(q, l)
  PROVE  ThreadOK(q, m)
  BY DEF ThreadOK, Grows

LEMMA SummaryStable ==
  ASSUME SummaryMeansAllJudged, SummaryIsOfTheLog, Grows(log, log'), log' \in Seq(Records),
         UNCHANGED <<told, summary>>
  PROVE  SummaryMeansAllJudged' /\ SummaryIsOfTheLog'
<1>1. Judged(log') \subseteq ReviewCases
  BY CurrentInLog
<1> QED BY <1>1 DEF SummaryMeansAllJudged, SummaryIsOfTheLog, Grows, InLog

(***************************************************************************)
(* One step of a thread.                                                   *)
(***************************************************************************)
LEMMA ThreadMoves ==
  ASSUME ReviewInv, NEW t \in Handlers, NEW q \in Requests, Goes(t, q),
         Grows(log, log'), ThreadOK(q, log')
  PROVE  /\ request' \in [Handlers -> Requests] /\ request'[t] = q
         /\ \A s \in Handlers \ {t} : request'[s] = request[s]
         /\ \A s \in Handlers : ThreadOK(request'[s], log')
<1>1. /\ request \in [Handlers -> Requests]
      /\ request' = [request EXCEPT ![t] = q]
  BY DEF ReviewInv, ReviewTypeOK, Requests, Goes
<1>2. \A s \in Handlers \ {t} : ThreadOK(request[s], log')
  BY <1>1, ThreadStable DEF ReviewInv
<1> QED BY <1>1, <1>2

\* A request is handled only while the server is up.
LEMMA HandledWhileUp ==
  ASSUME ReviewInv, NEW t \in Handlers, request[t].pc # "idle"
  PROVE  server # "down"
  BY DEF ReviewInv, DownIsIdle, Idle

\* A step that neither takes, holds nor releases the lock and does not write to
\* the log or the map.
LEMMA UnlockedStep ==
  ASSUME ReviewInv, NEW t \in Handlers, NEW q \in Requests, Goes(t, q), ThreadOK(q, log),
         server # "down", ~Writing(t), q.pc \notin {"record", "publish"},
         UNCHANGED <<log, judgments, server, lock>>,
         told' \in BOOLEAN, DOMAIN summary' \subseteq ReviewCases,
         SummaryMeansAllJudged', SummaryIsOfTheLog'
  PROVE  ReviewInv'
<1>1. Grows(log, log')
  BY DEF Grows
<1>2. /\ request' \in [Handlers -> Requests] /\ request'[t] = q
      /\ \A s \in Handlers \ {t} : request'[s] = request[s]
      /\ \A s \in Handlers : ThreadOK(request'[s], log')
  BY <1>1, ThreadMoves
<1>3. ReviewTypeOK'
  BY <1>2 DEF ReviewInv, ReviewTypeOK, Requests
<1>4. \A s \in Handlers : Writing(s)' => Writing(s) /\ s # t /\ request'[s] = request[s]
  BY <1>2 DEF Writing
<1>5. LockExcludes'
  BY <1>4 DEF ReviewInv, LockExcludes
<1>6. MapFollowsTheLog'
  <2>1. \A s \in Handlers : request'[s].pc = "publish" <=> request[s].pc = "publish"
    BY <1>2 DEF Writing
  <2>2. \A s \in Handlers : request'[s].pc = "publish" => request'[s] = request[s]
    BY <1>2
  <2> QED BY <2>1, <2>2 DEF ReviewInv, MapFollowsTheLog
<1>7. MapIsInTheLog' /\ DownIsIdle'
  BY DEF ReviewInv, MapIsInTheLog, DownIsIdle
<1> QED BY <1>2, <1>3, <1>5, <1>6, <1>7 DEF ReviewInv

\* The four steps of the critical section.
LEMMA AcquireStep == ASSUME ReviewInv, NEW t \in Handlers, Acquire(t) PROVE ReviewInv'
<1> DEFINE q == [request[t] EXCEPT !.pc = "record"]
<1>1. request[t] \in Judging /\ request[t].pc = "wait"
  BY RequestShapes DEF Acquire, ReviewInv, ReviewTypeOK, Requests
<1>2. q \in Requests /\ q.pc = "record" /\ ThreadOK(q, log')
  BY <1>1 DEF Judging, Requests, ThreadOK
<1>3. Goes(t, q) /\ ~lock /\ lock' /\ UNCHANGED <<log, judgments, server, told, summary>>
  BY DEF Acquire
<1>4. Grows(log, log')
  BY <1>3 DEF Grows
<1> HIDE DEF q
<1>5. /\ request' \in [Handlers -> Requests] /\ request'[t] = q
      /\ \A s \in Handlers \ {t} : request'[s] = request[s]
      /\ \A s \in Handlers : ThreadOK(request'[s], log')
  BY <1>2, <1>3, <1>4, ThreadMoves
<1>6. lock' \in BOOLEAN
  BY DEF Acquire
<1>7. ReviewTypeOK'
  BY <1>3, <1>5, <1>6 DEF ReviewInv, ReviewTypeOK, Requests
<1>8. \A s \in Handlers : Writing(s)' => s = t
  BY <1>3, <1>5 DEF ReviewInv, LockExcludes, Writing
<1>9. LockExcludes' /\ DownIsIdle'
  <2>1. server # "down"
    BY <1>1, HandledWhileUp
  <2> QED BY <1>3, <1>8, <2>1 DEF LockExcludes, DownIsIdle
<1>10. MapFollowsTheLog'
  <2>1. \A s \in Handlers : request'[s].pc # "publish" /\ request[s].pc # "publish"
    BY <1>2, <1>3, <1>5, <1>1 DEF ReviewInv, LockExcludes, Writing
  <2> QED BY <1>3, <2>1 DEF ReviewInv, MapFollowsTheLog
<1>11. MapIsInTheLog' /\ SummaryMeansAllJudged' /\ SummaryIsOfTheLog'
  BY <1>3 DEF ReviewInv, MapIsInTheLog, SummaryMeansAllJudged, SummaryIsOfTheLog
<1> QED BY <1>5, <1>7, <1>9, <1>10, <1>11 DEF ReviewInv

LEMMA RefuseStep == ASSUME ReviewInv, NEW t \in Handlers, Refuse(t) PROVE ReviewInv'
<1>1. Writing(t) /\ request[t].pc = "record"
  BY DEF Refuse, Writing
<1>2. Goes(t, Idle) /\ ~lock' /\ UNCHANGED <<log, judgments, server, told, summary>>
  BY DEF Refuse
<1>3. Grows(log, log') /\ Idle \in Requests /\ Idle.pc = "idle" /\ ThreadOK(Idle, log')
  BY <1>2 DEF Grows, Requests, Idle, ThreadOK
<1>4. /\ request' \in [Handlers -> Requests] /\ request'[t] = Idle
      /\ \A s \in Handlers \ {t} : request'[s] = request[s]
      /\ \A s \in Handlers : ThreadOK(request'[s], log')
  BY <1>2, <1>3, ThreadMoves
<1>5. lock' \in BOOLEAN
  BY DEF Refuse
<1>6. ReviewTypeOK'
  BY <1>2, <1>4, <1>5 DEF ReviewInv, ReviewTypeOK, Requests
<1>7. \A s \in Handlers : ~Writing(s)'
  BY <1>1, <1>3, <1>4 DEF ReviewInv, LockExcludes, Writing
<1>8. LockExcludes' /\ DownIsIdle'
  BY <1>1, <1>2, <1>7, HandledWhileUp DEF LockExcludes, DownIsIdle
<1>9. MapFollowsTheLog'
  <2>1. \A s \in Handlers : request'[s].pc # "publish" /\ request[s].pc # "publish"
    BY <1>1, <1>3, <1>4 DEF ReviewInv, LockExcludes, Writing
  <2> QED BY <1>2, <2>1 DEF ReviewInv, MapFollowsTheLog
<1>10. MapIsInTheLog' /\ SummaryMeansAllJudged' /\ SummaryIsOfTheLog'
  BY <1>2 DEF ReviewInv, MapIsInTheLog, SummaryMeansAllJudged, SummaryIsOfTheLog
<1> QED BY <1>4, <1>6, <1>8, <1>9, <1>10 DEF ReviewInv

\* The record is in the log, and the map lacks it: nobody else may be in between.
LEMMA RecordStep == ASSUME ReviewInv, NEW t \in Handlers, Record(t) PROVE ReviewInv'
<1> DEFINE c == Order[request[t].at]
           v == request[t].verdict
           r == [case |-> c, verdict |-> v]
           q == [request[t] EXCEPT !.pc = "publish"]
<1>1. request[t] \in Judging /\ request[t].pc = "record" /\ v # "malformed"
  BY RequestShapes DEF Record, ReviewInv, ReviewTypeOK, Requests
<1>2. c \in ReviewCases /\ v \in Verdicts /\ r \in Records
  BY <1>1 DEF Judging, ReviewCases, Records
<1>3. /\ q \in Requests /\ q.pc = "publish" /\ Order[q.at] = c /\ q.verdict = v
      /\ ThreadOK(q, log')
  BY <1>1 DEF Judging, Requests, ThreadOK
<1>4. /\ log' = Append(log, r) /\ Goes(t, q)
      /\ UNCHANGED <<judgments, server, lock, told, summary>>
  BY DEF Record
<1> HIDE DEF q
<1>5. log \in Seq(Records)
  BY DEF ReviewInv, ReviewTypeOK, Records
<1>6. log' \in Seq(Records) /\ Grows(log, log')
  <2> HIDE DEF r
  <2> QED BY <1>2, <1>4, <1>5, AppendGrows
<1>7. /\ request' \in [Handlers -> Requests] /\ request'[t] = q
      /\ \A s \in Handlers \ {t} : request'[s] = request[s]
      /\ \A s \in Handlers : ThreadOK(request'[s], log')
  BY <1>3, <1>4, <1>6, ThreadMoves
<1>8. ReviewTypeOK'
  BY <1>4, <1>6, <1>7 DEF ReviewInv, ReviewTypeOK, Requests, Records
<1>9. \A s \in Handlers : Writing(s)' => Writing(s) /\ s = t
  BY <1>1, <1>7 DEF ReviewInv, LockExcludes, Writing
<1>10. server # "down"
  BY <1>1, HandledWhileUp
<1>11. LockExcludes' /\ DownIsIdle'
  BY <1>4, <1>9, <1>10 DEF ReviewInv, LockExcludes, DownIsIdle
<1>12. MapFollowsTheLog'
  <2>1. \A s \in Handlers : request[s].pc # "publish"
    BY <1>1 DEF ReviewInv, LockExcludes, Writing
  <2>2. judgments = Current(log)
    BY <2>1, <1>10 DEF ReviewInv, MapFollowsTheLog
  <2>3. Current(log') = Put(judgments, c, v)
    BY <1>2, <1>4, <1>5, <2>2, CurrentOfAppend
  <2>4. \A s \in Handlers : request'[s].pc = "publish" => request'[s] = q
    BY <1>7, <2>1
  <2> QED BY <1>3, <1>4, <1>7, <2>3, <2>4 DEF MapFollowsTheLog
<1>13. MapIsInTheLog'
  BY <1>4, <1>6 DEF ReviewInv, MapIsInTheLog, Grows
<1>14. SummaryMeansAllJudged' /\ SummaryIsOfTheLog'
  BY <1>4, <1>6, SummaryStable DEF ReviewInv
<1> QED BY <1>7, <1>8, <1>11, <1>12, <1>13, <1>14 DEF ReviewInv

LEMMA PublishStep == ASSUME ReviewInv, NEW t \in Handlers, Publish(t) PROVE ReviewInv'
<1> DEFINE c == Order[request[t].at]
           v == request[t].verdict
           q == [pc |-> "next", at |-> request[t].at + 1]
<1>1. request[t] \in Judging /\ request[t].pc = "publish" /\ Writing(t)
  BY RequestShapes DEF Publish, ReviewInv, ReviewTypeOK, Requests, Writing
<1>2. /\ judgments' = Put(judgments, c, v) /\ ~lock' /\ Goes(t, q)
      /\ UNCHANGED <<log, server, told, summary>>
  BY DEF Publish
<1>3. q \in Requests /\ q.pc = "next" /\ ThreadOK(q, log')
  <2>1. request[t].at + 1 \in Positions
    BY <1>1, OrderAssumption DEF Judging, Positions
  <2> QED BY <2>1 DEF Requests, Scanning, ThreadOK
<1> HIDE DEF q
<1>4. Grows(log, log')
  BY <1>2 DEF Grows
<1>5. /\ request' \in [Handlers -> Requests] /\ request'[t] = q
      /\ \A s \in Handlers \ {t} : request'[s] = request[s]
      /\ \A s \in Handlers : ThreadOK(request'[s], log')
  BY <1>2, <1>3, <1>4, ThreadMoves
<1>6. server # "down"
  BY <1>1, HandledWhileUp
<1>7. judgments' = Current(log)
  BY <1>1, <1>2, <1>6 DEF ReviewInv, MapFollowsTheLog
<1>8. log \in Seq(Records)
  BY DEF ReviewInv, ReviewTypeOK, Records
<1>9. lock' \in BOOLEAN
  BY DEF Publish
<1>10. ReviewTypeOK' /\ MapIsInTheLog'
  <2>1. /\ DOMAIN judgments' \subseteq ReviewCases
        /\ \A x \in DOMAIN judgments' : judgments'[x] \in Verdicts /\ InLog(log', x, judgments'[x])
    BY <1>2, <1>7, <1>8, CurrentInLog
  <2> QED BY <1>2, <1>5, <1>9, <2>1 DEF ReviewInv, ReviewTypeOK, Requests, MapIsInTheLog
<1>11. \A s \in Handlers : ~Writing(s)'
  BY <1>1, <1>3, <1>5 DEF ReviewInv, LockExcludes, Writing
<1>12. LockExcludes' /\ DownIsIdle' /\ MapFollowsTheLog'
  BY <1>2, <1>6, <1>7, <1>11 DEF LockExcludes, DownIsIdle, MapFollowsTheLog, Writing
<1>13. SummaryMeansAllJudged' /\ SummaryIsOfTheLog'
  BY <1>2 DEF ReviewInv, SummaryMeansAllJudged, SummaryIsOfTheLog
<1> QED BY <1>5, <1>10, <1>12, <1>13 DEF ReviewInv

\* The steps that leave log, map and lock alone.
LEMMA IdleThread ==
  ASSUME ReviewInv, NEW t \in Handlers, request[t] = Idle
  PROVE  ~Writing(t)
  BY DEF Writing, Idle

LEMMA IdleIsOK == Idle \in Requests /\ Idle.pc = "idle" /\ ThreadOK(Idle, log)
  BY DEF Requests, Idle, ThreadOK

LEMMA PostJudgeStep == ASSUME ReviewInv, NEW t \in Handlers, PostJudge(t) PROVE ReviewInv'
<1>1. PICK i \in DOMAIN Order, v \in Verdicts \union {"malformed"} :
        Goes(t, [pc |-> "wait", at |-> i, verdict |-> v])
  BY DEF PostJudge
<1> DEFINE q == [pc |-> "wait", at |-> i, verdict |-> v]
<1>2. q \in Requests /\ q.pc = "wait" /\ ThreadOK(q, log)
  BY DEF Requests, Judging, ThreadOK
<1> HIDE DEF q
<1>3. Goes(t, q) /\ server # "down" /\ UNCHANGED <<log, judgments, server, lock, told, summary>>
  BY <1>1 DEF PostJudge, q
<1>4. ~Writing(t)
  BY IdleThread DEF PostJudge
<1> QED BY <1>2, <1>3, <1>4, UnlockedStep
          DEF ReviewInv, ReviewTypeOK, SummaryMeansAllJudged, SummaryIsOfTheLog

LEMMA GetRootStep == ASSUME ReviewInv, NEW t \in Handlers, GetRoot(t) PROVE ReviewInv'
<1> DEFINE q == [pc |-> "first", at |-> 1]
<1>1. q \in Requests /\ q.pc = "first" /\ ThreadOK(q, log)
  BY OrderAssumption DEF Requests, Scanning, Positions, ThreadOK
<1>2. Goes(t, q) /\ server # "down" /\ UNCHANGED <<log, judgments, server, lock, told, summary>>
  BY DEF GetRoot
<1> HIDE DEF q
<1>3. ~Writing(t)
  BY IdleThread DEF GetRoot
<1> QED BY <1>1, <1>2, <1>3, UnlockedStep
          DEF ReviewInv, ReviewTypeOK, SummaryMeansAllJudged, SummaryIsOfTheLog

LEMMA RedirectStep == ASSUME ReviewInv, NEW t \in Handlers, Redirect(t) PROVE ReviewInv'
<1>1. Goes(t, Idle) /\ request[t].pc \in {"next", "first"}
      /\ UNCHANGED <<log, judgments, server, lock, told, summary>>
  BY DEF Redirect
<1>2. server # "down" /\ ~Writing(t)
  BY <1>1, HandledWhileUp DEF Writing
<1> QED BY <1>1, <1>2, IdleIsOK, UnlockedStep
          DEF ReviewInv, ReviewTypeOK, SummaryMeansAllJudged, SummaryIsOfTheLog

\* A case that is passed is in the map, and so in the log for good.
LEMMA ScanOnStep == ASSUME ReviewInv, NEW t \in Handlers, ScanOn(t) PROVE ReviewInv'
<1> DEFINE q == [request[t] EXCEPT !.at = @ + 1]
<1>1. request[t] \in Scanning /\ request[t].at <= Len(Order) /\ ~NotYetJudged(request[t].at)
  BY RequestShapes DEF ScanOn, ReviewInv, ReviewTypeOK, Requests
<1>2. q \in Requests /\ q.pc = request[t].pc /\ q.at = request[t].at + 1
  BY <1>1, OrderAssumption DEF Requests, Scanning, Positions
<1>3. Order[request[t].at] \in Judged(log)
  <2>1. Order[request[t].at] \in DOMAIN judgments
    BY <1>1 DEF NotYetJudged
  <2>2. PICK i \in DOMAIN log : log[i].case = Order[request[t].at]
    BY <2>1 DEF ReviewInv, MapIsInTheLog, InLog
  <2> QED BY <2>2 DEF Judged
<1>4. ThreadOK(q, log)
  <2>1. ASSUME q.pc = "first", NEW i \in 1..(q.at - 1) PROVE Order[i] \in Judged(log)
    <3>1. i \in 1..(request[t].at - 1) \/ i = request[t].at
      BY <1>1, <1>2, OrderAssumption DEF Scanning, Positions
    <3> QED BY <1>2, <1>3, <2>1, <3>1 DEF ReviewInv, ThreadOK
  <2>2. q.pc \in {"next", "first"}
    BY <1>1, <1>2 DEF Scanning
  <2> HIDE DEF q
  <2> QED BY <2>1, <2>2 DEF ThreadOK
<1>5. Goes(t, q) /\ UNCHANGED <<log, judgments, server, lock, told, summary>>
  BY DEF ScanOn
<1> HIDE DEF q
<1>6. server # "down" /\ ~Writing(t) /\ q.pc \notin {"record", "publish"}
  BY <1>1, <1>2, HandledWhileUp DEF Writing, Scanning
<1> QED BY <1>2, <1>4, <1>5, <1>6, UnlockedStep
          DEF ReviewInv, ReviewTypeOK, SummaryMeansAllJudged, SummaryIsOfTheLog

LEMMA WrapAroundStep == ASSUME ReviewInv, NEW t \in Handlers, WrapAround(t) PROVE ReviewInv'
<1> DEFINE q == [pc |-> "first", at |-> 1]
<1>1. q \in Requests /\ q.pc = "first" /\ ThreadOK(q, log)
  BY OrderAssumption DEF Requests, Scanning, Positions, ThreadOK
<1>2. Goes(t, q) /\ request[t].pc = "next"
      /\ UNCHANGED <<log, judgments, server, lock, told, summary>>
  BY DEF WrapAround
<1> HIDE DEF q
<1>3. server # "down" /\ ~Writing(t)
  BY <1>2, HandledWhileUp DEF Writing
<1> QED BY <1>1, <1>2, <1>3, UnlockedStep
          DEF ReviewInv, ReviewTypeOK, SummaryMeansAllJudged, SummaryIsOfTheLog

\* A scan that is past the end has passed every case.
LEMMA RedirectToSummaryStep == ASSUME ReviewInv, NEW t \in Handlers, RedirectToSummary(t) PROVE ReviewInv'
<1>1. request[t] \in Scanning /\ request[t].pc = "first" /\ request[t].at > Len(Order)
  BY RequestShapes DEF RedirectToSummary, ReviewInv, ReviewTypeOK, Requests
<1>2. \A i \in DOMAIN Order : Order[i] \in Judged(log)
  <2>1. request[t].at - 1 = Len(Order)
    BY <1>1, OrderAssumption DEF Scanning, Positions
  <2> QED BY <1>1, <2>1, OrderAssumption DEF ReviewInv, ThreadOK
<1>3. Judged(log) = ReviewCases
  BY <1>2, CurrentInLog DEF ReviewInv, ReviewTypeOK, ReviewCases, Records
<1>4. Goes(t, Idle) /\ told' = TRUE /\ UNCHANGED <<log, judgments, server, lock, summary>>
  BY DEF RedirectToSummary
<1>5. server # "down" /\ ~Writing(t)
  BY <1>1, HandledWhileUp DEF Writing
<1>6. SummaryMeansAllJudged' /\ SummaryIsOfTheLog' /\ told' \in BOOLEAN
  BY <1>3, <1>4 DEF ReviewInv, SummaryMeansAllJudged, SummaryIsOfTheLog
<1> QED BY <1>4, <1>5, <1>6, IdleIsOK, UnlockedStep DEF ReviewInv, ReviewTypeOK

LEMMA GetSummaryStep == ASSUME ReviewInv, NEW t \in Handlers, GetSummary(t) PROVE ReviewInv'
<1> DEFINE q == [pc |-> "summarise", at |-> 1, seen |-> Nothing]
<1>1. Nothing \in [{} -> Verdicts] /\ DOMAIN Nothing = {}
  BY DEF Nothing
<1>2. q \in Requests /\ q.pc = "summarise" /\ ThreadOK(q, log)
  <2>1. \E S \in SUBSET ReviewCases : Nothing \in [S -> Verdicts]
    BY <1>1
  <2>2. q \in Requests
    BY <2>1, OrderAssumption DEF Requests, Summarising, Positions
  <2> QED BY <1>1, <2>2 DEF ThreadOK
<1>3. Goes(t, q) /\ server # "down" /\ UNCHANGED <<log, judgments, server, lock, told, summary>>
  BY DEF GetSummary
<1> HIDE DEF q
<1>4. ~Writing(t)
  BY IdleThread DEF GetSummary
<1> QED BY <1>2, <1>3, <1>4, UnlockedStep
          DEF ReviewInv, ReviewTypeOK, SummaryMeansAllJudged, SummaryIsOfTheLog

LEMMA SummariseStep == ASSUME ReviewInv, NEW t \in Handlers, Summarise(t) PROVE ReviewInv'
<1> DEFINE c == Order[request[t].at]
           seen == IF c \in DOMAIN judgments THEN Put(request[t].seen, c, judgments[c])
                   ELSE request[t].seen
           q == [pc |-> "summarise", at |-> request[t].at + 1, seen |-> seen]
<1>1. request[t] \in Summarising /\ request[t].at <= Len(Order) /\ request[t].pc = "summarise"
  BY RequestShapes DEF Summarise, ReviewInv, ReviewTypeOK, Requests
<1>2. /\ c \in ReviewCases
      /\ c \in DOMAIN judgments => judgments[c] \in Verdicts /\ InLog(log, c, judgments[c])
  BY <1>1, OrderAssumption
     DEF Summarising, Positions, ReviewCases, ReviewInv, ReviewTypeOK, MapIsInTheLog
<1>3. PICK S \in SUBSET ReviewCases : request[t].seen \in [S -> Verdicts]
  BY <1>1 DEF Summarising
<1>4. \A x \in DOMAIN request[t].seen : InLog(log, x, request[t].seen[x])
  BY <1>1 DEF ReviewInv, ThreadOK
<1>5. /\ \E T \in SUBSET ReviewCases : seen \in [T -> Verdicts]
      /\ \A x \in DOMAIN seen : InLog(log, x, seen[x])
  <2>1. CASE c \in DOMAIN judgments
    <3>1. /\ seen \in [S \union {c} -> Verdicts]
          /\ \A x \in S \union {c} : seen[x] = IF x = c THEN judgments[c] ELSE request[t].seen[x]
      BY <1>2, <1>3, <2>1 DEF Put
    <3>2. DOMAIN seen = S \union {c} /\ DOMAIN request[t].seen = S
      BY <1>3, <3>1
    <3> HIDE DEF seen
    <3>3. \A x \in DOMAIN seen : InLog(log, x, seen[x])
      BY <1>2, <1>4, <2>1, <3>1, <3>2
    <3> QED BY <1>2, <3>1, <3>3
  <2>2. CASE c \notin DOMAIN judgments
    BY <1>3, <1>4, <2>2
  <2> QED BY <2>1, <2>2
<1> HIDE DEF seen
<1>6. q \in Requests /\ q.pc = "summarise" /\ q.seen = seen
  <2>1. request[t].at + 1 \in Positions
    BY <1>1, OrderAssumption DEF Summarising, Positions
  <2>2. q \in Summarising
    BY <1>5, <2>1 DEF Summarising
  <2> QED BY <2>2 DEF Requests
<1>7. ThreadOK(q, log)
  BY <1>5, <1>6 DEF ThreadOK
<1>8. Goes(t, q) /\ UNCHANGED <<log, judgments, server, lock, told, summary>>
  BY DEF Summarise, seen
<1> HIDE DEF q
<1>9. server # "down" /\ ~Writing(t)
  BY <1>1, HandledWhileUp DEF Writing
<1> QED BY <1>6, <1>7, <1>8, <1>9, UnlockedStep
          DEF ReviewInv, ReviewTypeOK, SummaryMeansAllJudged, SummaryIsOfTheLog

LEMMA WriteSummaryStep == ASSUME ReviewInv, NEW t \in Handlers, WriteSummary(t) PROVE ReviewInv'
<1>1. request[t].pc = "summarise" /\ \A c \in DOMAIN request[t].seen : InLog(log, c, request[t].seen[c])
  BY DEF WriteSummary, ReviewInv, ThreadOK
<1>2. /\ Goes(t, Idle) /\ UNCHANGED <<log, judgments, server, lock, told>>
      /\ summary' = IF DOMAIN request[t].seen = ReviewCases THEN request[t].seen ELSE summary
  BY DEF WriteSummary
<1>3. server # "down" /\ ~Writing(t)
  BY <1>1, HandledWhileUp DEF Writing
<1>4. SummaryIsOfTheLog' /\ DOMAIN summary' \subseteq ReviewCases
  BY <1>1, <1>2 DEF ReviewInv, ReviewTypeOK, SummaryIsOfTheLog, InLog
<1>5. SummaryMeansAllJudged' /\ told' \in BOOLEAN
  BY <1>2 DEF ReviewInv, ReviewTypeOK, SummaryMeansAllJudged
<1> QED BY <1>2, <1>3, <1>4, <1>5, IdleIsOK, UnlockedStep

(***************************************************************************)
(* The commands around the server.                                         *)
(***************************************************************************)
LEMMA SummarisedIsOfTheLog ==
  ASSUME ReviewInv, summary' = Summarised, log' = log
  PROVE  SummaryIsOfTheLog' /\ DOMAIN summary' \subseteq ReviewCases
<1>1. log \in Seq(Records)
  BY DEF ReviewInv, ReviewTypeOK, Records
<1>2. CASE Judged(log) = ReviewCases
  BY <1>1, <1>2, CurrentInLog DEF Summarised, SummaryIsOfTheLog, InLog
<1>3. CASE Judged(log) # ReviewCases
  BY <1>3 DEF Summarised, ReviewInv, ReviewTypeOK, SummaryIsOfTheLog
<1> QED BY <1>2, <1>3

\* The next process reads its map from the log, and nothing of this one is left.
LEMMA EndStep ==
  ASSUME ReviewInv, ProcessEnds, SummaryIsOfTheLog', DOMAIN summary' \subseteq ReviewCases
  PROVE  ReviewInv'
<1>1. /\ server' = "down" /\ ~lock' /\ UNCHANGED <<log, judgments, told>>
      /\ \A t \in Handlers : request'[t] = Idle
  BY DEF ProcessEnds
<1>2. request' \in [Handlers -> Requests] /\ lock' \in BOOLEAN
  BY DEF ProcessEnds, Requests
<1>3. ReviewTypeOK'
  BY <1>1, <1>2 DEF ReviewInv, ReviewTypeOK, Requests
<1>4. LockExcludes' /\ DownIsIdle' /\ MapFollowsTheLog' /\ MapIsInTheLog'
  BY <1>1 DEF ReviewInv, LockExcludes, Writing, Idle, DownIsIdle, MapFollowsTheLog, MapIsInTheLog
<1>5. \A t \in Handlers : ThreadOK(request'[t], log')
  BY <1>1 DEF ThreadOK, Idle
<1>6. SummaryMeansAllJudged'
  BY <1>1 DEF ReviewInv, SummaryMeansAllJudged
<1> QED BY <1>3, <1>4, <1>5, <1>6 DEF ReviewInv

LEMMA ServeStep == ASSUME ReviewInv, Serve PROVE ReviewInv'
<1>1. /\ server = "down" /\ server' = "serving" /\ judgments' = Current(log)
      /\ UNCHANGED <<log, lock, request, told, summary>>
  BY DEF Serve
<1>2. log \in Seq(Records)
  BY DEF ReviewInv, ReviewTypeOK, Records
<1>3. /\ DOMAIN judgments' \subseteq ReviewCases
      /\ \A c \in DOMAIN judgments' : judgments'[c] \in Verdicts /\ InLog(log', c, judgments'[c])
  BY <1>1, <1>2, CurrentInLog
<1>4. ReviewTypeOK' /\ MapIsInTheLog'
  BY <1>1, <1>3 DEF ReviewInv, ReviewTypeOK, MapIsInTheLog
<1>5. LockExcludes' /\ DownIsIdle' /\ MapFollowsTheLog'
  BY <1>1 DEF ReviewInv, LockExcludes, Writing, Idle, DownIsIdle, MapFollowsTheLog
<1>6. SummaryMeansAllJudged' /\ SummaryIsOfTheLog'
  BY <1>1 DEF ReviewInv, SummaryMeansAllJudged, SummaryIsOfTheLog
<1> QED BY <1>1, <1>4, <1>5, <1>6 DEF ReviewInv

LEMMA ReviewInductive == ReviewInv /\ [ReviewNext]_reviewVars => ReviewInv'
<1> SUFFICES ASSUME ReviewInv, [ReviewNext]_reviewVars PROVE ReviewInv'
  OBVIOUS
<1>1. ASSUME NEW t \in Handlers, Handle(t) PROVE ReviewInv'
  BY <1>1, PostJudgeStep, AcquireStep, RefuseStep, RecordStep, PublishStep, GetRootStep,
     RedirectStep, ScanOnStep, WrapAroundStep, RedirectToSummaryStep, GetSummaryStep,
     SummariseStep, WriteSummaryStep DEF Handle
<1>2. CASE Serve
  BY <1>2, ServeStep
<1>3. CASE Interrupt
  BY <1>3 DEF Interrupt, ReviewInv, ReviewTypeOK, LockExcludes, Writing, DownIsIdle, MapFollowsTheLog,
       MapIsInTheLog, SummaryMeansAllJudged, SummaryIsOfTheLog
<1>4. CASE Close
  BY <1>4, EndStep, SummarisedIsOfTheLog DEF Close, ProcessEnds
<1>5. CASE SummaryCommand
  BY <1>5, SummarisedIsOfTheLog
     DEF SummaryCommand, ReviewInv, ReviewTypeOK, LockExcludes, Writing, DownIsIdle, MapFollowsTheLog,
         MapIsInTheLog, SummaryMeansAllJudged
<1>6. CASE Kill
  BY <1>6, EndStep DEF Kill, ProcessEnds, ReviewInv, ReviewTypeOK, SummaryIsOfTheLog
<1>7. CASE UNCHANGED reviewVars
  BY <1>7 DEF reviewVars, ReviewInv, ReviewTypeOK, LockExcludes, Writing, DownIsIdle, MapFollowsTheLog,
       MapIsInTheLog, SummaryMeansAllJudged, SummaryIsOfTheLog
<1> QED BY <1>1, <1>2, <1>3, <1>4, <1>5, <1>6, <1>7 DEF ReviewNext

LEMMA ReviewInvHolds == ReviewSpec => []ReviewInv
  BY ReviewInitInv, ReviewInductive, PTL DEF ReviewSpec

(***************************************************************************)
(* The theorems.                                                           *)
(***************************************************************************)
\* The log, the map, the requests of every thread and the summary keep their
\* types.
THEOREM ReviewTyped == ReviewSpec => []ReviewTypeOK
<1>1. ReviewInv => ReviewTypeOK
  BY DEF ReviewInv
<1> QED BY <1>1, ReviewInvHolds, PTL

\* The lock is enough: whenever no thread holds it, the map the threads decide on
\* is what a restart would read back from the log, however judgments of one case
\* overtake each other and wherever the server was killed before.
THEOREM MapKeepsToTheLog == ReviewSpec => []MapIsTheLog
<1>1. ReviewInv => MapIsTheLog
  <2> SUFFICES ASSUME ReviewInv, server # "down", ~lock PROVE judgments = Current(log)
    BY DEF MapIsTheLog
  <2>1. \A t \in Handlers : request[t].pc # "publish"
    BY DEF ReviewInv, LockExcludes, Writing
  <2> QED BY <2>1 DEF ReviewInv, MapFollowsTheLog
<1> QED BY <1>1, ReviewInvHolds, PTL

\* Scanning without the lock is harmless: a browser is sent to /summary only when
\* every case of the manifest is judged in the log, and a case stays judged.
THEOREM ReviewEndsComplete == ReviewSpec => []SummaryMeansAllJudged
<1>1. ReviewInv => SummaryMeansAllJudged
  BY DEF ReviewInv
<1> QED BY <1>1, ReviewInvHolds, PTL

\* Each verdict of the summary file is one the log has, and it has one for each
\* case, whatever was judged anew while it was computed.
THEOREM SummaryKeepsToTheLog == ReviewSpec => []SummaryIsOfTheLog
<1>1. ReviewInv => SummaryIsOfTheLog
  BY DEF ReviewInv
<1> QED BY <1>1, ReviewInvHolds, PTL

(***************************************************************************)
(* Allocation: clamping the worst violator first, and rounding.            *)
(***************************************************************************)
\* With the band of config.py, two floors and two ceilings are the whole.
HalfBand == MinShare + MaxShare = 50 /\ Cardinality(Repositories) <= 4

\* The budget b left for m repositories fits their band, and goes on fitting it.
FillsTheBand(m, b) ==
  /\ m \in 1..4 /\ b \in Nat
  /\ m * MinShare <= b /\ b <= m * MaxShare
  /\ m = 4 => b = 100
  /\ m = 3 => b = 100 \/ (MinShare <= 25 /\ b \in {50 + MinShare, 50 + MaxShare})

\* What is clamped to the ceiling has the most chunks, what is to the floor the fewest.
ClampedInOrder ==
  /\ \A j \in DOMAIN fixed, k \in Free :
       /\ fixed[j] > MinShare => asked.weights[k] <= asked.weights[j]
       /\ fixed[j] < MaxShare => asked.weights[j] <= asked.weights[k]
  /\ \A i, j \in DOMAIN fixed : fixed[i] < fixed[j] => asked.weights[i] <= asked.weights[j]

ShareInv ==
  /\ AllocationTypeOK /\ SharesAreFair
  /\ phase = "idle" => fixed = NoShares /\ asked = [weights |-> NoShares, total |-> 0]
  /\ phase = "clamp" => FillsTheBand(Cardinality(Free), Budget) /\ ClampedInOrder

(***************************************************************************)
(* Numbers.                                                                *)
(***************************************************************************)
LEMMA Cancel ==
  ASSUME NEW a \in Int, NEW b \in Int, NEW c \in Nat \ {0}
  PROVE  (a * c <= b * c => a <= b) /\ (a * c < b * c => a < b) /\ (a <= b => a * c <= b * c)
<1>1. ASSUME a <= b PROVE a * c <= b * c
  BY <1>1, SMT
<1>2. ASSUME b < a PROVE b * c < a * c
  BY <1>2, SMT
<1>3. ASSUME b <= a PROVE b * c <= a * c
  BY <1>3, SMT
<1>4. a * c \in Int /\ b * c \in Int
  OBVIOUS
<1> QED BY <1>1, <1>2, <1>3, <1>4

IsDivided(p, w, q, r) == q \in Nat /\ r \in 0..(w - 1) /\ p = w * q + r

LEMMA Divided ==
  ASSUME NEW p \in Nat, NEW w \in Nat \ {0}, NEW q, q = p \div w, NEW r, r = p % w
  PROVE  IsDivided(p, w, q, r)
BY SMT DEF IsDivided

\* One share less, at the end of the band the worst one is out at.
LEMMA FillsTheRest ==
  ASSUME HalfBand, NEW m, NEW b, FillsTheBand(m, b), m # 1, NEW v \in {MinShare, MaxShare},
         m = 2 /\ v = MaxShare => b >= 50 \/ MinShare = MaxShare,
         m = 2 /\ v = MinShare => b <= 50 \/ MinShare = MaxShare,
         m = 3 /\ b = 100 => v = MaxShare
  PROVE  FillsTheBand(m - 1, b - v)
<1>1. MinShare \in Nat /\ MaxShare \in Nat /\ MaxShare = 50 - MinShare /\ MinShare <= MaxShare
  BY AllocationAssumption DEF HalfBand
<1>2. CASE m = 2
  BY <1>1, <1>2 DEF FillsTheBand
<1>3. CASE m = 3
  BY <1>1, <1>3 DEF FillsTheBand
<1>4. CASE m = 4
  BY <1>1, <1>4 DEF FillsTheBand
<1> QED BY <1>2, <1>3, <1>4 DEF FillsTheBand

(***************************************************************************)
(* Rounding: p[k] parts of w to a call, and t calls for all of them.       *)
(***************************************************************************)
Divides(w, t, S, p, q, r) ==
  /\ S \subseteq Nat /\ p \in [S -> Nat] /\ q \in [S -> Nat] /\ r \in [S -> 0..(w - 1)]
  /\ \A k \in S : p[k] = w * q[k] + r[k]
  /\ SumFunctionOnSet(p, S) = w * t

Larger(S, r) == [k \in S |-> {j \in S : r[j] > r[k] \/ (r[j] = r[k] /\ j < k)}]

RoundsTo(t, S, q, r, c) ==
  c = [k \in S |-> q[k] + (IF Cardinality(Larger(S, r)[k]) < t - SumFunctionOnSet(q, S) THEN 1 ELSE 0)]

LEMMA LargerOrders ==
  ASSUME NEW S \in SUBSET Nat, NEW w \in Nat \ {0}, NEW r \in [S -> 0..(w - 1)]
  PROVE  Orders(Larger(S, r), S)
<1>1. \A k \in S : r[k] \in Int /\ k \in Int
  OBVIOUS
<1>2. \A j, k \in S : j \in Larger(S, r)[k] <=> r[j] > r[k] \/ (r[j] = r[k] /\ j < k)
  BY DEF Larger
<1>3. Larger(S, r) \in [S -> SUBSET S]
  BY DEF Larger
<1>4. \A i, j, k \in S : i \in Larger(S, r)[j] /\ j \in Larger(S, r)[k] => i \in Larger(S, r)[k]
  BY <1>1, <1>2
<1>5. \A j, k \in S : j \in Larger(S, r)[k] => Larger(S, r)[j] \subseteq Larger(S, r)[k]
  BY <1>3, <1>4
<1>6. \A j, k \in S : j = k \/ j \in Larger(S, r)[k] \/ k \in Larger(S, r)[j]
  BY <1>1, <1>2
<1>7. \A k \in S : k \notin Larger(S, r)[k]
  BY <1>1, <1>2
<1> QED BY <1>3, <1>5, <1>6, <1>7 DEF Orders

LEMMA LargestRemainder ==
  ASSUME NEW S, IsFiniteSet(S), NEW w \in Nat \ {0}, NEW t \in Nat,
         NEW p, NEW q, NEW r, NEW c, Divides(w, t, S, p, q, r), RoundsTo(t, S, q, r, c)
  PROVE  /\ SumFunctionOnSet(c, S) = t /\ c \in [S -> Nat]
         /\ \A k \in S : w * (c[k] - 1) < p[k] /\ p[k] < w * (c[k] + 1)
<1> DEFINE wq == [k \in S |-> w * q[k]]
           before == Larger(S, r)
           short == t - SumFunctionOnSet(q, S)
           Left == {k \in S : r[k] > 0}
           C == {k \in S : Cardinality(before[k]) < short}
<1>1. ASSUME NEW k \in S
      PROVE  /\ q[k] \in Nat /\ r[k] \in 0..(w - 1) /\ wq[k] = w * q[k] /\ wq[k] \in Int
             /\ p[k] \in Nat /\ p[k] = wq[k] + r[k]
             /\ c[k] = q[k] + (IF k \in C THEN 1 ELSE 0)
  BY DEF Divides, RoundsTo
<1>2. /\ Orders(before, S)
      /\ \A j, k \in S : j \in before[k] <=> r[j] > r[k] \/ (r[j] = r[k] /\ j < k)
  <2>1. S \in SUBSET Nat /\ r \in [S -> 0..(w - 1)]
    BY DEF Divides
  <2> QED BY <2>1, LargerOrders DEF Larger
<1> HIDE DEF before
<1>3. SumFunctionOnSet(q, S) \in Int /\ SumFunctionOnSet(r, S) \in Int
  <2>1. \A k \in S : q[k] \in Int /\ r[k] \in Int
    BY <1>1
  <2> QED BY <2>1, SumType
<1>4. w * t = w * SumFunctionOnSet(q, S) + SumFunctionOnSet(r, S)
  <2>1. Adds(S, wq, r, p)
    BY <1>1 DEF Adds
  <2>2. Multiplies(S, w, q, wq)
    BY <1>1 DEF Multiplies
  <2> HIDE DEF wq
  <2>3. SumFunctionOnSet(p, S) = SumFunctionOnSet(wq, S) + SumFunctionOnSet(r, S)
    BY <2>1, SumOfAdded
  <2>4. SumFunctionOnSet(wq, S) = w * SumFunctionOnSet(q, S)
    BY <2>2, SumOfMultiples
  <2> QED BY <2>3, <2>4 DEF Divides
<1>5. w * short = SumFunctionOnSet(r, S) /\ short \in Int
  BY <1>3, <1>4
<1>6. /\ SumFunctionOnSet(r, S) \in Nat /\ SumFunctionOnSet(r, S) <= (w - 1) * Cardinality(Left)
      /\ IsFiniteSet(Left) /\ Cardinality(Left) \in Nat
  <2> DEFINE Even == S \ Left
  <2>1. S = Left \union Even /\ Left \intersect Even = {} /\ IsFiniteSet(Left) /\ IsFiniteSet(Even)
    <3>1. Left \in SUBSET S /\ Even \in SUBSET S /\ S = Left \union Even /\ Left \intersect Even = {}
      OBVIOUS
    <3> HIDE DEF Left, Even
    <3> QED BY <3>1, FS_Subset
  <2>2. (\A k \in Left : r[k] \in 0..(w - 1)) /\ (\A k \in Even : r[k] = 0) /\ \A k \in S : r[k] \in Int
    BY <1>1
  <2> HIDE DEF Left, Even
  <2>3. SumFunctionOnSet(r, S) = SumFunctionOnSet(r, Left) + SumFunctionOnSet(r, Even)
    BY <2>1, <2>2, SumOfTwoParts
  <2>4. SumFunctionOnSet(r, Even) = 0 * Cardinality(Even) /\ Cardinality(Even) \in Nat
    BY <2>1, <2>2, SumOfConstant, FS_CardinalityType
  <2>5. SumFunctionOnSet(r, Left) \in Nat /\ SumFunctionOnSet(r, Left) <= (w - 1) * Cardinality(Left)
    BY <2>1, <2>2, SumBounds
  <2> QED BY <2>1, <2>3, <2>4, <2>5, FS_CardinalityType
<1>7. short \in Nat /\ short <= Cardinality(Left)
  <2> HIDE DEF short, Left
  <2>1. w * Cardinality(Left) = (w - 1) * Cardinality(Left) + Cardinality(Left)
    BY <1>6
  <2>2. w * short <= w * Cardinality(Left) /\ 0 * w <= w * short
    BY <1>5, <1>6, <2>1
  <2>3. short * w <= Cardinality(Left) * w /\ 0 * w <= short * w
    BY <1>5, <1>6, <2>2
  <2> QED BY <1>5, <1>6, <2>3, Cancel
<1>8. Cardinality(C) = short
  <2>1. Cardinality(Left) <= Cardinality(S)
    <3>1. Left \in SUBSET S
      OBVIOUS
    <3> QED BY <3>1, FS_Subset
  <2>2. short <= Cardinality(S) /\ Cardinality(S) \in Nat
    BY <1>6, <1>7, <2>1, FS_CardinalityType
  <2> HIDE DEF short
  <2>3. Cardinality(C) = short
    BY <1>2, <1>7, <2>2, FirstAreFew
  <2> QED BY <2>3
\* What divides evenly gets no leftover call: those with a remainder come first.
<1>9. C \subseteq Left
  <2> SUFFICES ASSUME NEW k \in C, k \notin Left PROVE FALSE
    OBVIOUS
  <2>1. k \in S /\ r[k] = 0 /\ Cardinality(before[k]) < short
    BY <1>1
  <2>2. Left \in SUBSET before[k] /\ before[k] \in SUBSET S
    BY <1>1, <1>2, <2>1 DEF Orders
  <2>3. IsFiniteSet(before[k]) /\ Cardinality(before[k]) \in Nat
    BY <2>2, FS_Subset, FS_CardinalityType
  <2>4. Cardinality(Left) <= Cardinality(before[k])
    BY <2>2, <2>3, FS_Subset
  <2> HIDE DEF short, Left
  <2> QED BY <1>6, <1>7, <2>1, <2>3, <2>4
<1>10. CountsOnTop(S, C, q, c)
  BY <1>1 DEF CountsOnTop
<1>11. SumFunctionOnSet(c, S) = t
  <2>1. C \in SUBSET S
    OBVIOUS
  <2> HIDE DEF C, short
  <2>2. SumFunctionOnSet(c, S) = SumFunctionOnSet(q, S) + Cardinality(C)
    BY <1>10, <2>1, SumOfSomeMore
  <2> QED BY <1>3, <1>8, <2>2 DEF short
<1>12. ASSUME NEW k \in S
       PROVE  c[k] \in Nat /\ w * (c[k] - 1) < p[k] /\ p[k] < w * (c[k] + 1)
  <2>1. /\ q[k] \in Nat /\ r[k] \in 0..(w - 1) /\ p[k] = w * q[k] + r[k]
        /\ c[k] = q[k] + (IF k \in C THEN 1 ELSE 0) /\ (k \in C => r[k] > 0)
    BY <1>1, <1>9
  <2> HIDE DEF C
  <2>2. w * (q[k] + 1) = w * q[k] + w /\ w * (q[k] - 1) = w * q[k] - w /\ w * (q[k] + 2) = w * q[k] + w + w
    BY <2>1
  <2>3. CASE k \in C
    <3>1. c[k] - 1 = q[k] /\ c[k] + 1 = q[k] + 2
      BY <2>1, <2>3
    <3> QED BY <2>1, <2>2, <2>3, <3>1
  <2>4. CASE k \notin C
    <3>1. c[k] = q[k]
      BY <2>1, <2>4
    <3> QED BY <2>1, <2>2, <3>1
  <2> QED BY <2>3, <2>4
<1>13. c = [k \in S |-> c[k]]
  BY DEF RoundsTo
<1> QED BY <1>11, <1>12, <1>13

(***************************************************************************)
(* The worst violator.                                                     *)
(***************************************************************************)
LEMMA SharesTyped ==
  ASSUME AllocationTypeOK
  PROVE  /\ IsFiniteSet(DOMAIN asked.weights) /\ IsFiniteSet(Free) /\ IsFiniteSet(DOMAIN fixed)
         /\ Cardinality(DOMAIN asked.weights) <= Cardinality(Repositories)
         /\ Cardinality(Repositories) \in Nat
         /\ \A k \in DOMAIN asked.weights : asked.weights[k] \in Nat \ {0}
         /\ \A k \in DOMAIN fixed : fixed[k] \in {MinShare, MaxShare}
         /\ MinShare \in Nat /\ MaxShare \in Nat /\ MinShare <= MaxShare
         /\ Budget = 100 - SumFunctionOnSet(fixed, DOMAIN fixed)
         /\ SumFunctionOnSet(fixed, DOMAIN fixed) \in Nat
         /\ \A k \in Free : /\ Pool = SumFunctionOnSet(asked.weights, Free)
                            /\ Pool \in Nat \ {0}
<1>1. /\ DOMAIN asked.weights \in SUBSET Repositories /\ Free \in SUBSET DOMAIN asked.weights
      /\ DOMAIN fixed \in SUBSET DOMAIN asked.weights /\ IsFiniteSet(Repositories)
  BY AllocationAssumption DEF AllocationTypeOK, Free
<1>2. /\ IsFiniteSet(DOMAIN asked.weights) /\ IsFiniteSet(Free) /\ IsFiniteSet(DOMAIN fixed)
      /\ Cardinality(DOMAIN asked.weights) <= Cardinality(Repositories)
      /\ Cardinality(Repositories) \in Nat
  BY <1>1, FS_Subset, FS_CardinalityType
<1>3. /\ \A k \in DOMAIN asked.weights : asked.weights[k] \in Nat \ {0}
      /\ \A k \in DOMAIN fixed : fixed[k] \in {MinShare, MaxShare} /\ fixed[k] \in Nat
      /\ MinShare \in Nat /\ MaxShare \in Nat /\ MinShare <= MaxShare
  BY AllocationAssumption DEF AllocationTypeOK
<1>4. SumFunctionOnSet(fixed, DOMAIN fixed) \in Nat
  BY <1>2, <1>3, SumOfNaturals
<1>5. Budget = 100 - SumFunctionOnSet(fixed, DOMAIN fixed)
  BY DEF Budget, SumFunction
<1>6. ASSUME NEW k \in Free
      PROVE  Pool = SumFunctionOnSet(asked.weights, Free) /\ Pool \in Nat \ {0}
  <2> DEFINE f == [j \in Free |-> asked.weights[j]]
  <2>1. Pool = SumFunctionOnSet(f, Free)
    BY <1>6 DEF Pool, SumFunction
  <2>2. \A j \in Free : f[j] \in Int /\ f[j] = asked.weights[j] /\ asked.weights[j] \in Int
    BY <1>1, <1>3
  <2> HIDE DEF f
  <2>3. SumFunctionOnSet(f, Free) = SumFunctionOnSet(asked.weights, Free)
    BY <1>2, <2>2, SumOfSame
  <2>4. IsFiniteSet(Free \ {k}) /\ \A j \in Free \ {k} : asked.weights[j] \in Nat
    BY <1>1, <1>2, <1>3, FS_Subset
  <2>5. SumFunctionOnSet(asked.weights, Free \ {k}) \in Nat
    BY <2>4, SumOfNaturals
  <2>6. SumFunctionOnSet(asked.weights, Free) = asked.weights[k] + SumFunctionOnSet(asked.weights, Free \ {k})
    BY <1>2, <2>2, SumOfAny
  <2>7. asked.weights[k] \in Nat \ {0}
    BY <1>1, <1>3
  <2> QED BY <2>1, <2>3, <2>5, <2>6, <2>7
<1> QED BY <1>2, <1>3, <1>4, <1>5, <1>6

\* Of two shares, and of a floor and a ceiling, in numbers.
LEMMA OneIsOut ==
  ASSUME NEW b \in Nat, NEW x \in Nat \ {0}, NEW pool \in Nat \ {0},
         NEW low \in Nat, NEW high \in Nat, low <= high
  PROVE  /\ b * x - high * pool > 0 => low * pool - b * x < 0 /\ b > 0
         /\ low * pool - b * x > 0 => b * x - high * pool < 0
         /\ \A y \in Nat : b > 0 => (b * y <= b * x => y <= x) /\ (b * x <= b * y => x <= y)
<1>1. low * pool <= high * pool /\ low * pool \in Nat /\ high * pool \in Nat /\ b * x \in Nat
  BY Cancel
<1>2. b = 0 => b * x = 0
  OBVIOUS
<1>3. ASSUME NEW y \in Nat, b > 0 PROVE (b * y <= b * x => y <= x) /\ (b * x <= b * y => x <= y)
  <2>1. b * y = y * b /\ b * x = x * b /\ b \in Nat \ {0}
    BY <1>3
  <2> QED BY <2>1, Cancel
<1> QED BY <1>1, <1>2, <1>3

LEMMA WorstOne ==
  ASSUME AllocationTypeOK, Budget \in Nat, Cardinality(Free) * MinShare <= Budget,
         NEW k \in Free, Excess(k) > 0, \A j \in Free : Excess(j) <= Excess(k)
  PROVE  /\ Above(k) > 0 => \A j \in Free : asked.weights[j] <= asked.weights[k] /\ Below(j) <= Above(k)
         /\ ~(Above(k) > 0) => \A j \in Free : asked.weights[k] <= asked.weights[j] /\ Above(j) <= Below(k)
<1> DEFINE w == asked.weights
<1>1. /\ \A j \in Free : w[j] \in Nat \ {0}
      /\ Pool \in Nat \ {0} /\ MinShare \in Nat /\ MaxShare \in Nat /\ MinShare <= MaxShare
  BY SharesTyped DEF Free
<1>2. \A j \in Free : /\ Above(j) = Budget * w[j] - MaxShare * Pool
                      /\ Below(j) = MinShare * Pool - Budget * w[j]
  BY DEF Above, Below
<1>3. /\ MaxShare * Pool \in Nat /\ MinShare * Pool \in Nat
      /\ \A j \in Free : Budget * w[j] \in Nat /\ Above(j) \in Int /\ Below(j) \in Int
  BY <1>1, <1>2
<1>4. \A j \in Free : Above(j) <= Excess(j) /\ Below(j) <= Excess(j)
                      /\ (Excess(j) = Above(j) \/ Excess(j) = Below(j))
  BY <1>3 DEF Excess
<1>5. ASSUME Above(k) > 0, NEW j \in Free PROVE w[j] <= w[k] /\ Below(j) <= Above(k)
  <2>1. Below(k) < 0 /\ Budget > 0
    BY <1>1, <1>2, <1>5, OneIsOut
  <2>2. Excess(k) = Above(k)
    BY <1>3, <1>5, <2>1 DEF Excess
  <2>3. Above(j) <= Above(k) /\ Below(j) <= Above(k)
    <3>1. Excess(j) <= Above(k) /\ Excess(j) \in Int /\ Above(k) \in Int
      BY <1>3, <1>4, <2>2
    <3> QED BY <1>3, <1>4, <3>1
  <2>4. Budget * w[j] <= Budget * w[k]
    BY <1>2, <1>3, <2>3
  <2> QED BY <1>1, <2>1, <2>3, <2>4, OneIsOut
<1>6. ASSUME ~(Above(k) > 0), NEW j \in Free PROVE w[k] <= w[j] /\ Above(j) <= Below(k)
  <2>1. Excess(k) = Below(k) /\ Below(k) > 0
    BY <1>3, <1>4, <1>6
  <2>2. Above(j) <= Below(k) /\ Below(j) <= Below(k)
    <3>1. Excess(j) <= Below(k) /\ Excess(j) \in Int /\ Below(k) \in Int
      BY <1>3, <1>4, <2>1
    <3> QED BY <1>3, <1>4, <3>1
  <2>3. Budget * w[k] <= Budget * w[j]
    BY <1>2, <1>3, <2>2
  <2>4. Budget > 0
    <3> SUFFICES ASSUME Budget = 0 PROVE FALSE
      OBVIOUS
    <3>1. Cardinality(Free) \in Nat /\ Cardinality(Free) # 0
      BY SharesTyped, FS_EmptySet, FS_CardinalityType
    <3>2. 0 * Cardinality(Free) = 0 /\ MinShare * Cardinality(Free) <= 0 * Cardinality(Free)
      BY <1>1, <3>1
    <3>3. MinShare <= 0
      BY <1>1, <3>1, <3>2, Cancel
    <3>4. MinShare * Pool = 0
      BY <1>1, <3>3
    <3> QED BY <1>2, <1>3, <2>1, <3>4
  <2> QED BY <1>1, <2>2, <2>3, <2>4, OneIsOut
<1> QED BY <1>5, <1>6

\* Of the shares of two: the ceiling and the floor add up to a half.
LEMMA TwoLeft ==
  ASSUME NEW b \in Nat, NEW x \in Nat \ {0}, NEW y \in Nat \ {0}, NEW low \in Nat, NEW high \in Nat,
         low + high = 50
  PROVE  /\ low * (x + y) - b * y <= b * x - high * (x + y) => 50 <= b
         /\ b * y - high * (x + y) <= low * (x + y) - b * x => b <= 50
<1>1. x + y \in Nat \ {0}
  OBVIOUS
<1>2. low * (x + y) + high * (x + y) = 50 * (x + y)
  BY <1>1
<1>3. b * x + b * y = b * (x + y)
  OBVIOUS
<1>4. /\ low * (x + y) \in Int /\ high * (x + y) \in Int /\ b * x \in Int /\ b * y \in Int
      /\ b * (x + y) \in Int /\ 50 * (x + y) \in Int
  BY <1>1
<1>5. ASSUME low * (x + y) - b * y <= b * x - high * (x + y) PROVE 50 <= b
  <2>1. 50 * (x + y) <= b * (x + y)
    BY <1>2, <1>3, <1>4, <1>5
  <2> QED BY <1>1, <2>1, Cancel
<1>6. ASSUME b * y - high * (x + y) <= low * (x + y) - b * x PROVE b <= 50
  <2>1. b * (x + y) <= 50 * (x + y)
    BY <1>2, <1>3, <1>4, <1>6
  <2> QED BY <1>1, <2>1, Cancel
<1> QED BY <1>5, <1>6

\* Of the shares of three that have the whole, the ceiling is exceeded before
\* the floor is missed.
LEMMA ThreeLeft ==
  ASSUME NEW x \in Nat \ {0}, NEW y \in Nat \ {0}, NEW z \in Nat \ {0}, NEW low \in Nat, NEW high \in Nat,
         low + high = 50 * (x + (y + z)), 100 * y - high <= low - 100 * x, 100 * z - high <= low - 100 * x
  PROVE  FALSE
OBVIOUS

LEMMA ClampFills ==
  ASSUME HalfBand, AllocationTypeOK, FillsTheBand(Cardinality(Free), Budget),
         NEW k \in Free, Excess(k) > 0, \A j \in Free : Excess(j) <= Excess(k)
  PROVE  FillsTheBand(Cardinality(Free) - 1, Budget - (IF Above(k) > 0 THEN MaxShare ELSE MinShare))
<1> DEFINE w == asked.weights
           m == Cardinality(Free)
           v == IF Above(k) > 0 THEN MaxShare ELSE MinShare
<1>1. /\ \A j \in Free : w[j] \in Nat \ {0} /\ w[j] \in Int
      /\ Pool = SumFunctionOnSet(w, Free) /\ Pool \in Nat \ {0} /\ IsFiniteSet(Free)
      /\ MinShare \in Nat /\ MaxShare \in Nat /\ MinShare <= MaxShare /\ MinShare + MaxShare = 50
  BY SharesTyped DEF Free, HalfBand
<1>2. m \in 1..4 /\ Budget \in Nat /\ m * MinShare <= Budget /\ Budget <= m * MaxShare
  BY DEF FillsTheBand
<1>3. \A j \in Free : /\ Above(j) = Budget * w[j] - MaxShare * Pool
                      /\ Below(j) = MinShare * Pool - Budget * w[j]
  BY DEF Above, Below
<1>4. /\ Above(k) > 0 => \A j \in Free : Below(j) <= Above(k)
      /\ ~(Above(k) > 0) => \A j \in Free : Above(j) <= Below(k)
  BY <1>2, WorstOne
<1>5. /\ m = 1 => Pool = w[k]
      /\ m = 2 => \E j \in Free : Pool = w[k] + w[j]
      /\ m = 3 => \E i, j \in Free : Pool = w[k] + (w[i] + w[j])
  <2> HIDE DEF w
  <2> QED BY <1>1, SumOfFew
<1>6. ASSUME m = 1 PROVE FALSE
  <2>1. MinShare <= Budget /\ Budget <= MaxShare /\ Pool = w[k]
    BY <1>1, <1>2, <1>5, <1>6
  <2>2. MinShare * Pool <= Budget * Pool /\ Budget * Pool <= MaxShare * Pool
    BY <1>1, <1>2, <2>1, Cancel
  <2>3. /\ MinShare * Pool \in Int /\ Budget * Pool \in Int /\ MaxShare * Pool \in Int
        /\ Above(k) = Budget * Pool - MaxShare * Pool /\ Below(k) = MinShare * Pool - Budget * Pool
    BY <1>1, <1>2, <1>3, <2>1
  <2>4. Above(k) <= 0 /\ Below(k) <= 0 /\ (Excess(k) = Above(k) \/ Excess(k) = Below(k))
    BY <2>2, <2>3 DEF Excess
  <2>5. Above(k) \in Int /\ Below(k) \in Int
    BY <2>3
  <2> QED BY <2>4, <2>5
<1>7. ASSUME m = 2 PROVE (Above(k) > 0 => 50 <= Budget) /\ (~(Above(k) > 0) => Budget <= 50)
  <2>1. PICK j \in Free : Pool = w[k] + w[j]
    BY <1>5, <1>7
  <2>2. /\ Above(k) > 0 => MinShare * Pool - Budget * w[j] <= Budget * w[k] - MaxShare * Pool
        /\ ~(Above(k) > 0) => Budget * w[j] - MaxShare * Pool <= MinShare * Pool - Budget * w[k]
    BY <1>3, <1>4
  <2>3. w[k] \in Nat \ {0} /\ w[j] \in Nat \ {0}
    BY <1>1
  <2> HIDE DEF w
  <2> QED BY <1>1, <1>2, <2>1, <2>2, <2>3, TwoLeft
<1>8. ASSUME m = 3, Budget = 100 PROVE Above(k) > 0
  <2> SUFFICES ASSUME ~(Above(k) > 0) PROVE FALSE
    OBVIOUS
  <2>1. PICK i, j \in Free : Pool = w[k] + (w[i] + w[j])
    BY <1>5, <1>8
  <2>2. /\ 100 * w[i] - MaxShare * Pool <= MinShare * Pool - 100 * w[k]
        /\ 100 * w[j] - MaxShare * Pool <= MinShare * Pool - 100 * w[k]
    BY <1>3, <1>4, <1>8
  <2>3. MinShare * Pool + MaxShare * Pool = 50 * Pool /\ MinShare * Pool \in Int /\ MaxShare * Pool \in Int
    BY <1>1
  <2>4. w[k] \in Nat \ {0} /\ w[i] \in Nat \ {0} /\ w[j] \in Nat \ {0}
    BY <1>1
  <2>5. MinShare * Pool \in Nat /\ MaxShare * Pool \in Nat
    BY <1>1
  <2> HIDE DEF w
  <2> QED BY <2>1, <2>2, <2>3, <2>4, <2>5, ThreeLeft
<1>9. /\ v \in {MinShare, MaxShare} /\ (v = MaxShare => Above(k) > 0 \/ MinShare = MaxShare)
      /\ (v = MinShare => ~(Above(k) > 0) \/ MinShare = MaxShare) /\ (Above(k) > 0 => v = MaxShare)
  OBVIOUS
<1> HIDE DEF m, v
<1>10. /\ m = 2 /\ v = MaxShare => Budget >= 50 \/ MinShare = MaxShare
       /\ m = 2 /\ v = MinShare => Budget <= 50 \/ MinShare = MaxShare
       /\ m = 3 /\ Budget = 100 => v = MaxShare
  BY <1>2, <1>7, <1>8, <1>9
<1>11. FillsTheBand(m, Budget) /\ m # 1
  BY <1>6 DEF m
<1>12. FillsTheBand(m - 1, Budget - v)
  BY <1>9, <1>10, <1>11, FillsTheRest
<1> QED BY <1>12 DEF m, v

(***************************************************************************)
(* The steps of the loop.                                                  *)
(***************************************************************************)
LEMMA ClampStep ==
  ASSUME HalfBand, ShareInv, Clamp
  PROVE  ShareInv'
<1>1. /\ phase = "clamp" /\ AllocationTypeOK /\ FillsTheBand(Cardinality(Free), Budget) /\ ClampedInOrder
      /\ asked' = asked /\ counts' = counts /\ phase' = phase
  BY DEF Clamp, ShareInv
<1>2. PICK k \in Free :
        /\ Excess(k) > 0 /\ \A j \in Free : Excess(j) <= Excess(k)
        /\ fixed' = [x \in DOMAIN fixed \union {k} |->
                       IF x # k THEN fixed[x] ELSE IF Above(k) > 0 THEN MaxShare ELSE MinShare]
  BY DEF Clamp
<1> DEFINE D == DOMAIN fixed
           v == IF Above(k) > 0 THEN MaxShare ELSE MinShare
<1>3. /\ IsFiniteSet(Free) /\ IsFiniteSet(D) /\ MinShare \in Nat /\ MaxShare \in Nat /\ MinShare <= MaxShare
      /\ \A x \in D : fixed[x] \in {MinShare, MaxShare}
      /\ \A x \in DOMAIN asked.weights : asked.weights[x] \in Nat \ {0}
      /\ k \notin D /\ k \in DOMAIN asked.weights /\ D \subseteq DOMAIN asked.weights
  BY <1>1, SharesTyped DEF Free, AllocationTypeOK
<1>4. /\ fixed' \in [D \union {k} -> {MinShare, MaxShare}] /\ DOMAIN fixed' = D \union {k}
      /\ fixed'[k] = v /\ \A x \in D : fixed'[x] = fixed[x]
  BY <1>2, <1>3
<1> HIDE DEF D, v
<1>5. AllocationTypeOK'
  <2>1. DOMAIN fixed' \subseteq DOMAIN asked.weights /\ fixed' \in [DOMAIN fixed' -> {MinShare, MaxShare}]
    BY <1>3, <1>4
  <2> QED BY <1>1, <2>1 DEF AllocationTypeOK
<1>6. Free' = Free \ {k}
  BY <1>1, <1>4 DEF Free, D
<1>7. Budget' = Budget - v
  <2>1. \A x \in D \union {k} : fixed'[x] \in Int
    BY <1>3, <1>4
  <2>2. SumFunctionOnSet(fixed', D \union {k}) = fixed'[k] + SumFunctionOnSet(fixed', D)
    BY <1>3, <2>1, SumOfMore
  <2>3. \A x \in D : fixed'[x] \in Int /\ fixed'[x] = fixed[x]
    BY <1>4, <2>1
  <2>4. SumFunctionOnSet(fixed', D) = SumFunctionOnSet(fixed, D)
    BY <1>3, <2>3, SumOfSame
  <2>5. Budget' = 100 - SumFunctionOnSet(fixed', D \union {k})
    BY <1>4 DEF Budget, SumFunction
  <2>6. Budget = 100 - SumFunctionOnSet(fixed, D) /\ SumFunctionOnSet(fixed, D) \in Nat
    BY <1>1, SharesTyped DEF D
  <2>7. v \in Nat
    BY <1>3 DEF v
  <2> QED BY <1>4, <2>2, <2>4, <2>5, <2>6, <2>7
<1>8. (FillsTheBand(Cardinality(Free), Budget))'
  <2>1. Cardinality(Free \ {k}) = Cardinality(Free) - 1
    BY <1>3, FS_RemoveElement
  <2>2. FillsTheBand(Cardinality(Free) - 1, Budget - v)
    BY <1>1, <1>2, ClampFills DEF v
  <2> QED BY <1>6, <1>7, <2>1, <2>2 DEF FillsTheBand
<1>9. ClampedInOrder'
  <2> DEFINE w == asked.weights
  <2>1. /\ Budget \in Nat /\ Cardinality(Free) * MinShare <= Budget
    BY <1>1 DEF FillsTheBand
  <2>2. \A j \in Free : (Above(k) > 0 => w[j] <= w[k]) /\ (~(Above(k) > 0) => w[k] <= w[j])
    BY <1>1, <1>2, <2>1, WorstOne
  <2>3. \A j \in D : /\ fixed[j] > MinShare => w[k] <= w[j]
                     /\ fixed[j] < MaxShare => w[j] <= w[k]
    BY <1>1 DEF ClampedInOrder, D
  <2>4. (v > MinShare => Above(k) > 0) /\ (v < MaxShare => ~(Above(k) > 0)) /\ v \in {MinShare, MaxShare}
    BY <1>3 DEF v
  <2>5. \A j \in D \union {k}, i \in Free \ {k} :
          /\ fixed'[j] > MinShare => w[i] <= w[j]
          /\ fixed'[j] < MaxShare => w[j] <= w[i]
    BY <1>1, <1>4, <2>2, <2>4 DEF ClampedInOrder, D
  <2>6. \A i, j \in D \union {k} : fixed'[i] < fixed'[j] => w[i] <= w[j]
    <3>1. ASSUME NEW i \in D, NEW j \in D, fixed'[i] < fixed'[j] PROVE w[i] <= w[j]
      BY <1>1, <1>4, <3>1 DEF ClampedInOrder, D
    <3>2. ASSUME NEW i \in D, fixed'[i] < fixed'[k] PROVE w[i] <= w[k]
      BY <1>3, <1>4, <2>3, <2>4, <3>2
    <3>3. ASSUME NEW j \in D, fixed'[k] < fixed'[j] PROVE w[k] <= w[j]
      BY <1>3, <1>4, <2>3, <2>4, <3>3
    <3>4. ~(fixed'[k] < fixed'[k])
      BY <1>3, <1>4, <2>4
    <3> QED BY <3>1, <3>2, <3>3, <3>4
  <2> QED BY <1>1, <1>4, <1>6, <2>5, <2>6 DEF ClampedInOrder
<1>10. SharesAreFair'
  BY <1>1 DEF SharesAreFair
<1> QED BY <1>1, <1>5, <1>8, <1>9, <1>10 DEF ShareInv

LEMMA AskStep ==
  ASSUME HalfBand, ShareInv, Ask
  PROVE  ShareInv'
<1>1. PICK S \in SUBSET Repositories, t \in Totals : \E w \in [S -> Weights] :
        /\ S # {} /\ MinShare * Cardinality(S) <= 100 /\ MaxShare * Cardinality(S) >= 100
        /\ asked' = [weights |-> w, total |-> t]
  BY DEF Ask
<1>2. PICK w \in [S -> Weights] : asked' = [weights |-> w, total |-> t]
  BY <1>1
<1>3. /\ phase = "idle" /\ phase' = "clamp" /\ fixed = NoShares /\ fixed' = NoShares
      /\ counts' = counts /\ AllocationTypeOK
  BY DEF Ask, ShareInv
<1>4. AllocationTypeOK'
  BY <1>2, <1>3 DEF AllocationTypeOK, NoShares
<1>5. Free' = S /\ Budget' = 100
  <2>1. DOMAIN fixed' = {}
    BY <1>3 DEF NoShares
  <2>2. SumFunction(fixed') = 0
    BY <2>1, SumOfNone DEF SumFunction
  <2> QED BY <1>2, <2>1, <2>2 DEF Free, Budget
<1>6. FillsTheBand(Cardinality(S), 100)
  <2>1. IsFiniteSet(S) /\ Cardinality(S) \in Nat /\ Cardinality(S) <= 4 /\ Cardinality(S) # 0
    <3>1. IsFiniteSet(Repositories) /\ Cardinality(Repositories) \in Nat /\ Cardinality(Repositories) <= 4
      BY AllocationAssumption, FS_CardinalityType DEF HalfBand
    <3>2. IsFiniteSet(S) /\ Cardinality(S) <= Cardinality(Repositories)
      BY <3>1, FS_Subset
    <3> QED BY <1>1, <3>1, <3>2, FS_EmptySet, FS_CardinalityType
  <2>2. MinShare \in Nat /\ MaxShare \in Nat
    BY AllocationAssumption
  <2>3. Cardinality(S) * MinShare <= 100 /\ 100 <= Cardinality(S) * MaxShare
    BY <1>1, <2>1, <2>2
  <2> QED BY <2>1, <2>3 DEF FillsTheBand
<1>7. FillsTheBand(Cardinality(Free), Budget)'
  BY <1>5, <1>6 DEF FillsTheBand
<1>8. ClampedInOrder' /\ SharesAreFair'
  BY <1>3 DEF ClampedInOrder, NoShares, SharesAreFair
<1> QED BY <1>3, <1>4, <1>7, <1>8 DEF ShareInv

\* The shares before rounding: they add up to the whole, none is out of the
\* band, and none is below that of a repository with fewer chunks.
LEMMA PartsAreFair ==
  ASSUME AllocationTypeOK, FillsTheBand(Cardinality(Free), Budget), ClampedInOrder,
         \A k \in Free : Excess(k) <= 0
  PROVE  /\ Pool \in Nat \ {0} /\ asked.total \in Nat /\ IsFiniteSet(DOMAIN asked.weights)
         /\ \A k \in DOMAIN asked.weights :
              /\ Parts(k) \in Nat /\ (MinShare * Pool) * asked.total <= Parts(k)
              /\ Parts(k) <= (MaxShare * Pool) * asked.total
         /\ \A j, k \in DOMAIN asked.weights : asked.weights[j] > asked.weights[k] => Parts(j) >= Parts(k)
         /\ \A p : p = [k \in DOMAIN asked.weights |-> Parts(k)]
                     => SumFunctionOnSet(p, DOMAIN asked.weights) = Whole * asked.total
<1> DEFINE w == asked.weights
           t == asked.total
           D == DOMAIN fixed
           S == DOMAIN asked.weights
           a(k) == IF k \in Free THEN Budget * w[k] ELSE fixed[k] * Pool
           fixedSum == SumFunctionOnSet(fixed, D)
<1>1. /\ IsFiniteSet(S) /\ IsFiniteSet(D) /\ IsFiniteSet(Free)
      /\ \A k \in S : w[k] \in Nat \ {0} /\ w[k] \in Int
      /\ \A k \in D : fixed[k] \in {MinShare, MaxShare} /\ fixed[k] \in Nat /\ fixed[k] \in Int
      /\ MinShare \in Nat /\ MaxShare \in Nat /\ MinShare <= MaxShare
      /\ Budget = 100 - fixedSum /\ fixedSum \in Nat /\ Budget \in Nat
  BY SharesTyped DEF FillsTheBand
<1>2. Free \subseteq S /\ D \subseteq S /\ S = Free \union D /\ Free \intersect D = {}
  BY DEF Free, AllocationTypeOK
<1>3. Pool = SumFunctionOnSet(w, Free) /\ Pool \in Nat \ {0}
  <2>1. Free # {}
    BY FS_EmptySet DEF FillsTheBand
  <2> QED BY <2>1, SharesTyped
<1>4. t \in Nat
  BY AllocationAssumption DEF AllocationTypeOK
<1>5. ASSUME NEW k \in S
      PROVE  a(k) \in Nat /\ MinShare * Pool <= a(k) /\ a(k) <= MaxShare * Pool
  <2>1. CASE k \in Free
    <3>1. Above(k) \in Int /\ Below(k) \in Int /\ Budget * w[k] \in Nat
          /\ MaxShare * Pool \in Int /\ MinShare * Pool \in Int
      BY <1>1, <1>3 DEF Above, Below
    <3>2. Above(k) <= 0 /\ Below(k) <= 0
      BY <2>1, <3>1 DEF Excess
    <3>3. a(k) = Budget * w[k]
      BY <2>1
    <3> QED BY <3>1, <3>2, <3>3 DEF Above, Below
  <2>2. CASE k \in D
    <3>1. fixed[k] \in Nat /\ MinShare <= fixed[k] /\ fixed[k] <= MaxShare /\ a(k) = fixed[k] * Pool
      BY <1>1, <1>2, <2>2
    <3>2. MinShare * Pool <= fixed[k] * Pool /\ fixed[k] * Pool <= MaxShare * Pool
      BY <1>1, <1>3, <3>1, Cancel
    <3>3. fixed[k] * Pool \in Nat
      BY <1>3, <3>1
    <3> QED BY <3>1, <3>2, <3>3
  <2> QED BY <1>2, <2>1, <2>2
<1>6. ASSUME NEW j \in S, NEW k \in S, w[j] > w[k] PROVE a(k) <= a(j)
  <2>0. w[j] \in Nat /\ w[k] \in Nat /\ ~(w[j] <= w[k])
    BY <1>1, <1>6
  <2>1. CASE j \in Free /\ k \in Free
    <3>1. w[k] * Budget <= w[j] * Budget
      <4>1. CASE Budget = 0
        BY <2>0, <4>1
      <4>2. CASE Budget # 0
        BY <1>1, <1>6, <2>0, <4>2, Cancel
      <4> QED BY <4>1, <4>2
    <3> QED BY <1>1, <2>0, <2>1, <3>1
  <2>2. CASE j \in Free /\ k \in D
    <3>1. ~(fixed[k] > MinShare) /\ fixed[k] \in {MinShare, MaxShare}
      BY <1>1, <2>0, <2>2 DEF ClampedInOrder
    <3>2. fixed[k] = MinShare /\ a(k) = MinShare * Pool
      BY <1>1, <1>2, <2>2, <3>1
    <3> QED BY <1>5, <3>2
  <2>3. CASE j \in D /\ k \in Free
    <3>1. ~(fixed[j] < MaxShare) /\ fixed[j] \in {MinShare, MaxShare}
      BY <1>1, <2>0, <2>3 DEF ClampedInOrder
    <3>2. fixed[j] = MaxShare /\ a(j) = MaxShare * Pool
      BY <1>1, <1>2, <2>3, <3>1
    <3> QED BY <1>5, <3>2
  <2>4. CASE j \in D /\ k \in D
    <3>1. ~(fixed[j] < fixed[k]) /\ fixed[j] \in Nat /\ fixed[k] \in Nat
      BY <1>1, <2>0, <2>4 DEF ClampedInOrder
    <3>2. fixed[k] * Pool <= fixed[j] * Pool
      BY <1>3, <3>1, Cancel
    <3> QED BY <1>2, <2>4, <3>2
  <2> QED BY <1>2, <2>1, <2>2, <2>3, <2>4
<1>7. \A k \in S : Parts(k) = a(k) * t
  BY DEF Parts
<1> HIDE DEF a
<1>8. \A x, y \in Nat : x <= y => x * t <= y * t
  <2>1. CASE t = 0
    BY <2>1
  <2>2. CASE t # 0
    BY <1>4, <2>2, Cancel
  <2> QED BY <2>1, <2>2
<1>9. ASSUME NEW k \in S
      PROVE  Parts(k) \in Nat /\ (MinShare * Pool) * t <= Parts(k) /\ Parts(k) <= (MaxShare * Pool) * t
  <2>1. MinShare * Pool \in Nat /\ MaxShare * Pool \in Nat
    BY <1>1, <1>3
  <2>2. a(k) \in Nat /\ a(k) * t \in Nat
    BY <1>4, <1>5
  <2> HIDE DEF t
  <2> QED BY <1>5, <1>7, <1>8, <2>1, <2>2
<1>10. ASSUME NEW j \in S, NEW k \in S, w[j] > w[k] PROVE Parts(j) >= Parts(k)
  <2>1. a(k) \in Nat /\ a(j) \in Nat /\ a(k) <= a(j)
    BY <1>5, <1>6, <1>10
  <2>2. a(k) * t <= a(j) * t
    BY <1>8, <2>1
  <2>3. Parts(j) = a(j) * t /\ Parts(k) = a(k) * t /\ Parts(j) \in Nat /\ Parts(k) \in Nat
    BY <1>7, <1>9
  <2> HIDE DEF t
  <2> QED BY <2>2, <2>3
<1>11. ASSUME NEW p, p = [k \in S |-> Parts(k)]
       PROVE  SumFunctionOnSet(p, S) = Whole * t
  <2>1. Multiplies(Free, Budget * t, w, p)
    <3>1. ASSUME NEW k \in Free PROVE p[k] = (Budget * t) * w[k]
      <4>1. p[k] = (Budget * w[k]) * t
        BY <1>2, <1>11 DEF Parts
      <4>2. (Budget * w[k]) * t = (Budget * t) * w[k]
        BY <1>1, <1>2, <1>4
      <4> QED BY <4>1, <4>2
    <3> QED BY <1>1, <1>2, <3>1 DEF Multiplies
  <2>2. Multiplies(D, Pool * t, fixed, p)
    <3>1. ASSUME NEW k \in D PROVE p[k] = (Pool * t) * fixed[k]
      <4>1. p[k] = (fixed[k] * Pool) * t
        BY <1>2, <1>11 DEF Parts
      <4>2. (fixed[k] * Pool) * t = (Pool * t) * fixed[k]
        BY <1>1, <1>3, <1>4
      <4> QED BY <4>1, <4>2
    <3> QED BY <1>1, <3>1 DEF Multiplies
  <2>3. \A k \in Free \union D : p[k] \in Int
    BY <1>2, <1>9, <1>11
  <2>4. Budget * t \in Int /\ Pool * t \in Int
    BY <1>1, <1>3, <1>4
  <2> HIDE DEF D, w, t
  <2>5. SumFunctionOnSet(p, Free) = (Budget * t) * Pool
    BY <1>1, <1>3, <2>1, <2>4, SumOfMultiples
  <2>6. SumFunctionOnSet(p, D) = (Pool * t) * fixedSum
    BY <1>1, <2>2, <2>4, SumOfMultiples
  <2>7. SumFunctionOnSet(p, Free \union D) = SumFunctionOnSet(p, Free) + SumFunctionOnSet(p, D)
    BY <1>1, <1>2, <2>3, SumOfTwoParts
  <2>8. (Budget * t) * Pool + (Pool * t) * fixedSum = (100 * Pool) * t
    <3> DEFINE n == Pool * t
    <3>1. n \in Nat /\ (Budget * t) * Pool = Budget * n /\ (100 * Pool) * t = 100 * n
      BY <1>1, <1>3, <1>4
    <3> HIDE DEF n, fixedSum
    <3>2. Budget * n + n * fixedSum = (Budget + fixedSum) * n
      BY <1>1, <3>1
    <3>3. Budget + fixedSum = 100
      BY <1>1
    <3> QED BY <3>1, <3>2, <3>3 DEF n
  <2> QED BY <1>2, <2>5, <2>6, <2>7, <2>8 DEF Whole
<1> QED BY <1>1, <1>3, <1>4, <1>9, <1>10, <1>11

LEMMA RoundStep ==
  ASSUME HalfBand, ShareInv, Round
  PROVE  ShareInv'
<1> DEFINE S == DOMAIN asked.weights
           p == [k \in S |-> Parts(k)]
           q == [k \in S |-> p[k] \div Whole]
           r == [k \in S |-> p[k] % Whole]
           t == asked.total
           c == counts'
<1>1. /\ AllocationTypeOK /\ FillsTheBand(Cardinality(Free), Budget) /\ ClampedInOrder
      /\ phase = "clamp" /\ phase' = "done" /\ asked' = asked /\ fixed' = fixed
      /\ \A k \in Free : Excess(k) <= 0
  BY DEF Round, ShareInv
<1>2. /\ Pool \in Nat \ {0} /\ t \in Nat /\ IsFiniteSet(S)
      /\ \A k \in S : /\ Parts(k) \in Nat /\ (MinShare * Pool) * t <= Parts(k)
                      /\ Parts(k) <= (MaxShare * Pool) * t
      /\ \A j, k \in S : asked.weights[j] > asked.weights[k] => Parts(j) >= Parts(k)
      /\ SumFunctionOnSet(p, S) = Whole * t
  BY <1>1, PartsAreFair
<1>3. Whole \in Nat \ {0} /\ Whole = 100 * Pool
  BY <1>2 DEF Whole
<1>4. Divides(Whole, t, S, p, q, r)
  <2>1. S \subseteq Nat
    BY <1>1, AllocationAssumption DEF AllocationTypeOK
  <2>2. \A k \in S : p[k] \in Nat /\ q[k] = p[k] \div Whole /\ r[k] = p[k] % Whole
    BY <1>2
  <2>3. p \in [S -> Nat]
    BY <1>2
  <2>4. ASSUME NEW k \in S
        PROVE  q[k] \in Nat /\ r[k] \in 0..(Whole - 1) /\ p[k] = Whole * q[k] + r[k]
    <3> HIDE DEF p, q, r, S, t, c
    <3>1. p[k] \in Nat /\ q[k] = p[k] \div Whole /\ r[k] = p[k] % Whole
      BY <2>2
    <3>2. Whole \in Nat \ {0}
      BY <1>3
    <3>3. IsDivided(p[k], Whole, q[k], r[k])
      BY <3>1, <3>2, Divided
    <3> QED BY <3>3 DEF IsDivided
  <2>5. q \in [S -> Nat] /\ r \in [S -> 0..(Whole - 1)]
    BY <2>4
  <2> HIDE DEF p, q, r, S, t
  <2> QED BY <1>2, <2>1, <2>3, <2>4, <2>5 DEF Divides
<1>5. RoundsTo(t, S, q, r, c)
  <2>1. ASSUME NEW k \in S PROVE {j \in S : Sooner(j, k)} = Larger(S, r)[k]
    BY DEF Sooner, Larger
  <2>2. [k \in S |-> Parts(k) \div Whole] = q
    OBVIOUS
  <2>3. SumFunction(q) = SumFunctionOnSet(q, S)
    BY DEF SumFunction
  <2>4. c = [k \in S |-> (Parts(k) \div Whole)
               + (IF Cardinality({j \in S : Sooner(j, k)}) < t - SumFunctionOnSet(q, S) THEN 1 ELSE 0)]
    BY <2>2, <2>3 DEF Round
  <2>5. \A k \in S : q[k] = Parts(k) \div Whole
    OBVIOUS
  <2> HIDE DEF q, r
  <2> QED BY <2>1, <2>4, <2>5 DEF RoundsTo
<1>6. /\ SumFunctionOnSet(c, S) = t /\ c \in [S -> Nat]
      /\ \A k \in S : Whole * (c[k] - 1) < p[k] /\ p[k] < Whole * (c[k] + 1)
  <2> HIDE DEF p, q, r, c, S, t
  <2> QED BY <1>2, <1>3, <1>4, <1>5, LargestRemainder
<1>7. \A k \in S : p[k] = Parts(k) /\ p[k] \in Nat /\ c[k] \in Nat
  BY <1>2, <1>6
<1> HIDE DEF c, p, q, r
<1>8. ASSUME NEW k \in S
      PROVE  (c[k] + 1) * 100 > MinShare * t /\ (c[k] - 1) * 100 < MaxShare * t
  <2>1. MinShare \in Nat /\ MaxShare \in Nat
    BY AllocationAssumption
  <2>2. /\ (MinShare * Pool) * t = (MinShare * t) * Pool /\ (MaxShare * Pool) * t = (MaxShare * t) * Pool
        /\ Whole * (c[k] - 1) = ((c[k] - 1) * 100) * Pool
        /\ Whole * (c[k] + 1) = ((c[k] + 1) * 100) * Pool
    BY <1>2, <1>3, <1>7, <2>1
  <2>3. /\ MinShare * t \in Int /\ MaxShare * t \in Int
        /\ (c[k] - 1) * 100 \in Int /\ (c[k] + 1) * 100 \in Int
    BY <1>2, <1>7, <2>1
  <2>4. /\ (MinShare * t) * Pool <= p[k] /\ p[k] <= (MaxShare * t) * Pool
        /\ ((c[k] - 1) * 100) * Pool < p[k] /\ p[k] < ((c[k] + 1) * 100) * Pool
    BY <1>2, <1>6, <1>7, <2>2
  <2> DEFINE x == MinShare * t
             y == MaxShare * t
             lower == (c[k] - 1) * 100
             upper == (c[k] + 1) * 100
  <2>5. x \in Int /\ y \in Int /\ lower \in Int /\ upper \in Int
    BY <2>3
  <2>6. x * Pool <= p[k] /\ p[k] <= y * Pool /\ lower * Pool < p[k] /\ p[k] < upper * Pool
    BY <2>4
  <2> HIDE DEF x, y, lower, upper
  <2>7. x * Pool \in Int /\ y * Pool \in Int /\ lower * Pool \in Int /\ upper * Pool \in Int
    BY <1>2, <2>5
  <2>8. x * Pool < upper * Pool /\ lower * Pool < y * Pool
    BY <1>7, <2>6, <2>7
  <2>9. x < upper /\ lower < y
    BY <1>2, <2>5, <2>8, Cancel
  <2> QED BY <2>5, <2>9 DEF x, y, lower, upper
<1>9. ASSUME NEW j \in S, NEW k \in S, asked.weights[j] > asked.weights[k]
      PROVE  c[j] + 1 >= c[k]
  <2>1. p[k] <= p[j] /\ Whole * (c[k] - 1) < p[k] /\ p[j] < Whole * (c[j] + 1)
    BY <1>2, <1>6, <1>7, <1>9
  <2>2. /\ Whole * (c[k] - 1) = (c[k] - 1) * Whole /\ Whole * (c[j] + 1) = (c[j] + 1) * Whole
        /\ (c[k] - 1) * Whole \in Int /\ (c[j] + 1) * Whole \in Int
        /\ c[k] - 1 \in Int /\ c[j] + 1 \in Int
    BY <1>3, <1>7
  <2>3. (c[k] - 1) * Whole < (c[j] + 1) * Whole
    BY <1>7, <2>1, <2>2
  <2>4. c[k] - 1 < c[j] + 1
    BY <1>3, <2>2, <2>3, Cancel
  <2> QED BY <1>7, <2>4
<1>10. DOMAIN counts' = S /\ counts' \in [S -> Nat] /\ SumFunction(counts') = t
  BY <1>6 DEF SumFunction, c
<1>11. AllocationTypeOK'
  BY <1>1, <1>10 DEF AllocationTypeOK
<1>12. SharesAreFair'
  <2>1. /\ \A k \in S : (counts'[k] + 1) * 100 > MinShare * t /\ (counts'[k] - 1) * 100 < MaxShare * t
        /\ \A j, k \in S : asked.weights[j] > asked.weights[k] => counts'[j] + 1 >= counts'[k]
    BY <1>8, <1>9 DEF c
  <2> QED BY <1>1, <1>10, <2>1 DEF SharesAreFair
<1> QED BY <1>1, <1>11, <1>12 DEF ShareInv

LEMMA ShareInductive ==
  ASSUME HalfBand
  PROVE  /\ AllocationInit => ShareInv
         /\ ShareInv /\ [AllocationNext]_allocationVars => ShareInv'
<1>1. ASSUME AllocationInit PROVE ShareInv
  BY <1>1 DEF AllocationInit, ShareInv, AllocationTypeOK, SharesAreFair, NoShares
<1>2. ASSUME ShareInv, AllocationNext PROVE ShareInv'
  BY <1>2, AskStep, ClampStep, RoundStep DEF AllocationNext
<1>3. ASSUME ShareInv, UNCHANGED allocationVars PROVE ShareInv'
  <2>1. Free' = Free /\ Budget' = Budget
    BY <1>3 DEF Free, Budget, allocationVars
  <2> QED BY <1>3, <2>1 DEF ShareInv, AllocationTypeOK, SharesAreFair, ClampedInOrder, FillsTheBand, allocationVars
<1> QED BY <1>1, <1>2, <1>3

\* allocate keeps its types: what is fixed is at one end of the band.
THEOREM AllocationTyped == HalfBand /\ AllocationSpec => []AllocationTypeOK
<1> SUFFICES ASSUME HalfBand PROVE AllocationSpec => []AllocationTypeOK
  OBVIOUS
<1>1. AllocationInit => ShareInv
  BY ShareInductive
<1>2. ShareInv /\ [AllocationNext]_allocationVars => ShareInv'
  BY ShareInductive
<1>3. ShareInv => AllocationTypeOK
  BY DEF ShareInv
<1> QED BY <1>1, <1>2, <1>3, PTL DEF AllocationSpec

\* For any numbers of chunks and any total: clamping the worst violator one at a
\* time leaves the others a budget that fits the band, down to the last one, and
\* the counts add up to the total, each within a call of its share.
THEOREM SharesStayFair == HalfBand /\ AllocationSpec => []SharesAreFair
<1> SUFFICES ASSUME HalfBand PROVE AllocationSpec => []SharesAreFair
  OBVIOUS
<1>1. AllocationInit => ShareInv
  BY ShareInductive
<1>2. ShareInv /\ [AllocationNext]_allocationVars => ShareInv'
  BY ShareInductive
<1>3. ShareInv => SharesAreFair
  BY DEF ShareInv
<1> QED BY <1>1, <1>2, <1>3, PTL DEF AllocationSpec

(***************************************************************************)
(* CorpusParse: the sections follow the headings as the lines come, and    *)
(* the chunks follow the sections.                                         *)
(***************************************************************************)
\* A heading after which only deeper ones have come stands in its own level.
HeadingsStand(d, hs) ==
  /\ \A l \in 1..3 : hs[l] # NoHeading =>
       IF hs[l] = Title THEN l = 1 ELSE hs[l] \in HeadingLines(d) /\ Levels[d[hs[l]]] = l
  /\ {hs[l] : l \in 1..3} \ {NoHeading, Title} = Titled(d, Len(d))
  /\ hs[1] = Title => \A h \in InForce(d, Len(d)) : Levels[d[h]] # 1

\* The section being read begins with the last heading.
OpenSection(d) == {q \in DOMAIN d : \A h \in HeadingLines(d) : h <= q}

\* A section and where it is over, once a heading has followed it.
IsSection(d, s) ==
  /\ Ink(d, s.lines) # {} /\ \A p \in s.lines : s.lines = SectionOf(d, p)
  /\ PathIsInForce(d, s)
IsOver(d, s) == \A p \in s.lines : \E h \in HeadingLines(d) : p < h

InOrder(texts) ==
  \A i, j \in DOMAIN texts : i < j => \A p \in texts[i].lines, q \in texts[j].lines : p < q

LinesInv ==
  /\ ended => current = {}
  /\ ~ended => /\ fence = Scan(doc, 1)[Len(doc)] /\ HeadingsStand(doc, headings)
               /\ current = OpenSection(doc)
               /\ \A i \in DOMAIN sections : IsOver(doc, sections[i])
               /\ chunked = 0 /\ rest = {} /\ buf = {} /\ returned = <<>>

SectionsInv ==
  /\ \A i \in DOMAIN sections : IsSection(doc, sections[i])
  /\ InOrder(sections)
  /\ \A p \in Ink(doc, DOMAIN doc) : p \in current \/ \E i \in DOMAIN sections : p \in sections[i].lines

\* A part of a content: a run of its lines, from outside every fence to where a
\* block ends, of one block if it is long.
IsEndOf(S, C) == S \subseteq C /\ \A p \in S, q \in C : p < q => q \in S
OpensOutside(d, S) == \A p \in S : Outside(d, p) \/ \E q \in S : q < p
IsPart(d, S, C) ==
  /\ S \subseteq C /\ OpensOutside(d, S)
  /\ \A p, q \in S : \A x \in C : p < x /\ x < q => x \in S
  /\ \A p \in S : \/ \E q \in S : p < q
                  \/ p \in BlockEnds(d, C)
                  \/ \A q \in C : q <= p
  /\ Tokens(d, S) > MaxTokens => \A p \in S \intersect BlockEnds(d, C) : \A q \in S : q <= p

Splits == buf \union rest # {}

SplitInv ==
  Splits =>
    /\ ended /\ chunked < Len(sections) /\ Prose(doc, Content) >= MinProse
    /\ IsEndOf(rest, Content) /\ IsEndOf(buf \union rest, Content)
    /\ buf \intersect rest = {} /\ (buf = {} => rest = Content)
    /\ OpensOutside(doc, rest) /\ IsPart(doc, buf, Content)

IsChunk(d, c) ==
  /\ FenceIsWhole(d, c.lines) /\ PathIsInForce(d, c)
  /\ \A p, q \in c.lines : p..q \subseteq c.lines

\* What the chunks keep so far, and what is still to come.
Kept(d, texts) == UNION {Ink(d, texts[i].lines) : i \in DOMAIN texts}
Due(d, s) == IF Prose(d, Strip(d, s.lines)) >= MinProse THEN Ink(d, s.lines) ELSE {}
DueOf(d, texts, n) == UNION {Due(d, texts[i]) : i \in 1..n}
LinesFrom(texts, n) == UNION {texts[i].lines : i \in n..Len(texts)}
Passed ==
  DueOf(doc, sections, chunked)
    \union (IF Splits THEN Ink(doc, Content) \ (buf \union rest) ELSE {})
Ahead ==
  IF Splits THEN buf \union rest \union LinesFrom(sections, chunked + 2)
  ELSE LinesFrom(sections, chunked + 1)

Follow(d, texts, passed, ahead) ==
  /\ \A i \in DOMAIN texts : IsChunk(d, texts[i])
  /\ Kept(d, texts) = passed
  /\ InOrder(texts)
  /\ \A i \in DOMAIN texts : \A p \in texts[i].lines, q \in ahead : p < q
ChunksInv == Follow(doc, returned, Passed, Ahead)

ParseInv == ParseTypeOK /\ LinesInv /\ SectionsInv /\ SplitInv /\ ChunksInv

LEMMA LeastLine ==
  ASSUME NEW S \in SUBSET Nat, S # {}
  PROVE  /\ Min(S) \in S /\ Min(S) \in Nat /\ \A p \in S : Min(S) <= p
         /\ \A p \in S : (\A q \in S : p <= q) => p = Min(S)
<1>1. \E p \in S : \A q \in S : p <= q
  BY SmallestOf
<1>2. Min(S) \in S /\ \A p \in S : Min(S) <= p
  BY <1>1 DEF Min
<1>3. ASSUME NEW p \in S, \A q \in S : p <= q PROVE p = Min(S)
  <2>1. p <= Min(S) /\ Min(S) <= p
    BY <1>2, <1>3
  <2>2. p \in Nat /\ Min(S) \in Nat
    BY <1>2
  <2> QED BY <2>1, <2>2
<1> QED BY <1>2, <1>3

LEMMA LastLine ==
  ASSUME NEW n \in Nat, NEW S \in SUBSET (1..n), S # {}
  PROVE  \E p \in S : \A q \in S : q <= p
<1>1. S \in SUBSET (0..n)
  OBVIOUS
<1> QED BY <1>1, GreatestOf

(***************************************************************************)
(* What a scanner makes of the lines.                                      *)
(***************************************************************************)
LEMMA FenceRules ==
  /\ \A open, kind : kind \notin DOMAIN Fences => FenceAfter(open, kind) = open
  /\ \A open \in {NoFence} \union DOMAIN Fences : \A kind :
       FenceAfter(open, kind) \in {NoFence} \union DOMAIN Fences
  /\ "blank" \notin DOMAIN Fences /\ "blank" \notin DOMAIN Levels
  /\ \A kind \in DOMAIN Levels : kind \notin DOMAIN Fences
<1>1. DOMAIN Fences = {"backticks3", "backticks4", "tildes3"} /\ DOMAIN Levels = {"h1", "h2", "h3", "untitled2"}
  BY DEF Fences, Levels
<1>2. ASSUME NEW open, NEW kind, kind \notin DOMAIN Fences PROVE FenceAfter(open, kind) = open
  BY <1>2 DEF FenceAfter
<1>3. ASSUME NEW open \in {NoFence} \union DOMAIN Fences, NEW kind
      PROVE  FenceAfter(open, kind) \in {NoFence} \union DOMAIN Fences
  <2>1. CASE kind \notin DOMAIN Fences
    BY <2>1, <1>2
  <2>2. CASE kind \in DOMAIN Fences /\ open = NoFence
    BY <2>2 DEF FenceAfter
  <2>3. CASE kind \in DOMAIN Fences /\ open # NoFence
    BY <2>3 DEF FenceAfter
  <2> QED BY <2>1, <2>2, <2>3
<1> QED BY <1>1, <1>2, <1>3

LEMMA Scanned ==
  ASSUME NEW d, Len(d) \in Nat, NEW a \in Nat \ {0}
  PROVE  /\ \A p \in 0..Len(d) : p < a => Scan(d, a)[p] = NoFence
         /\ \A p \in 1..Len(d) : p >= a => Scan(d, a)[p] = FenceAfter(Scan(d, a)[p - 1], d[p])
<1> DEFINE F(n, g) == g = [p \in 0..n |-> IF p < a THEN NoFence ELSE FenceAfter(g[p - 1], d[p])]
           B == {n \in Nat : ~\E g : F(n, g)}
<1>1. B = {}
  <2> SUFFICES ASSUME B # {} PROVE FALSE
    OBVIOUS
  <2>1. PICK n \in B : \A m \in B : n <= m
    BY SmallestOf
  <2>2. n \in Nat /\ ~\E g : F(n, g)
    OBVIOUS
  <2>3. n # 0
    <3> DEFINE g == [p \in 0..0 |-> NoFence]
    <3>1. g = [p \in 0..0 |-> IF p < a THEN NoFence ELSE FenceAfter(g[p - 1], d[p])]
      OBVIOUS
    <3> QED BY <2>2, <3>1
  <2>4. n - 1 \in Nat /\ n - 1 \notin B
    <3>1. n - 1 \in Nat /\ ~(n <= n - 1)
      BY <2>2, <2>3
    <3> HIDE DEF B
    <3> QED BY <2>1, <3>1
  <2>5. PICK g : F(n - 1, g)
    BY <2>4
  <2> DEFINE h == [p \in 0..n |-> IF p < a THEN NoFence ELSE FenceAfter(g[p - 1], d[p])]
  <2>6. \A p \in 0..(n - 1) : h[p] = g[p]
    BY <2>2, <2>5
  <2>7. \A p \in 0..n : p < a \/ p - 1 \in 0..(n - 1)
    BY <2>2
  <2>8. h = [p \in 0..n |-> IF p < a THEN NoFence ELSE FenceAfter(h[p - 1], d[p])]
    BY <2>6, <2>7
  <2> QED BY <2>2, <2>8
<1>2. \E g : F(Len(d), g)
  BY <1>1
<1>3. F(Len(d), Scan(d, a))
  BY <1>2 DEF Scan
<1>4. \A p \in 0..Len(d) : Scan(d, a)[p] = IF p < a THEN NoFence ELSE FenceAfter(Scan(d, a)[p - 1], d[p])
  BY <1>3
<1> QED BY <1>4

\* Two scans that agree before a line agree from there on.
AgreeFrom(m, n, d, a, e, b) ==
  /\ {Len(d), Len(e), m, n} \subseteq Nat /\ {a, b} \subseteq Nat \ {0}
  /\ m <= n /\ n <= Len(d) /\ n <= Len(e) /\ a <= m + 1 /\ b <= m + 1
  /\ Scan(d, a)[m] = Scan(e, b)[m] /\ \A p \in (m + 1)..n : d[p] = e[p]

LEMMA ScansAgree ==
  ASSUME NEW m, NEW n, NEW d, NEW a, NEW e, NEW b, AgreeFrom(m, n, d, a, e, b)
  PROVE  \A p \in m..n : Scan(d, a)[p] = Scan(e, b)[p]
<1> USE DEF AgreeFrom
<1> DEFINE B == {p \in m..n : Scan(d, a)[p] # Scan(e, b)[p]}
<1> SUFFICES ASSUME B # {} PROVE FALSE
  OBVIOUS
<1>1. PICK p \in B : \A q \in B : p <= q
  <2>1. B \in SUBSET Nat
    OBVIOUS
  <2> HIDE DEF B
  <2> QED BY <2>1, SmallestOf
<1>2. p \in (m + 1)..n /\ p - 1 \in m..n /\ p - 1 \notin B
  BY <1>1
<1>3. Scan(d, a)[p - 1] = Scan(e, b)[p - 1] /\ d[p] = e[p]
  BY <1>2
<1>4. p \in 1..Len(d) /\ p \in 1..Len(e) /\ p >= a /\ p >= b
  BY <1>2
<1>5. /\ Scan(d, a)[p] = FenceAfter(Scan(d, a)[p - 1], d[p])
      /\ Scan(e, b)[p] = FenceAfter(Scan(e, b)[p - 1], e[p])
  BY <1>4, Scanned
<1> QED BY <1>3, <1>5

\* Blank lines leave the fence as it is.
LEMMA BlanksKeepTheFence ==
  ASSUME NEW d, Len(d) \in Nat, NEW m \in 0..Len(d), NEW n \in m..Len(d),
         \A p \in (m + 1)..n : d[p] = "blank"
  PROVE  Scan(d, 1)[n] = Scan(d, 1)[m]
<1> DEFINE B == {p \in m..n : Scan(d, 1)[p] # Scan(d, 1)[m]}
<1> SUFFICES ASSUME B # {} PROVE FALSE
  OBVIOUS
<1>1. PICK p \in B : \A q \in B : p <= q
  <2>1. B \in SUBSET Nat
    OBVIOUS
  <2> HIDE DEF B
  <2> QED BY <2>1, SmallestOf
<1>2. p \in (m + 1)..n /\ p - 1 \in m..n /\ p - 1 \notin B
  BY <1>1
<1>3. p \in 1..Len(d) /\ d[p] = "blank" /\ Scan(d, 1)[p - 1] = Scan(d, 1)[m]
  BY <1>2
<1>4. Scan(d, 1)[p] = FenceAfter(Scan(d, 1)[p - 1], d[p])
  BY <1>3, Scanned
<1> QED BY <1>1, <1>3, <1>4, FenceRules

LEMMA ScanExtended ==
  ASSUME NEW d, NEW e, Len(d) \in Nat, Len(e) = Len(d) + 1, \A p \in 1..Len(d) : e[p] = d[p]
  PROVE  /\ \A p \in 0..Len(d) : Scan(e, 1)[p] = Scan(d, 1)[p]
         /\ Scan(e, 1)[Len(d) + 1] = FenceAfter(Scan(d, 1)[Len(d)], e[Len(d) + 1])
<1>1. Len(e) \in Nat
  OBVIOUS
<1>2. Scan(d, 1)[0] = NoFence /\ Scan(e, 1)[0] = NoFence
  BY <1>1, Scanned
<1>3. \A p \in 0..Len(d) : Scan(d, 1)[p] = Scan(e, 1)[p]
  <2>1. AgreeFrom(0, Len(d), d, 1, e, 1)
    BY <1>1, <1>2 DEF AgreeFrom
  <2> QED BY <2>1, ScansAgree
<1>4. Scan(e, 1)[Len(d) + 1] = FenceAfter(Scan(e, 1)[Len(d)], e[Len(d) + 1])
  BY <1>1, Scanned
<1> QED BY <1>3, <1>4

(***************************************************************************)
(* One line more.                                                          *)
(***************************************************************************)
File(d) == d \in Seq(Kinds)

LEMMA FileTyped ==
  ASSUME NEW d, File(d)
  PROVE  /\ Len(d) \in Nat /\ DOMAIN d = 1..Len(d) /\ DOMAIN d \in SUBSET Nat
         /\ HeadingLines(d) \subseteq DOMAIN d
BY DEF File, HeadingLines

IsNext(d, k, e) == File(d) /\ k \in Kinds /\ e = Append(d, k)
Starts(d, k) == Scan(d, 1)[Len(d)] = NoFence /\ k \in DOMAIN Levels

LEMMA OneLineMore ==
  ASSUME NEW d, NEW k, NEW e, IsNext(d, k, e)
  PROVE  /\ File(e) /\ Len(e) = Len(d) + 1 /\ Len(d) \in Nat
         /\ DOMAIN d = 1..Len(d) /\ DOMAIN e = 1..(Len(d) + 1)
         /\ \A p \in DOMAIN d : e[p] = d[p] /\ (Outside(e, p) <=> Outside(d, p))
         /\ e[Len(d) + 1] = k /\ Scan(e, 1)[Len(d) + 1] = FenceAfter(Scan(d, 1)[Len(d)], k)
         /\ HeadingLines(e) = HeadingLines(d) \union (IF Starts(d, k) THEN {Len(d) + 1} ELSE {})
<1>1. /\ e \in Seq(Kinds) /\ Len(e) = Len(d) + 1 /\ Len(d) \in Nat
      /\ e[Len(d) + 1] = k /\ \A p \in DOMAIN d : e[p] = d[p]
      /\ DOMAIN d = 1..Len(d) /\ DOMAIN e = 1..(Len(d) + 1)
      /\ \A p \in 0..Len(d) : Scan(e, 1)[p] = Scan(d, 1)[p]
      /\ Scan(e, 1)[Len(d) + 1] = FenceAfter(Scan(d, 1)[Len(d)], k)
  <2>1. d \in Seq(Kinds) /\ k \in Kinds /\ e = Append(d, k)
    BY DEF IsNext, File
  <2>2. /\ e \in Seq(Kinds) /\ Len(e) = Len(d) + 1 /\ Len(d) \in Nat
        /\ e[Len(d) + 1] = k /\ \A p \in 1..Len(d) : e[p] = d[p]
        /\ DOMAIN d = 1..Len(d) /\ DOMAIN e = 1..(Len(d) + 1)
    BY <2>1
  <2> QED BY <2>2, ScanExtended
<1>2. \A p \in 1..(Len(d) + 1) : Outside(e, p) <=> Outside(d, p)
  <2>1. \A p \in 1..(Len(d) + 1) : p - 1 \in 0..Len(d)
    BY <1>1
  <2> QED BY <1>1, <2>1 DEF Outside
<1>3. Outside(d, Len(d) + 1) <=> Scan(d, 1)[Len(d)] = NoFence
  <2>1. (Len(d) + 1) - 1 = Len(d)
    BY <1>1
  <2> QED BY <2>1 DEF Outside
<1>4. HeadingLines(e) = HeadingLines(d) \union (IF Starts(d, k) THEN {Len(d) + 1} ELSE {})
  <2>1. 1..(Len(d) + 1) = (1..Len(d)) \union {Len(d) + 1}
    BY <1>1
  <2> QED BY <1>1, <1>2, <1>3, <2>1 DEF HeadingLines, Starts
<1> QED BY <1>1, <1>2, <1>4 DEF File

\* What a heading has followed stays the section it is.
LEMMA SectionsStay ==
  ASSUME NEW d, NEW k, NEW e, IsNext(d, k, e), NEW s \in Pieces(d), IsSection(d, s),
         Starts(d, k) \/ IsOver(d, s)
  PROVE  s \in Pieces(e) /\ IsSection(e, s) /\ IsOver(e, s)
<1>1. /\ Len(d) \in Nat /\ DOMAIN d = 1..Len(d) /\ DOMAIN e = 1..(Len(d) + 1)
      /\ \A p \in DOMAIN d : e[p] = d[p] /\ (Outside(e, p) <=> Outside(d, p))
      /\ HeadingLines(e) = HeadingLines(d) \union (IF Starts(d, k) THEN {Len(d) + 1} ELSE {})
      /\ HeadingLines(d) \subseteq DOMAIN d
  BY OneLineMore, FileTyped DEF IsNext
<1>2. s.lines \subseteq DOMAIN d /\ s.lines # {} /\ s \in Pieces(e)
  <2>1. s.lines \subseteq DOMAIN d /\ s.lines # {} /\ s.path \subseteq DOMAIN d \union {Title}
        /\ s = [path |-> s.path, lines |-> s.lines]
    BY DEF Pieces
  <2>2. DOMAIN d \subseteq DOMAIN e
    BY <1>1
  <2>3. s.path \in SUBSET (DOMAIN e \union {Title}) /\ s.lines \in (SUBSET DOMAIN e) \ {{}}
    BY <2>1, <2>2
  <2> QED BY <2>1, <2>3 DEF Pieces
<1>3. Ink(e, s.lines) = Ink(d, s.lines)
  BY <1>1, <1>2 DEF Ink
<1>4. IsOver(e, s)
  BY <1>1, <1>2 DEF IsOver
<1>5. ASSUME NEW p \in s.lines PROVE s.lines = SectionOf(e, p)
  <2>1. s.lines = SectionOf(d, p) /\ p \in 1..Len(d)
    BY <1>1, <1>2 DEF IsSection
  <2>2. Len(d) + 1 \notin SectionOf(e, p)
    BY <1>1, <1>4, <2>1 DEF SectionOf, IsOver
  <2>3. ASSUME NEW q \in 1..Len(d) PROVE q \in SectionOf(e, p) <=> q \in SectionOf(d, p)
    <3>1. \A h \in HeadingLines(e) \ HeadingLines(d) : ~(h <= p) /\ ~(h <= q)
      BY <1>1, <2>1
    <3> QED BY <1>1, <3>1 DEF SectionOf
  <2>4. SectionOf(e, p) \subseteq 1..(Len(d) + 1) /\ SectionOf(d, p) \subseteq 1..Len(d)
    BY <1>1 DEF SectionOf
  <2>5. 1..(Len(d) + 1) = (1..Len(d)) \union {Len(d) + 1}
    BY <1>1
  <2>6. SectionOf(e, p) = SectionOf(d, p)
    BY <2>2, <2>3, <2>4, <2>5
  <2> QED BY <2>1, <2>6
<1>6. Min(s.lines) \in 1..Len(d)
  BY <1>1, <1>2, LeastLine
<1>7. InForce(e, Min(s.lines)) = InForce(d, Min(s.lines))
  <2>1. \A h \in HeadingLines(e) \ HeadingLines(d) : ~(h <= Min(s.lines))
    BY <1>1, <1>6
  <2>2. \A h \in HeadingLines(d) : e[h] = d[h]
    BY <1>1
  <2> QED BY <1>1, <2>1, <2>2 DEF InForce
<1>8. PathIsInForce(e, s)
  <2>1. PathIsInForce(d, s)
    BY DEF IsSection
  <2>2. InForce(d, Min(s.lines)) \subseteq HeadingLines(d)
    BY DEF InForce
  <2>3. s.lines \intersect HeadingLines(e) = s.lines \intersect HeadingLines(d)
    BY <1>1, <1>2
  <2>4. \A h \in HeadingLines(d) : e[h] = d[h]
    BY <1>1
  <2>5. Titled(e, Min(s.lines)) = Titled(d, Min(s.lines))
    BY <1>7, <2>2, <2>4 DEF Titled
  <2> QED BY <1>7, <2>1, <2>2, <2>3, <2>4, <2>5 DEF PathIsInForce
<1> QED BY <1>2, <1>3, <1>4, <1>5, <1>8 DEF IsSection

\* flush: what has been read since the last heading is a section.
LEMMA OpenIsSection ==
  ASSUME NEW d, File(d), NEW hs, HeadingsStand(d, hs), Ink(d, OpenSection(d)) # {},
         NEW s, s = [path |-> {hs[l] : l \in 1..3} \ {NoHeading}, lines |-> OpenSection(d)]
  PROVE  s \in Pieces(d) /\ IsSection(d, s)
<1>1. Len(d) \in Nat /\ DOMAIN d = 1..Len(d) /\ HeadingLines(d) \subseteq 1..Len(d)
  BY FileTyped
<1> DEFINE S == OpenSection(d)
<1>2. S \subseteq 1..Len(d) /\ S # {} /\ S \in SUBSET Nat
  BY <1>1 DEF OpenSection, Ink
<1>3. \A p \in S : S = SectionOf(d, p)
  <2>1. ASSUME NEW p \in S, NEW q \in DOMAIN d PROVE q \in S <=> q \in SectionOf(d, p)
    BY <1>1 DEF OpenSection, SectionOf
  <2>2. S \subseteq DOMAIN d /\ \A p \in S : SectionOf(d, p) \subseteq DOMAIN d
    BY DEF OpenSection, SectionOf
  <2> QED BY <2>1, <2>2
<1>4. Min(S) \in S /\ \A p \in S : Min(S) <= p
  BY <1>2, LeastLine
<1>5. \A h \in HeadingLines(d) : h <= Min(S) /\ h <= Len(d)
  BY <1>1, <1>4 DEF OpenSection
<1>6. InForce(d, Len(d)) = InForce(d, Min(S))
  BY <1>5 DEF InForce
<1>7. S \intersect HeadingLines(d) \subseteq {Min(S)}
  <2>1. \A h \in S \intersect HeadingLines(d) : h <= Min(S) /\ Min(S) <= h /\ h \in Nat /\ Min(S) \in Nat
    BY <1>2, <1>4, <1>5
  <2> HIDE DEF S
  <2> QED BY <2>1
<1>8. s.path \ {Title} = Titled(d, Min(S))
  BY <1>6 DEF HeadingsStand, Titled
<1>9. ASSUME Title \in s.path, NEW h \in InForce(d, Min(S)) PROVE Levels[d[h]] # 1
  <2>1. PICK m \in 1..3 : hs[m] = Title /\ hs[m] # NoHeading
    BY <1>9
  <2>2. m = 1
    BY <2>1 DEF HeadingsStand
  <2> QED BY <1>6, <1>9, <2>1, <2>2 DEF HeadingsStand
<1>10. s \in Pieces(d)
  <2>1. s.path \subseteq DOMAIN d \union {Title}
    BY <1>1, <1>8 DEF InForce, Titled
  <2>2. S \in (SUBSET DOMAIN d) \ {{}}
    BY <1>1, <1>2
  <2> HIDE DEF S
  <2>3. s = [path |-> s.path, lines |-> S]
    BY DEF S
  <2> QED BY <2>1, <2>2, <2>3 DEF Pieces
<1>11. s.lines = S
  OBVIOUS
<1>12. PathIsInForce(d, s)
  BY <1>7, <1>8, <1>9, <1>11 DEF PathIsInForce
<1> QED BY <1>3, <1>10, <1>11, <1>12 DEF IsSection

\* A line that is no heading leaves the headings as they are, a heading takes the
\* place of its level and clears those below.
LEMMA HeadingsStay ==
  ASSUME NEW d, NEW k, NEW e, IsNext(d, k, e), NEW hs \in [1..3 -> Int], HeadingsStand(d, hs), ~Starts(d, k)
  PROVE  HeadingsStand(e, hs) /\ OpenSection(e) = OpenSection(d) \union {Len(e)}
<1>1. /\ Len(d) \in Nat /\ DOMAIN d = 1..Len(d) /\ DOMAIN e = 1..(Len(d) + 1) /\ Len(e) = Len(d) + 1
      /\ \A p \in DOMAIN d : e[p] = d[p]
      /\ HeadingLines(e) = HeadingLines(d) /\ HeadingLines(d) \subseteq 1..Len(d)
  BY OneLineMore, FileTyped DEF IsNext
<1>2. \A h \in HeadingLines(d) : e[h] = d[h] /\ h <= Len(d) /\ h <= Len(d) + 1
  BY <1>1
<1>3. InForce(e, Len(e)) = InForce(d, Len(d))
  BY <1>1, <1>2 DEF InForce
<1>4. OpenSection(e) = OpenSection(d) \union {Len(e)}
  BY <1>1, <1>2 DEF OpenSection
<1>5. \A h \in InForce(d, Len(d)) : e[h] = d[h]
  BY <1>2 DEF InForce
<1>6. Titled(e, Len(e)) = Titled(d, Len(d))
  BY <1>3, <1>5 DEF Titled
<1>7. HeadingsStand(e, hs)
  BY <1>1, <1>2, <1>3, <1>5, <1>6 DEF HeadingsStand
<1> QED BY <1>4, <1>7

LEMMA HeadingsMove ==
  ASSUME NEW d, NEW k, NEW e, IsNext(d, k, e), NEW hs \in [1..3 -> Int], HeadingsStand(d, hs), Starts(d, k),
         NEW gs, gs = [l \in 1..3 |->
                         IF l < Levels[k] THEN hs[l]
                         ELSE IF l = Levels[k] /\ k \notin Untitled THEN Len(e) ELSE NoHeading]
  PROVE  HeadingsStand(e, gs) /\ OpenSection(e) = {Len(e)} /\ Len(e) \in HeadingLines(e)
<1>1. /\ Len(d) \in Nat /\ DOMAIN d = 1..Len(d) /\ DOMAIN e = 1..(Len(d) + 1) /\ Len(e) = Len(d) + 1
      /\ \A p \in DOMAIN d : e[p] = d[p]
      /\ e[Len(e)] = k
      /\ HeadingLines(e) = HeadingLines(d) \union {Len(e)} /\ HeadingLines(d) \subseteq 1..Len(d)
  <2>1. HeadingLines(d) \subseteq DOMAIN d
    BY FileTyped DEF IsNext
  <2> QED BY <2>1, OneLineMore
<1>2. \A h \in HeadingLines(d) : e[h] = d[h] /\ h <= Len(d) /\ h < Len(e) /\ h <= Len(e) /\ h # Len(e)
  BY <1>1
<1>3. Levels[k] \in 1..3 /\ \A h \in HeadingLines(d) : Levels[d[h]] \in 1..3
  BY DEF Starts, Levels, HeadingLines
<1>4. OpenSection(e) = {Len(e)}
  BY <1>1, <1>2 DEF OpenSection
<1> DEFINE n == Len(e)
           lv == Levels[k]
<1>5. InForce(e, n) = {n} \union {h \in InForce(d, Len(d)) : Levels[d[h]] < lv}
  <2>1. ASSUME NEW h \in HeadingLines(d)
        PROVE  h \in InForce(e, n) <=> h \in InForce(d, Len(d)) /\ Levels[d[h]] < lv
    <3>1. h < n /\ n <= n /\ e[n] = k /\ e[h] = d[h] /\ n \in HeadingLines(e)
      BY <1>1, <1>2
    <3>2. h \in InForce(e, n) <=> \A r \in HeadingLines(e) : h < r /\ r <= n => Levels[e[r]] > Levels[d[h]]
      BY <1>1, <1>2, <3>1 DEF InForce
    <3>3. h \in InForce(d, Len(d)) <=> \A r \in HeadingLines(d) : h < r /\ r <= Len(d) => Levels[d[r]] > Levels[d[h]]
      BY <1>1, <1>2 DEF InForce
    <3>4. lv > Levels[d[h]] <=> Levels[d[h]] < lv
      BY <1>3
    <3> QED BY <1>1, <1>2, <3>1, <3>2, <3>3, <3>4
  <2>2. n \in InForce(e, n)
    BY <1>1, <1>2 DEF InForce
  <2>3. InForce(e, n) \subseteq HeadingLines(d) \union {n} /\ InForce(d, Len(d)) \subseteq HeadingLines(d)
    BY <1>1 DEF InForce
  <2>4. n \notin HeadingLines(d)
    BY <1>2
  <2> HIDE DEF n, lv
  <2> QED BY <2>1, <2>2, <2>3, <2>4
<1>6. \A l \in 1..3 : gs[l] # NoHeading =>
        IF gs[l] = Title THEN l = 1 ELSE gs[l] \in HeadingLines(e) /\ Levels[e[gs[l]]] = l
  <2> TAKE l \in 1..3
  <2>1. CASE l < lv
    BY <1>1, <1>2, <2>1 DEF HeadingsStand
  <2>2. CASE l = lv
    <3>1. gs[l] \in {n, NoHeading} /\ n # Title
      BY <1>1, <1>3, <2>2 DEF Title
    <3> QED BY <1>1, <2>2, <3>1
  <2>3. CASE l > lv
    BY <1>3, <2>3
  <2> QED BY <1>3, <2>1, <2>2, <2>3
<1>7. {gs[l] : l \in 1..3} \ {NoHeading, Title} = Titled(e, n)
  <2> HIDE DEF n, lv
  <2>0. Titled(e, n) = {h \in {n} : k \notin Untitled}
                         \union {h \in Titled(d, Len(d)) : Levels[d[h]] < lv}
    <3>1. e[n] = k /\ \A h \in InForce(d, Len(d)) : e[h] = d[h]
      BY <1>1, <1>2 DEF n, InForce
    <3> QED BY <1>5, <3>1 DEF Titled
  <2>1. ASSUME NEW h \in {gs[l] : l \in 1..3} \ {NoHeading, Title} PROVE h \in Titled(e, n)
    <3>1. PICK l \in 1..3 : h = gs[l]
      OBVIOUS
    <3>2. CASE l < lv
      <4>1. h = hs[l] /\ h \in Titled(d, Len(d)) /\ Levels[d[h]] = l
        BY <2>1, <3>1, <3>2 DEF HeadingsStand, lv
      <4> QED BY <2>0, <3>2, <4>1
    <3>3. CASE l = lv
      <4>1. h = n /\ k \notin Untitled
        <5>1. gs[l] = IF k \notin Untitled THEN n ELSE NoHeading
          BY <1>3, <3>3 DEF n, lv
        <5>2. h # NoHeading
          BY <2>1
        <5> QED BY <3>1, <5>1, <5>2
      <4> QED BY <2>0, <4>1
    <3>4. CASE l > lv
      BY <1>3, <2>1, <3>1, <3>4 DEF lv
    <3> QED BY <1>3, <3>2, <3>3, <3>4 DEF lv
  <2>2. k \notin Untitled => n \in {gs[l] : l \in 1..3} \ {NoHeading, Title}
    <3>1. k \notin Untitled => gs[lv] = n /\ lv \in 1..3
      BY <1>3 DEF n, lv
    <3>2. n # NoHeading /\ n # Title
      BY <1>1 DEF n, NoHeading, Title
    <3> QED BY <3>1, <3>2
  <2>3. ASSUME NEW h \in Titled(d, Len(d)), Levels[d[h]] < lv
        PROVE  h \in {gs[l] : l \in 1..3} \ {NoHeading, Title}
    <3>1. PICK l \in 1..3 : h = hs[l] /\ h # NoHeading /\ h # Title
      BY DEF HeadingsStand
    <3>2. Levels[d[h]] = l
      BY <3>1 DEF HeadingsStand
    <3>3. gs[l] = h
      BY <2>3, <3>1, <3>2 DEF lv
    <3> QED BY <3>1, <3>3
  <2> QED BY <2>0, <2>1, <2>2, <2>3
<1>8. ASSUME gs[1] = Title, NEW h \in InForce(e, n) PROVE Levels[e[h]] # 1
  <2>1. lv # 1 /\ hs[1] = Title
    BY <1>1, <1>3, <1>8 DEF NoHeading, Title
  <2>2. CASE h = n
    BY <1>1, <2>1, <2>2
  <2>3. CASE h \in InForce(d, Len(d))
    <3>1. e[h] = d[h]
      BY <1>2, <2>3 DEF InForce
    <3> QED BY <2>1, <2>3, <3>1 DEF HeadingsStand
  <2> QED BY <1>5, <2>2, <2>3
<1> QED BY <1>1, <1>4, <1>6, <1>7, <1>8 DEF HeadingsStand

(***************************************************************************)
(* Runs of lines, stripped and scanned from their start.                   *)
(***************************************************************************)
IsRun(d, T) == File(d) /\ T \subseteq DOMAIN d /\ \A p, q \in T : p..q \subseteq T
IsLast(p, T) == p \in T /\ \A q \in T : q <= p

LEMMA LinesOfARun ==
  ASSUME NEW d, NEW T, IsRun(d, T)
  PROVE  /\ Len(d) \in Nat /\ T \in SUBSET (1..Len(d)) /\ T \in SUBSET Nat
         /\ T # {} => /\ \E p : IsLast(p, T)
                      /\ Min(T) \in T /\ \A p \in T : Min(T) <= p
<1>1. Len(d) \in Nat /\ T \in SUBSET (1..Len(d)) /\ T \in SUBSET Nat
  BY FileTyped DEF IsRun
<1> QED BY <1>1, LeastLine, LastLine DEF IsLast

\* Blank lines are lost at both ends, and the fence is the same without them.
LEMMA Stripped ==
  ASSUME NEW d, NEW T, IsRun(d, T), NEW R, R = Strip(d, T)
  PROVE  /\ R \subseteq T /\ IsRun(d, R) /\ Ink(d, R) = Ink(d, T)
         /\ Ink(d, T) # {} => R # {}
         /\ OpensOutside(d, T) => OpensOutside(d, R)
         /\ \A p, t : IsLast(p, R) /\ IsLast(t, T) =>
              /\ Scan(d, 1)[p] = Scan(d, 1)[t] /\ p <= t
              /\ \A x \in T : x > p => x \notin Ink(d, T)
<1>1. File(d) /\ Len(d) \in Nat /\ DOMAIN d = 1..Len(d) /\ T \subseteq 1..Len(d) /\ \A p, q \in T : p..q \subseteq T
  BY FileTyped DEF IsRun
<1>2. R \subseteq T /\ Ink(d, T) \subseteq T /\ \A p \in T : p <= p
  BY <1>1 DEF Strip, Ink
<1>3. Ink(d, T) \subseteq R
  BY <1>2 DEF Strip
<1>4. Ink(d, R) = Ink(d, T)
  BY <1>2, <1>3 DEF Ink
<1>5. IsRun(d, R)
  <2>1. ASSUME NEW p \in R, NEW q \in R, NEW x \in p..q PROVE x \in R
    <3>1. p \in T /\ q \in T /\ x \in T /\ {p, q, x} \subseteq Nat
      BY <1>1, <1>2
    <3>2. PICK y \in Ink(d, T) : y <= p
      BY DEF Strip
    <3>3. PICK z \in Ink(d, T) : q <= z
      BY DEF Strip
    <3>4. y \in Nat /\ z \in Nat /\ p <= x /\ x <= q
      <4>1. y \in 1..Len(d) /\ z \in 1..Len(d)
        BY <1>1, <1>2
      <4> QED BY <1>1, <3>1, <4>1
    <3>5. y <= x /\ x <= z
      BY <3>1, <3>2, <3>3, <3>4
    <3> QED BY <3>1, <3>2, <3>3, <3>5 DEF Strip
  <2> QED BY <1>1, <1>2, <2>1 DEF IsRun
<1>6. ASSUME OpensOutside(d, T), NEW p \in R, ~\E q \in R : q < p PROVE Outside(d, p)
  <2>1. Min(T) \in T /\ Min(T) <= p /\ \A q \in T : Min(T) <= q
    BY <1>2, LinesOfARun
  <2>2. Min(T) \in 1..Len(d) /\ p \in 1..Len(d) /\ Min(T)..p \subseteq T
    BY <1>1, <1>2, <2>1
  <2>3. Outside(d, Min(T))
    <3>1. ~\E q \in T : q < Min(T)
      BY <1>1, <2>1, <2>2
    <3> QED BY <1>6, <2>1, <3>1 DEF OpensOutside
  <2>4. \A x \in ((Min(T) - 1) + 1)..(p - 1) : d[x] = "blank"
    <3> TAKE x \in ((Min(T) - 1) + 1)..(p - 1)
    <3>1. x \in Min(T)..p /\ x < p
      BY <2>2
    <3>2. x \in T /\ x \notin R
      BY <1>6, <2>2, <3>1
    <3> QED BY <1>3, <3>2 DEF Ink
  <2>5. Min(T) - 1 \in 0..Len(d) /\ p - 1 \in (Min(T) - 1)..Len(d)
    BY <2>1, <2>2
  <2>6. Scan(d, 1)[p - 1] = Scan(d, 1)[Min(T) - 1]
    BY <1>1, <2>4, <2>5, BlanksKeepTheFence
  <2> QED BY <2>3, <2>6 DEF Outside
<1>7. ASSUME NEW p, NEW t, IsLast(p, R), IsLast(t, T)
      PROVE  /\ Scan(d, 1)[p] = Scan(d, 1)[t] /\ p <= t
             /\ \A x \in T : x > p => x \notin Ink(d, T)
  <2>1. p \in T /\ p <= t /\ p \in 1..Len(d) /\ t \in 1..Len(d) /\ p..t \subseteq T
    BY <1>1, <1>2, <1>7 DEF IsLast
  <2>2. \A x \in T : x > p => x \notin Ink(d, T)
    <3> TAKE x \in T
    <3>1. x \in R => x <= p
      BY <1>7 DEF IsLast
    <3>2. x \in Nat /\ p \in Nat
      BY <1>1, <2>1
    <3> QED BY <1>3, <3>1, <3>2
  <2>3. \A x \in (p + 1)..t : d[x] = "blank"
    <3> TAKE x \in (p + 1)..t
    <3>1. x \in T /\ x > p
      BY <2>1
    <3> QED BY <2>2, <3>1 DEF Ink
  <2>4. p \in 0..Len(d) /\ t \in p..Len(d)
    BY <2>1
  <2>5. Scan(d, 1)[t] = Scan(d, 1)[p]
    BY <1>1, <2>3, <2>4, BlanksKeepTheFence
  <2> QED BY <2>1, <2>2, <2>5
<1> QED BY <1>2, <1>3, <1>4, <1>5, <1>6, <1>7 DEF OpensOutside

\* A scanner that starts afresh where no fence is open agrees with the first.
LEMMA FreshScan ==
  ASSUME NEW d, NEW C, IsRun(d, C), C # {}, OpensOutside(d, C)
  PROVE  /\ \A p \in C : /\ Scan(d, Min(C))[p - 1] = Scan(d, 1)[p - 1]
                         /\ Scan(d, Min(C))[p] = Scan(d, 1)[p]
         /\ Outside(d, Min(C))
         /\ BlockEnds(d, C) = {p \in C : d[p] = "blank" /\ Scan(d, 1)[p] = NoFence}
<1> DEFINE c == Min(C)
<1>1. Len(d) \in Nat /\ C \subseteq 1..Len(d) /\ c \in C /\ c \in 1..Len(d) /\ \A p \in C : c <= p
  BY LinesOfARun
<1>2. Outside(d, c)
  <2>1. ~\E q \in C : q < c
    BY <1>1
  <2> QED BY <1>1, <2>1 DEF OpensOutside
<1>3. AgreeFrom(c - 1, Len(d), d, c, d, 1)
  <2>1. c \in Nat \ {0} /\ c - 1 \in 0..Len(d) /\ c - 1 < c
    BY <1>1
  <2>2. Scan(d, c)[c - 1] = NoFence
    BY <1>1, <2>1, Scanned
  <2>3. Scan(d, 1)[c - 1] = NoFence
    BY <1>2 DEF Outside
  <2> HIDE DEF c
  <2> QED BY <1>1, <2>1, <2>2, <2>3 DEF AgreeFrom
<1>4. \A p \in (c - 1)..Len(d) : Scan(d, c)[p] = Scan(d, 1)[p]
  BY <1>3, ScansAgree
<1>5. \A p \in C : p \in (c - 1)..Len(d) /\ p - 1 \in (c - 1)..Len(d)
  BY <1>1
<1>6. \A p \in C : Scan(d, c)[p - 1] = Scan(d, 1)[p - 1] /\ Scan(d, c)[p] = Scan(d, 1)[p]
  BY <1>4, <1>5
<1> QED BY <1>2, <1>6 DEF BlockEnds

\* A blank line outside a fence is one after which none is open.
LEMMA BlankOutside ==
  ASSUME NEW d, File(d), NEW p \in DOMAIN d, d[p] = "blank"
  PROVE  Outside(d, p) <=> Scan(d, 1)[p] = NoFence
<1>1. Len(d) \in Nat /\ p \in 1..Len(d) /\ 1 \in Nat \ {0}
  BY FileTyped
<1>2. Scan(d, 1)[p] = FenceAfter(Scan(d, 1)[p - 1], d[p])
  BY <1>1, Scanned
<1> QED BY <1>2, FenceRules DEF Outside

(***************************************************************************)
(* A section and its content.                                              *)
(***************************************************************************)
\* Only a blank rest of the file follows a text that ends inside a fence.
EndsWhole(d, T) ==
  \A p : IsLast(p, T) => Scan(d, 1)[p] = NoFence \/ \A q \in Ink(d, DOMAIN d) : q <= p

LEMMA SectionRuns ==
  ASSUME NEW d, File(d), NEW s \in Pieces(d), IsSection(d, s)
  PROVE  IsRun(d, s.lines) /\ OpensOutside(d, s.lines) /\ EndsWhole(d, s.lines)
<1> DEFINE S == s.lines
<1>1. /\ Len(d) \in Nat /\ DOMAIN d = 1..Len(d) /\ HeadingLines(d) \subseteq 1..Len(d)
      /\ S \subseteq 1..Len(d) /\ \A p \in S : S = SectionOf(d, p)
  <2>1. Len(d) \in Nat /\ DOMAIN d = 1..Len(d) /\ HeadingLines(d) \subseteq 1..Len(d)
    BY FileTyped
  <2>2. S \subseteq DOMAIN d
    BY DEF Pieces
  <2> QED BY <2>1, <2>2 DEF IsSection
<1>2. \A p \in S, q \in 1..Len(d) : q \in S <=> \A h \in HeadingLines(d) : h <= p <=> h <= q
  BY <1>1 DEF SectionOf
<1> HIDE DEF S
<1>3. ASSUME NEW p \in S, NEW q \in S, NEW x \in p..q PROVE x \in S
  <2>1. p \in 1..Len(d) /\ q \in 1..Len(d) /\ x \in 1..Len(d) /\ p <= x /\ x <= q
    BY <1>1
  <2>2. \A h \in HeadingLines(d) : h <= p <=> h <= q
    BY <1>2, <2>1
  <2>3. \A h \in HeadingLines(d) : h <= p <=> h <= x
    <3> TAKE h \in HeadingLines(d)
    <3>1. h \in 1..Len(d) /\ (h <= p <=> h <= q)
      BY <1>1, <2>2
    <3> QED BY <2>1, <3>1
  <2> QED BY <1>2, <2>1, <2>3
<1>4. ASSUME NEW p \in S, ~\E q \in S : q < p PROVE Outside(d, p)
  <2>1. p \in 1..Len(d)
    BY <1>1
  <2>2. CASE p = 1
    <3>1. 0 \in 0..Len(d) /\ 1 \in Nat \ {0} /\ p - 1 = 0
      BY <1>1, <2>2
    <3>2. Scan(d, 1)[0] = NoFence
      BY <1>1, <3>1, Scanned
    <3> QED BY <3>1, <3>2 DEF Outside
  <2>3. CASE p # 1
    <3>1. p - 1 \in 1..Len(d) /\ p - 1 < p
      BY <2>1, <2>3
    <3>2. p - 1 \notin S
      BY <1>4, <3>1
    <3>3. PICK h \in HeadingLines(d) : ~(h <= p <=> h <= p - 1)
      BY <1>2, <3>1, <3>2
    <3>4. h \in 1..Len(d)
      BY <1>1
    <3>5. h = p
      BY <2>1, <3>3, <3>4
    <3> QED BY <3>3, <3>5 DEF HeadingLines
  <2> QED BY <2>2, <2>3
<1>5. ASSUME NEW p, IsLast(p, S) PROVE Scan(d, 1)[p] = NoFence \/ \A q \in Ink(d, DOMAIN d) : q <= p
  <2>1. p \in S /\ p \in 1..Len(d)
    BY <1>1, <1>5 DEF IsLast
  <2>2. CASE p = Len(d)
    BY <1>1, <2>2 DEF Ink
  <2>3. CASE p # Len(d)
    <3>1. p + 1 \in 1..Len(d) /\ p + 1 > p
      BY <2>1, <2>3
    <3>2. p + 1 \notin S
      <4>1. ~(p + 1 <= p)
        BY <3>1, <2>1
      <4> QED BY <1>5, <4>1 DEF IsLast
    <3>3. PICK h \in HeadingLines(d) : ~(h <= p <=> h <= p + 1)
      BY <1>2, <2>1, <3>1, <3>2
    <3>4. h \in 1..Len(d)
      BY <1>1
    <3>5. h = p + 1 /\ (p + 1) - 1 = p
      BY <2>1, <3>3, <3>4
    <3> QED BY <3>3, <3>5 DEF HeadingLines, Outside
  <2> QED BY <2>2, <2>3
<1> QED BY <1>1, <1>3, <1>4, <1>5 DEF IsRun, OpensOutside, EndsWhole, S

IsContent(d, s, C) == File(d) /\ s \in Pieces(d) /\ IsSection(d, s) /\ C = Strip(d, s.lines)

LEMMA ContentRuns ==
  ASSUME NEW d, NEW s, NEW C, IsContent(d, s, C)
  PROVE  /\ IsRun(d, C) /\ OpensOutside(d, C) /\ EndsWhole(d, C)
         /\ C \subseteq s.lines /\ C # {} /\ Ink(d, C) = Ink(d, s.lines)
         /\ Prose(d, C) = Prose(d, s.lines)
         /\ BlockEnds(d, C) = {p \in C : d[p] = "blank" /\ Scan(d, 1)[p] = NoFence}
<1> DEFINE S == s.lines
<1>1. File(d) /\ IsRun(d, S) /\ OpensOutside(d, S) /\ EndsWhole(d, S) /\ Ink(d, S) # {} /\ S # {}
  BY SectionRuns DEF IsContent, IsSection, Ink
<1>2. C = Strip(d, S)
  BY DEF IsContent
<1> HIDE DEF S
<1>3. /\ C \subseteq S /\ IsRun(d, C) /\ Ink(d, C) = Ink(d, S) /\ C # {} /\ OpensOutside(d, C)
      /\ \A p, t : IsLast(p, C) /\ IsLast(t, S) =>
              /\ Scan(d, 1)[p] = Scan(d, 1)[t] /\ p <= t
              /\ \A x \in S : x > p => x \notin Ink(d, S)
  BY <1>1, <1>2, Stripped
<1>4. EndsWhole(d, C)
  <2> SUFFICES ASSUME NEW p, IsLast(p, C), Scan(d, 1)[p] # NoFence PROVE \A q \in Ink(d, DOMAIN d) : q <= p
    BY DEF EndsWhole
  <2>1. PICK t : IsLast(t, S)
    BY <1>1, LinesOfARun
  <2>2. Scan(d, 1)[t] # NoFence /\ p <= t /\ \A x \in S : x > p => x \notin Ink(d, S)
    BY <1>3, <2>1
  <2>3. \A q \in Ink(d, DOMAIN d) : q <= t
    BY <1>1, <2>1, <2>2 DEF EndsWhole
  <2>4. ASSUME NEW q \in Ink(d, DOMAIN d), ~(q <= p) PROVE FALSE
    <3>1. DOMAIN d \in SUBSET Nat /\ p \in S /\ t \in S /\ S \subseteq DOMAIN d /\ q \in DOMAIN d
      BY <1>1, <1>3, <2>1, FileTyped DEF IsLast, IsRun, Ink
    <3>2. q \in p..t /\ q > p
      <4>1. q \in Nat /\ p \in Nat /\ t \in Nat /\ q <= t
        BY <2>3, <3>1
      <4> QED BY <2>4, <4>1
    <3>3. q \in S
      BY <1>1, <3>1, <3>2 DEF IsRun
    <3>4. q \in Ink(d, S)
      BY <3>3 DEF Ink
    <3> QED BY <2>2, <3>2, <3>3, <3>4
  <2> QED BY <2>4
<1>5. Prose(d, C) = Prose(d, S)
  <2>1. \A p \in Ink(d, S) : Scan(d, Min(C))[p - 1] = Scan(d, Min(S))[p - 1]
    <3> TAKE p \in Ink(d, S)
    <3>1. p \in S /\ p \in C
      BY <1>3 DEF Ink
    <3>2. Scan(d, Min(C))[p - 1] = Scan(d, 1)[p - 1]
      BY <1>3, <3>1, FreshScan
    <3>3. Scan(d, Min(S))[p - 1] = Scan(d, 1)[p - 1]
      BY <1>1, <3>1, FreshScan
    <3> QED BY <3>2, <3>3
  <2>2. {p \in Ink(d, C) : /\ d[p] # "table" /\ d[p] \notin DOMAIN Fences /\ Scan(d, Min(C))[p - 1] = NoFence}
        = {p \in Ink(d, S) : /\ d[p] # "table" /\ d[p] \notin DOMAIN Fences /\ Scan(d, Min(S))[p - 1] = NoFence}
    BY <1>3, <2>1
  <2> QED BY <2>2 DEF Prose
<1>6. BlockEnds(d, C) = {p \in C : d[p] = "blank" /\ Scan(d, 1)[p] = NoFence}
  BY <1>3, FreshScan
<1> QED BY <1>3, <1>4, <1>5, <1>6 DEF S

(***************************************************************************)
(* The parts of a content.                                                 *)
(***************************************************************************)
LEMMA PartIsChunk ==
  ASSUME NEW d, NEW s, NEW C, IsContent(d, s, C), NEW T, IsPart(d, T, C), Ink(d, T) # {},
         NEW c, c = [path |-> s.path, lines |-> Strip(d, T)]
  PROVE  c \in Pieces(d) /\ IsChunk(d, c) /\ c.lines \subseteq T /\ Ink(d, c.lines) = Ink(d, T)
<1> DEFINE R == c.lines
           S == s.lines
<1>1. /\ IsRun(d, C) /\ OpensOutside(d, C) /\ EndsWhole(d, C) /\ C \subseteq S
      /\ BlockEnds(d, C) = {p \in C : d[p] = "blank" /\ Scan(d, 1)[p] = NoFence}
      /\ File(d) /\ IsRun(d, S) /\ PathIsInForce(d, s) /\ \A p \in S : S = SectionOf(d, p)
  BY ContentRuns, SectionRuns DEF IsContent, IsSection
<1>2. R = Strip(d, T) /\ T \subseteq C /\ OpensOutside(d, T)
  BY DEF IsPart
<1>3. Len(d) \in Nat /\ DOMAIN d = 1..Len(d) /\ C \subseteq 1..Len(d) /\ S \subseteq 1..Len(d)
      /\ HeadingLines(d) \subseteq 1..Len(d)
  BY <1>1, FileTyped DEF IsRun
<1> HIDE DEF R, S
<1>4. IsRun(d, T)
  <2>1. ASSUME NEW p \in T, NEW q \in T, NEW x \in p..q PROVE x \in T
    <3>1. p \in C /\ q \in C /\ p \in Nat /\ q \in Nat
      BY <1>2, <1>3
    <3>2. x \in C /\ x \in Nat /\ p <= x /\ x <= q
      BY <1>1, <3>1 DEF IsRun
    <3>3. x = p \/ x = q \/ (p < x /\ x < q)
      BY <3>1, <3>2
    <3> QED BY <3>2, <3>3 DEF IsPart
  <2> QED BY <1>1, <1>2, <2>1 DEF IsRun
<1>5. /\ R \subseteq T /\ IsRun(d, R) /\ Ink(d, R) = Ink(d, T) /\ R # {} /\ OpensOutside(d, R)
      /\ \A p, t : IsLast(p, R) /\ IsLast(t, T) =>
           /\ Scan(d, 1)[p] = Scan(d, 1)[t] /\ p <= t
           /\ \A x \in T : x > p => x \notin Ink(d, T)
  BY <1>2, <1>4, Stripped
<1>6. Outside(d, Min(R)) /\ Min(R) \in R /\ \A p \in R : Min(R) <= p
  BY <1>5, FreshScan, LinesOfARun
<1>7. ASSUME NEW p \in R, ~\E q \in R : q > p, Scan(d, 1)[p] # NoFence
      PROVE  \A q \in Ink(d, DOMAIN d) : q <= p
  <2>1. IsLast(p, R)
    <3>1. \A q \in R : q \in Nat
      BY <1>5, LinesOfARun
    <3> QED BY <1>7, <3>1 DEF IsLast
  <2>2. PICK t : IsLast(t, T)
    BY <1>4, <1>5, LinesOfARun
  <2>3. Scan(d, 1)[t] # NoFence /\ p <= t /\ \A x \in T : x > p => x \notin Ink(d, T)
    BY <1>5, <1>7, <2>1, <2>2
  <2>4. t \in T /\ t \in C /\ p \in T /\ p \in C /\ t \in 1..Len(d) /\ p \in 1..Len(d)
    BY <1>2, <1>3, <1>5, <2>2 DEF IsLast
  <2>5. ~\E q \in T : t < q
    <3>1. \A q \in T : q <= t /\ q \in Nat
      BY <1>2, <1>3, <2>2 DEF IsLast
    <3> QED BY <2>4, <3>1
  <2>6. t \notin BlockEnds(d, C)
    BY <1>1, <2>3
  <2>7. IsLast(t, C)
    BY <2>4, <2>5, <2>6 DEF IsPart, IsLast
  <2>8. \A q \in Ink(d, DOMAIN d) : q <= t
    BY <1>1, <2>3, <2>7 DEF EndsWhole
  <2>9. ASSUME NEW q \in Ink(d, DOMAIN d), ~(q <= p) PROVE FALSE
    <3>1. q \in 1..Len(d) /\ q <= t
      BY <1>3, <2>8 DEF Ink
    <3>2. q \in p..t /\ q > p
      BY <2>4, <2>9, <3>1
    <3>3. q \in T
      BY <1>4, <2>4, <3>2 DEF IsRun
    <3>4. q \in Ink(d, T)
      BY <3>3 DEF Ink
    <3> QED BY <2>3, <3>2, <3>3, <3>4
  <2> QED BY <2>9
<1>8. ASSUME Tokens(d, R) > MaxTokens, NEW p \in R, d[p] = "blank" PROVE ~Outside(d, p)
  <2> SUFFICES ASSUME Outside(d, p) PROVE FALSE
    OBVIOUS
  <2>1. p \in T /\ p \in C /\ p \in DOMAIN d
    BY <1>2, <1>3, <1>5
  <2>2. p \in BlockEnds(d, C)
    BY <1>1, <1>8, <2>1, BlankOutside
  <2>3. Tokens(d, T) > MaxTokens
    BY <1>5, <1>8 DEF Tokens
  <2>4. \A q \in T : q <= p
    BY <2>1, <2>2, <2>3 DEF IsPart
  <2>5. PICK q \in Ink(d, T) : p <= q
    BY <1>2 DEF Strip
  <2>6. q \in T /\ d[q] # "blank" /\ q \in Nat /\ p \in Nat
    BY <1>2, <1>3, <2>1 DEF Ink
  <2>7. q = p
    BY <2>4, <2>5, <2>6
  <2> QED BY <1>8, <2>6, <2>7
<1>9. FenceIsWhole(d, R)
  BY <1>6, <1>7, <1>8 DEF FenceIsWhole
<1>10. R \subseteq S /\ Min(R) \in S /\ Min(S) \in S /\ S # {}
  BY <1>1, <1>2, <1>5, <1>6, LinesOfARun
<1>11. \A h \in HeadingLines(d) : h <= Min(R) <=> h <= Min(S)
  <2>1. Min(R) \in SectionOf(d, Min(S))
    BY <1>1, <1>10
  <2> QED BY <2>1 DEF SectionOf
<1>12. /\ InForce(d, Min(R)) = InForce(d, Min(S))
       /\ Titled(d, Min(R)) = Titled(d, Min(S))
  BY <1>11 DEF InForce, Titled
<1>13. ASSUME NEW h \in R, h \in HeadingLines(d) PROVE h = Min(R)
  <2>1. h \in 1..Len(d) /\ Min(R) \in 1..Len(d) /\ h \in S
    BY <1>3, <1>10
  <2>2. Min(R) \in SectionOf(d, h)
    BY <1>1, <1>10, <2>1
  <2>3. h <= Min(R) /\ Min(R) <= h
    BY <1>6, <1>13, <2>1, <2>2 DEF SectionOf
  <2> QED BY <2>1, <2>3
<1>14. PathIsInForce(d, c)
  <2>1. c.path = s.path /\ c.lines = R
    BY DEF R
  <2> QED BY <1>1, <1>12, <1>13, <2>1 DEF PathIsInForce, S
<1>15. c \in Pieces(d)
  <2>1. R \in (SUBSET DOMAIN d) \ {{}} /\ s.path \in SUBSET (DOMAIN d \union {Title})
    <3>1. s.path \in SUBSET (DOMAIN d \union {Title})
      BY DEF IsContent, Pieces
    <3> QED BY <1>3, <1>5, <1>10, <3>1
  <2>2. c = [path |-> s.path, lines |-> R]
    BY DEF R
  <2> QED BY <2>1, <2>2 DEF Pieces
<1>16. \A p, q \in R : p..q \subseteq R
  BY <1>5 DEF IsRun
<1> QED BY <1>5, <1>9, <1>14, <1>15, <1>16 DEF IsChunk, R

\* The block split_oversized comes to next, of what is left of the content.
NextBlock(d, C, X) == {p \in X : ~\E q \in BlockEnds(d, C) \intersect X : q < p}

LEMMA BlockIsPart ==
  ASSUME NEW d, NEW C, IsRun(d, C), NEW X, X # {}, IsEndOf(X, C), OpensOutside(d, X),
         BlockEnds(d, C) = {p \in C : d[p] = "blank" /\ Scan(d, 1)[p] = NoFence},
         NEW B, B = NextBlock(d, C, X)
  PROVE  /\ B \subseteq X /\ B # {} /\ IsPart(d, B, C)
         /\ IsEndOf(X \ B, C) /\ OpensOutside(d, X \ B)
         /\ \A p \in B, x \in X : x < p => x \in B
         /\ \A p \in B, x \in X \ B : p < x
<1>1. Len(d) \in Nat /\ C \subseteq 1..Len(d) /\ X \subseteq C /\ X \in SUBSET Nat
  BY LinesOfARun DEF IsEndOf
<1>2. B \subseteq X
  BY DEF NextBlock
<1>3. Min(X) \in B
  <2>1. Min(X) \in X /\ \A p \in X : Min(X) <= p
    BY <1>1, LeastLine
  <2>2. \A q \in X : q \in Nat /\ Min(X) \in Nat /\ Min(X) <= q
    BY <1>1, <2>1
  <2>3. \A q \in X : ~(q < Min(X))
    BY <2>2
  <2> QED BY <2>1, <2>3 DEF NextBlock
<1>4. ASSUME NEW p \in B, NEW x \in X, x < p PROVE x \in B
  <2>1. p \in Nat /\ x \in Nat /\ p \in X
    BY <1>1, <1>2
  <2>2. \A q \in BlockEnds(d, C) \intersect X : ~(q < x)
    <3> TAKE q \in BlockEnds(d, C) \intersect X
    <3>1. ~(q < p) /\ q \in Nat
      BY <1>1 DEF NextBlock
    <3> QED BY <1>4, <2>1, <3>1
  <2> QED BY <2>2 DEF NextBlock
<1>5. ASSUME NEW p \in B, NEW x \in X \ B PROVE p < x
  <2>1. p \in X /\ p \in Nat /\ x \in Nat /\ x # p
    BY <1>1, <1>2
  <2>2. ~(x < p)
    BY <1>4
  <2> QED BY <2>1, <2>2
<1>6. IsEndOf(X \ B, C)
  <2>1. ASSUME NEW p \in X \ B, NEW q \in C, p < q PROVE q \in X \ B
    <3>1. q \in X
      BY <2>1 DEF IsEndOf
    <3>2. q \notin B
      BY <1>4, <2>1
    <3> QED BY <3>1, <3>2
  <2> QED BY <1>1, <2>1 DEF IsEndOf
<1>7. OpensOutside(d, X \ B)
  <2> SUFFICES ASSUME NEW p \in X \ B, ~\E q \in X \ B : q < p PROVE Outside(d, p)
    BY DEF OpensOutside
  <2>1. PICK b \in BlockEnds(d, C) \intersect X : b < p
    BY DEF NextBlock
  <2>2. b \in 1..Len(d) /\ p \in 1..Len(d) /\ b \in C /\ p \in C
    BY <1>1
  <2>3. p - 1 \in b..p /\ p - 1 < p /\ (p - 1 = b \/ b < p - 1)
    BY <2>1, <2>2
  <2>4. p - 1 \in C
    BY <2>2, <2>3 DEF IsRun
  <2>5. p - 1 \in X
    BY <2>1, <2>3, <2>4 DEF IsEndOf
  <2>6. p - 1 \in B
    BY <2>3, <2>5
  <2>7. ~(b < p - 1)
    BY <2>6 DEF NextBlock
  <2> QED BY <2>3, <2>7 DEF Outside
<1>8. IsPart(d, B, C)
  <2>1. OpensOutside(d, B)
    <3> SUFFICES ASSUME NEW p \in B, ~Outside(d, p) PROVE \E q \in B : q < p
      BY DEF OpensOutside
    <3>1. PICK q \in X : q < p
      BY <1>2 DEF OpensOutside
    <3> QED BY <1>4, <3>1
  <2>2. ASSUME NEW p \in B, NEW q \in B, NEW x \in C, p < x, x < q PROVE x \in B
    <3>1. x \in X
      BY <1>2, <2>2 DEF IsEndOf
    <3> QED BY <1>4, <2>2, <3>1
  <2>3. ASSUME NEW p \in B, ~\E q \in B : p < q, p \notin BlockEnds(d, C) PROVE \A q \in C : q <= p
    <3> SUFFICES ASSUME NEW q \in C, ~(q <= p) PROVE FALSE
      OBVIOUS
    <3>1. p \in 1..Len(d) /\ q \in 1..Len(d) /\ p \in C /\ p \in X
      BY <1>1, <1>2
    <3>2. p + 1 \in p..q /\ p < p + 1
      BY <3>1
    <3>3. p + 1 \in C
      BY <3>1, <3>2 DEF IsRun
    <3>4. p + 1 \in X
      BY <3>1, <3>2, <3>3 DEF IsEndOf
    <3>5. p + 1 \notin B
      BY <2>3, <3>2
    <3>6. PICK b \in BlockEnds(d, C) \intersect X : b < p + 1
      BY <3>4, <3>5 DEF NextBlock
    <3>7. ~(b < p)
      BY DEF NextBlock
    <3>8. b = p
      <4>1. b \in Nat
        BY <1>1
      <4> QED BY <3>1, <3>6, <3>7, <4>1
    <3> QED BY <2>3, <3>6, <3>8
  <2>4. ASSUME NEW p \in B \intersect BlockEnds(d, C), NEW q \in B PROVE q <= p
    <3>1. ~(p < q)
      BY <1>2 DEF NextBlock
    <3>2. p \in Nat /\ q \in Nat
      BY <1>1, <1>2
    <3> QED BY <3>1, <3>2
  <2> QED BY <1>1, <1>2, <2>1, <2>2, <2>3, <2>4 DEF IsPart
<1> QED BY <1>2, <1>3, <1>4, <1>5, <1>6, <1>7, <1>8

\* A part with the block after it, if that is not too long.
LEMMA PartGrows ==
  ASSUME NEW d, NEW C, IsRun(d, C), NEW T, IsPart(d, T, C), NEW X, IsEndOf(X, C), IsEndOf(T \union X, C),
         T \intersect X = {}, T # {},
         NEW B, B \subseteq X, B # {}, IsPart(d, B, C), \A p \in B, x \in X : x < p => x \in B,
         ~(Tokens(d, T \union B) > MaxTokens)
  PROVE  IsPart(d, T \union B, C)
<1>1. Len(d) \in Nat /\ C \subseteq 1..Len(d) /\ X \subseteq C /\ T \subseteq C /\ B \subseteq C
  BY LinesOfARun DEF IsEndOf
<1>2. ASSUME NEW p \in T, NEW x \in X PROVE p < x
  <2>1. p \in Nat /\ x \in Nat /\ x # p /\ p \in C
    BY <1>1
  <2>2. ~(x < p)
    BY <2>1 DEF IsEndOf
  <2> QED BY <2>1, <2>2
<1>3. OpensOutside(d, T \union B)
  <2>1. ASSUME NEW p \in B PROVE \E q \in T : q < p
    BY <1>2
  <2> QED BY <2>1 DEF IsPart, OpensOutside
<1>4. ASSUME NEW p \in T \union B, NEW q \in T \union B, NEW x \in C, p < x, x < q PROVE x \in T \union B
  <2>1. p \in Nat /\ q \in Nat /\ x \in Nat
    BY <1>1
  <2>2. x \in T \union X
    BY <1>4 DEF IsEndOf
  <2>3. CASE x \in X
    <3>1. q \notin T
      <4>1. q \in T => q < x
        BY <1>2, <2>3
      <4> QED BY <1>4, <2>1, <4>1
    <3> QED BY <1>4, <2>3, <3>1
  <2> QED BY <2>2, <2>3
<1>5. ASSUME NEW p \in T \union B, ~\E q \in T \union B : p < q
      PROVE  p \in BlockEnds(d, C) \/ \A q \in C : q <= p
  <2>1. p \notin T
    BY <1>2, <1>5
  <2> QED BY <1>5, <2>1 DEF IsPart
<1> QED BY <1>1, <1>3, <1>4, <1>5 DEF IsPart

(***************************************************************************)
(* The steps.                                                              *)
(***************************************************************************)
LEMMA LessAhead ==
  ASSUME NEW d, NEW texts, NEW passed, NEW ahead, Follow(d, texts, passed, ahead), NEW less, less \subseteq ahead
  PROVE  Follow(d, texts, passed, less)
BY DEF Follow

LEMMA OneChunkMore ==
  ASSUME NEW d, NEW texts \in Seq(Pieces(d)), NEW passed, NEW ahead, Follow(d, texts, passed, ahead),
         NEW c \in Pieces(d), IsChunk(d, c), c.lines \subseteq ahead,
         NEW less, less \subseteq ahead, \A p \in c.lines, q \in less : p < q,
         NEW more, more = Append(texts, c)
  PROVE  more \in Seq(Pieces(d)) /\ Follow(d, more, passed \union Ink(d, c.lines), less)
<1> DEFINE n == Len(texts)
<1>1. /\ more \in Seq(Pieces(d)) /\ n \in Nat /\ DOMAIN texts = 1..n /\ DOMAIN more = 1..(n + 1)
      /\ \A i \in 1..n : more[i] = texts[i]
      /\ more[n + 1] = c
  OBVIOUS
<1>2. DOMAIN more = DOMAIN texts \union {n + 1}
  BY <1>1
<1> HIDE DEF n
<1>3. InOrder(more)
  <2>1. ASSUME NEW i \in DOMAIN more, NEW j \in DOMAIN more, i < j,
               NEW p \in more[i].lines, NEW q \in more[j].lines
        PROVE  p < q
    <3>1. i \in DOMAIN texts /\ (j \in DOMAIN texts \/ j = n + 1)
      BY <1>1, <1>2, <2>1
    <3>2. more[i] = texts[i]
      BY <1>1, <3>1
    <3>3. CASE j \in DOMAIN texts
      <4>1. more[j] = texts[j]
        BY <1>1, <3>3
      <4> QED BY <2>1, <3>1, <3>2, <3>3, <4>1 DEF InOrder, Follow
    <3>4. CASE j = n + 1
      <4>1. more[j] = c /\ q \in ahead
        BY <1>1, <2>1, <3>4
      <4> QED BY <2>1, <3>1, <3>2, <4>1 DEF Follow
    <3> QED BY <3>1, <3>3, <3>4
  <2> QED BY <2>1 DEF InOrder
<1>4. Kept(d, more) = passed \union Ink(d, c.lines)
  <2>1. {Ink(d, more[i].lines) : i \in DOMAIN more} =
          {Ink(d, texts[i].lines) : i \in DOMAIN texts} \union {Ink(d, c.lines)}
    BY <1>1, <1>2
  <2> QED BY <2>1 DEF Kept, Follow
<1>5. \A i \in DOMAIN more : IsChunk(d, more[i])
  BY <1>1, <1>2 DEF Follow
<1>6. \A i \in DOMAIN more : \A p \in more[i].lines, q \in less : p < q
  BY <1>1, <1>2 DEF Follow
<1> QED BY <1>1, <1>3, <1>4, <1>5, <1>6 DEF Follow

LEMMA NextSection ==
  ASSUME NEW d, NEW texts \in Seq(Pieces(d)), NEW n \in Nat, n < Len(texts)
  PROVE  /\ n + 1 \in DOMAIN texts /\ texts[n + 1] \in Pieces(d) /\ n + 1 \in 0..Len(texts)
         /\ DueOf(d, texts, n + 1) = DueOf(d, texts, n) \union Due(d, texts[n + 1])
         /\ LinesFrom(texts, n + 1) = texts[n + 1].lines \union LinesFrom(texts, n + 2)
         /\ InOrder(texts) => \A p \in texts[n + 1].lines, q \in LinesFrom(texts, n + 2) : p < q
<1>1. Len(texts) \in Nat /\ DOMAIN texts = 1..Len(texts) /\ n + 1 \in 1..Len(texts)
  OBVIOUS
<1>2. 1..(n + 1) = (1..n) \union {n + 1} /\ (n + 1)..Len(texts) = {n + 1} \union ((n + 2)..Len(texts))
  BY <1>1
<1>3. DueOf(d, texts, n + 1) = DueOf(d, texts, n) \union Due(d, texts[n + 1])
  BY <1>2 DEF DueOf
<1>4. LinesFrom(texts, n + 1) = texts[n + 1].lines \union LinesFrom(texts, n + 2)
  BY <1>2 DEF LinesFrom
<1>5. ASSUME InOrder(texts), NEW p \in texts[n + 1].lines, NEW q \in LinesFrom(texts, n + 2) PROVE p < q
  <2>1. PICK i \in (n + 2)..Len(texts) : q \in texts[i].lines
    BY DEF LinesFrom
  <2>2. i \in DOMAIN texts /\ n + 1 < i
    BY <1>1
  <2> QED BY <1>1, <1>5, <2>1, <2>2 DEF InOrder
<1> QED BY <1>1, <1>3, <1>4, <1>5

\* What a text counts is a number.
LEMMA CountsOfText ==
  ASSUME NEW d, File(d), NEW T, T \subseteq DOMAIN d
  PROVE  Prose(d, T) \in Nat /\ Tokens(d, T) \in Nat
<1>1. IsFiniteSet(1..Len(d)) /\ T \subseteq 1..Len(d)
  <2>1. Len(d) \in Nat /\ DOMAIN d = 1..Len(d)
    BY FileTyped
  <2> QED BY <2>1, FS_Interval
<1>2. \A S : S \subseteq Ink(d, T) => Cardinality(S) \in Nat
  <2>1. Ink(d, T) \subseteq 1..Len(d)
    BY <1>1 DEF Ink
  <2> QED BY <1>1, <2>1, FS_Subset, FS_CardinalityType
<1>3. Tokens(d, T) \in Nat
  BY <1>2 DEF Tokens
<1>4. Prose(d, T) \in Nat
  BY <1>2 DEF Prose
<1> QED BY <1>3, <1>4

LEMMA SectionTaken ==
  ASSUME ParseInv, chunked < Len(sections), NEW s, s = sections[chunked + 1], NEW C, C = Content
  PROVE  /\ chunked \in Nat /\ chunked + 1 \in 0..Len(sections)
         /\ s \in Pieces(doc) /\ IsContent(doc, s, C)
         /\ IsRun(doc, C) /\ OpensOutside(doc, C) /\ C \subseteq DOMAIN doc /\ C # {}
         /\ C \subseteq s.lines /\ Ink(doc, C) = Ink(doc, s.lines)
         /\ BlockEnds(doc, C) = {p \in C : doc[p] = "blank" /\ Scan(doc, 1)[p] = NoFence}
         /\ DueOf(doc, sections, chunked + 1) = DueOf(doc, sections, chunked) \union Due(doc, s)
         /\ Due(doc, s) = IF Prose(doc, C) >= MinProse THEN Ink(doc, C) ELSE {}
         /\ LinesFrom(sections, chunked + 1) = s.lines \union LinesFrom(sections, chunked + 2)
         /\ \A p \in C, q \in LinesFrom(sections, chunked + 2) : p < q
<1>1. /\ File(doc) /\ sections \in Seq(Pieces(doc)) /\ chunked \in Nat
      /\ InOrder(sections) /\ \A i \in DOMAIN sections : IsSection(doc, sections[i])
  BY DEF ParseInv, ParseTypeOK, SectionsInv, File
<1>2. /\ chunked + 1 \in DOMAIN sections /\ s \in Pieces(doc) /\ chunked + 1 \in 0..Len(sections)
      /\ DueOf(doc, sections, chunked + 1) = DueOf(doc, sections, chunked) \union Due(doc, s)
      /\ LinesFrom(sections, chunked + 1) = s.lines \union LinesFrom(sections, chunked + 2)
      /\ \A p \in s.lines, q \in LinesFrom(sections, chunked + 2) : p < q
  BY <1>1, NextSection
<1>3. IsSection(doc, s) /\ C = Strip(doc, s.lines)
  BY <1>1, <1>2 DEF Content
<1>4. IsContent(doc, s, C)
  BY <1>1, <1>2, <1>3 DEF IsContent
<1>5. /\ IsRun(doc, C) /\ OpensOutside(doc, C) /\ C # {} /\ C \subseteq s.lines
      /\ Ink(doc, C) = Ink(doc, s.lines)
      /\ BlockEnds(doc, C) = {p \in C : doc[p] = "blank" /\ Scan(doc, 1)[p] = NoFence}
  BY <1>4, ContentRuns
<1>6. Due(doc, s) = IF Prose(doc, C) >= MinProse THEN Ink(doc, C) ELSE {}
  BY <1>3, <1>5 DEF Due
<1> QED BY <1>1, <1>2, <1>4, <1>5, <1>6 DEF IsRun

LEMMA LinesAreRead ==
  ASSUME ParseInv, ended, UNCHANGED lineVars
  PROVE  LinesInv' /\ SectionsInv'
BY DEF ParseInv, LinesInv, SectionsInv, lineVars

LEMMA SectionDropped ==
  ASSUME ParseInv, DropSection
  PROVE  ParseInv'
<1> DEFINE s == sections[chunked + 1]
           C == Content
<1>1. /\ ended /\ chunked < Len(sections) /\ rest = {} /\ buf = {}
      /\ chunked' = chunked + 1 /\ UNCHANGED <<lineVars, rest, buf, returned>>
      /\ UNCHANGED <<doc, fence, headings, current, sections, ended>>
  BY DEF DropSection, Takes, lineVars
<1>2. /\ chunked + 1 \in 0..Len(sections) /\ C \subseteq DOMAIN doc /\ File(doc)
      /\ DueOf(doc, sections, chunked + 1) = DueOf(doc, sections, chunked) \union Due(doc, s)
      /\ Due(doc, s) = IF Prose(doc, C) >= MinProse THEN Ink(doc, C) ELSE {}
      /\ LinesFrom(sections, chunked + 1) = s.lines \union LinesFrom(sections, chunked + 2)
  <2>1. File(doc)
    BY DEF ParseInv, ParseTypeOK, File
  <2> QED BY <1>1, <2>1, SectionTaken
<1>3. Due(doc, s) = {}
  <2>1. Prose(doc, C) \in Nat /\ MinProse \in Nat /\ Prose(doc, C) < MinProse
    BY <1>2, CountsOfText, ParseAssumption DEF DropSection
  <2>2. ~(Prose(doc, C) >= MinProse)
    BY <2>1
  <2> QED BY <1>2, <2>2
<1>4. ParseTypeOK'
  BY <1>1, <1>2 DEF ParseInv, ParseTypeOK
<1>5. LinesInv' /\ SectionsInv'
  BY <1>1, LinesAreRead
<1>6. SplitInv'
  BY <1>1 DEF SplitInv, Splits
<1>7. Passed' = Passed /\ Ahead' \subseteq Ahead
  <2>1. chunked \in Nat /\ (chunked + 1) + 1 = chunked + 2
    BY DEF ParseInv, ParseTypeOK
  <2> QED BY <1>1, <1>2, <1>3, <2>1 DEF Passed, Ahead, Splits
<1>8. ChunksInv'
  BY <1>1, <1>7, LessAhead DEF ParseInv, ChunksInv
<1> QED BY <1>4, <1>5, <1>6, <1>8 DEF ParseInv

LEMMA SectionKept ==
  ASSUME ParseInv, KeepSection
  PROVE  ParseInv'
<1> DEFINE s == sections[chunked + 1]
           C == Content
           c == [path |-> s.path, lines |-> Strip(doc, C)]
<1>1. /\ ended /\ chunked < Len(sections) /\ rest = {} /\ buf = {}
      /\ Prose(doc, C) >= MinProse /\ Tokens(doc, C) <= MaxTokens
      /\ returned' = Append(returned, c)
      /\ chunked' = chunked + 1 /\ UNCHANGED <<lineVars, rest, buf>>
      /\ UNCHANGED <<doc, fence, headings, current, sections, ended>>
  BY DEF KeepSection, Takes, lineVars, Return
<1>2. /\ chunked + 1 \in 0..Len(sections) /\ C \subseteq DOMAIN doc /\ File(doc) /\ IsContent(doc, s, C)
      /\ IsRun(doc, C) /\ OpensOutside(doc, C) /\ C \subseteq s.lines /\ Ink(doc, C) = Ink(doc, s.lines)
      /\ DueOf(doc, sections, chunked + 1) = DueOf(doc, sections, chunked) \union Due(doc, s)
      /\ Due(doc, s) = IF Prose(doc, C) >= MinProse THEN Ink(doc, C) ELSE {}
      /\ LinesFrom(sections, chunked + 1) = s.lines \union LinesFrom(sections, chunked + 2)
      /\ \A p \in C, q \in LinesFrom(sections, chunked + 2) : p < q
  <2>1. File(doc)
    BY DEF ParseInv, ParseTypeOK, File
  <2> QED BY <1>1, <2>1, SectionTaken
<1>3. IsPart(doc, C, C)
  <2>1. \A p \in C, q \in C : p \in Nat /\ q \in Nat
    <3>1. C \in SUBSET Nat
      BY <1>2, LinesOfARun
    <3> QED BY <3>1
  <2>2. \A p \in C : (\E q \in C : p < q) \/ \A q \in C : q <= p
    BY <2>1
  <2>3. ~(Tokens(doc, C) > MaxTokens)
    BY <1>1, <1>2, CountsOfText, ParseAssumption
  <2> QED BY <1>2, <2>2, <2>3 DEF IsPart
<1>4. Ink(doc, C) # {}
  BY <1>2 DEF IsContent, IsSection
<1>5. c \in Pieces(doc) /\ IsChunk(doc, c) /\ c.lines \subseteq C /\ Ink(doc, c.lines) = Ink(doc, C)
  BY <1>2, <1>3, <1>4, PartIsChunk
<1>6. /\ Passed' = Passed \union Ink(doc, c.lines)
      /\ Ahead = s.lines \union LinesFrom(sections, chunked + 2) /\ Ahead' = LinesFrom(sections, chunked + 2)
  <2>1. chunked \in Nat /\ (chunked + 1) + 1 = chunked + 2
    BY DEF ParseInv, ParseTypeOK
  <2> HIDE DEF c, C, s
  <2> QED BY <1>1, <1>2, <1>5, <2>1 DEF Passed, Ahead, Splits
<1>7. returned' \in Seq(Pieces(doc)) /\ ChunksInv'
  <2>1. returned \in Seq(Pieces(doc)) /\ Follow(doc, returned, Passed, Ahead)
    BY DEF ParseInv, ParseTypeOK, ChunksInv
  <2>2. c.lines \subseteq Ahead /\ Ahead' \subseteq Ahead /\ \A p \in c.lines, q \in Ahead' : p < q
    BY <1>2, <1>5, <1>6
  <2> HIDE DEF c, C, s
  <2>3. returned' \in Seq(Pieces(doc)) /\ Follow(doc, returned', Passed \union Ink(doc, c.lines), Ahead')
    BY <1>1, <1>5, <2>1, <2>2, OneChunkMore
  <2> QED BY <1>1, <1>6, <2>3 DEF ChunksInv
<1>8. ParseTypeOK'
  BY <1>1, <1>2, <1>7 DEF ParseInv, ParseTypeOK
<1>9. LinesInv' /\ SectionsInv'
  BY <1>1, LinesAreRead
<1>10. SplitInv'
  BY <1>1 DEF SplitInv, Splits
<1> QED BY <1>7, <1>8, <1>9, <1>10 DEF ParseInv

LEMMA SectionOpened ==
  ASSUME ParseInv, SplitSection
  PROVE  ParseInv'
<1> DEFINE s == sections[chunked + 1]
           C == Content
<1>1. /\ ended /\ chunked < Len(sections) /\ rest = {} /\ buf = {} /\ Prose(doc, C) >= MinProse
      /\ rest' = C /\ UNCHANGED <<lineVars, chunked, buf, returned>>
      /\ UNCHANGED <<doc, fence, headings, current, sections, ended>>
  BY DEF SplitSection, Takes, lineVars
<1>2. /\ C \subseteq DOMAIN doc /\ OpensOutside(doc, C) /\ C \subseteq s.lines /\ C # {}
      /\ LinesFrom(sections, chunked + 1) = s.lines \union LinesFrom(sections, chunked + 2)
  BY <1>1, SectionTaken
<1>3. Content' = C
  BY <1>1 DEF Content
<1>4. ParseTypeOK'
  BY <1>1, <1>2 DEF ParseInv, ParseTypeOK
<1>5. LinesInv' /\ SectionsInv'
  BY <1>1, LinesAreRead
<1>6. SplitInv'
  <2>1. IsEndOf(C, C) /\ IsPart(doc, {}, C)
    BY DEF IsEndOf, IsPart, OpensOutside
  <2>2. buf' = {} /\ rest' = C /\ buf' \union rest' = C
    BY <1>1
  <2> HIDE DEF C
  <2> QED BY <1>1, <1>2, <1>3, <2>1, <2>2 DEF SplitInv
<1>7. Passed' = Passed /\ Ahead' \subseteq Ahead
  <2>1. Splits' /\ ~Splits /\ buf' \union rest' = C
    BY <1>1, <1>2 DEF Splits
  <2>2. Ink(doc, C) \ C = {}
    BY DEF Ink
  <2> HIDE DEF C, s
  <2> QED BY <1>1, <1>2, <1>3, <2>1, <2>2 DEF Passed, Ahead
<1>8. ChunksInv'
  BY <1>1, <1>7, LessAhead DEF ParseInv, ChunksInv
<1> QED BY <1>4, <1>5, <1>6, <1>8 DEF ParseInv

\* What is gathered comes before what is left, and both are of the section.
LEMMA WhileSplitting ==
  ASSUME ParseInv, Splits, NEW s, s = sections[chunked + 1], NEW C, C = Content
  PROVE  /\ ended /\ chunked < Len(sections) /\ Prose(doc, C) >= MinProse
         /\ IsEndOf(rest, C) /\ IsEndOf(buf \union rest, C)
         /\ buf \intersect rest = {} /\ (buf = {} => rest = C)
         /\ OpensOutside(doc, rest) /\ IsPart(doc, buf, C)
         /\ buf \subseteq C /\ rest \subseteq C
         /\ \A p \in buf, q \in rest : p < q
         /\ \A p \in buf \union rest, q \in LinesFrom(sections, chunked + 2) : p < q
<1>1. /\ ended /\ chunked < Len(sections) /\ Prose(doc, C) >= MinProse
      /\ IsEndOf(rest, C) /\ IsEndOf(buf \union rest, C)
      /\ buf \intersect rest = {} /\ (buf = {} => rest = C)
      /\ OpensOutside(doc, rest) /\ IsPart(doc, buf, C)
  BY DEF ParseInv, SplitInv
<1>2. buf \subseteq C /\ rest \subseteq C
  BY <1>1 DEF IsEndOf
<1>3. IsRun(doc, C) /\ \A p \in C, q \in LinesFrom(sections, chunked + 2) : p < q
  BY <1>1, SectionTaken
<1>4. ASSUME NEW p \in buf, NEW q \in rest PROVE p < q
  <2>1. C \in SUBSET Nat
    BY <1>3, LinesOfARun
  <2>2. p \in Nat /\ q \in Nat /\ p # q /\ p \in C
    BY <1>1, <1>2, <2>1
  <2>3. ~(q < p)
    BY <1>1, <2>2 DEF IsEndOf
  <2> QED BY <2>2, <2>3
<1> QED BY <1>1, <1>2, <1>3, <1>4

LEMMA BlockGathered ==
  ASSUME ParseInv, Gather
  PROVE  ParseInv'
<1> DEFINE s == sections[chunked + 1]
           C == Content
           B == Block
           later == LinesFrom(sections, chunked + 2)
           c == [path |-> s.path, lines |-> Strip(doc, buf)]
<1>1. /\ rest # {} /\ rest' = rest \ B /\ UNCHANGED <<lineVars, chunked>>
      /\ UNCHANGED <<doc, fence, headings, current, sections, ended>>
      /\ Splits
  BY DEF Gather, lineVars, Splits
<1>2. /\ ended /\ chunked < Len(sections) /\ Prose(doc, C) >= MinProse
      /\ IsEndOf(rest, C) /\ IsEndOf(buf \union rest, C)
      /\ buf \intersect rest = {} /\ (buf = {} => rest = C)
      /\ OpensOutside(doc, rest) /\ IsPart(doc, buf, C)
      /\ buf \subseteq C /\ rest \subseteq C
      /\ \A p \in buf, q \in rest : p < q
      /\ \A p \in buf \union rest, q \in later : p < q
  BY <1>1, WhileSplitting
<1>3. /\ IsContent(doc, s, C) /\ IsRun(doc, C) /\ C \subseteq DOMAIN doc
      /\ BlockEnds(doc, C) = {p \in C : doc[p] = "blank" /\ Scan(doc, 1)[p] = NoFence}
  BY <1>2, SectionTaken
<1>4. B = NextBlock(doc, C, rest)
  BY DEF Block, NextBlock
<1> HIDE DEF C, B, s, later
<1>5. /\ B \subseteq rest /\ B # {} /\ IsPart(doc, B, C)
      /\ IsEndOf(rest \ B, C) /\ OpensOutside(doc, rest \ B)
      /\ \A p \in B, x \in rest : x < p => x \in B
      /\ \A p \in B, x \in rest \ B : p < x
  BY <1>1, <1>2, <1>3, <1>4, BlockIsPart
<1>6. LinesInv' /\ SectionsInv'
  BY <1>1, <1>2, LinesAreRead
<1>7. Content' = C
  BY <1>1 DEF Content, C
<1>8. Passed = DueOf(doc, sections, chunked) \union (Ink(doc, C) \ (buf \union rest))
      /\ Ahead = buf \union rest \union later
  BY <1>1 DEF Passed, Ahead, C, later
<1>9. ASSUME buf' \subseteq buf \union B, B \subseteq buf', IsPart(doc, buf', C),
             buf' = B \/ buf' = buf \union B
      PROVE  /\ SplitInv' /\ buf' \subseteq DOMAIN doc /\ rest' \subseteq DOMAIN doc
             /\ Passed' = DueOf(doc, sections, chunked) \union (Ink(doc, C) \ (buf' \union rest'))
             /\ Ahead' = buf' \union rest' \union later
  <2>1. Splits' /\ buf' \intersect rest' = {} /\ buf' # {} /\ buf' \subseteq C /\ rest' \subseteq C
    BY <1>1, <1>2, <1>5, <1>9 DEF Splits
  <2>2. IsEndOf(buf' \union rest', C)
    <3>1. buf' = B => buf' \union rest' = rest
      BY <1>1, <1>5
    <3>2. buf' = buf \union B => buf' \union rest' = buf \union rest
      BY <1>1, <1>5
    <3> QED BY <1>2, <1>9, <3>1, <3>2
  <2>3. SplitInv'
    BY <1>1, <1>2, <1>5, <1>7, <1>9, <2>1, <2>2 DEF SplitInv
  <2>4. Passed' = DueOf(doc, sections, chunked) \union (Ink(doc, C) \ (buf' \union rest'))
    BY <1>1, <1>7, <2>1 DEF Passed
  <2>5. Ahead' = buf' \union rest' \union later
    BY <1>1, <2>1 DEF Ahead, later
  <2> QED BY <1>3, <2>1, <2>3, <2>4, <2>5
<1>10. returned \in Seq(Pieces(doc)) /\ Follow(doc, returned, Passed, Ahead)
  BY DEF ParseInv, ParseTypeOK, ChunksInv
<1>11. CASE Ink(doc, buf) = {}
  <2>1. buf' = B /\ returned' = returned
    BY <1>11 DEF Gather, B
  <2>2. /\ SplitInv' /\ buf' \subseteq DOMAIN doc /\ rest' \subseteq DOMAIN doc
        /\ Passed' = DueOf(doc, sections, chunked) \union (Ink(doc, C) \ rest)
        /\ Ahead' = rest \union later
    <3>1. buf' \union rest' = rest
      BY <1>1, <1>5, <2>1
    <3> QED BY <1>5, <1>9, <2>1, <3>1
  <2>3. Ink(doc, C) \ rest = Ink(doc, C) \ (buf \union rest)
    BY <1>11 DEF Ink
  <2>4. ChunksInv'
    BY <1>1, <1>8, <1>10, <2>1, <2>2, <2>3, LessAhead DEF ChunksInv
  <2>5. ParseTypeOK'
    BY <1>1, <2>1, <2>2 DEF ParseInv, ParseTypeOK
  <2> QED BY <1>6, <2>2, <2>4, <2>5 DEF ParseInv
<1>12. CASE Ink(doc, buf) # {} /\ Tokens(doc, buf \union B) > MaxTokens
  <2>1. buf' = B /\ returned' = Append(returned, c)
    BY <1>12 DEF Gather, Return, B, s
  <2>2. /\ SplitInv' /\ buf' \subseteq DOMAIN doc /\ rest' \subseteq DOMAIN doc
        /\ Passed' = DueOf(doc, sections, chunked) \union (Ink(doc, C) \ rest)
        /\ Ahead' = rest \union later
    <3>1. buf' \union rest' = rest
      BY <1>1, <1>5, <2>1
    <3> QED BY <1>5, <1>9, <2>1, <3>1
  <2>3. c \in Pieces(doc) /\ IsChunk(doc, c) /\ c.lines \subseteq buf /\ Ink(doc, c.lines) = Ink(doc, buf)
    BY <1>2, <1>3, <1>12, PartIsChunk
  <2>4. Passed' = Passed \union Ink(doc, c.lines)
    <3>1. Ink(doc, C) \ rest = (Ink(doc, C) \ (buf \union rest)) \union Ink(doc, buf)
      BY <1>2 DEF Ink
    <3> HIDE DEF c
    <3> QED BY <1>8, <2>2, <2>3, <3>1
  <2> HIDE DEF c
  <2>5. c.lines \subseteq Ahead /\ Ahead' \subseteq Ahead /\ \A p \in c.lines, q \in Ahead' : p < q
    BY <1>2, <1>8, <2>2, <2>3
  <2>6. returned' \in Seq(Pieces(doc)) /\ Follow(doc, returned', Passed \union Ink(doc, c.lines), Ahead')
    BY <1>10, <2>1, <2>3, <2>5, OneChunkMore
  <2>7. ChunksInv'
    BY <1>1, <2>4, <2>6 DEF ChunksInv
  <2>8. ParseTypeOK'
    BY <1>1, <2>2, <2>6 DEF ParseInv, ParseTypeOK
  <2> QED BY <1>6, <2>2, <2>7, <2>8 DEF ParseInv
<1>13. CASE Ink(doc, buf) # {} /\ ~(Tokens(doc, buf \union B) > MaxTokens)
  <2>1. buf' = buf \union B /\ returned' = returned
    BY <1>13 DEF Gather, B
  <2>2. IsPart(doc, buf', C)
    <3>1. buf # {}
      BY <1>13 DEF Ink
    <3> QED BY <1>2, <1>3, <1>5, <1>13, <2>1, <3>1, PartGrows
  <2>3. /\ SplitInv' /\ buf' \subseteq DOMAIN doc /\ rest' \subseteq DOMAIN doc
        /\ Passed' = Passed /\ Ahead' = Ahead
    <3>1. buf' \union rest' = buf \union rest
      BY <1>1, <1>5, <2>1
    <3> QED BY <1>8, <1>9, <2>1, <2>2, <3>1
  <2>4. ChunksInv'
    BY <1>1, <1>10, <2>1, <2>3 DEF ChunksInv
  <2>5. ParseTypeOK'
    BY <1>1, <2>1, <2>3 DEF ParseInv, ParseTypeOK
  <2> QED BY <1>6, <2>3, <2>4, <2>5 DEF ParseInv
<1> QED BY <1>11, <1>12, <1>13

LEMMA SectionClosed ==
  ASSUME ParseInv, LastPart
  PROVE  ParseInv'
<1> DEFINE s == sections[chunked + 1]
           C == Content
           later == LinesFrom(sections, chunked + 2)
           c == [path |-> s.path, lines |-> Strip(doc, buf)]
<1>1. /\ rest = {} /\ buf # {} /\ buf' = {} /\ chunked' = chunked + 1 /\ UNCHANGED <<lineVars, rest>>
      /\ UNCHANGED <<doc, fence, headings, current, sections, ended>>
      /\ Splits /\ ~Splits'
  BY DEF LastPart, lineVars, Splits
<1>2. /\ ended /\ chunked < Len(sections) /\ Prose(doc, C) >= MinProse
      /\ IsPart(doc, buf, C) /\ buf \subseteq C
      /\ \A p \in buf, q \in later : p < q
  BY <1>1, WhileSplitting
<1>3. /\ IsContent(doc, s, C) /\ chunked + 1 \in 0..Len(sections)
      /\ DueOf(doc, sections, chunked + 1) = DueOf(doc, sections, chunked) \union Due(doc, s)
      /\ Due(doc, s) = Ink(doc, C)
  BY <1>2, SectionTaken
<1> HIDE DEF C, s, later
<1>4. LinesInv' /\ SectionsInv'
  BY <1>1, <1>2, LinesAreRead
<1>5. SplitInv'
  BY <1>1 DEF SplitInv
<1>6. Passed = DueOf(doc, sections, chunked) \union (Ink(doc, C) \ buf) /\ Ahead = buf \union later
  BY <1>1 DEF Passed, Ahead, C, later
<1>7. Passed' = DueOf(doc, sections, chunked) \union Ink(doc, C) /\ Ahead' = later
  <2>1. chunked \in Nat /\ (chunked + 1) + 1 = chunked + 2
    BY DEF ParseInv, ParseTypeOK
  <2> QED BY <1>1, <1>3, <2>1 DEF Passed, Ahead, later
<1>8. Ink(doc, C) = (Ink(doc, C) \ buf) \union Ink(doc, buf)
  BY <1>2 DEF Ink
<1>9. returned \in Seq(Pieces(doc)) /\ Follow(doc, returned, Passed, Ahead)
  BY DEF ParseInv, ParseTypeOK, ChunksInv
<1>10. CASE Ink(doc, buf) = {}
  <2>1. returned' = returned
    BY <1>10 DEF LastPart
  <2>2. ChunksInv'
    BY <1>1, <1>6, <1>7, <1>8, <1>9, <1>10, <2>1, LessAhead DEF ChunksInv
  <2>3. ParseTypeOK'
    BY <1>1, <1>3, <2>1 DEF ParseInv, ParseTypeOK
  <2> QED BY <1>4, <1>5, <2>2, <2>3 DEF ParseInv
<1>11. CASE Ink(doc, buf) # {}
  <2>1. returned' = Append(returned, c)
    BY <1>11 DEF LastPart, Return, s
  <2>2. c \in Pieces(doc) /\ IsChunk(doc, c) /\ c.lines \subseteq buf /\ Ink(doc, c.lines) = Ink(doc, buf)
    BY <1>2, <1>3, <1>11, PartIsChunk
  <2> HIDE DEF c
  <2>3. Passed' = Passed \union Ink(doc, c.lines)
    BY <1>6, <1>7, <1>8, <2>2
  <2>4. c.lines \subseteq Ahead /\ Ahead' \subseteq Ahead /\ \A p \in c.lines, q \in Ahead' : p < q
    BY <1>2, <1>6, <1>7, <2>2
  <2>5. returned' \in Seq(Pieces(doc)) /\ Follow(doc, returned', Passed \union Ink(doc, c.lines), Ahead')
    BY <1>9, <2>1, <2>2, <2>4, OneChunkMore
  <2>6. ChunksInv'
    BY <1>1, <2>3, <2>5 DEF ChunksInv
  <2>7. ParseTypeOK'
    BY <1>1, <1>3, <2>5 DEF ParseInv, ParseTypeOK
  <2> QED BY <1>4, <1>5, <2>6, <2>7 DEF ParseInv
<1> QED BY <1>10, <1>11

\* Before the last line nothing is chunked.
LEMMA NoChunkYet ==
  ASSUME NEW d, NEW texts, NEW ahead
  PROVE  Follow(d, <<>>, {}, ahead) /\ DueOf(d, texts, 0) = {}
<1>1. DOMAIN <<>> = {} /\ 1..0 = {}
  OBVIOUS
<1> QED BY <1>1 DEF Follow, Kept, InOrder, DueOf

\* flush leaves sections alone, in order, which hold every line that is not blank.
LEMMA FlushedSections ==
  ASSUME ParseInv, ~ended, NEW texts, texts = Flushed
  PROVE  /\ texts \in Seq(Pieces(doc)) /\ InOrder(texts)
         /\ \A i \in DOMAIN texts : IsSection(doc, texts[i])
         /\ \A p \in Ink(doc, DOMAIN doc) : \E i \in DOMAIN texts : p \in texts[i].lines
<1> DEFINE s == [path |-> HeadingPath, lines |-> current]
           n == Len(sections)
<1>1. /\ File(doc) /\ sections \in Seq(Pieces(doc)) /\ InOrder(sections)
      /\ \A i \in DOMAIN sections : IsSection(doc, sections[i]) /\ IsOver(doc, sections[i])
      /\ HeadingsStand(doc, headings) /\ current = OpenSection(doc)
      /\ \A p \in Ink(doc, DOMAIN doc) : p \in current \/ \E i \in DOMAIN sections : p \in sections[i].lines
  BY DEF ParseInv, ParseTypeOK, LinesInv, SectionsInv, File
<1>2. CASE Ink(doc, current) = {}
  <2>1. texts = sections /\ \A p \in Ink(doc, DOMAIN doc) : p \notin current
    BY <1>2 DEF Flushed, Ink
  <2> QED BY <1>1, <2>1
<1>3. CASE Ink(doc, current) # {}
  <2>1. s \in Pieces(doc) /\ IsSection(doc, s) /\ s.lines = current
    BY <1>1, <1>3, OpenIsSection DEF HeadingPath
  <2>2. texts = Append(sections, s)
    BY <1>3 DEF Flushed
  <2> HIDE DEF s
  <2>3. /\ texts \in Seq(Pieces(doc)) /\ n \in Nat /\ DOMAIN sections = 1..n /\ DOMAIN texts = 1..(n + 1)
        /\ \A i \in 1..n : texts[i] = sections[i]
        /\ texts[n + 1] = s
    BY <1>1, <2>1, <2>2
  <2> HIDE DEF n
  <2>4. DOMAIN texts = DOMAIN sections \union {n + 1}
    BY <2>3
  <2>5. \A i \in DOMAIN texts : IsSection(doc, texts[i])
    BY <1>1, <2>1, <2>3, <2>4
  <2>6. \A p \in Ink(doc, DOMAIN doc) : \E i \in DOMAIN texts : p \in texts[i].lines
    BY <1>1, <2>1, <2>3, <2>4
  <2>7. ASSUME NEW i \in DOMAIN sections, NEW p \in sections[i].lines, NEW q \in current PROVE p < q
    <3>1. PICK h \in HeadingLines(doc) : p < h
      BY <1>1 DEF IsOver
    <3>2. h <= q
      BY <1>1 DEF OpenSection
    <3>3. p \in DOMAIN doc /\ q \in DOMAIN doc /\ h \in DOMAIN doc
      <4>1. sections[i] \in Pieces(doc)
        BY <1>1
      <4> QED BY <1>1, <3>1, <4>1, FileTyped DEF OpenSection, Pieces
    <3>4. p \in Nat /\ q \in Nat /\ h \in Nat
      BY <1>1, <3>3, FileTyped
    <3> QED BY <3>1, <3>2, <3>4
  <2>8. ASSUME NEW i \in DOMAIN texts, NEW j \in DOMAIN texts, i < j,
               NEW p \in texts[i].lines, NEW q \in texts[j].lines
        PROVE  p < q
    <3>1. i \in DOMAIN sections /\ texts[i] = sections[i] /\ (j \in DOMAIN sections \/ j = n + 1)
      BY <2>3, <2>4, <2>8
    <3>2. CASE j \in DOMAIN sections
      <4>1. texts[j] = sections[j]
        BY <2>3, <3>2
      <4> QED BY <1>1, <2>8, <3>1, <3>2, <4>1 DEF InOrder
    <3>3. CASE j = n + 1
      BY <2>1, <2>3, <2>7, <3>1, <3>3
    <3> QED BY <3>1, <3>2, <3>3
  <2> QED BY <2>3, <2>5, <2>6, <2>8 DEF InOrder
<1> QED BY <1>2, <1>3

LEMMA SectionsOfMore ==
  ASSUME NEW d, NEW k, NEW e, IsNext(d, k, e), NEW texts \in Seq(Pieces(d)),
         \A i \in DOMAIN texts : IsSection(d, texts[i]) /\ (Starts(d, k) \/ IsOver(d, texts[i]))
  PROVE  /\ texts \in Seq(Pieces(e))
         /\ \A i \in DOMAIN texts : IsSection(e, texts[i]) /\ IsOver(e, texts[i])
<1>1. \A i \in DOMAIN texts : texts[i] \in Pieces(d)
  OBVIOUS
<1>2. \A i \in DOMAIN texts : texts[i] \in Pieces(e) /\ IsSection(e, texts[i]) /\ IsOver(e, texts[i])
  BY <1>1, SectionsStay
<1>3. texts \in Seq(Pieces(e))
  <2>1. Len(texts) \in Nat /\ DOMAIN texts = 1..Len(texts) /\ texts \in [1..Len(texts) -> Pieces(e)]
    BY <1>2
  <2> QED BY <2>1, SeqDef
<1> QED BY <1>2, <1>3

\* A line more, whether it is a heading or not.
LEMMA LineIsNext ==
  ASSUME ParseInv, NEW kind \in Kinds, Reads(kind)
  PROVE  /\ ~ended /\ IsNext(doc, kind, doc') /\ Len(doc') <= MaxLines
         /\ (IsHeading(kind) <=> Starts(doc, kind)) /\ fence = Scan(doc, 1)[Len(doc)]
         /\ headings \in [1..3 -> Int] /\ HeadingsStand(doc, headings) /\ current = OpenSection(doc)
         /\ chunked = 0 /\ rest = {} /\ buf = {} /\ returned = <<>>
         /\ doc' \in Seq(Kinds) /\ Len(doc') = Len(doc) + 1 /\ Len(doc) \in Nat
         /\ DOMAIN doc = 1..Len(doc) /\ DOMAIN doc' = 1..Len(doc') /\ DOMAIN doc' = DOMAIN doc \union {Len(doc')}
         /\ DOMAIN doc \subseteq Int
         /\ Ink(doc', DOMAIN doc') \subseteq Ink(doc, DOMAIN doc) \union {Len(doc')}
         /\ Scan(doc', 1)[Len(doc')] = FenceAfter(fence, kind)
         /\ FenceAfter(fence, kind) \in {NoFence} \union DOMAIN Fences
<1>1. /\ ~ended /\ Len(doc) < MaxLines /\ doc' = Append(doc, kind) /\ doc \in Seq(Kinds)
      /\ fence = Scan(doc, 1)[Len(doc)] /\ HeadingsStand(doc, headings) /\ current = OpenSection(doc)
      /\ chunked = 0 /\ rest = {} /\ buf = {} /\ returned = <<>>
      /\ headings \in [1..3 -> DOMAIN doc \union {NoHeading, Title}]
      /\ fence \in {NoFence} \union DOMAIN Fences
  BY DEF ParseInv, ParseTypeOK, LinesInv, Reads
<1>2. IsNext(doc, kind, doc') /\ (IsHeading(kind) <=> Starts(doc, kind))
  BY <1>1 DEF IsNext, File, IsHeading, Starts
<1>3. /\ doc' \in Seq(Kinds) /\ Len(doc') = Len(doc) + 1 /\ Len(doc) \in Nat
      /\ DOMAIN doc = 1..Len(doc) /\ DOMAIN doc' = 1..(Len(doc) + 1)
      /\ \A p \in DOMAIN doc : doc'[p] = doc[p]
      /\ Scan(doc', 1)[Len(doc) + 1] = FenceAfter(Scan(doc, 1)[Len(doc)], kind)
  BY <1>2, OneLineMore DEF File
<1>4. DOMAIN doc' = DOMAIN doc \union {Len(doc')} /\ DOMAIN doc \subseteq Int /\ Len(doc') <= MaxLines
  BY <1>1, <1>3, ParseAssumption
<1>5. headings \in [1..3 -> Int]
  <2>1. DOMAIN doc \union {NoHeading, Title} \subseteq Int
    BY <1>4 DEF NoHeading, Title
  <2> QED BY <1>1, <2>1
<1>6. Ink(doc', DOMAIN doc') \subseteq Ink(doc, DOMAIN doc) \union {Len(doc')}
  BY <1>3, <1>4 DEF Ink
<1>7. FenceAfter(fence, kind) \in {NoFence} \union DOMAIN Fences
  BY <1>1, FenceRules
<1> QED BY <1>1, <1>2, <1>3, <1>4, <1>5, <1>6, <1>7

\* While lines are read no chunk is there to speak of.
LEMMA IdleChunks ==
  ASSUME chunked' = 0, rest' = {}, buf' = {}, returned' = <<>>
  PROVE  SplitInv' /\ ChunksInv'
<1>1. ~Splits'
  BY DEF Splits
<1>2. SplitInv'
  BY <1>1 DEF SplitInv
<1>3. Passed' = {}
  BY <1>1, NoChunkYet DEF Passed
<1>4. ChunksInv'
  BY <1>3, NoChunkYet DEF ChunksInv
<1> QED BY <1>2, <1>4

LEMMA LineRead ==
  ASSUME ParseInv, NEW kind \in Kinds, ReadLine(kind)
  PROVE  ParseInv'
<1>1. /\ Reads(kind) /\ ~IsHeading(kind) /\ fence' = FenceAfter(fence, kind)
      /\ current' = current \union {Len(doc')}
      /\ UNCHANGED <<headings, sections, ended, chunked, rest, buf, returned>>
  BY DEF ReadLine
<1>2. /\ ~ended /\ IsNext(doc, kind, doc') /\ Len(doc') <= MaxLines
      /\ (IsHeading(kind) <=> Starts(doc, kind)) /\ fence = Scan(doc, 1)[Len(doc)]
      /\ headings \in [1..3 -> Int] /\ HeadingsStand(doc, headings) /\ current = OpenSection(doc)
      /\ chunked = 0 /\ rest = {} /\ buf = {} /\ returned = <<>>
      /\ doc' \in Seq(Kinds) /\ Len(doc') = Len(doc) + 1 /\ Len(doc) \in Nat
      /\ DOMAIN doc = 1..Len(doc) /\ DOMAIN doc' = 1..Len(doc') /\ DOMAIN doc' = DOMAIN doc \union {Len(doc')}
      /\ DOMAIN doc \subseteq Int
      /\ Ink(doc', DOMAIN doc') \subseteq Ink(doc, DOMAIN doc) \union {Len(doc')}
      /\ Scan(doc', 1)[Len(doc')] = FenceAfter(fence, kind)
      /\ FenceAfter(fence, kind) \in {NoFence} \union DOMAIN Fences
  BY <1>1, LineIsNext
<1>3. HeadingsStand(doc', headings) /\ OpenSection(doc') = OpenSection(doc) \union {Len(doc')}
  BY <1>1, <1>2, HeadingsStay
<1>4. sections \in Seq(Pieces(doc')) /\ \A i \in DOMAIN sections : IsSection(doc', sections[i]) /\ IsOver(doc', sections[i])
  <2>1. /\ sections \in Seq(Pieces(doc))
        /\ \A i \in DOMAIN sections : IsSection(doc, sections[i]) /\ IsOver(doc, sections[i])
    BY <1>2 DEF ParseInv, ParseTypeOK, LinesInv, SectionsInv
  <2> QED BY <1>2, <2>1, SectionsOfMore
<1>5. ParseTypeOK'
  <2>1. headings \in [1..3 -> DOMAIN doc' \union {NoHeading, Title}] /\ current \subseteq DOMAIN doc
        /\ chunked \in 0..Len(sections)
    BY <1>2 DEF ParseInv, ParseTypeOK
  <2>2. returned' \in Seq(Pieces(doc'))
    BY <1>1, <1>2
  <2> QED BY <1>1, <1>2, <1>4, <2>1, <2>2 DEF ParseInv, ParseTypeOK
<1>6. LinesInv'
  BY <1>1, <1>2, <1>3, <1>4 DEF LinesInv
<1>7. SectionsInv'
  <2>1. InOrder(sections) /\ \A p \in Ink(doc, DOMAIN doc) : p \in current \/ \E i \in DOMAIN sections : p \in sections[i].lines
    BY DEF ParseInv, SectionsInv
  <2> QED BY <1>1, <1>2, <1>4, <2>1 DEF SectionsInv
<1>8. SplitInv' /\ ChunksInv'
  BY <1>1, <1>2, IdleChunks
<1> QED BY <1>5, <1>6, <1>7, <1>8 DEF ParseInv

LEMMA HeadingRead ==
  ASSUME ParseInv, NEW kind \in Kinds, ReadHeading(kind)
  PROVE  ParseInv'
<1>1. /\ Reads(kind) /\ IsHeading(kind) /\ sections' = Flushed
      /\ headings' = [l \in 1..3 |->
           IF l < Levels[kind] THEN headings[l]
           ELSE IF l = Levels[kind] /\ kind \notin Untitled THEN Len(doc') ELSE NoHeading]
      /\ current' = {Len(doc')}
      /\ UNCHANGED <<fence, ended, chunked, rest, buf, returned>>
  BY DEF ReadHeading
<1>2. /\ ~ended /\ IsNext(doc, kind, doc') /\ Len(doc') <= MaxLines
      /\ (IsHeading(kind) <=> Starts(doc, kind)) /\ fence = Scan(doc, 1)[Len(doc)]
      /\ headings \in [1..3 -> Int] /\ HeadingsStand(doc, headings) /\ current = OpenSection(doc)
      /\ chunked = 0 /\ rest = {} /\ buf = {} /\ returned = <<>>
      /\ doc' \in Seq(Kinds) /\ Len(doc') = Len(doc) + 1 /\ Len(doc) \in Nat
      /\ DOMAIN doc = 1..Len(doc) /\ DOMAIN doc' = 1..Len(doc') /\ DOMAIN doc' = DOMAIN doc \union {Len(doc')}
      /\ DOMAIN doc \subseteq Int
      /\ Ink(doc', DOMAIN doc') \subseteq Ink(doc, DOMAIN doc) \union {Len(doc')}
      /\ Scan(doc', 1)[Len(doc')] = FenceAfter(fence, kind)
      /\ FenceAfter(fence, kind) \in {NoFence} \union DOMAIN Fences
  BY <1>1, LineIsNext
<1>3. HeadingsStand(doc', headings') /\ OpenSection(doc') = {Len(doc')}
  BY <1>1, <1>2, HeadingsMove
<1>4. /\ Flushed \in Seq(Pieces(doc)) /\ InOrder(Flushed)
      /\ \A i \in DOMAIN Flushed : IsSection(doc, Flushed[i])
      /\ \A p \in Ink(doc, DOMAIN doc) : \E i \in DOMAIN Flushed : p \in Flushed[i].lines
  BY <1>2, FlushedSections
<1>5. /\ sections' \in Seq(Pieces(doc'))
      /\ \A i \in DOMAIN sections' : IsSection(doc', sections'[i]) /\ IsOver(doc', sections'[i])
  BY <1>1, <1>2, <1>4, SectionsOfMore
<1>6. fence' = Scan(doc', 1)[Len(doc')]
  <2>1. FenceAfter(fence, kind) = fence
    BY <1>1, FenceRules DEF IsHeading
  <2> QED BY <1>1, <1>2, <2>1
<1>7. ParseTypeOK'
  <2>1. headings \in [1..3 -> DOMAIN doc \union {NoHeading, Title}] /\ ended \in BOOLEAN
        /\ fence \in {NoFence} \union DOMAIN Fences
    BY DEF ParseInv, ParseTypeOK
  <2>2. headings' \in [1..3 -> DOMAIN doc' \union {NoHeading, Title}]
    <3>1. Len(doc') \in DOMAIN doc' /\ DOMAIN doc \subseteq DOMAIN doc'
      BY <1>2
    <3> QED BY <1>1, <2>1, <3>1
  <2>3. returned' \in Seq(Pieces(doc')) /\ chunked' \in 0..Len(sections')
    BY <1>1, <1>2, <1>5
  <2>4. {current', rest', buf'} \subseteq SUBSET DOMAIN doc'
    BY <1>1, <1>2
  <2> QED BY <1>1, <1>2, <1>5, <2>1, <2>2, <2>3, <2>4 DEF ParseTypeOK
<1>8. LinesInv'
  BY <1>1, <1>2, <1>3, <1>5, <1>6 DEF LinesInv
<1>9. SectionsInv'
  BY <1>1, <1>2, <1>4, <1>5 DEF SectionsInv
<1>10. SplitInv' /\ ChunksInv'
  BY <1>1, <1>2, IdleChunks
<1> QED BY <1>7, <1>8, <1>9, <1>10 DEF ParseInv

LEMMA FileEnded ==
  ASSUME ParseInv, EndOfFile
  PROVE  ParseInv'
<1>1. /\ ~ended /\ ended' = TRUE /\ sections' = Flushed /\ current' = {}
      /\ UNCHANGED <<doc, fence, headings, chunked, rest, buf, returned>>
  BY DEF EndOfFile
<1>2. chunked = 0 /\ rest = {} /\ buf = {} /\ returned = <<>>
  BY <1>1 DEF ParseInv, LinesInv
<1>3. /\ Flushed \in Seq(Pieces(doc)) /\ InOrder(Flushed)
      /\ \A i \in DOMAIN Flushed : IsSection(doc, Flushed[i])
      /\ \A p \in Ink(doc, DOMAIN doc) : \E i \in DOMAIN Flushed : p \in Flushed[i].lines
  BY <1>1, FlushedSections
<1>4. ParseTypeOK'
  <2>1. chunked' \in 0..Len(sections')
    BY <1>1, <1>2, <1>3
  <2> QED BY <1>1, <1>3, <2>1 DEF ParseInv, ParseTypeOK
<1>5. LinesInv' /\ SectionsInv'
  BY <1>1, <1>3 DEF LinesInv, SectionsInv
<1>6. SplitInv' /\ ChunksInv'
  BY <1>1, <1>2, IdleChunks
<1> QED BY <1>4, <1>5, <1>6 DEF ParseInv

LEMMA ParseStarts ==
  ASSUME ParseInit
  PROVE  ParseInv
<1>1. /\ doc = <<>> /\ fence = NoFence /\ current = {} /\ sections = <<>> /\ ended = FALSE
      /\ chunked = 0 /\ rest = {} /\ buf = {} /\ returned = <<>>
  BY DEF ParseInit
<1>2. doc \in Seq(Kinds) /\ Len(doc) = 0 /\ DOMAIN doc = {} /\ DOMAIN sections = {} /\ Len(sections) = 0
      /\ sections \in Seq(Pieces(doc)) /\ returned \in Seq(Pieces(doc))
  BY <1>1
<1>3. PICK t \in {NoHeading, Title} : headings = <<t, NoHeading, NoHeading>>
  BY DEF ParseInit
<1>4. headings \in [1..3 -> {NoHeading, Title}] /\ headings[2] = NoHeading /\ headings[3] = NoHeading
  BY <1>3
<1>5. HeadingLines(doc) = {} /\ InForce(doc, Len(doc)) = {} /\ OpenSection(doc) = {} /\ Ink(doc, DOMAIN doc) = {}
  BY <1>2 DEF HeadingLines, InForce, OpenSection, Ink
<1>6. HeadingsStand(doc, headings)
  BY <1>4, <1>5 DEF HeadingsStand, Titled, NoHeading, Title
<1>7. Scan(doc, 1)[Len(doc)] = NoFence
  <2>1. Len(doc) \in Nat /\ 1 \in Nat \ {0} /\ 0 \in 0..Len(doc) /\ 0 < 1
    BY <1>2
  <2>2. \A p \in 0..Len(doc) : p < 1 => Scan(doc, 1)[p] = NoFence
    BY <2>1, Scanned
  <2>3. Scan(doc, 1)[0] = NoFence
    BY <2>1, <2>2
  <2> QED BY <1>2, <2>3
<1>8. ParseTypeOK
  <2>1. Len(doc) <= MaxLines /\ chunked \in 0..Len(sections) /\ ended \in BOOLEAN
    <3>1. MaxLines \in Nat
      BY ParseAssumption
    <3>2. 0 <= MaxLines /\ Len(doc) <= MaxLines
      BY <1>2, <3>1
    <3>3. chunked \in 0..Len(sections)
      BY <1>1, <1>2
    <3>4. ended \in BOOLEAN
      BY <1>1
    <3> QED BY <3>2, <3>3, <3>4
  <2>2. headings \in [1..3 -> DOMAIN doc \union {NoHeading, Title}]
    BY <1>2, <1>4
  <2>3. {current, rest, buf} \subseteq SUBSET DOMAIN doc /\ fence \in {NoFence} \union DOMAIN Fences
    BY <1>1
  <2> QED BY <1>2, <2>1, <2>2, <2>3 DEF ParseTypeOK
<1>9. LinesInv
  BY <1>1, <1>2, <1>5, <1>6, <1>7 DEF LinesInv
<1>10. SectionsInv
  BY <1>1, <1>2, <1>5 DEF SectionsInv, InOrder
<1>11. SplitInv /\ ChunksInv
  <2>1. ~Splits
    BY <1>1 DEF Splits
  <2> QED BY <1>1, <2>1, NoChunkYet DEF SplitInv, ChunksInv, Passed
<1> QED BY <1>8, <1>9, <1>10, <1>11 DEF ParseInv

LEMMA ParseStep ==
  ASSUME ParseInv, [ParseNext]_parseVars
  PROVE  ParseInv'
<1>1. CASE \E kind \in Kinds : ReadLine(kind)
  BY <1>1, LineRead
<1>2. CASE \E kind \in Kinds : ReadHeading(kind)
  BY <1>2, HeadingRead
<1>3. CASE EndOfFile
  BY <1>3, FileEnded
<1>4. CASE DropSection
  BY <1>4, SectionDropped
<1>5. CASE KeepSection
  BY <1>5, SectionKept
<1>6. CASE SplitSection
  BY <1>6, SectionOpened
<1>7. CASE Gather
  BY <1>7, BlockGathered
<1>8. CASE LastPart
  BY <1>8, SectionClosed
<1>9. CASE UNCHANGED parseVars
  <2>1. UNCHANGED <<doc, fence, headings, current, sections, ended, chunked, rest, buf, returned>>
    BY <1>9 DEF parseVars, lineVars
  <2> QED BY <2>1 DEF ParseInv, ParseTypeOK, LinesInv, SectionsInv, SplitInv, ChunksInv, Passed, Ahead, Splits, Content
<1> QED BY <1>1, <1>2, <1>3, <1>4, <1>5, <1>6, <1>7, <1>8, <1>9 DEF ParseNext

LEMMA ParsedWell ==
  ASSUME ParseInv
  PROVE  ChunksFollowTheOutline
<1> SUFFICES ASSUME ended, chunked = Len(sections)
             PROVE  /\ \A i \in DOMAIN returned :
                         FenceIsWhole(doc, returned[i].lines) /\ PathIsInForce(doc, returned[i])
                    /\ NoLineIsLost(doc, returned)
  BY DEF ChunksFollowTheOutline
<1>1. /\ File(doc) /\ sections \in Seq(Pieces(doc)) /\ chunked \in Nat
      /\ \A i \in DOMAIN sections : IsSection(doc, sections[i])
      /\ \A p \in Ink(doc, DOMAIN doc) : \E i \in DOMAIN sections : p \in sections[i].lines
      /\ Follow(doc, returned, Passed, Ahead)
  BY DEF ParseInv, ParseTypeOK, LinesInv, SectionsInv, ChunksInv, File
<1>2. ~Splits
  <2>1. Splits => chunked < Len(sections)
    BY DEF ParseInv, SplitInv
  <2> QED BY <1>1, <2>1
<1>3. DOMAIN sections = 1..chunked
  BY <1>1
<1>4. Passed = UNION {Due(doc, sections[i]) : i \in DOMAIN sections}
  BY <1>2, <1>3 DEF Passed, DueOf
<1>5. \A i \in DOMAIN sections :
        Due(doc, sections[i]) = IF Prose(doc, sections[i].lines) >= MinProse THEN Ink(doc, sections[i].lines) ELSE {}
  <2> TAKE i \in DOMAIN sections
  <2>1. sections[i] \in Pieces(doc)
    BY <1>1
  <2>2. IsContent(doc, sections[i], Strip(doc, sections[i].lines))
    BY <1>1, <2>1 DEF IsContent
  <2>3. Prose(doc, Strip(doc, sections[i].lines)) = Prose(doc, sections[i].lines)
    BY <2>2, ContentRuns
  <2> QED BY <2>3 DEF Due
<1>6. \A i \in DOMAIN sections : \A p \in sections[i].lines : p \in DOMAIN doc /\ sections[i].lines = SectionOf(doc, p)
  <2> TAKE i \in DOMAIN sections
  <2>1. sections[i] \in Pieces(doc)
    BY <1>1
  <2> QED BY <1>1, <2>1 DEF IsSection, Pieces
<1>7. Passed = {p \in Ink(doc, DOMAIN doc) : Prose(doc, SectionOf(doc, p)) >= MinProse}
  <2>1. ASSUME NEW p \in Passed PROVE p \in Ink(doc, DOMAIN doc) /\ Prose(doc, SectionOf(doc, p)) >= MinProse
    <3>1. PICK i \in DOMAIN sections : p \in Due(doc, sections[i])
      BY <1>4
    <3>2. p \in Ink(doc, sections[i].lines) /\ Prose(doc, sections[i].lines) >= MinProse
      BY <1>5, <3>1
    <3> QED BY <1>6, <3>2 DEF Ink
  <2>2. ASSUME NEW p \in Ink(doc, DOMAIN doc), Prose(doc, SectionOf(doc, p)) >= MinProse PROVE p \in Passed
    <3>1. PICK i \in DOMAIN sections : p \in sections[i].lines
      BY <1>1
    <3>2. p \in Ink(doc, sections[i].lines) /\ Prose(doc, sections[i].lines) >= MinProse
      BY <1>6, <2>2, <3>1 DEF Ink
    <3> QED BY <1>4, <1>5, <3>2
  <2> QED BY <2>1, <2>2
<1>8. NoLineIsLost(doc, returned)
  <2>1. UNION {Ink(doc, returned[i].lines) : i \in DOMAIN returned} =
          {p \in Ink(doc, DOMAIN doc) : Prose(doc, SectionOf(doc, p)) >= MinProse}
    BY <1>1, <1>7 DEF Follow, Kept
  <2>2. InOrder(returned) /\ \A i \in DOMAIN returned : IsChunk(doc, returned[i])
    BY <1>1 DEF Follow
  <2>3. \A i \in DOMAIN returned : \A p, q \in returned[i].lines : p..q \subseteq returned[i].lines
    BY <2>2 DEF IsChunk
  <2>4. \A i, j \in DOMAIN returned : i < j => \A p \in returned[i].lines, q \in returned[j].lines : p < q
    BY <2>2 DEF InOrder
  <2> QED BY <2>1, <2>3, <2>4 DEF NoLineIsLost
<1> QED BY <1>1, <1>8 DEF Follow, IsChunk

LEMMA ParseInvariant == ParseSpec => []ParseInv
<1>1. ParseInit => ParseInv
  BY ParseStarts
<1>2. ParseInv /\ [ParseNext]_parseVars => ParseInv'
  BY ParseStep
<1> QED BY <1>1, <1>2, PTL DEF ParseSpec

\* What parse_file keeps of a file is of that file: every text it holds is a
\* set of lines it has read, under headings it has read.
THEOREM ParseTyped == ParseSpec => []ParseTypeOK
<1>1. ParseInv => ParseTypeOK
  BY DEF ParseInv
<1> QED BY <1>1, ParseInvariant, PTL

\* For every sequence of lines, and whatever the token limit and the least prose
\* are, what parse_file returns are the sections worth keeping, whole or split
\* outside every fence, each line once and in order, under the headings in force.
THEOREM OutlineIsFollowed == ParseSpec => []ChunksFollowTheOutline
<1>1. ParseInv => ChunksFollowTheOutline
  BY ParsedWell
<1> QED BY <1>1, ParseInvariant, PTL
==============================================================================
