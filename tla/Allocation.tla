------------------------------ MODULE Allocation ------------------------------
(***************************************************************************)
(* The share of questions each repository gets: clamped_shares, which      *)
(* clamps the worst violator of the band and shares what is left again,    *)
(* and allocate, which rounds the shares to whole calls. Shares are exact, *)
(* in hundredths; the code's 1e-9 stands for the rounding of floats.       *)
(***************************************************************************)
EXTENDS Integers, FiniteSets, Functions

CONSTANTS
  Repositories,    \* numbers, in the order of their names
  Weights,         \* numbers of chunks tried, for repositories that have any
  Totals,          \* calls to be shared out
  MinShare, MaxShare   \* REPO_MIN_SHARE and REPO_MAX_SHARE, in hundredths

ASSUME AllocationAssumption ==
  /\ IsFiniteSet(Repositories) /\ Repositories \subseteq Nat
  /\ Weights \subseteq Nat \ {0} /\ Totals \subseteq Nat
  /\ MinShare \in 0..100 /\ MaxShare \in MinShare..100

VARIABLES
  asked,       \* the weights and the total allocate is called with
  fixed,       \* the shares clamped so far
  counts,      \* the result, empty until it is there
  phase        \* "idle", "clamp" or "done"

allocationVars == <<asked, fixed, counts, phase>>

NoShares == [k \in {} |-> 0]

AllocationInit ==
  /\ asked = [weights |-> NoShares, total |-> 0]
  /\ fixed = NoShares /\ counts = NoShares /\ phase = "idle"

\* The repositories that have chunks; a band they cannot fill is refused.
Ask ==
  /\ phase = "idle"
  /\ \E S \in SUBSET Repositories, t \in Totals : \E w \in [S -> Weights] :
       /\ S # {} /\ MinShare * Cardinality(S) <= 100 /\ MaxShare * Cardinality(S) >= 100
       /\ asked' = [weights |-> w, total |-> t]
  /\ phase' = "clamp" /\ UNCHANGED <<fixed, counts>>

Free == DOMAIN asked.weights \ DOMAIN fixed
Budget == 100 - SumFunction(fixed)
Pool == IF Free = {} THEN 1 ELSE SumFunction([k \in Free |-> asked.weights[k]])

\* How far the share of k is out of the band, in hundredths of 1/Pool.
Above(k) == Budget * asked.weights[k] - MaxShare * Pool
Below(k) == MinShare * Pool - Budget * asked.weights[k]
Excess(k) == IF Above(k) > Below(k) THEN Above(k) ELSE Below(k)

\* Mutant: every violator is clamped at once.
ClampAll ==
  /\ phase = "clamp" /\ \E k \in Free : Excess(k) > 0
  /\ LET out == {k \in Free : Excess(k) > 0}
     IN  fixed' = [x \in DOMAIN fixed \union out |->
                     IF x \notin out THEN fixed[x]
                     ELSE IF Above(x) > 0 THEN MaxShare ELSE MinShare]
  /\ UNCHANGED <<asked, counts, phase>>

\* The worst one is clamped; which of two equals depends on the order of a set.
Clamp ==
  /\ phase = "clamp"
  /\ \E k \in Free :
       /\ Excess(k) > 0 /\ \A j \in Free : Excess(j) <= Excess(k)
       /\ fixed' = [x \in DOMAIN fixed \union {k} |->
                      IF x # k THEN fixed[x] ELSE IF Above(k) > 0 THEN MaxShare ELSE MinShare]
  /\ UNCHANGED <<asked, counts, phase>>

\* Of k's count, in parts of 100 * Pool: the whole calls and what is left over.
Parts(k) == (IF k \in Free THEN Budget * asked.weights[k] ELSE fixed[k] * Pool) * asked.total
Whole == 100 * Pool

\* Who gets a leftover call first: the largest remainder, then the name.
Sooner(j, k) ==
  \/ Parts(j) % Whole > Parts(k) % Whole
  \/ Parts(j) % Whole = Parts(k) % Whole /\ j < k

Round ==
  /\ phase = "clamp" /\ \A k \in Free : Excess(k) <= 0
  /\ LET S == DOMAIN asked.weights
         short == asked.total - SumFunction([k \in S |-> Parts(k) \div Whole])
     IN  counts' = [k \in S |-> (Parts(k) \div Whole)
                      + (IF Cardinality({j \in S : Sooner(j, k)}) < short THEN 1 ELSE 0)]
  /\ phase' = "done" /\ UNCHANGED <<asked, fixed>>

AllocationNext == Ask \/ Clamp \/ Round

AllocationSpec == AllocationInit /\ [][AllocationNext]_allocationVars

(***************************************************************************)
(* Properties.                                                             *)
(***************************************************************************)
\* What is clamped is at one end of the band, and what is counted was asked for.
AllocationTypeOK ==
  /\ DOMAIN asked = {"weights", "total"} /\ asked.total \in Totals \union {0}
  /\ DOMAIN asked.weights \subseteq Repositories
  /\ asked.weights \in [DOMAIN asked.weights -> Weights]
  /\ DOMAIN fixed \subseteq DOMAIN asked.weights
  /\ fixed \in [DOMAIN fixed -> {MinShare, MaxShare}]
  /\ counts \in [IF phase = "done" THEN DOMAIN asked.weights ELSE {} -> Nat]
  /\ phase \in {"idle", "clamp", "done"}

\* "Integer counts summing to exactly total", each share inside the band, and
\* no repository with more chunks gets fewer calls than one with less, but for
\* the one call that rounding hands out by name: clamping one violator after
\* another never fixes so much that the rest cannot fill the band.
SharesAreFair ==
  phase = "done" =>
    LET S == DOMAIN counts IN
    /\ SumFunction(counts) = asked.total
    /\ \A k \in S :
         /\ (counts[k] + 1) * 100 > MinShare * asked.total
         /\ (counts[k] - 1) * 100 < MaxShare * asked.total
    /\ \A j, k \in S : asked.weights[j] > asked.weights[k] => counts[j] + 1 >= counts[k]
==============================================================================
