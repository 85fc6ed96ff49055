----------------------------- MODULE PrGate_proofs -----------------------------
(***************************************************************************)
(* No pull request, of any number of them, is made green by the run of its *)
(* own event while it changes the score-affecting files, whatever those    *)
(* files may contain and whatever lands on main, is run by hand or is      *)
(* published in between.                                                   *)
(***************************************************************************)
EXTENDS PrGate, TLAPS

\* The verdict file stays typed under a step of DailyVerdict.
LEMMA LatestTyped == LatestOK /\ [Next]_latest => LatestOK'
<1> SUFFICES ASSUME LatestOK, [Next]_latest PROVE LatestOK'
  OBVIOUS
<1> USE VerdictAssumption DEF LatestOK, Verdict
<1>1. CASE Truncate
  BY <1>1 DEF Truncate
<1>2. CASE Write
  BY <1>2 DEF Write
<1>3. CASE Age
  BY <1>3 DEF Age, Older
<1>4. CASE UNCHANGED latest
  BY <1>4
<1> QED BY <1>1, <1>2, <1>3, <1>4 DEF Next

\* The invariant under proof says more than the property: what a pull request that
\* its event made green has at its head is its base itself. A push may leave fork,
\* head and base related in any way, and takes the conclusion back.
GreenHasBase(r) == r.check = "green" /\ r.event = "pull_request" => r.head = r.base
GreenIsBase == \A p \in PRs : GreenHasBase(pr[p])

Inv == PrTypeOK /\ GreenIsBase

LEMMA InitInv == PrInit => Inv
<1> SUFFICES ASSUME PrInit PROVE Inv
  OBVIOUS
<1>1. LatestOK
  BY VerdictAssumption DEF PrInit, Init, NoLatest, LatestOK, Verdict
<1>2. pr \in [PRs -> PullRequest] /\ \A p \in PRs : pr[p].check = "none"
  BY DEF PrInit
<1> QED BY <1>1, <1>2 DEF PrInit, Inv, PrTypeOK, GreenIsBase, GreenHasBase

\* What a step of one pull request has to show.
LEMMA OneChanges ==
  ASSUME Inv, NEW p \in PRs, NEW r \in PullRequest, GreenHasBase(r),
         pr' = [pr EXCEPT ![p] = r], UNCHANGED <<latest, main>>
  PROVE  Inv'
<1>1. LatestOK' /\ main' \in Contents
  BY DEF Inv, PrTypeOK, LatestOK
<1>2. pr' \in [PRs -> PullRequest]
  BY DEF Inv, PrTypeOK
<1>3. GreenIsBase'
  BY DEF Inv, PrTypeOK, GreenIsBase
<1> QED BY <1>1, <1>2, <1>3 DEF Inv, PrTypeOK

LEMMA Inductive == Inv /\ [PrNext]_vars => Inv'
<1> SUFFICES ASSUME Inv, [PrNext]_vars PROVE Inv'
  OBVIOUS
<1> USE PrAssumption
<1>1. ASSUME NEW p \in PRs, NEW e \in Events, RunWorkflow(p, e) PROVE Inv'
  <2> DEFINE r == [pr[p] EXCEPT !.check = IF InstrumentJob(p) /\ FreshnessJob /\ EscalateJob(p, e)
                                          THEN "green" ELSE "red",
                                !.event = e]
  <2>1. r \in PullRequest /\ GreenHasBase(r)
    BY DEF Inv, PrTypeOK, PullRequest, EscalateJob, GreenHasBase
  <2>2. pr' = [pr EXCEPT ![p] = r] /\ UNCHANGED <<latest, main>>
    BY <1>1 DEF RunWorkflow, Concludes
  <2> QED BY <2>1, <2>2, OneChanges
<1>2. ASSUME NEW p \in PRs, NEW e \in Events, Unreachable(p, e) PROVE Inv'
  <2> DEFINE r == [pr[p] EXCEPT !.check = "red", !.event = e]
  <2>1. r \in PullRequest /\ GreenHasBase(r)
    BY DEF Inv, PrTypeOK, PullRequest, GreenHasBase
  <2>2. pr' = [pr EXCEPT ![p] = r] /\ UNCHANGED <<latest, main>>
    BY <1>2 DEF Unreachable, Concludes
  <2> QED BY <2>1, <2>2, OneChanges
<1>3. ASSUME NEW p \in PRs, Push(p) PROVE Inv'
  <2>1. PICK f \in {pr[p].fork, main}, h \in Contents, i \in BOOLEAN :
          pr' = [pr EXCEPT ![p] = [fork |-> f, head |-> h, base |-> main, intact |-> i,
                                   commits |-> @.commits + 1, covered |-> FALSE,
                                   check |-> "none", event |-> "pull_request"]]
    BY <1>3 DEF Push
  <2> DEFINE r == [fork |-> f, head |-> h, base |-> main, intact |-> i,
                   commits |-> pr[p].commits + 1, covered |-> FALSE, check |-> "none",
                   event |-> "pull_request"]
  <2>2. pr[p].commits + 1 \in 1..MaxCommits
    BY <1>3 DEF Push, Inv, PrTypeOK, PullRequest
  <2>3. r \in PullRequest /\ GreenHasBase(r)
    BY <2>2 DEF Inv, PrTypeOK, PullRequest, GreenHasBase, Events
  <2>4. pr' = [pr EXCEPT ![p] = r] /\ UNCHANGED <<latest, main>>
    BY <1>3, <2>1 DEF Push
  <2> QED BY <2>3, <2>4, OneChanges
<1>4. ASSUME NEW p \in PRs, PublishFullRun(p) PROVE Inv'
  <2> DEFINE r == [pr[p] EXCEPT !.covered = TRUE]
  <2>1. r \in PullRequest /\ GreenHasBase(r)
    BY DEF Inv, PrTypeOK, GreenIsBase, GreenHasBase, PullRequest
  <2>2. pr' = [pr EXCEPT ![p] = r] /\ UNCHANGED <<latest, main>>
    BY <1>4 DEF PublishFullRun
  <2> QED BY <2>1, <2>2, OneChanges
<1>5. CASE MainMoves
  BY <1>5 DEF MainMoves, Inv, PrTypeOK, LatestOK, GreenIsBase
<1>6. CASE DailyStep
  BY <1>6, LatestTyped DEF DailyStep, Inv, PrTypeOK, GreenIsBase
<1>7. CASE UNCHANGED vars
  BY <1>7 DEF vars, Inv, PrTypeOK, LatestOK, GreenIsBase
<1> QED BY <1>1, <1>2, <1>3, <1>4, <1>5, <1>6, <1>7 DEF PrNext

\* Every variable keeps its type: the verdict file that is read, the tip of main
\* and the pull requests.
THEOREM PrTyped == PrSpec => []PrTypeOK
<1>1. Inv => PrTypeOK
  BY DEF Inv
<1> QED BY <1>1, InitInv, Inductive, PTL DEF PrSpec

\* Job escalate, where its filter runs: whatever is pushed, run again, run by hand
\* or published, a pull request that the run of a pull_request event left green
\* changes none of the score-affecting files of the base that event names.
\* (Nothing is said of a run by hand: NoGreenOnScoreChange is refuted by one.)
THEOREM EventRunsLeaveScores == PrSpec => []EventRunsEscalate
<1>1. Inv => EventRunsEscalate
  BY DEF Inv, GreenIsBase, GreenHasBase, EventRunsEscalate, Merged
<1> QED BY <1>1, InitInv, Inductive, PTL DEF PrSpec
==============================================================================
