-------------------------------- MODULE PrGate --------------------------------
(***************************************************************************)
(* The pull-request workflow eval-gate.yml over the daily verdict.  It     *)
(* runs no model: job instrument checks the commit, job freshness fetches  *)
(* GET /daily/latest and runs check-daily, job escalate looks for changes  *)
(* of score-affecting files.  It is run by the event of a pull request, or *)
(* by hand on its branch (workflow_dispatch); both report the same checks  *)
(* on the same head commit, and the last report counts.  DailyVerdict is   *)
(* the environment it reads.                                               *)
(*                                                                         *)
(* The contents of SCORE_AFFECTING_PATHS are one value.  Pull requests do  *)
(* not interact, so one shows what any number of them do.                  *)
(***************************************************************************)
EXTENDS DailyVerdict

CONSTANTS
  PRs,          \* pull requests
  Contents,     \* contents of the score-affecting files
  MaxCommits    \* bound: commits pushed to one pull request

ASSUME PrAssumption == MaxCommits \in Nat \ {0}

VARIABLES
  main,   \* the score-affecting files at the tip of the base branch
  pr

vars == <<latest, main, pr>>

(* fork, head: the score-affecting files at the commit the branch left main *)
(* at and at its head; base: at the tip of main when the head was pushed    *)
(* (github.event.pull_request.base); intact: lint, tests and the suite      *)
(* build pass; covered: a full run against the head has been published.     *)
(* event: what started the run that check is the conclusion of.             *)
Events == {"pull_request", "workflow_dispatch"}

PullRequest == [fork: Contents, head: Contents, base: Contents, intact: BOOLEAN,
                commits: 1..MaxCommits, covered: BOOLEAN,
                check: {"none", "green", "red"}, event: Events]

PrTypeOK == LatestOK /\ main \in Contents /\ pr \in [PRs -> PullRequest]

PrInit ==
  /\ Init
  /\ main \in Contents
  /\ pr \in [PRs -> {r \in PullRequest : /\ r.base = main /\ r.commits = 1
                                         /\ ~r.covered /\ r.check = "none"
                                         /\ r.event = "pull_request"}]

InstrumentJob(p) == pr[p].intact
FreshnessJob == Allows(latest)

\* Mutant: a change is diffed once, when the pull request is opened.
EscalateJobOnce(p, e) == e # "pull_request" \/ pr[p].head = pr[p].base \/ pr[p].commits > 1
\* Mutant: grep -q outside the if ends the step when nothing matches.
EscalateJobSetE(p, e) == FALSE

\* git diff base head names no score-affecting file; without the event of a pull
\* request the filter step is skipped, and there are no hits.
EscalateJob(p, e) == e # "pull_request" \/ pr[p].head = pr[p].base

Concludes(p, e, c) == pr' = [pr EXCEPT ![p].check = c, ![p].event = e]

\* The three jobs are required checks: all of them, or the merge is blocked.
\* A re-run reads the same event, and so the same base.
RunWorkflow(p, e) ==
  /\ Concludes(p, e, IF InstrumentJob(p) /\ FreshnessJob /\ EscalateJob(p, e)
                     THEN "green" ELSE "red")
  /\ UNCHANGED <<latest, main>>

\* EVALGATE_DAILY_URL is unset, or does not answer 200 within 30 s.
Unreachable(p, e) == Concludes(p, e, "red") /\ UNCHANGED <<latest, main>>

\* A push, perhaps after merging main, cancels the run in progress and starts
\* from nothing.
Push(p) ==
  /\ pr[p].commits < MaxCommits
  /\ \E f \in {pr[p].fork, main}, h \in Contents, i \in BOOLEAN :
       pr' = [pr EXCEPT ![p] = [fork |-> f, head |-> h, base |-> main, intact |-> i,
                                commits |-> @.commits + 1, covered |-> FALSE,
                                check |-> "none", event |-> "pull_request"]]
  /\ UNCHANGED <<latest, main>>

\* Outside the code: "a human runs the suite against the PR head, the verdict
\* is published".
PublishFullRun(p) ==
  /\ pr' = [pr EXCEPT ![p].covered = TRUE]
  /\ UNCHANGED <<latest, main>>

\* Outside the code: another change of the score-affecting files lands on main.
MainMoves == main' \in Contents \ {main} /\ UNCHANGED <<latest, pr>>

DailyStep == Next /\ UNCHANGED <<main, pr>>

PrNext ==
  \/ DailyStep \/ MainMoves
  \/ \E p \in PRs : \/ \E e \in Events : RunWorkflow(p, e) \/ Unreachable(p, e)
                    \/ Push(p) \/ PublishFullRun(p)

\* A blocked pull request is run again, and the runner reaches the API sooner
\* or later.
PrFairness ==
  \A p \in PRs : SF_vars(RunWorkflow(p, "pull_request") /\ pr[p].check # "green" /\ FreshnessJob)

PrSpec == PrInit /\ [][PrNext]_vars /\ PrFairness

(***************************************************************************)
(* Properties.                                                             *)
(***************************************************************************)
\* What merging the pull request leaves in the score-affecting files of the
\* branch it was checked against.
Merged(r) == IF r.head = r.fork THEN r.base ELSE r.head

\* The run of a pull_request event escalates: whatever is pushed, run again, run
\* by hand or published in between, where it is what made the pull request green,
\* merging leaves the files that move every score as they are on the base that
\* event names.  (Main may have moved on since: the next event names another.)
EventRunsEscalate ==
  \A p \in PRs :
    pr[p].check = "green" /\ pr[p].event = "pull_request" => Merged(pr[p]) = pr[p].base

\* eval-gate.yml:44-45, of the score-affecting files: "A PR touching any of them
\* cannot be gated on a daily run that predates it": green is never the state of
\* a pull request that changes them and that no full run covers.
NoGreenOnScoreChange ==
  \A p \in PRs : pr[p].check = "green" => pr[p].covered \/ Merged(pr[p]) = pr[p].base

\* A pull request that is up to date, intact and leaves the score-affecting
\* files alone is not blocked for good by verdicts that keep coming back good.
Clean(r) == r.intact /\ r.head = r.fork /\ r.fork = r.base
CleanPrGoesGreen ==
  \A p \in PRs :
    ([]<>FreshnessJob /\ <>[]Clean(pr[p])) => <>(pr[p].check = "green")

\* eval-gate.yml:251: what escalate blocks is a pull request that "changes files
\* that move every score".
EscalatesOwnChangesOnly ==
  [][\A p \in PRs :
       (RunWorkflow(p, "pull_request") /\ InstrumentJob(p) /\ FreshnessJob /\ pr'[p].check = "red")
         => pr[p].head # pr[p].fork]_vars
==============================================================================
