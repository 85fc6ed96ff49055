----------------------------- MODULE MemoryStore -----------------------------
(***************************************************************************)
(* The store of the API kept in dictionaries (MemoryStore of store.py),    *)
(* behind handlers that run in a thread pool: a write is one step, and     *)
(* promote, which looks the run up and then writes the baseline, is two,   *)
(* since another thread may run in between.  It is what PostgresStore      *)
(* promises to be ("Both must behave identically"): EvalApi is shown to    *)
(* implement it, with the same suites, runs and baselines.                 *)
(***************************************************************************)
CONSTANTS
  Branches,     \* the (suite, branch) pairs baselines are kept for
  Rules,    \* contents a suite may be registered with
  RunIds,
  Posts,    \* the bodies clients post under a run_id
  Clients,  \* requests in flight at a time
  None      \* no such key

VARIABLES
  suites,    \* suite_id -> Suite
  runs,      \* run_id -> RunResult
  baselines, \* (suite_id, branch) -> Baseline
  promoting  \* of each request, the baseline its promote is about to write

tables == <<suites, runs, baselines>>
storeVars == <<tables, promoting>>

StoreInit ==
  /\ suites = [s \in {k.suite : k \in Branches} |-> None]
  /\ runs = [r \in RunIds |-> None]
  /\ baselines = [k \in Branches |-> None]
  /\ promoting = [c \in Clients |-> None]

PutSuite(s, body) ==
  /\ suites' = [suites EXCEPT ![s] = body]
  /\ UNCHANGED <<runs, baselines, promoting>>

\* A run of an unknown suite is refused (404); one of a known run_id replaces it.
StoreRun(r, body) ==
  /\ suites[body.suite] # None
  /\ runs' = [runs EXCEPT ![r] = body]
  /\ UNCHANGED <<suites, baselines, promoting>>

\* KeyError (404) for an unknown run, ValueError (400) for one of another suite.
LookUp(c, k, r) ==
  /\ promoting[c] = None
  /\ runs[r] # None /\ runs[r].suite = k.suite
  /\ promoting' = [promoting EXCEPT ![c] = [key |-> k, run |-> r, score |-> runs[r].content]]
  /\ UNCHANGED tables

\* The baseline is written ...
SetBaseline(c) ==
  /\ promoting[c] # None
  /\ baselines' = [baselines EXCEPT ![promoting[c].key] =
                     [run |-> promoting[c].run, score |-> promoting[c].score]]
  /\ promoting' = [promoting EXCEPT ![c] = None]
  /\ UNCHANGED <<suites, runs>>

\* ... or the request is gone before, and has written nothing.
Abandon(c) ==
  /\ promoting[c] # None
  /\ promoting' = [promoting EXCEPT ![c] = None]
  /\ UNCHANGED tables

StoreNext ==
  \/ \E s \in DOMAIN suites, body \in Rules : PutSuite(s, body)
  \/ \E r \in RunIds : \E body \in Posts[r] : StoreRun(r, body)
  \/ \E c \in Clients :
       \/ \E k \in Branches, r \in RunIds : LookUp(c, k, r)
       \/ SetBaseline(c) \/ Abandon(c)

StoreSpec == StoreInit /\ [][StoreNext]_storeVars
==============================================================================
