-------------------------------- MODULE MCGates --------------------------------
(* Small instances of the two gates of a pull request, the one the API serves  *)
(* and the workflow eval-gate.yml. They share no state and no process with     *)
(* each other: one of them runs, the other stays at its initial state.         *)
EXTENDS MCEvalApi, PrGate

VARIABLE component   \* the one that runs

(* Where the workflow stays, it does so at one of its initial states.          *)
GatesInit ==
  /\ component \in {"eval_api", "pr_gate"} /\ ApiInit /\ PrInit
  /\ component = "eval_api" =>
       /\ main = CHOOSE f \in Contents : TRUE
       /\ \A p \in PRs : pr[p].fork = main /\ pr[p].head = main /\ pr[p].intact

GatesNext ==
  /\ UNCHANGED component
  /\ IF component = "eval_api" THEN ApiNext ELSE UNCHANGED apiVars
  /\ IF component = "pr_gate" THEN PrNext ELSE UNCHANGED vars

(* The workflow's fairness asks nothing of it while there is no daily verdict. *)
GatesSpec == GatesInit /\ [][GatesNext]_<<component, apiVars, vars>> /\ PrFairness
==============================================================================
