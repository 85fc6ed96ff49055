----------------------------- MODULE MCDailyGate -----------------------------
(* Small instance of DailyGate: one unit is eight hours.                      *)
EXTENDS DailyGate
==============================================================================
