------------------------------- MODULE MCPrGate -------------------------------
(* Small instance of PrGate: one pull request, two contents of the files.     *)
EXTENDS PrGate
==============================================================================
