---------------------------- MODULE MCMgmtBridge ----------------------------
(* Instances of MgmtBridge for TLC: the processes are named after the      *)
(* command they run; ports next to each other, as a fleet numbers them.    *)
EXTENDS MgmtBridge

MCPort == [p \in Procs |-> IF p = "gen1" THEN 2222 ELSE 2223]
MCKind == [p \in Procs |-> IF p = "run1" THEN "run" ELSE "gen"]
=============================================================================
