-------------------------- MODULE MCMaintenancePlan --------------------------
(* Two lifts, two months and the one after.                                *)
EXTENDS MaintenancePlan, TLC

MaintenanceSymmetry == Permutations(Request) \cup Permutations(Lift)
==============================================================================
