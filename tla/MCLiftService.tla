---------------------------- MODULE MCLiftService ----------------------------
(* Two calls at once on a lift whose contract changed its scope.           *)
EXTENDS LiftService, TLC

Scopes(before, after) ==
  {[scope |-> before, status |-> "renewed", added |-> 1, removed |-> 2, start |-> 1, end |-> 2],
   [scope |-> after, status |-> "active", added |-> 2, removed |-> None, start |-> 2, end |-> 9]}

ChangedScope == Scopes("maintenance_and_repair", "full_coverage")

RequestSymmetry == Permutations(Request)
==============================================================================
