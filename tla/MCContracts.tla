----------------------------- MODULE MCContracts -----------------------------
(***************************************************************************)
(* Contracts on small instances.  Contracts, lifts and requests are each   *)
(* interchangeable.                                                        *)
(***************************************************************************)
EXTENDS Contracts, TLC

ContractsSymmetry == Permutations(Contract) \cup Permutations(Lift)

=============================================================================
