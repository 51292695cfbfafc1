------------------------------ MODULE MCBilling ------------------------------
(***************************************************************************)
(* Billing with a contract and the one that renews it, a lift and a fault. *)
(* Two runs may overlap, and so may a run and an edit.                     *)
(***************************************************************************)
EXTENDS Billing, TLC

CONSTANTS l1, f1, g1, g2, r1

OnTheLift == [f \in Fault |-> l1]

OnTheFirstDay == [f \in Fault |-> 1]

(* A flat fee, a price per lift nobody has entered, no VAT rate. *)
Contracts ==
  {[status |-> "active", start |-> 1, end |-> 3, terminated |-> Null,
    flat |-> flat, fee |-> IF flat THEN 1 ELSE Null, vat |-> vat] :
     <<flat, vat>> \in {<<TRUE, TRUE>>, <<FALSE, TRUE>>, <<TRUE, FALSE>>}}

BillingSymmetry == Permutations(Run)

=============================================================================
