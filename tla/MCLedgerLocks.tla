---------------------------- MODULE MCLedgerLocks ----------------------------
(***************************************************************************)
(* LedgerLocks with two requests at work.  Rows are numbers because locks  *)
(* are taken in primary-key order; documents and requests are              *)
(* interchangeable.                                                        *)
(***************************************************************************)
EXTENDS LedgerLocks, TLC

CONSTANTS w1, w2, d1, d2

(* Every invoice is customer 1's, for 1. *)
InvoiceBuyers == [i \in Invoice |-> 1]
InvoiceTotals == [i \in Invoice |-> 1]

LocksSymmetry == Permutations({w1, w2}) \cup Permutations(Document)

=============================================================================
