------------------------------ MODULE MCLedger ------------------------------
(***************************************************************************)
(* LedgerApi on small books.  Totals and buyers are functions, so they are    *)
(* given here and named by the configurations.                             *)
(***************************************************************************)
EXTENDS LedgerApi, TLC

CONSTANTS a1, a2, c1, c2, i1, i2, i3, d1, d2, d3

(* One customer with an invoice for 2, one for 1 and one for nothing. *)
InvoiceBuyers == [i \in Invoice |-> a1]
InvoiceTotals == [i \in Invoice |-> CASE i = i1 -> 2 [] i = i2 -> 1 [] OTHER -> 0]

(* Accounts, tills and documents are interchangeable. *)
LedgerSymmetry ==
  Permutations(Account) \cup Permutations(CashAccount) \cup Permutations(Document)

=============================================================================
