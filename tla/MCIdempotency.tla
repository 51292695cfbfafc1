--------------------------- MODULE MCIdempotency ---------------------------
(***************************************************************************)
(* Idempotency with a handful of requests.  Requests are interchangeable:  *)
(* only equality is ever applied to them.                                  *)
(***************************************************************************)
EXTENDS Idempotency, TLC

RequestSymmetry == Permutations(Request)

=============================================================================
