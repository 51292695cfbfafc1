------------------------------ MODULE MCReports ------------------------------
(* One customer and month over two days with one failure or crash: two       *)
(* contacts, two schedulers, and one upload or request of the office beside  *)
(* the two days' runs, which may overlap.  No symmetry: liveness is checked. *)
EXTENDS Reports

CONSTANTS u1, u2, k1, c1, c2, s1, s2, o1

=============================================================================
