------------------------------ MODULE MCHedged ------------------------------
(* Model checking of Hedged; candidates are ordered, so no symmetry. *)
EXTENDS Hedged
=============================================================================
