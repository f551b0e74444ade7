---------------------------- MODULE MCSupplement ----------------------------
(* A small instance of Supplement.  Liveness is checked, so no symmetry.    *)
EXTENDS Supplement
=============================================================================
