---------------------------- MODULE MCDetection ----------------------------
(* A small instance of Detection: two sensors of one camera.               *)
EXTENDS Detection

CONSTANTS Person, Vehicle, k1, k2, k3, k4

MCCategories == {Person, Vehicle}
MCKeys == {k1, k2, k3, k4}
=============================================================================
