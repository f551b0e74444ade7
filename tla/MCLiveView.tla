---------------------------- MODULE MCLiveView ----------------------------
(* Small instances of LiveView.  The constants are model values given in   *)
(* the cfg; the identities of sessions and Streams are picked with CHOOSE, *)
(* so only the viewers are interchangeable.                                *)
EXTENDS LiveView, TLC

ViewerSymmetry == Permutations(Viewers)
=============================================================================
