----------------------------- MODULE MCModeSync -----------------------------
(* Small instances of ModeSync.  Nothing tells two commands or two standard *)
(* modes apart.                                                            *)
EXTENDS ModeSync, TLC

CONSTANTS
  l1, l2,
  Last   \* how far Arlo counts for one location, while the others stay put

MCStartModes == {[l \in Locations |-> m] : m \in Modes}

StaysPut == CHOOSE r \in StartRevisions : \A s \in StartRevisions : s <= r

MCLastRevisions ==
  {[l \in Locations |-> IF l = changing THEN Last ELSE StaysPut] :
     changing \in Locations}

Interchangeable == Permutations(Setters) \union Permutations(Standard)
=============================================================================
