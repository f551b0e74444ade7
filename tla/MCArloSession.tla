--------------------------- MODULE MCArloSession ---------------------------
(* Small instances of ArloSession: the callers are interchangeable.         *)
EXTENDS ArloSession, TLC

CallerSymmetry == Permutations(Callers)
=============================================================================
