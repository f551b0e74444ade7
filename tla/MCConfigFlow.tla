---------------------------- MODULE MCConfigFlow ----------------------------
(* A small instance of ConfigFlow: two dialogs that may be open together.  *)
EXTENDS ConfigFlow, TLC

CONSTANTS d1, d2, p1, p2

MCFlows == {d1, d2}
MCPasswords == {p1, p2}

\* No property is about the end of a behaviour, and nothing orders dialogs or
\* passwords.
Symmetric == Permutations(MCFlows) \union Permutations(MCPasswords)
=============================================================================
