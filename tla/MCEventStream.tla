--------------------------- MODULE MCEventStream ---------------------------
(* Small instances of EventStream.  Streams and reconnect tasks are          *)
(* interchangeable; Main and None are not.                                   *)
EXTENDS EventStream, TLC

Identities == Permutations(Streams) \union Permutations(Tasks)
=============================================================================
