---------------------------- MODULE EventChannel ----------------------------
(***************************************************************************)
(* What an event stream promises its handlers: within a session every event *)
(* the broker sent is handled once, in the order it was sent; the events   *)
(* still under way when a session ends are lost with it.                   *)
(***************************************************************************)
EXTENDS Naturals, Sequences

CONSTANT Events   \* what a broker may send

VARIABLES
  sent,      \* the events of this session, in order
  handled    \* those a handler has been called with, in order

vars == <<sent, handled>>

Init == sent = <<>> /\ handled = <<>>

Send(e) ==
  /\ sent' = Append(sent, e)
  /\ UNCHANGED handled

Deliver ==
  /\ Len(handled) < Len(sent)
  /\ handled' = Append(handled, sent[Len(handled) + 1])
  /\ UNCHANGED sent

NewSession == sent' = <<>> /\ handled' = <<>>

Next == (\E e \in Events : Send(e)) \/ Deliver \/ NewSession

Spec == Init /\ [][Next]_vars
=============================================================================
