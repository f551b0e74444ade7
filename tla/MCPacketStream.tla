--------------------------- MODULE MCPacketStream ---------------------------
(* A small instance of PacketStream: varints of up to two ternary digits,  *)
(* two events, one of which needs both and looks like headers inside.      *)
EXTENDS PacketStream

MCEventBodies == {<<2>>, <<3, 1, 2>>}
=============================================================================
