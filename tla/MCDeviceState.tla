--------------------------- MODULE MCDeviceState ---------------------------
(* A small instance of DeviceState.                                         *)
EXTENDS DeviceState
=============================================================================
