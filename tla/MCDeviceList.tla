--------------------------- MODULE MCDeviceList ---------------------------
(***************************************************************************)
(* DeviceList on small instances.                                          *)
(***************************************************************************)
EXTENDS DeviceList, TLC

Symmetry == Permutations(Conn)
=============================================================================
