---------------------------- MODULE MCDeviceKey ----------------------------
(***************************************************************************)
(* DeviceKey on small instances.                                           *)
(***************************************************************************)
EXTENDS DeviceKey
=============================================================================
