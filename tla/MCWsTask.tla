------------------------------ MODULE MCWsTask ------------------------------
(***************************************************************************)
(* WsTask on small instances.                                              *)
(***************************************************************************)
EXTENDS WsTask
=============================================================================
