------------------------------- MODULE MCWsHub -------------------------------
(***************************************************************************)
(* Instance of WsHub for TLC.                                              *)
(***************************************************************************)
EXTENDS WsHub
=============================================================================
