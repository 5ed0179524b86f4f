---------------------------- MODULE MCRemoteStore ----------------------------
(* RemoteStore for TLC. *)
EXTENDS RemoteStore
=============================================================================
