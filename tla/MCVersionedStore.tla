-------------------------- MODULE MCVersionedStore --------------------------
(* VersionedStore and its log for TLC. *)
EXTENDS VersionedLog
=============================================================================
