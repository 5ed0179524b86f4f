-------------------------- MODULE MCCachedBackend --------------------------
(* CachedBackend for TLC: three prompts with distinct hashes. *)
EXTENDS CachedBackend, TLC

CONSTANTS p1, p2, p3

MCKey == p1 :> 1 @@ p2 :> 2 @@ p3 :> 3
=============================================================================
