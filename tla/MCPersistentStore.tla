------------------------- MODULE MCPersistentStore -------------------------
(* PersistentStore for TLC: the call slots are interchangeable, and so are *)
(* the activity ids.                                                       *)
EXTENDS PersistentStore, TLC

MCSymmetry == Permutations(Calls) \cup Permutations(Activities)
=============================================================================
