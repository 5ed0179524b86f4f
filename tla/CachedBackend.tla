---------------------------- MODULE CachedBackend ----------------------------
(***************************************************************************)
(* atomr-ontology-extract: CachedBackend, a response cache in front of an  *)
(* inference Backend.                                                      *)
(*                                                                         *)
(* complete() looks the prompt up under the cache lock, releases the lock, *)
(* awaits the inner backend, and takes the lock again to evict and insert: *)
(* callers that miss the same prompt at the same time all insert it.       *)
(* batch_complete and stream_complete are not overridden: their defaults   *)
(* call self.complete(), a batch once per prompt and concurrently, so a    *)
(* batch is several callers here.                                          *)
(***************************************************************************)
EXTENDS Naturals, Sequences, FiniteSets

CONSTANTS
    Callers,    \* outstanding complete() calls on the shared backend
    Prompts,
    Key,        \* Key[p]: the 64-bit hash of system, user and max_tokens
    Policies,   \* the policies a backend may be built with
    Capacity,   \* of CachePolicy::Lru
    NoCall,
    MaxRaces    \* bound on races

ASSUME PoliciesAssumption == Policies \subseteq {"None", "ContentAddressed", "Lru"}
ASSUME CapacityAssumption == Capacity \in Nat
ASSUME NoCallAssumption == NoCall \notin Prompts
ASSUME KeyAssumption == Key \in [Prompts -> Nat]
ASSUME MaxRacesAssumption == MaxRaces \in Nat

VARIABLES
    policy,     \* the CachePolicy; never changes
    cached,     \* the keys of the response map; what it answers is left out
    lru_order,  \* keys in the order they were inserted
    call,       \* caller -> prompt it awaits the inner backend for
    races       \* history: insertions that found their key cached already

vars == <<policy, cached, lru_order, call, races>>

Init ==
    /\ policy \in Policies
    /\ cached = {}
    /\ lru_order = <<>>
    /\ call = [c \in Callers |-> NoCall]
    /\ races = 0

----------------------------------------------------------------------------
\* complete(), first half: a miss releases the lock and awaits the inner
\* backend.  Policy None never looks.
Miss(c, p) ==
    /\ call[c] = NoCall
    /\ policy = "None" \/ Key[p] \notin cached
    /\ call' = [call EXCEPT ![c] = p]
    /\ UNCHANGED <<policy, cached, lru_order, races>>

\* complete(): a hit returns the cached text and changes nothing; lru_order
\* is left alone, so eviction is first-in first-out.
Hit(c, p) ==
    /\ call[c] = NoCall
    /\ policy # "None" /\ Key[p] \in cached
    /\ UNCHANGED vars

\* Mutant: evict only once the cache is over its capacity.
MustEvictLate == policy = "Lru" /\ Cardinality(cached) > Capacity /\ lru_order # <<>>

\* What insertion evicts: the key inserted longest ago, once Capacity
\* entries are cached.
MustEvict == policy = "Lru" /\ Cardinality(cached) >= Capacity /\ lru_order # <<>>

Kept == IF MustEvict THEN cached \ {Head(lru_order)} ELSE cached

KeptOrder == IF MustEvict THEN Tail(lru_order) ELSE lru_order

\* Mutant: a key that is cached by now is not put into lru_order, though
\* the eviction may just have taken it out.
InsertOnce(c, k) ==
    /\ call[c] # NoCall /\ k = Key[call[c]]
    /\ k \in cached => races < MaxRaces
    /\ cached' = Kept \cup {k}
    /\ lru_order' = IF policy = "Lru" /\ k \notin cached
                    THEN Append(KeptOrder, k) ELSE KeptOrder
    /\ call' = [call EXCEPT ![c] = NoCall]
    /\ UNCHANGED <<policy, races>>

\* complete(), second half: the inner backend answered; evict and insert,
\* even if another caller has inserted the key meanwhile.
Insert(c, k) ==
    /\ call[c] # NoCall /\ k = Key[call[c]]
    /\ k \in cached => races < MaxRaces
    /\ cached' = IF policy = "None" THEN cached ELSE Kept \cup {k}
    /\ lru_order' = IF policy = "Lru" THEN Append(KeptOrder, k) ELSE lru_order
    /\ call' = [call EXCEPT ![c] = NoCall]
    /\ races' = IF k \in cached THEN races + 1 ELSE races
    /\ UNCHANGED policy

\* The inner backend failed, or the caller dropped the future: nothing is
\* cached.
Fail(c) ==
    /\ call[c] # NoCall
    /\ call' = [call EXCEPT ![c] = NoCall]
    /\ UNCHANGED <<policy, cached, lru_order, races>>

Keys == {Key[p] : p \in Prompts}

Next ==
    \E c \in Callers :
        \/ \E p \in Prompts : Hit(c, p) \/ Miss(c, p)
        \/ \E k \in Keys : Insert(c, k)
        \/ Fail(c)

Spec == Init /\ [][Next]_vars

----------------------------------------------------------------------------
(* Properties. *)

(***************************************************************************)
(* Every key an Lru cache holds is in lru_order, so complete() will evict  *)
(* it some time: however callers race, no response is cached for ever.     *)
(***************************************************************************)
CachedIsEvictable ==
    policy = "Lru" => \A k \in cached : \E i \in 1..Len(lru_order) : lru_order[i] = k

(***************************************************************************)
(* What races cost an Lru cache: a response that arrives for a key another *)
(* caller has cached meanwhile is put into lru_order a second time, and    *)
(* the stale occurrence later makes one eviction free nothing.  Each such  *)
(* race lets complete() keep at most one response over Capacity, and       *)
(* without races it never keeps more than Capacity.                        *)
(***************************************************************************)
OverCapacityOnlyByRaces ==
    policy = "Lru" /\ Capacity > 0 => Cardinality(cached) <= Capacity + races
=============================================================================
