------------------------- MODULE CachedBackendProofs -------------------------
(* Proofs about the response cache, for every set of callers and prompts,    *)
(* every hash function, collisions included, every policy and capacity:      *)
(* racing insertions never leave a response that eviction cannot reach, and  *)
(* each is worth at most one response over the capacity.                     *)
EXTENDS CachedBackend, FiniteSetTheorems, TLAPS

TypeOK ==
    /\ policy \in Policies
    /\ cached \subseteq Nat
    /\ IsFiniteSet(cached)
    /\ lru_order \in Seq(Nat)
    /\ call \in [Callers -> Prompts \cup {NoCall}]
    /\ races \in Nat

----------------------------------------------------------------------------
(* The inductive invariant. *)

\* The order is longer than the number of keys cached only by what races put
\* into it twice, and longer than the capacity by no more either: an
\* eviction that meets a stale occurrence uses up what one race left.
OrderPaysForRaces ==
    policy = "Lru" /\ Capacity > 0 =>
        /\ Len(lru_order) <= Cardinality(cached) + races
        /\ Len(lru_order) <= Capacity + races

----------------------------------------------------------------------------
(* What complete() does to the cached keys. *)

\* What eviction leaves of the keys and of their order.
LEMMA Eviction ==
    ASSUME TypeOK
    PROVE  /\ Kept \subseteq cached
           /\ KeptOrder \in Seq(Nat)
           /\ MustEvict => /\ Kept = cached \ {lru_order[1]}
                           /\ Len(KeptOrder) = Len(lru_order) - 1
                           /\ \A i \in 1..Len(KeptOrder) : KeptOrder[i] = lru_order[i + 1]
           /\ ~MustEvict => Kept = cached /\ KeptOrder = lru_order
<1>1. CASE MustEvict
  <2>1. lru_order \in Seq(Nat) /\ lru_order # <<>>
    BY <1>1 DEF MustEvict, TypeOK
  <2>2. /\ Kept = cached \ {lru_order[1]}
        /\ KeptOrder = Tail(lru_order)
    BY <1>1, <2>1 DEF Kept, KeptOrder
  <2>3. /\ Tail(lru_order) \in Seq(Nat)
        /\ Len(Tail(lru_order)) = Len(lru_order) - 1
        /\ \A i \in 1..Len(Tail(lru_order)) : Tail(lru_order)[i] = lru_order[i + 1]
    BY <2>1
  <2> QED BY <1>1, <2>2, <2>3
<1>2. CASE ~MustEvict
  BY <1>2 DEF Kept, KeptOrder, TypeOK
<1> QED BY <1>1, <1>2

\* Under Lru the order is what eviction leaves, with the new key at its end.
LEMMA InsertedOrder ==
    ASSUME TypeOK, NEW c \in Callers, NEW k \in Keys, Insert(c, k), policy = "Lru"
    PROVE  /\ lru_order' \in Seq(Nat)
           /\ Len(lru_order') = Len(KeptOrder) + 1
           /\ lru_order'[Len(lru_order')] = k
           /\ \A i \in 1..Len(KeptOrder) : lru_order'[i] = KeptOrder[i]
<1>1. KeptOrder \in Seq(Nat)
  BY Eviction
<1>2. k \in Nat
  BY KeyAssumption DEF Keys
<1>3. lru_order' = Append(KeptOrder, k)
  BY DEF Insert
<1> QED BY <1>1, <1>2, <1>3

\* An order that holds every key of a set is at least as long as the set is
\* large.
LEMMA OrderHoldsKeys ==
    ASSUME NEW order \in Seq(Nat), NEW K,
           \A k \in K : \E i \in 1..Len(order) : order[i] = k
    PROVE  IsFiniteSet(K) /\ Cardinality(K) <= Len(order)
<1> DEFINE held == {order[i] : i \in 1..Len(order)}
<1>1. Len(order) \in Nat /\ DOMAIN order = 1..Len(order)
  OBVIOUS
<1>2. order \in Surjection(1..Len(order), held)
  BY <1>1 DEF Surjection
<1>3. IsFiniteSet(1..Len(order)) /\ Cardinality(1..Len(order)) = Len(order)
  BY <1>1, FS_Interval
<1>4. IsFiniteSet(held) /\ Cardinality(held) <= Len(order)
  BY <1>2, <1>3, FS_Surjection
<1>5. K \subseteq held
  OBVIOUS
<1>6. IsFiniteSet(K) /\ Cardinality(K) <= Cardinality(held)
  BY <1>4, <1>5, FS_Subset
<1>7. Cardinality(K) \in Nat /\ Cardinality(held) \in Nat
  BY <1>4, <1>6, FS_CardinalityType
<1> HIDE DEF held
<1> QED BY <1>1, <1>4, <1>6, <1>7

----------------------------------------------------------------------------
(* The theorems. *)

\* Every reachable state of the cache and its callers is well typed.
THEOREM CacheTypeCorrect == Spec => []TypeOK
<1>1. Init => TypeOK
  BY FS_EmptySet DEF Init, TypeOK
<1>2. TypeOK /\ [Next]_vars => TypeOK'
  <2> SUFFICES ASSUME TypeOK, [Next]_vars PROVE TypeOK'
    OBVIOUS
  <2>1. ASSUME NEW c \in Callers, NEW p \in Prompts, Hit(c, p) \/ Miss(c, p) PROVE TypeOK'
    BY <2>1 DEF TypeOK, Hit, Miss, vars
  <2>2. ASSUME NEW c \in Callers, NEW k \in Keys, Insert(c, k) PROVE TypeOK'
    <3>1. /\ Kept \subseteq cached /\ KeptOrder \in Seq(Nat)
          /\ IsFiniteSet(cached) /\ IsFiniteSet(Kept)
      BY Eviction, FS_Subset DEF TypeOK
    <3>2. k \in Nat
      BY KeyAssumption DEF Keys
    <3>3. cached' \subseteq Nat /\ lru_order' \in Seq(Nat)
      <4>1. cached' \subseteq Nat
        BY <2>2, <3>1, <3>2 DEF Insert, TypeOK
      <4>2. lru_order' \in Seq(Nat)
        BY <2>2, <3>1, <3>2 DEF Insert, TypeOK
      <4> QED BY <4>1, <4>2
    <3>4. IsFiniteSet(cached')
      BY <2>2, <3>1, FS_AddElement DEF Insert
    <3>5. races' \in Nat /\ policy' \in Policies /\ call' \in [Callers -> Prompts \cup {NoCall}]
      BY <2>2 DEF Insert, TypeOK
    <3> QED BY <3>3, <3>4, <3>5 DEF TypeOK
  <2>3. ASSUME NEW c \in Callers, Fail(c) PROVE TypeOK'
    BY <2>3 DEF TypeOK, Fail
  <2>4. CASE UNCHANGED vars
    BY <2>4 DEF TypeOK, vars
  <2> QED BY <2>1, <2>2, <2>3, <2>4 DEF Next
<1> QED BY <1>1, <1>2, PTL DEF Spec

\* However calls of complete() race, an eviction that takes one occurrence of
\* a key out of lru_order never leaves a cached key without another.
THEOREM CachedAlwaysEvictable == Spec => []CachedIsEvictable
<1>1. Init => CachedIsEvictable
  BY DEF Init, CachedIsEvictable
<1>2. TypeOK /\ CachedIsEvictable /\ [Next]_vars => CachedIsEvictable'
  <2> SUFFICES ASSUME TypeOK, CachedIsEvictable, [Next]_vars PROVE CachedIsEvictable'
    OBVIOUS
  <2>1. ASSUME NEW c \in Callers, NEW k \in Keys, Insert(c, k), policy = "Lru"
        PROVE  CachedIsEvictable'
    <3> SUFFICES ASSUME NEW x \in cached'
                 PROVE  \E i \in 1..Len(lru_order') : lru_order'[i] = x
      BY DEF CachedIsEvictable
    <3>1. /\ lru_order' \in Seq(Nat) /\ KeptOrder \in Seq(Nat)
          /\ Len(lru_order') = Len(KeptOrder) + 1
          /\ lru_order'[Len(lru_order')] = k
          /\ \A i \in 1..Len(KeptOrder) : lru_order'[i] = KeptOrder[i]
      BY <2>1, InsertedOrder, Eviction
    <3>2. x \in Kept \/ x = k
      BY <2>1 DEF Insert
    <3>3. CASE x = k
      BY <3>1, <3>3
    <3>4. CASE x \in Kept
      <4>1. PICK i \in 1..Len(lru_order) : lru_order[i] = x
        BY <2>1, <3>4, Eviction DEF CachedIsEvictable
      <4>2. \E j \in 1..Len(KeptOrder) : KeptOrder[j] = x
        <5>1. CASE MustEvict
          <6>1. /\ x # lru_order[1]
                /\ Len(KeptOrder) = Len(lru_order) - 1
                /\ \A j \in 1..Len(KeptOrder) : KeptOrder[j] = lru_order[j + 1]
            BY <3>4, <5>1, Eviction
          <6>2. Len(lru_order) \in Nat
            BY DEF TypeOK
          <6>3. i - 1 \in 1..Len(KeptOrder) /\ (i - 1) + 1 = i
            BY <4>1, <6>1, <6>2
          <6> QED BY <4>1, <6>1, <6>3
        <5>2. CASE ~MustEvict
          BY <4>1, <5>2, Eviction
        <5> QED BY <5>1, <5>2
      <4>3. PICK j \in 1..Len(KeptOrder) : KeptOrder[j] = x
        BY <4>2
      <4>4. lru_order'[j] = x /\ j \in 1..Len(lru_order')
        BY <3>1, <4>3
      <4> QED BY <4>4
    <3> QED BY <3>2, <3>3, <3>4
  <2>2. ASSUME policy # "Lru", UNCHANGED policy PROVE CachedIsEvictable'
    BY <2>2 DEF CachedIsEvictable
  <2>3. CASE UNCHANGED <<policy, cached, lru_order>>
    BY <2>3 DEF CachedIsEvictable
  <2> QED BY <2>1, <2>2, <2>3 DEF Next, Hit, Miss, Insert, Fail, vars
<1> QED BY <1>1, <1>2, CacheTypeCorrect, PTL DEF Spec

\* Every insertion that met its key in the cache lets complete() keep at most
\* one response over Capacity, for any number of callers, races, prompts and
\* hash collisions.
THEOREM CacheOverCapacityOnlyByRaces == Spec => []OverCapacityOnlyByRaces
<1>1. Init => OrderPaysForRaces
  BY FS_EmptySet, CapacityAssumption DEF Init, OrderPaysForRaces
<1>2. TypeOK /\ CachedIsEvictable /\ OrderPaysForRaces /\ [Next]_vars => OrderPaysForRaces'
  <2> SUFFICES ASSUME TypeOK, CachedIsEvictable, OrderPaysForRaces, [Next]_vars
               PROVE  OrderPaysForRaces'
    OBVIOUS
  <2>1. ASSUME NEW c \in Callers, NEW k \in Keys, Insert(c, k), policy = "Lru", Capacity > 0
        PROVE  OrderPaysForRaces'
    <3> DEFINE n == Cardinality(cached)
               kept == Cardinality(Kept)
               len == Len(lru_order)
    <3>1. /\ IsFiniteSet(cached) /\ IsFiniteSet(Kept)
          /\ n \in Nat /\ kept \in Nat /\ len \in Nat /\ Capacity \in Nat /\ races \in Nat
      BY Eviction, FS_Subset, FS_CardinalityType, CapacityAssumption DEF TypeOK
    <3>2. /\ Cardinality(cached') = IF k \in Kept THEN kept ELSE kept + 1
          /\ Len(lru_order') = Len(KeptOrder) + 1
      BY <2>1, <3>1, FS_AddElement, InsertedOrder DEF Insert
    <3>3. races' = IF k \in cached THEN races + 1 ELSE races
      BY <2>1 DEF Insert
    <3>4. len <= n + races /\ len <= Capacity + races /\ n <= len
      BY <2>1, OrderHoldsKeys DEF OrderPaysForRaces, CachedIsEvictable, TypeOK
    <3>5. k \notin Kept \/ k \in cached
      BY Eviction
    <3>6. CASE ~MustEvict
      <4>1. kept = n /\ Len(KeptOrder) = len /\ Kept = cached
        BY <3>6, Eviction
      <4>2. n < Capacity
        <5>1. CASE lru_order = <<>>
          BY <2>1, <3>1, <3>4, <5>1
        <5>2. CASE lru_order # <<>>
          BY <2>1, <3>1, <3>6, <5>2 DEF MustEvict
        <5> QED BY <5>1, <5>2
      <4> HIDE DEF n, kept, len
      <4> QED BY <2>1, <3>1, <3>2, <3>3, <3>4, <4>1, <4>2 DEF OrderPaysForRaces, n, kept, len
    <3>7. CASE MustEvict
      <4>1. Kept = cached \ {lru_order[1]} /\ Len(KeptOrder) = len - 1 /\ n >= Capacity
        BY <3>7, Eviction DEF MustEvict
      <4>2. kept = IF lru_order[1] \in cached THEN n - 1 ELSE n
        BY <3>1, <4>1, FS_RemoveElement
      <4>3. kept >= n - 1 /\ Len(lru_order') = len
        BY <3>1, <3>2, <4>1, <4>2
      <4>4. \/ Cardinality(cached') >= n
            \/ Cardinality(cached') >= n - 1 /\ k \in cached
        BY <3>1, <3>2, <3>5, <4>3
      <4> HIDE DEF n, kept, len
      <4> QED BY <2>1, <3>1, <3>2, <3>3, <3>4, <4>1, <4>3, <4>4 DEF OrderPaysForRaces, n, kept, len
    <3> QED BY <3>6, <3>7
  <2>2. ASSUME ~(policy = "Lru" /\ Capacity > 0), UNCHANGED policy PROVE OrderPaysForRaces'
    BY <2>2 DEF OrderPaysForRaces
  <2>3. CASE UNCHANGED <<policy, cached, lru_order, races>>
    BY <2>3 DEF OrderPaysForRaces
  <2> QED BY <2>1, <2>2, <2>3 DEF Next, Hit, Miss, Insert, Fail, vars
<1>3. TypeOK /\ CachedIsEvictable /\ OrderPaysForRaces => OverCapacityOnlyByRaces
  <2> SUFFICES ASSUME TypeOK, CachedIsEvictable, OrderPaysForRaces, policy = "Lru", Capacity > 0
               PROVE  Cardinality(cached) <= Capacity + races
    BY DEF OverCapacityOnlyByRaces
  <2>1. Cardinality(cached) <= Len(lru_order) /\ Len(lru_order) <= Capacity + races
    BY OrderHoldsKeys DEF CachedIsEvictable, OrderPaysForRaces, TypeOK
  <2>2. Cardinality(cached) \in Nat /\ Len(lru_order) \in Nat /\ races \in Nat /\ Capacity \in Nat
    BY FS_CardinalityType, CapacityAssumption DEF TypeOK
  <2> QED BY <2>1, <2>2
<1> QED BY <1>1, <1>2, <1>3, CacheTypeCorrect, CachedAlwaysEvictable, PTL DEF Spec
=============================================================================
