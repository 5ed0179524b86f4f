---------------------------- MODULE FoldInduction ----------------------------
(***************************************************************************)
(* Induction along FoldLeft: what holds of the start, and is kept by every *)
(* turn, holds of the result.  op is a turn and Inv what is kept; e1 and   *)
(* e2 are what both depend on.                                             *)
(***************************************************************************)
EXTENDS Naturals, Sequences, Folds, WellFoundedInduction, TLAPS

CONSTANTS op(_, _, _, _),    \* op(e1, e2, acc, x): one turn
          Inv(_, _, _, _, _) \* Inv(e1, e2, seq, k, acc): acc after k turns

\* Max of FiniteSetsExt and FoldLeft of SequencesExt, spelled out: every instance
\* of this module brings along all that it extends.
Greatest(S) == CHOOSE x \in S : \A y \in S : x >= y

Folded(e1, e2, base, seq) ==
    MapThenFoldSet(LAMBDA x, a : op(e1, e2, a, x), base, LAMBDA i : seq[i], LAMBDA S : Greatest(S), DOMAIN seq)

\* A function that computes the fold of seq over every set of its first n
\* positions.
Computes(g, e1, e2, base, seq, n) ==
    g = [s \in SUBSET (1..n) |->
            IF s = {} THEN base ELSE op(e1, e2, g[s \ {Greatest(s)}], seq[Greatest(s)])]

\* Every set of naturals that is not empty has a least element.
LEMMA LeastElement ==
    ASSUME NEW T \in SUBSET Nat, T # {}
    PROVE  \E x \in T : \A y \in T : x <= y
<1> DEFINE R == OpToRel(<, Nat)
<1>1. IsWellFoundedOn(R, Nat)
  BY NatLessThanWellFounded, Zenon
<1>2. \A x, y \in Nat : y < x => <<y, x>> \in R
  BY DEF OpToRel
<1> HIDE DEF R
<1>3. PICK x \in T : \A y \in T : ~ (<<y, x>> \in R)
  BY <1>1, WFMin, Zenon
<1>4. \A y \in T : ~ (y < x)
  BY <1>2, <1>3
<1> QED BY <1>4

\* Induction, for a set of naturals instead of a predicate.
LEMMA InductionOnSets ==
    ASSUME NEW S, 0 \in S, \A n \in Nat : n \in S => n + 1 \in S
    PROVE  \A n \in Nat : n \in S
<1>1. SUFFICES ASSUME Nat \ S # {} PROVE FALSE
  OBVIOUS
<1>2. PICK x \in Nat \ S : \A y \in Nat \ S : x <= y
  BY <1>1, LeastElement
<1>3. x - 1 \in Nat /\ x - 1 \in S
  BY <1>2
<1> QED BY <1>2, <1>3

\* The greatest of some of the first n positions.
LEMMA MaxOfPositions ==
    ASSUME NEW n \in Nat, NEW s \in SUBSET (1..n), s # {}
    PROVE  Greatest(s) \in s /\ \A y \in s : Greatest(s) >= y
<1> DEFINE T == {n - x : x \in s}
<1>1. \A x \in s : x \in Nat /\ n - x \in Nat
  OBVIOUS
<1>2. T \in SUBSET Nat /\ T # {}
  BY <1>1
<1>3. PICK t \in T : \A y \in T : t <= y
  BY <1>2, LeastElement
<1>4. PICK x \in s : t = n - x
  BY <1>3
<1>5. ASSUME NEW y \in s PROVE x >= y
  <2>1. n - x <= n - y
    BY <1>3, <1>4
  <2> QED BY <1>1, <2>1
<1>6. \E z \in s : \A y \in s : z >= y
  BY <1>5
<1> QED BY <1>6 DEF Greatest

\* There is such a function for every number of positions.
LEMMA ComputesExists ==
    ASSUME NEW e1, NEW e2, NEW base, NEW seq, NEW n \in Nat
    PROVE  \E g : Computes(g, e1, e2, base, seq, n)
<1> DEFINE S == {m \in Nat : \E g : Computes(g, e1, e2, base, seq, m)}
<1>1. 0 \in S
  <2> DEFINE g == [s \in SUBSET (1..0) |-> base]
  <2>1. \A s \in SUBSET (1..0) : s = {}
    OBVIOUS
  <2>2. Computes(g, e1, e2, base, seq, 0)
    BY <2>1 DEF Computes
  <2> QED BY <2>2
<1>2. ASSUME NEW m \in Nat, m \in S PROVE m + 1 \in S
  <2>1. PICK g : Computes(g, e1, e2, base, seq, m)
    BY <1>2
  <2> DEFINE h == [s \in SUBSET (1..(m + 1)) |->
                      IF s \in SUBSET (1..m) THEN g[s] ELSE op(e1, e2, g[s \ {m + 1}], seq[m + 1])]
  <2>2. ASSUME NEW s \in SUBSET (1..(m + 1))
        PROVE  h[s] = IF s = {} THEN base ELSE op(e1, e2, h[s \ {Greatest(s)}], seq[Greatest(s)])
    <3>1. CASE s \in SUBSET (1..m)
      <4>1. g[s] = IF s = {} THEN base ELSE op(e1, e2, g[s \ {Greatest(s)}], seq[Greatest(s)])
        BY <2>1, <3>1 DEF Computes
      <4>2. h[s] = g[s] /\ h[s \ {Greatest(s)}] = g[s \ {Greatest(s)}]
        BY <3>1
      <4> HIDE DEF h
      <4> QED BY <4>1, <4>2
    <3>2. CASE s \notin SUBSET (1..m)
      <4>1. m + 1 \in s
        BY <3>2
      <4>2. Greatest(s) = m + 1
        <5>1. m + 1 \in Nat /\ s # {}
          BY <4>1
        <5>2. Greatest(s) \in s /\ Greatest(s) >= m + 1
          BY <4>1, <5>1, MaxOfPositions
        <5>3. Greatest(s) \in 1..(m + 1)
          BY <5>2
        <5> QED BY <5>2, <5>3
      <4>3. s \ {m + 1} \in SUBSET (1..m) /\ s \ {m + 1} \in SUBSET (1..(m + 1))
        OBVIOUS
      <4>4. h[s \ {m + 1}] = g[s \ {m + 1}]
        BY <4>3
      <4>5. h[s] = op(e1, e2, g[s \ {m + 1}], seq[m + 1])
        BY <3>2
      <4> HIDE DEF h
      <4> QED BY <4>1, <4>2, <4>4, <4>5
    <3> QED BY <3>1, <3>2
  <2>3. h = [s \in SUBSET (1..(m + 1)) |-> h[s]]
    OBVIOUS
  <2>4. Computes(h, e1, e2, base, seq, m + 1)
    <3> HIDE DEF h
    <3> QED BY <2>2, <2>3 DEF Computes
  <2> QED BY <2>4
<1> HIDE DEF S
<1>3. n \in S
  BY <1>1, <1>2, InductionOnSets
<1> QED BY <1>3 DEF S

\* What every turn keeps holds of the result.
THEOREM FoldKeeps ==
    ASSUME NEW e1, NEW e2, NEW base, NEW seq, Len(seq) \in Nat, DOMAIN seq = 1..Len(seq),
           Inv(e1, e2, seq, 0, base),
           \A k \in 1..Len(seq) : \A a : Inv(e1, e2, seq, k - 1, a) => Inv(e1, e2, seq, k, op(e1, e2, a, seq[k]))
    PROVE  Inv(e1, e2, seq, Len(seq), Folded(e1, e2, base, seq))
<1> DEFINE n == Len(seq)
           f == CHOOSE g : Computes(g, e1, e2, base, seq, n)
<1>1. Computes(f, e1, e2, base, seq, n)
  BY ComputesExists
<1>2. Folded(e1, e2, base, seq) = f[1..n]
  BY DEF Folded, MapThenFoldSet, Computes
<1> HIDE DEF f
<1>3. f[{}] = base
  BY <1>1 DEF Computes
<1>4. ASSUME NEW k \in 1..n PROVE f[1..k] = op(e1, e2, f[1..(k - 1)], seq[k])
  <2>1. n \in Nat /\ k \in Nat /\ 1 <= k /\ k <= n
    OBVIOUS
  <2>2. 1..k \in SUBSET (1..n) /\ k \in 1..k /\ 1..k # {}
    <3>1. k \in 1..k
      BY <2>1
    <3>2. \A j \in 1..k : j \in 1..n
      BY <2>1
    <3> QED BY <3>1, <3>2
  <2>3. (1..k) \ {k} = 1..(k - 1)
    BY <2>1
  <2>4. Greatest(1..k) = k
    <3>1. Greatest(1..k) \in 1..k /\ Greatest(1..k) >= k
      BY <2>1, <2>2, MaxOfPositions
    <3> QED BY <2>1, <3>1
  <2> QED BY <1>1, <2>2, <2>3, <2>4 DEF Computes
<1> DEFINE S == {k \in Nat : k <= n => Inv(e1, e2, seq, k, f[1..k])}
<1>5. 0 \in S
  <2>1. 1..0 = {}
    OBVIOUS
  <2> QED BY <1>3, <2>1
<1>6. ASSUME NEW k \in Nat, k \in S PROVE k + 1 \in S
  <2>1. ASSUME k + 1 <= n PROVE Inv(e1, e2, seq, k + 1, f[1..(k + 1)])
    <3>1. Inv(e1, e2, seq, k, f[1..k]) /\ k + 1 \in 1..n /\ (k + 1) - 1 = k
      BY <1>6, <2>1
    <3>2. f[1..(k + 1)] = op(e1, e2, f[1..k], seq[k + 1])
      BY <1>4, <3>1
    <3> QED BY <3>1, <3>2
  <2> QED BY <2>1
<1> HIDE DEF S
<1>7. n \in S
  BY <1>5, <1>6, InductionOnSets
<1> QED BY <1>2, <1>7 DEF S
=============================================================================
