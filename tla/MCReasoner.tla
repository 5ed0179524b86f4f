----------------------------- MODULE MCReasoner -----------------------------
(* Reasoner for TLC: small ontologies of class facts or of property facts,  *)
(* two rule sets, and interpretations over small domains.                 *)
EXTENDS Reasoner, TLC

CONSTANTS Individuals, MaxClassFacts, MaxPropertyFacts, MaxPairs

\* The subsets of S with at most n elements.
UpTo(n, S) == {{}} \cup {{f[i] : i \in 1..n} : f \in [1..n -> S]}

MCBases == UpTo(MaxClassFacts, ClassFacts) \cup UpTo(MaxPropertyFacts, PropertyFacts)

MCRuleSets == {standard,
               <<"InverseOfMaterializes", "PropertyTransitivity", "EquivalentToSubClass", "SubClassTransitivity">>}

MCClassModels == [Classes -> SUBSET Individuals]

\* Every property denotes the same small relation or its inverse.
Inverted(R) == {<<r[2], r[1]>> : r \in R}
MCPropertyModels == UNION {[Properties -> {R, Inverted(R)}] : R \in UpTo(MaxPairs, Nodes \X Nodes)}

MCSymmetry == Permutations(Classes) \cup Permutations(Properties) \cup Permutations(Nodes)
=============================================================================
