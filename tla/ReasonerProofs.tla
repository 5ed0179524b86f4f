--------------------------- MODULE ReasonerProofs ---------------------------
(* Proofs about the reasoner, for every set of classes, properties and      *)
(* nodes, every ontology, every rule set and order, every cap and every     *)
(* interpretation: it is sound, an Ok result is closed, and a run after     *)
(* materialize is clean.                                                    *)
EXTENDS Reasoner, FiniteSetTheorems, TLAPS

----------------------------------------------------------------------------
(* The inductive invariant. *)

\* Every rule of the set, applied to F, adds nothing.
Closed(F) == \A j \in 1..Len(rules) : apply(rules[j], F) \subseteq F

\* While a pass has added nothing, the rules it has applied are satisfied.
PassInv ==
    phase = "looping" /\ ~produced_new =>
        \A j \in 1..(next - 1) : apply(rules[j], working) \subseteq working

\* The clone only grows, and an Ok result is closed.
CloneInv ==
    /\ phase # "idle" => ontology \subseteq working
    /\ phase = "ok" => Closed(working)

\* A materialized ontology is closed, so no later run finds anything.
MaterializedInv ==
    materialized =>
        /\ Closed(ontology)
        /\ phase # "idle" => working = ontology /\ ~produced_new /\ iterations = 1
        /\ phase # "cycle"

ClosureInv == PassInv /\ CloneInv /\ MaterializedInv

----------------------------------------------------------------------------
(* The rules. *)

\* Every rule concludes facts.
LEMMA ApplyType ==
    ASSUME NEW r \in RuleNames, NEW F
    PROVE  apply(r, F) \subseteq Facts
BY SMTT(60) DEF RuleNames, apply, Facts, ClassFacts, PropertyFacts, subclass_transitivity, equivalent_symmetry,
       equivalent_to_subclass, inverse_of_symmetry, property_symmetry, property_transitivity,
       inverse_of_materializes

\* What each rule needs of the facts it reads and gives of those it adds.
LEMMA FactShapes ==
    /\ \A f \in SubClassFacts : /\ f = SubClassOf(f[2], f[3]) /\ f[1] = "SubClassOf"
                                /\ f[2] \in Classes /\ f[3] \in Classes
    /\ \A f \in EquivalentFacts : /\ f = EquivalentClass(f[2], f[3]) /\ f[1] = "EquivalentClass"
                                  /\ f[2] \in Classes /\ f[3] \in Classes
    /\ \A f \in InverseFacts : /\ f = InverseOf(f[2], f[3]) /\ f[1] = "InverseOf"
                               /\ f[2] \in Properties /\ f[3] \in Properties
    /\ \A f \in EdgeFacts : /\ f = Edge(f[2], f[3], f[4]) /\ f[1] = "Edge"
                            /\ f[2] \in Nodes /\ f[3] \in Properties /\ f[4] \in Nodes
BY DEF SubClassFacts, EquivalentFacts, InverseFacts, EdgeFacts, SubClassOf, EquivalentClass, InverseOf, Edge

\* A rule's conclusions about classes hold wherever its premises hold.
LEMMA RulesSoundForClasses ==
    ASSUME NEW r \in RuleNames, NEW F, NEW m, \A f \in F : ClassFactHolds(f, m),
           NEW g \in apply(r, F)
    PROVE  ClassFactHolds(g, m)
<1>1. CASE r = "SubClassTransitivity"
  <2>1. g \in subclass_transitivity(F)
    BY <1>1 DEF apply
  <2>2. PICK b \in Classes : SubClassOf(g[2], b) \in F /\ SubClassOf(b, g[3]) \in F
    BY <2>1 DEF subclass_transitivity
  <2>3. m[g[2]] \subseteq m[b] /\ m[b] \subseteq m[g[3]]
    BY <2>2 DEF ClassFactHolds, SubClassOf
  <2> QED
    BY <2>1, <2>3, FactShapes DEF subclass_transitivity, ClassFactHolds
<1>2. CASE r = "EquivalentSymmetry"
  <2>1. g \in EquivalentFacts /\ EquivalentClass(g[3], g[2]) \in F
    BY <1>2 DEF apply, equivalent_symmetry
  <2> QED
    BY <2>1, FactShapes DEF ClassFactHolds, EquivalentClass
<1>3. CASE r = "EquivalentToSubClass"
  <2>1. g \in SubClassFacts /\ (EquivalentClass(g[2], g[3]) \in F \/ EquivalentClass(g[3], g[2]) \in F)
    BY <1>3 DEF apply, equivalent_to_subclass
  <2>2. m[g[2]] = m[g[3]]
    BY <2>1 DEF ClassFactHolds, EquivalentClass
  <2> QED
    BY <2>1, <2>2, FactShapes DEF ClassFactHolds
<1>4. CASE r \in {"InverseOfSymmetry", "PropertySymmetry", "PropertyTransitivity", "InverseOfMaterializes"}
  <2>1. g \in InverseFacts \cup EdgeFacts
    BY <1>4 DEF apply, inverse_of_symmetry, property_symmetry, property_transitivity, inverse_of_materializes
  <2> QED
    BY <2>1, FactShapes DEF ClassFactHolds
<1> QED
  BY <1>1, <1>2, <1>3, <1>4 DEF RuleNames

\* The same for properties and edges.
LEMMA RulesSoundForProperties ==
    ASSUME NEW r \in RuleNames, NEW F, NEW m, \A f \in F : PropertyFactHolds(f, m),
           NEW g \in apply(r, F)
    PROVE  PropertyFactHolds(g, m)
<1>1. CASE r \in {"SubClassTransitivity", "EquivalentSymmetry", "EquivalentToSubClass"}
  <2>1. g \in SubClassFacts \cup EquivalentFacts
    BY <1>1 DEF apply, subclass_transitivity, equivalent_symmetry, equivalent_to_subclass
  <2> QED
    BY <2>1, FactShapes DEF PropertyFactHolds
<1>2. CASE r = "InverseOfSymmetry"
  <2>1. g \in InverseFacts /\ InverseOf(g[3], g[2]) \in F
    BY <1>2 DEF apply, inverse_of_symmetry
  <2>2. \A a, b \in Nodes : <<a, b>> \in m[g[3]] <=> <<b, a>> \in m[g[2]]
    BY <2>1 DEF PropertyFactHolds, InverseOf
  <2> QED
    BY <2>1, <2>2, FactShapes DEF PropertyFactHolds
<1>3. CASE r = "PropertySymmetry"
  <2>1. g \in EdgeFacts /\ Symmetric(g[3]) \in F /\ Edge(g[4], g[3], g[2]) \in F
    BY <1>3 DEF apply, property_symmetry
  <2>2. \A a, b \in Nodes : <<a, b>> \in m[g[3]] => <<b, a>> \in m[g[3]]
    BY <2>1 DEF PropertyFactHolds, Symmetric
  <2>3. <<g[4], g[2]>> \in m[g[3]]
    BY <2>1 DEF PropertyFactHolds, Edge
  <2> QED
    BY <2>1, <2>2, <2>3, FactShapes DEF PropertyFactHolds
<1>4. CASE r = "PropertyTransitivity"
  <2>1. g \in EdgeFacts /\ Transitive(g[3]) \in F
    BY <1>4 DEF apply, property_transitivity
  <2>2. PICK b \in Nodes : Edge(g[2], g[3], b) \in F /\ Edge(b, g[3], g[4]) \in F
    BY <1>4 DEF apply, property_transitivity
  <2>3. \A x, y, z \in Nodes : <<x, y>> \in m[g[3]] /\ <<y, z>> \in m[g[3]] => <<x, z>> \in m[g[3]]
    BY <2>1 DEF PropertyFactHolds, Transitive
  <2>4. <<g[2], b>> \in m[g[3]] /\ <<b, g[4]>> \in m[g[3]]
    BY <2>2 DEF PropertyFactHolds, Edge
  <2> QED
    BY <2>1, <2>3, <2>4, FactShapes DEF PropertyFactHolds
<1>5. CASE r = "InverseOfMaterializes"
  <2>1. PICK p \in Properties : /\ InverseOf(p, g[3]) \in F \/ InverseOf(g[3], p) \in F
                                /\ Edge(g[4], p, g[2]) \in F
    BY <1>5 DEF apply, inverse_of_materializes
  <2>2. g \in EdgeFacts
    BY <1>5 DEF apply, inverse_of_materializes
  <2>3. <<g[4], g[2]>> \in m[p]
    BY <2>1 DEF PropertyFactHolds, Edge
  <2>4. \/ \A a, b \in Nodes : <<a, b>> \in m[p] <=> <<b, a>> \in m[g[3]]
        \/ \A a, b \in Nodes : <<a, b>> \in m[g[3]] <=> <<b, a>> \in m[p]
    BY <2>1 DEF PropertyFactHolds, InverseOf
  <2> QED
    BY <2>2, <2>3, <2>4, FactShapes DEF PropertyFactHolds
<1> QED
  BY <1>1, <1>2, <1>3, <1>4, <1>5 DEF RuleNames

\* A fact set a rule adds nothing to is closed under the rule as stated,
\* once the reflexive facts are put in.
LEMMA ClosedUpToLoops ==
    ASSUME NEW r \in RuleNames, NEW W, apply(r, W) \subseteq W
    PROVE  Stated(r, W \cup Loops) \subseteq W \cup Loops
<1> SUFFICES ASSUME NEW g \in Stated(r, W \cup Loops) PROVE g \in W \cup Loops
  OBVIOUS
<1>0. /\ \A a, b : SubClassOf(a, b) \in Loops => a = b
      /\ \A a, p, b : Edge(a, p, b) \in Loops => a = b
      /\ \A a, b : EquivalentClass(a, b) \notin Loops /\ InverseOf(a, b) \notin Loops
      /\ \A p : Symmetric(p) \notin Loops /\ Transitive(p) \notin Loops
  BY DEF Loops, SubClassOf, EquivalentClass, InverseOf, Symmetric, Transitive, Edge
<1>a. \A f \in SubClassFacts : f[2] = f[3] => f \in Loops
  BY FactShapes DEF Loops
<1>b. \A f \in EdgeFacts : f[2] = f[4] => f \in Loops
  BY FactShapes DEF Loops
<1>1. CASE r = "SubClassTransitivity"
  <2>1. PICK b \in Classes : SubClassOf(g[2], b) \in W \cup Loops /\ SubClassOf(b, g[3]) \in W \cup Loops
    BY <1>1 DEF Stated
  <2>2. g \in SubClassFacts
    BY <1>1 DEF Stated
  <2>3. CASE g[2] = g[3] \/ g[2] = b \/ b = g[3]
    BY <2>1, <2>2, <2>3, <1>a, FactShapes
  <2>4. CASE g[2] # g[3] /\ g[2] # b /\ b # g[3]
    <3>1. SubClassOf(g[2], b) \in W /\ SubClassOf(b, g[3]) \in W
      BY <2>1, <2>4, <1>0
    <3>2. g \in subclass_transitivity(W)
      BY <2>2, <2>4, <3>1 DEF subclass_transitivity
    <3> QED
      BY <1>1, <3>2 DEF apply
  <2> QED
    BY <2>3, <2>4
<1>2. CASE r = "EquivalentSymmetry"
  <2>1. g \in EquivalentFacts /\ EquivalentClass(g[3], g[2]) \in W
    BY <1>2, <1>0 DEF Stated, apply, equivalent_symmetry
  <2> QED
    BY <2>1, <1>2 DEF apply, equivalent_symmetry
<1>3. CASE r = "EquivalentToSubClass"
  <2>1. g \in SubClassFacts /\ (EquivalentClass(g[2], g[3]) \in W \/ EquivalentClass(g[3], g[2]) \in W)
    BY <1>3, <1>0 DEF Stated, apply, equivalent_to_subclass
  <2> QED
    BY <2>1, <1>3 DEF apply, equivalent_to_subclass
<1>4. CASE r = "InverseOfSymmetry"
  <2>1. g \in InverseFacts /\ InverseOf(g[3], g[2]) \in W
    BY <1>4, <1>0 DEF Stated, apply, inverse_of_symmetry
  <2> QED
    BY <2>1, <1>4 DEF apply, inverse_of_symmetry
<1>5. CASE r = "PropertySymmetry"
  <2>1. g \in EdgeFacts /\ Symmetric(g[3]) \in W /\ Edge(g[4], g[3], g[2]) \in W \cup Loops
    BY <1>5, <1>0 DEF Stated, apply, property_symmetry
  <2>2. CASE Edge(g[4], g[3], g[2]) \in W
    BY <2>1, <2>2, <1>5 DEF apply, property_symmetry
  <2> QED
    BY <2>1, <2>2, <1>0, <1>b
<1>6. CASE r = "PropertyTransitivity"
  <2>1. g \in EdgeFacts /\ Transitive(g[3]) \in W
    BY <1>6, <1>0 DEF Stated
  <2>2. PICK b \in Nodes : Edge(g[2], g[3], b) \in W \cup Loops /\ Edge(b, g[3], g[4]) \in W \cup Loops
    BY <1>6 DEF Stated
  <2>3. CASE g[2] = g[4] \/ g[2] = b \/ b = g[4]
    BY <2>1, <2>2, <2>3, <1>b, FactShapes
  <2>4. CASE g[2] # g[4] /\ g[2] # b /\ b # g[4]
    <3>1. Edge(g[2], g[3], b) \in W /\ Edge(b, g[3], g[4]) \in W
      BY <2>2, <2>4, <1>0
    <3>2. g \in property_transitivity(W)
      BY <2>1, <2>4, <3>1 DEF property_transitivity
    <3> QED
      BY <1>6, <3>2 DEF apply
  <2> QED
    BY <2>3, <2>4
<1>7. CASE r = "InverseOfMaterializes"
  <2>1. g \in EdgeFacts
    BY <1>7 DEF Stated, apply, inverse_of_materializes
  <2>2. PICK p \in Properties : /\ InverseOf(p, g[3]) \in W \/ InverseOf(g[3], p) \in W
                                /\ Edge(g[4], p, g[2]) \in W \cup Loops
    BY <1>7, <1>0 DEF Stated, apply, inverse_of_materializes
  <2>3. CASE Edge(g[4], p, g[2]) \in W
    BY <2>1, <2>2, <2>3, <1>7 DEF apply, inverse_of_materializes
  <2> QED
    BY <2>1, <2>2, <2>3, <1>0, <1>b
<1> QED
  BY <1>1, <1>2, <1>3, <1>4, <1>5, <1>6, <1>7 DEF RuleNames

----------------------------------------------------------------------------
(* Type correctness. *)

\* Every reachable state of the engine is well typed.
THEOREM ReasonerTypeCorrect == Spec => []TypeOK
<1>1. Init => TypeOK
  <2> SUFFICES ASSUME Init PROVE TypeOK
    OBVIOUS
  <2>1. rules \in Seq(RuleNames) /\ Len(rules) \in Nat /\ max_iterations \in Nat \ {0}
    BY RuleSetsAssumption, CapsAssumption DEF Init
  <2>2. authored \subseteq Facts
    BY BasesAssumption DEF Init
  <2>3. produced_new \in BOOLEAN /\ materialized \in BOOLEAN
    BY DEF Init
  <2> QED
    BY <2>1, <2>2, <2>3, MaxRunsAssumption DEF Init, TypeOK
<1>2. TypeOK /\ [Next]_vars => TypeOK'
  <2> SUFFICES ASSUME TypeOK, [Next]_vars PROVE TypeOK'
    OBVIOUS
  <2> USE RuleSetsAssumption, CapsAssumption, MaxRunsAssumption
  <2>0. rules \in Seq(RuleNames) /\ Len(rules) \in Nat /\ max_iterations \in Nat \ {0}
    BY DEF TypeOK
  <2>1. CASE Run
    <3>1. produced_new' \in BOOLEAN /\ materialized' \in BOOLEAN
      BY <2>1, Zenon DEF TypeOK, Run
    <3> QED
      BY <2>0, <2>1, <3>1 DEF TypeOK, Run
  <2>2. CASE Apply
    <3>1. rules[next] \in RuleNames
      BY <2>0, <2>2 DEF TypeOK, Apply
    <3>2. apply(rules[next], working) \subseteq Facts
      BY <3>1, ApplyType
    <3>3. working' \subseteq Facts /\ produced_new' \in BOOLEAN
      BY <2>2, <3>2 DEF TypeOK, Apply
    <3> QED
      BY <2>0, <2>2, <3>3 DEF TypeOK, Apply
  <2>3. CASE NextPass
    <3>1. produced_new' \in BOOLEAN /\ materialized' \in BOOLEAN
      BY <2>3, Zenon DEF TypeOK, NextPass
    <3> QED
      BY <2>0, <2>3, <3>1 DEF TypeOK, NextPass
  <2>4. CASE Cycle
    <3>1. produced_new' \in BOOLEAN /\ materialized' \in BOOLEAN
      BY <2>4, Zenon DEF TypeOK, Cycle
    <3> QED
      BY <2>0, <2>4, <3>1 DEF TypeOK, Cycle
  <2>5. CASE Finish
    BY <2>0, <2>5 DEF TypeOK, Finish, loop
  <2>6. CASE Materialize
    BY <2>0, <2>6 DEF TypeOK, Materialize, derived, loop
  <2>7. CASE Return
    BY <2>0, <2>7 DEF TypeOK, Return, loop
  <2>8. CASE UNCHANGED vars
    BY <2>8 DEF TypeOK, vars, loop
  <2> QED
    BY <2>1, <2>2, <2>3, <2>4, <2>5, <2>6, <2>7, <2>8 DEF Next
<1> QED
  BY <1>1, <1>2, PTL DEF Spec

----------------------------------------------------------------------------
(* Soundness. *)

\* Everything derived, in any run and under any rule set, holds in every
\* interpretation in which the authored facts hold.
THEOREM ReasonerIsSound == Spec => []Sound
<1>1. Init => Sound
  BY DEF Init, Sound, Entails
<1>2. TypeOK /\ Sound /\ [Next]_vars => Sound'
  <2> SUFFICES ASSUME TypeOK, Sound, [Next]_vars PROVE Sound'
    OBVIOUS
  <2>1. CASE Apply
    <3>1. rules[next] \in RuleNames
      BY <2>1, RuleSetsAssumption DEF TypeOK, Apply
    <3>2. /\ working' = working \cup apply(rules[next], working)
          /\ UNCHANGED <<authored, ontology>>
      BY <2>1 DEF Apply
    <3>3. ASSUME NEW m \in ClassModels, \A f \in authored : ClassFactHolds(f, m),
                 NEW g \in working' \cup ontology
          PROVE  ClassFactHolds(g, m)
      <4>1. \A f \in working \cup ontology : ClassFactHolds(f, m)
        BY <3>3 DEF Sound, Entails
      <4>2. CASE g \in apply(rules[next], working)
        BY <3>1, <4>1, <4>2, RulesSoundForClasses
      <4> QED
        BY <3>2, <3>3, <4>1, <4>2
    <3>4. ASSUME NEW m \in PropertyModels, \A f \in authored : PropertyFactHolds(f, m),
                 NEW g \in working' \cup ontology
          PROVE  PropertyFactHolds(g, m)
      <4>1. \A f \in working \cup ontology : PropertyFactHolds(f, m)
        BY <3>4 DEF Sound, Entails
      <4>2. CASE g \in apply(rules[next], working)
        BY <3>1, <4>1, <4>2, RulesSoundForProperties
      <4> QED
        BY <3>2, <3>4, <4>1, <4>2
    <3> QED
      BY <3>2, <3>3, <3>4 DEF Sound, Entails
  <2>2. CASE ~Apply
    <3>1. working' \cup ontology' \subseteq working \cup ontology /\ authored' = authored
      BY <2>2 DEF Next, Run, NextPass, Cycle, Finish, Materialize, derived, Return, vars, loop
    <3> QED
      BY <3>1 DEF Sound, Entails
  <2> QED
    BY <2>1, <2>2
<1> QED
  BY <1>1, <1>2, ReasonerTypeCorrect, PTL DEF Spec

----------------------------------------------------------------------------
(* The fixed point. *)

\* The inductive invariant of run() and materialize() holds in every reachable state.
LEMMA ClosureInvHolds == Spec => []ClosureInv
<1>1. Init => ClosureInv
  BY DEF Init, ClosureInv, PassInv, CloneInv, MaterializedInv
<1>2. TypeOK /\ ClosureInv /\ [Next]_vars => ClosureInv'
  <2> SUFFICES ASSUME TypeOK, ClosureInv, [Next]_vars PROVE ClosureInv'
    OBVIOUS
  <2>0. rules \in Seq(RuleNames) /\ Len(rules) \in Nat
    BY RuleSetsAssumption DEF TypeOK
  <2> USE DEF ClosureInv
  <2>1. CASE Run
    <3>1. PassInv'
      BY <2>1 DEF Run, PassInv
    <3>2. CloneInv'
      BY <2>1 DEF Run, CloneInv
    <3>3. MaterializedInv'
      BY <2>1 DEF Run, MaterializedInv, Closed
    <3> QED
      BY <3>1, <3>2, <3>3
  <2>2. CASE Apply
    <3> DEFINE out == apply(rules[next], working)
    <3>0. /\ phase = "looping" /\ phase' = "looping" /\ next' = next + 1 /\ next \in 1..Len(rules)
          /\ working' = working \cup out /\ rules' = rules /\ ontology' = ontology
          /\ iterations' = iterations /\ materialized' = materialized
          /\ produced_new' <=> (produced_new \/ ~(out \subseteq working))
      <4>1. next \in 1..Len(rules)
        BY <2>0, <2>2 DEF Apply, TypeOK
      <4>2. produced_new' <=> (produced_new \/ ~(out \subseteq working))
        BY <2>2, Zenon DEF Apply
      <4> QED
        BY <2>2, <4>1, <4>2 DEF Apply
    <3> HIDE DEF out
    <3>1. PassInv'
      <4> SUFFICES ASSUME ~produced_new', NEW j \in 1..(next' - 1)
                   PROVE  apply(rules[j], working') \subseteq working'
        BY <3>0 DEF PassInv
      <4>1. ~produced_new /\ out \subseteq working
        BY <3>0
      <4>2. working' = working
        BY <3>0, <4>1
      <4>3. CASE j = next
        BY <4>1, <4>2, <4>3 DEF out
      <4>4. CASE j # next
        <5>1. j \in 1..(next - 1)
          BY <3>0, <4>4
        <5> QED
          BY <3>0, <4>1, <4>2, <5>1 DEF PassInv
      <4> QED
        BY <4>3, <4>4
    <3>2. CloneInv'
      BY <3>0 DEF CloneInv
    <3>3. MaterializedInv'
      <4> SUFFICES ASSUME materialized PROVE MaterializedInv'
        BY <3>0 DEF MaterializedInv
      <4>1. Closed(ontology) /\ working = ontology /\ ~produced_new /\ iterations = 1
        BY <3>0 DEF MaterializedInv
      <4>2. out \subseteq working
        BY <3>0, <4>1 DEF Closed, out
      <4> QED
        BY <3>0, <4>1, <4>2 DEF MaterializedInv, Closed
    <3> QED
      BY <3>1, <3>2, <3>3
  <2>3. CASE NextPass
    <3>1. PassInv'
      BY <2>3 DEF NextPass, PassInv
    <3>2. CloneInv'
      BY <2>3 DEF NextPass, CloneInv
    <3>3. MaterializedInv'
      BY <2>3 DEF NextPass, MaterializedInv
    <3> QED
      BY <3>1, <3>2, <3>3
  <2>4. CASE Cycle
    <3>1. PassInv'
      BY <2>4 DEF Cycle, PassInv
    <3>2. CloneInv'
      BY <2>4 DEF Cycle, CloneInv
    <3>3. MaterializedInv'
      BY <2>4 DEF Cycle, MaterializedInv
    <3> QED
      BY <3>1, <3>2, <3>3
  <2>5. CASE Finish
    <3>1. PassInv'
      BY <2>5 DEF Finish, PassInv
    <3>2. Closed(working)
      <4>1. \A j \in 1..Len(rules) : j \in 1..(next - 1)
        BY <2>0, <2>5 DEF Finish, TypeOK
      <4> QED
        BY <2>5, <4>1 DEF Finish, PassInv, Closed
    <3>3. CloneInv'
      BY <2>5, <3>2 DEF Finish, CloneInv, loop, Closed
    <3>4. MaterializedInv'
      BY <2>5 DEF Finish, MaterializedInv, loop, Closed
    <3> QED
      BY <3>1, <3>3, <3>4
  <2>6. CASE Materialize
    <3>1. PassInv' /\ CloneInv'
      BY <2>6 DEF Materialize, PassInv, CloneInv
    <3>2. ontology' = working
      BY <2>6 DEF Materialize, derived, CloneInv
    <3>3. MaterializedInv'
      BY <2>6, <3>2 DEF Materialize, MaterializedInv, CloneInv, Closed
    <3> QED
      BY <3>1, <3>3
  <2>7. CASE Return
    <3>1. PassInv' /\ CloneInv'
      BY <2>7 DEF Return, PassInv, CloneInv
    <3>2. MaterializedInv'
      BY <2>7 DEF Return, MaterializedInv, Closed
    <3> QED
      BY <3>1, <3>2
  <2>8. CASE UNCHANGED vars
    BY <2>8 DEF PassInv, CloneInv, MaterializedInv, Closed, vars, loop
  <2> QED
    BY <2>1, <2>2, <2>3, <2>4, <2>5, <2>6, <2>7, <2>8 DEF Next
<1> QED
  BY <1>1, <1>2, ReasonerTypeCorrect, PTL DEF Spec

\* An Ok result is closed under the rules as they are stated, up to
\* reflexive facts.
THEOREM OkAlwaysClosed == Spec => []OkIsClosed
<1>1. TypeOK /\ ClosureInv => OkIsClosed
  <2> SUFFICES ASSUME TypeOK, ClosureInv, phase = "ok", NEW i \in DOMAIN rules
               PROVE  Stated(rules[i], working \cup Loops) \subseteq working \cup Loops
    BY DEF OkIsClosed
  <2>1. i \in 1..Len(rules) /\ rules[i] \in RuleNames
    BY RuleSetsAssumption DEF TypeOK
  <2>2. apply(rules[i], working) \subseteq working
    BY <2>1 DEF ClosureInv, CloneInv, Closed
  <2> QED
    BY <2>1, <2>2, ClosedUpToLoops
<1> QED
  BY <1>1, ReasonerTypeCorrect, ClosureInvHolds, PTL

\* After materialize every run is clean: one pass, nothing derived, no error.
THEOREM RerunAlwaysClean == Spec => []RerunIsClean
<1>1. TypeOK /\ ClosureInv => RerunIsClean
  BY DEF TypeOK, ClosureInv, MaterializedInv, RerunIsClean, derived
<1> QED
  BY <1>1, ReasonerTypeCorrect, ClosureInvHolds, PTL

\* materialize is all or nothing: the caller's ontology is the authored one or
\* closed, whatever caps, rule lists and runs; a run that met the cap leaves
\* nothing behind.
THEOREM OntologyNeverHalfClosed == Spec => []NeverHalfClosed
<1> DEFINE UntilMaterialized == ~materialized => ontology = authored
<1>1. Init => UntilMaterialized
  BY DEF Init
<1>2. UntilMaterialized /\ [Next]_vars => UntilMaterialized'
  BY DEF Next, Run, Apply, NextPass, Cycle, Finish, Materialize, Return, vars
<1>3. TypeOK /\ ClosureInv /\ UntilMaterialized => NeverHalfClosed
  <2> SUFFICES ASSUME TypeOK, ClosureInv, materialized, NEW i \in DOMAIN rules
               PROVE  Stated(rules[i], ontology \cup Loops) \subseteq ontology \cup Loops
    BY DEF NeverHalfClosed
  <2>1. i \in 1..Len(rules) /\ rules[i] \in RuleNames
    BY RuleSetsAssumption DEF TypeOK
  <2>2. apply(rules[i], ontology) \subseteq ontology
    BY <2>1 DEF ClosureInv, MaterializedInv, Closed
  <2> QED
    BY <2>1, <2>2, ClosedUpToLoops
<1> QED
  BY <1>1, <1>2, <1>3, ReasonerTypeCorrect, ClosureInvHolds, PTL DEF Spec

----------------------------------------------------------------------------
(* The iteration cap. *)

\* Every pass that was followed by another one has derived a fact of its own,
\* and so has the present one if it has produced anything.
PassesPaid ==
    /\ phase = "looping" =>
           iterations + (IF produced_new THEN 1 ELSE 0) <= Cardinality(derived) + 1
    /\ phase = "cycle" => max_iterations <= Cardinality(derived)

\* Cycle is returned only after as many facts were derived as the cap allows
\* passes.  Hence, over finitely many names, no cap above the number of facts
\* ever cuts a run short, whatever cycles the authored facts contain: the
\* forward chaining of run() ends by itself.
THEOREM CapNeverCutsShort ==
    ASSUME IsFiniteSet(Facts), Enough \in Nat, Cardinality(Facts) < Enough
    PROVE  Spec => []CapOnlyWhenTight
<1>1. Init => PassesPaid
  BY DEF Init, PassesPaid
<1>2. TypeOK /\ ClosureInv /\ PassesPaid /\ [Next]_vars => PassesPaid'
  <2> SUFFICES ASSUME TypeOK, ClosureInv, PassesPaid, [Next]_vars PROVE PassesPaid'
    OBVIOUS
  <2>0. /\ max_iterations \in Nat \ {0} /\ iterations \in Nat
        /\ IsFiniteSet(derived) /\ Cardinality(derived) \in Nat
    <3>1. derived \subseteq Facts
      BY DEF derived, TypeOK
    <3>2. IsFiniteSet(derived) /\ Cardinality(derived) \in Nat
      BY <3>1, FS_Subset, FS_CardinalityType
    <3>3. max_iterations \in Nat \ {0}
      BY CapsAssumption DEF TypeOK
    <3>4. iterations \in Nat
      BY <3>3 DEF TypeOK
    <3> QED BY <3>2, <3>3, <3>4
  <2>1. CASE Run
    <3>1. derived' = {}
      BY <2>1 DEF Run, derived
    <3>2. phase' = "looping" /\ iterations' = 1 /\ ~produced_new'
      BY <2>1 DEF Run
    <3> QED BY <3>1, <3>2, FS_EmptySet DEF PassesPaid
  <2>2. CASE Apply
    <3> DEFINE out == apply(rules[next], working)
    <3>0. /\ phase = "looping" /\ phase' = "looping" /\ iterations' = iterations
          /\ working' = working \cup out /\ ontology' = ontology
          /\ next \in 1..Len(rules)
      BY <2>2, RuleSetsAssumption DEF Apply, TypeOK
    <3>1. produced_new' <=> (produced_new \/ ~(out \subseteq working))
      BY <2>2, Zenon DEF Apply
    <3>2. out \subseteq Facts
      <4>1. rules[next] \in RuleNames
        BY <3>0, RuleSetsAssumption DEF TypeOK
      <4> QED BY <4>1, ApplyType
    <3> HIDE DEF out
    <3>3. derived' = derived \cup (out \ ontology) /\ derived' \subseteq Facts
      BY <3>0, <3>2 DEF derived, TypeOK
    <3>4. IsFiniteSet(derived') /\ Cardinality(derived') \in Nat
      BY <3>3, FS_Subset, FS_CardinalityType
    <3>5. Cardinality(derived) <= Cardinality(derived')
      BY <3>3, <3>4, FS_Subset
    <3>6. CASE out \subseteq working
      BY <2>0, <3>0, <3>1, <3>4, <3>5, <3>6 DEF PassesPaid
    <3>7. CASE ~(out \subseteq working)
      <4>1. PICK f \in out : f \notin working
        BY <3>7
      <4>2. f \in derived' /\ f \notin derived
        BY <3>0, <3>3, <4>1 DEF derived, ClosureInv, CloneInv
      <4>3. Cardinality(derived) # Cardinality(derived')
        BY <3>3, <3>4, <4>2, FS_Subset
      <4>4. Cardinality(derived) < Cardinality(derived')
        BY <2>0, <3>4, <3>5, <4>3
      <4>5. iterations <= Cardinality(derived) + 1
        BY <2>0, <3>0 DEF PassesPaid
      <4>6. iterations + 1 <= Cardinality(derived') + 1
        BY <2>0, <3>4, <4>4, <4>5
      <4> QED BY <2>0, <3>0, <3>4, <4>6 DEF PassesPaid
    <3> QED BY <3>6, <3>7
  <2>3. CASE NextPass
    <3>1. /\ phase = "looping" /\ phase' = "looping" /\ produced_new /\ ~produced_new'
          /\ iterations' = iterations + 1 /\ derived' = derived
      BY <2>3 DEF NextPass, derived
    <3> QED BY <2>0, <3>1 DEF PassesPaid
  <2>4. CASE Cycle
    <3>1. /\ phase = "looping" /\ phase' = "cycle" /\ produced_new
          /\ iterations + 1 > max_iterations
          /\ max_iterations' = max_iterations /\ derived' = derived
      BY <2>4 DEF Cycle, derived
    <3> QED BY <2>0, <3>1 DEF PassesPaid
  <2>5. CASE Finish \/ Materialize \/ Return
    <3>1. phase' \in {"ok", "idle"}
      BY <2>5 DEF Finish, Materialize, Return
    <3> QED BY <3>1 DEF PassesPaid
  <2>6. CASE UNCHANGED vars
    BY <2>6 DEF vars, loop, PassesPaid, derived
  <2> QED BY <2>1, <2>2, <2>3, <2>4, <2>5, <2>6 DEF Next
<1>3. TypeOK /\ PassesPaid => CapOnlyWhenTight
  <2> SUFFICES ASSUME TypeOK, PassesPaid, phase = "cycle" PROVE max_iterations < Enough
    BY DEF CapOnlyWhenTight
  <2>1. derived \subseteq Facts
    BY DEF derived, TypeOK
  <2>2. /\ Cardinality(derived) <= Cardinality(Facts)
        /\ Cardinality(derived) \in Nat /\ Cardinality(Facts) \in Nat
    BY <2>1, FS_Subset, FS_CardinalityType
  <2>3. max_iterations \in Nat
    BY CapsAssumption DEF TypeOK
  <2> QED BY <2>2, <2>3 DEF PassesPaid
<1> QED BY <1>1, <1>2, <1>3, ReasonerTypeCorrect, ClosureInvHolds, PTL DEF Spec
=============================================================================
