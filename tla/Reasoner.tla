------------------------------ MODULE Reasoner ------------------------------
(* The forward-chaining reasoner of atomr-ontology-reason.                  *)
(*                                                                          *)
(* `run` closes a clone of an ontology under a rule set: it applies the     *)
(* rules in order, each to everything derived so far, pass after pass,      *)
(* until a pass adds nothing or the iteration cap is exceeded.              *)
(* `materialize` then merges what was derived into the ontology.            *)
(*                                                                          *)
(* Axiom and edge ids are hashes of what they say (Axiom::new,              *)
(* Edge::between), so a fact is its own id and an ontology is a set of      *)
(* facts.  Provenance stamps are not part of a fact's identity.             *)
EXTENDS Integers, Sequences, FiniteSets

CONSTANTS
    Classes, Properties, Nodes,
    Bases,            \* the ontologies reasoning starts from
    RuleSets,         \* the rule sets a Reasoner may be built with
    Caps,             \* the values of max_iterations
    MaxRuns,          \* bound: how often the caller reasons
    ClassModels,      \* interpretations of classes as sets of individuals
    PropertyModels,   \* interpretations of properties as relations on Nodes
    Enough            \* a number of passes that suffices for every base

VARIABLES
    authored,         \* history: the ontology before any reasoning
    ontology,         \* the caller's ontology
    rules, max_iterations,
    phase,            \* "idle", "looping", "ok" or "cycle"
    working,          \* run's clone of the ontology
    iterations, produced_new,
    next,             \* index of the next rule of this pass
    runs,             \* how many runs were started
    materialized      \* history: the last run's facts were merged

loop == <<working, iterations, produced_new, next>>
vars == <<authored, ontology, rules, max_iterations, phase, loop, runs, materialized>>

----------------------------------------------------------------------------
(* Facts: axioms about classes and properties, and edges. *)

SubClassOf(a, b)      == <<"SubClassOf", a, b>>
EquivalentClass(a, b) == <<"EquivalentClass", a, b>>
InverseOf(p, q)       == <<"InverseOf", p, q>>
Symmetric(p)          == <<"Symmetric", p>>
Transitive(p)         == <<"Transitive", p>>
Edge(a, p, b)         == <<"Edge", a, p, b>>

SubClassFacts   == {SubClassOf(a, b) : a, b \in Classes}
EquivalentFacts == {EquivalentClass(a, b) : a, b \in Classes}
InverseFacts    == {InverseOf(p, q) : p, q \in Properties}
FlagFacts       == {Symmetric(p) : p \in Properties} \cup {Transitive(p) : p \in Properties}
EdgeFacts       == {Edge(a, p, b) : a \in Nodes, p \in Properties, b \in Nodes}

ClassFacts    == SubClassFacts \cup EquivalentFacts
PropertyFacts == InverseFacts \cup FlagFacts \cup EdgeFacts
Facts         == ClassFacts \cup PropertyFacts

RuleNames == {"SubClassTransitivity", "EquivalentSymmetry", "EquivalentToSubClass",
              "InverseOfSymmetry", "PropertySymmetry", "PropertyTransitivity",
              "InverseOfMaterializes"}

ASSUME BasesAssumption == Bases \subseteq SUBSET Facts
ASSUME RuleSetsAssumption == RuleSets \subseteq Seq(RuleNames)
ASSUME CapsAssumption == Caps \subseteq Nat \ {0}
ASSUME MaxRunsAssumption == MaxRuns \in Nat

----------------------------------------------------------------------------
(* The rules.  Each reads the ontology F it is applied to and answers its   *)
(* conclusions; the code's own skipping of conclusions already in F is      *)
(* subsumed by the engine's check.                                          *)

\* Reflexive conclusions are skipped as cycles of the authored data.
subclass_transitivity(F) ==
    {f \in SubClassFacts : /\ f[2] # f[3]
                           /\ \E b \in Classes : SubClassOf(f[2], b) \in F /\ SubClassOf(b, f[3]) \in F}

equivalent_symmetry(F) == {f \in EquivalentFacts : EquivalentClass(f[3], f[2]) \in F}

equivalent_to_subclass(F) ==
    {f \in SubClassFacts : EquivalentClass(f[2], f[3]) \in F \/ EquivalentClass(f[3], f[2]) \in F}

inverse_of_symmetry(F) == {f \in InverseFacts : InverseOf(f[3], f[2]) \in F}

property_symmetry(F) == {f \in EdgeFacts : Symmetric(f[3]) \in F /\ Edge(f[4], f[3], f[2]) \in F}

\* Mutant: every property is taken for transitive.
property_transitivity_of_all(F) ==
    {f \in EdgeFacts : /\ f[2] # f[4]
                       /\ \E b \in Nodes : Edge(f[2], f[3], b) \in F /\ Edge(b, f[3], f[4]) \in F}

\* Self-loops are skipped here too.
property_transitivity(F) ==
    {f \in EdgeFacts : /\ Transitive(f[3]) \in F
                       /\ f[2] # f[4]
                       /\ \E b \in Nodes : Edge(f[2], f[3], b) \in F /\ Edge(b, f[3], f[4]) \in F}

\* Both directions of a declared pair are used.
inverse_of_materializes(F) ==
    {f \in EdgeFacts : \E p \in Properties : /\ InverseOf(p, f[3]) \in F \/ InverseOf(f[3], p) \in F
                                             /\ Edge(f[4], p, f[2]) \in F}

\* Rule::apply.
apply(rule, F) ==
    CASE rule = "SubClassTransitivity"  -> subclass_transitivity(F)
      [] rule = "EquivalentSymmetry"    -> equivalent_symmetry(F)
      [] rule = "EquivalentToSubClass"  -> equivalent_to_subclass(F)
      [] rule = "InverseOfSymmetry"     -> inverse_of_symmetry(F)
      [] rule = "PropertySymmetry"      -> property_symmetry(F)
      [] rule = "PropertyTransitivity"  -> property_transitivity(F)
      [] rule = "InverseOfMaterializes" -> inverse_of_materializes(F)

\* RuleSet::standard.
standard == <<"SubClassTransitivity", "EquivalentSymmetry", "EquivalentToSubClass",
              "InverseOfSymmetry", "PropertySymmetry", "PropertyTransitivity",
              "InverseOfMaterializes">>

----------------------------------------------------------------------------
(* The engine. *)

Init ==
    /\ authored \in Bases
    /\ ontology = authored
    /\ rules \in RuleSets
    /\ max_iterations \in Caps
    /\ phase = "idle"
    /\ working = {}
    /\ iterations = 0
    /\ produced_new = FALSE
    /\ next = 1
    /\ runs = 0
    /\ materialized = FALSE

\* `run` up to the first pass; the cap is at least 1.
Run ==
    /\ phase = "idle" /\ runs < MaxRuns
    /\ phase' = "looping"
    /\ runs' = runs + 1
    /\ working' = ontology
    /\ iterations' = 1
    /\ produced_new' = FALSE
    /\ next' = 1
    /\ UNCHANGED <<authored, ontology, rules, max_iterations, materialized>>

\* Mutant: only the last rule of a pass decides whether it added anything.
ApplyForgets ==
    /\ phase = "looping" /\ next <= Len(rules)
    /\ LET out == apply(rules[next], working)
       IN  /\ working' = working \cup out
           /\ produced_new' = ~(out \subseteq working)
    /\ next' = next + 1
    /\ UNCHANGED <<authored, ontology, rules, max_iterations, phase, iterations, runs, materialized>>

\* Mutant: a conclusion that is already known counts as new.
ApplyUnguarded ==
    /\ phase = "looping" /\ next <= Len(rules)
    /\ LET out == apply(rules[next], working)
       IN  /\ working' = working \cup out
           /\ produced_new' = (produced_new \/ out # {})
    /\ next' = next + 1
    /\ UNCHANGED <<authored, ontology, rules, max_iterations, phase, iterations, runs, materialized>>

\* One rule is applied to everything known and its new conclusions are added.
Apply ==
    /\ phase = "looping" /\ next <= Len(rules)
    /\ LET out == apply(rules[next], working)
       IN  /\ working' = working \cup out
           /\ produced_new' = (produced_new \/ ~(out \subseteq working))
    /\ next' = next + 1
    /\ UNCHANGED <<authored, ontology, rules, max_iterations, phase, iterations, runs, materialized>>

\* Mutant: the cap is not looked at.
NextPassUncapped ==
    /\ phase = "looping" /\ next > Len(rules)
    /\ produced_new
    /\ iterations' = iterations + 1
    /\ produced_new' = FALSE
    /\ next' = 1
    /\ UNCHANGED <<authored, ontology, rules, max_iterations, phase, working, runs, materialized>>

\* A pass that added something is followed by another one.
NextPass ==
    /\ phase = "looping" /\ next > Len(rules)
    /\ produced_new
    /\ iterations + 1 <= max_iterations
    /\ iterations' = iterations + 1
    /\ produced_new' = FALSE
    /\ next' = 1
    /\ UNCHANGED <<authored, ontology, rules, max_iterations, phase, working, runs, materialized>>

\* Mutant: what the passes derived before the cap is merged all the same.
CycleKeepsPartial ==
    /\ phase = "looping" /\ next > Len(rules)
    /\ produced_new
    /\ iterations + 1 > max_iterations
    /\ phase' = "cycle"
    /\ ontology' = working
    /\ iterations' = iterations + 1
    /\ UNCHANGED <<authored, rules, max_iterations, working, produced_new, next, runs, materialized>>

\* ... unless the cap is exceeded: Err(Cycle).
Cycle ==
    /\ phase = "looping" /\ next > Len(rules)
    /\ produced_new
    /\ iterations + 1 > max_iterations
    /\ phase' = "cycle"
    /\ iterations' = iterations + 1
    /\ UNCHANGED <<authored, ontology, rules, max_iterations, working, produced_new, next, runs, materialized>>

\* A pass that added nothing ends the run: Ok(report).
Finish ==
    /\ phase = "looping" /\ next > Len(rules)
    /\ ~produced_new
    /\ phase' = "ok"
    /\ UNCHANGED <<authored, ontology, rules, max_iterations, loop, runs, materialized>>

\* What the report lists: the facts of the clone the ontology does not hold.
derived == working \ ontology

\* Mutant: only the derived edges are merged back.
MaterializeEdges ==
    /\ phase = "ok"
    /\ ontology' = ontology \cup (derived \cap EdgeFacts)
    /\ materialized' = TRUE
    /\ phase' = "idle"
    /\ UNCHANGED <<authored, rules, max_iterations, loop, runs>>

\* `materialize` merges the report; an error returned before it.
Materialize ==
    /\ phase = "ok"
    /\ ontology' = ontology \cup derived
    /\ materialized' = TRUE
    /\ phase' = "idle"
    /\ UNCHANGED <<authored, rules, max_iterations, loop, runs>>

\* The caller of `run` keeps the report to itself, or receives the error.
Return ==
    /\ phase \in {"ok", "cycle"}
    /\ phase' = "idle"
    /\ UNCHANGED <<authored, ontology, rules, max_iterations, loop, runs, materialized>>

Next == Run \/ Apply \/ NextPass \/ Cycle \/ Finish \/ Materialize \/ Return

Spec == Init /\ [][Next]_vars

----------------------------------------------------------------------------
(* What a fact means: class names denote sets of individuals, properties    *)
(* denote relations between nodes.                                          *)

ClassFactHolds(f, m) ==
    /\ f[1] = "SubClassOf" => m[f[2]] \subseteq m[f[3]]
    /\ f[1] = "EquivalentClass" => m[f[2]] = m[f[3]]

PropertyFactHolds(f, m) ==
    /\ f[1] = "InverseOf" => \A a, b \in Nodes : <<a, b>> \in m[f[2]] <=> <<b, a>> \in m[f[3]]
    /\ f[1] = "Symmetric" => \A a, b \in Nodes : <<a, b>> \in m[f[2]] => <<b, a>> \in m[f[2]]
    /\ f[1] = "Transitive" => \A a, b, c \in Nodes :
           <<a, b>> \in m[f[2]] /\ <<b, c>> \in m[f[2]] => <<a, c>> \in m[f[2]]
    /\ f[1] = "Edge" => <<f[2], f[4]>> \in m[f[3]]

\* F entails G, as far as the given interpretations can tell.
Entails(F, G) ==
    /\ \A m \in ClassModels : (\A f \in F : ClassFactHolds(f, m)) => \A g \in G : ClassFactHolds(g, m)
    /\ \A m \in PropertyModels : (\A f \in F : PropertyFactHolds(f, m)) => \A g \in G : PropertyFactHolds(g, m)

\* The rules as rules.rs states them, reflexive conclusions included.
Loops == {SubClassOf(a, a) : a \in Classes} \cup {Edge(a, p, a) : a \in Nodes, p \in Properties}

Stated(rule, F) ==
    IF rule = "SubClassTransitivity"
    THEN {f \in SubClassFacts : \E b \in Classes : SubClassOf(f[2], b) \in F /\ SubClassOf(b, f[3]) \in F}
    ELSE IF rule = "PropertyTransitivity"
    THEN {f \in EdgeFacts : /\ Transitive(f[3]) \in F
                            /\ \E b \in Nodes : Edge(f[2], f[3], b) \in F /\ Edge(b, f[3], f[4]) \in F}
    ELSE apply(rule, F)

----------------------------------------------------------------------------
(* Properties. *)

\* Type correctness of the engine's loop (engine.rs, run).
TypeOK ==
    /\ authored \subseteq Facts
    /\ ontology \subseteq Facts
    /\ rules \in RuleSets
    /\ max_iterations \in Caps
    /\ phase \in {"idle", "looping", "ok", "cycle"}
    /\ working \subseteq Facts
    /\ iterations \in 0..(max_iterations + 1)
    /\ phase = "looping" => iterations <= max_iterations
    /\ produced_new \in BOOLEAN
    /\ next \in 1..(Len(rules) + 1)
    /\ runs \in 0..MaxRuns
    /\ materialized \in BOOLEAN

\* "The reasoner is sound" (engine.rs): whatever was derived, in a finished,
\* an unfinished or a failed run, and whatever was merged, holds in every
\* interpretation in which the authored facts hold.
Sound == Entails(authored, working \cup ontology)

\* A run that returns Ok has reached the fixed point of the rules as they
\* are stated in rules.rs: nothing but reflexive facts is missing.
OkIsClosed ==
    phase = "ok" =>
        \A i \in DOMAIN rules : Stated(rules[i], working \cup Loops) \subseteq working \cup Loops

\* "idempotent: re-running on an already-closed ontology produces zero new
\* facts" (engine.rs): after materialize every run is clean and takes one pass.
RerunIsClean ==
    materialized /\ phase \in {"ok", "cycle"} => derived = {} /\ iterations = 1 /\ phase = "ok"

\* materialize is all or nothing: the caller's ontology is what was authored
\* or closed under the rules, and never part of a closure, such as what a run
\* had derived when it met the cap (engine.rs, the `?` of materialize).
NeverHalfClosed ==
    \/ ontology = authored
    \/ \A i \in DOMAIN rules : Stated(rules[i], ontology \cup Loops) \subseteq ontology \cup Loops

\* The cap stops only runs that were given fewer passes than the rules need:
\* cycles in the authored facts never make the loop run away.
CapOnlyWhenTight == phase = "cycle" => max_iterations < Enough
=============================================================================
