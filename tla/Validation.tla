----------------------------- MODULE Validation ------------------------------
(***************************************************************************)
(* atomr-ontology-validate: check_shapes, check_consistency and the report *)
(* that validate makes of them.  A finding is its severity, its code and   *)
(* what it is about; the report lists the findings in order.               *)
(***************************************************************************)
EXTENDS PropertyGraph

Finding(severity, code, focus) == [severity |-> severity, code |-> code, focus |-> focus]

IsClean(report) == \A i \in DOMAIN report : report[i].severity # "error"

When(condition, finding) == IF condition THEN <<finding>> ELSE <<>>

\* The findings for the values of a map, one after the other.
ForEach(map, Findings(_)) == LET v == Values(map) IN FlattenSeq([i \in DOMAIN v |-> Findings(v[i])])

----------------------------------------------------------------------------
(* shapes.rs *)

RECURSIVE Supertypes(_, _, _)

\* The stack of supertypes_of: pop, skip what is known, push the parents.
Supertypes(schema, stack, out) ==
    IF stack = <<>> THEN out
    ELSE LET n == Head(stack)
             parents == IF n \in DOMAIN schema.node_types
                        THEN schema.node_types[n].supertypes ELSE <<>>
         IN  IF n \in Range(out) THEN Supertypes(schema, Tail(stack), out)
             ELSE Supertypes(schema, parents \o Tail(stack), Append(out, n))

SupertypesOf(schema, name) == Supertypes(schema, <<name>>, <<>>)

\* The kind of a value has the name of its datatype; null fits all.
MatchesDatatype(value, datatype) == value.kind \in {datatype, "null"}

PropertyFindings(node, prop) ==
    LET has   == prop.name \in DOMAIN node.properties
        count == IF has THEN 1 ELSE 0
    IN  When(~Admits(prop.cardinality, count), Finding("error", "cardinality.violation", node.id))
        \o When(has /\ ~MatchesDatatype(node.properties[prop.name], prop.datatype),
                Finding("warning", "datatype.mismatch", node.id))

\* Each type of the node for itself: what a supertype declares is not asked.
NodeFindings(o, node) ==
    FlattenSeq([i \in DOMAIN node.types |->
        IF node.types[i] \notin DOMAIN o.schema.node_types THEN <<>>
        ELSE LET props == o.schema.node_types[node.types[i]].properties
             IN  FlattenSeq([j \in DOMAIN props |-> PropertyFindings(node, props[j])])])

TypeInChain(o, node, allowed) ==
    \E i \in DOMAIN node.types : Range(SupertypesOf(o.schema, node.types[i])) \cap Range(allowed) # {}

\* An end that is not in the store is not checked.
EndFindings(o, edge, end, allowed, code) ==
    When(allowed # <<>> /\ end \in DOMAIN o.nodes /\ ~TypeInChain(o, o.nodes[end], allowed),
         Finding("error", code, edge.id))

EdgeFindings(o, edge) ==
    IF edge.label \notin DOMAIN o.schema.edge_types THEN <<>>
    ELSE LET type == o.schema.edge_types[edge.label]
         IN  EndFindings(o, edge, edge.source, type.domain, "edge.domain")
             \o EndFindings(o, edge, edge.target, type.range, "edge.range")

CheckShapes(o) == ForEach(o.nodes, LAMBDA n : NodeFindings(o, n))
                  \o ForEach(o.edges, LAMBDA e : EdgeFindings(o, e))

----------------------------------------------------------------------------
(* consistency.rs *)

DisjointFindings(o, node) ==
    LET pairs == Listed(AxiomsOf(o, "disjoint_with"))
    IN  FlattenSeq([i \in DOMAIN pairs |->
            When(HasType(node, pairs[i][1]) /\ HasType(node, pairs[i][2]),
                 Finding("error", "axiom.disjoint", node.id))])

\* by_source counts as it goes: every edge but the first is reported.
FunctionalFindings(o) ==
    LET functional == {ops[1] : ops \in AxiomsOf(o, "functional")}
        edges      == SelectSeq(Values(o.edges), LAMBDA e : e.label \in functional)
    IN  FlattenSeq([i \in DOMAIN edges |->
            When(\E j \in 1 .. (i - 1) : /\ edges[j].label = edges[i].label
                                         /\ edges[j].source = edges[i].source,
                 Finding("error", "axiom.functional", edges[i].id))])

Parents(o, class) == {ops[2] : ops \in {x \in AxiomsOf(o, "sub_class_of") : x[1] = class}}

RECURSIVE ReachesStart(_, _, _, _)

\* has_cycle: a stack, and the classes that were popped from it.
ReachesStart(o, start, stack, seen) ==
    IF stack = <<>> THEN FALSE
    ELSE LET n    == Last(stack)
             rest == Front(stack)
         IN  IF n \in seen THEN ReachesStart(o, start, rest, seen)
             ELSE \/ start \in Parents(o, n)
                  \/ ReachesStart(o, start, rest \o Listed(Parents(o, n)), seen \cup {n})

\* Mutant: only a class that is its own parent is found.
HasCycleDirect(o, start) == start \in Parents(o, start)

HasCycle(o, start) == ReachesStart(o, start, <<start>>, {})

\* The class is only in the message of the finding; here it is the focus.
CycleFindings(o) ==
    LET starts == Listed({ops[1] : ops \in AxiomsOf(o, "sub_class_of")})
    IN  FlattenSeq([i \in DOMAIN starts |->
            When(HasCycle(o, starts[i]), Finding("error", "axiom.subclass.cycle", starts[i]))])

CheckConsistency(o) == ForEach(o.nodes, LAMBDA n : DisjointFindings(o, n))
                       \o FunctionalFindings(o) \o CycleFindings(o)

Validate(o) == CheckShapes(o) \o CheckConsistency(o)
=============================================================================
