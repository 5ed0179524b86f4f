---------------------------- MODULE PropertyGraph ----------------------------
(***************************************************************************)
(* atomr-ontology-core: the labelled property graph every crate works on.  *)
(*                                                                         *)
(* An Option is a set with at most one element.  A BTreeMap is a function. *)
(* An identifier derived by hashing is what was hashed: an edge is its     *)
(* source, label and target, an axiom its kind and operands, a node with   *)
(* an IRI is that IRI (or any value the instance gives it).  An IRI is a   *)
(* pair of a namespace and a local name.                                   *)
(***************************************************************************)
EXTENDS Integers, Sequences, FiniteSets, TLC, SequencesExt

None    == {}
Some(x) == {x}
The(opt) == CHOOSE x \in opt : TRUE

EmptyMap == <<>>
Put(map, key, value) ==
    [k \in DOMAIN map \cup {key} |-> IF k = key THEN value ELSE map[k]]

\* Upserts in the order of a list: the last entry of an identifier stands.
PutAll(map, list) ==
    LET ids == {list[i].id : i \in DOMAIN list}
        last(id) == CHOOSE i \in DOMAIN list : list[i].id = id /\ \A j \in DOMAIN list : list[j].id = id => j <= i
    IN  [id \in DOMAIN map \cup ids |-> IF id \in ids THEN list[last(id)] ELSE map[id]]

\* One map laid over another.
Overlay(top, map) == [k \in DOMAIN top \cup DOMAIN map |-> IF k \in DOMAIN top THEN top[k] ELSE map[k]]

\* The entries of a list at some positions, in order.
Picked(list, S) ==
    FoldLeft(LAMBDA acc, i : IF i \in S THEN Append(acc, list[i]) ELSE acc, <<>>, [i \in DOMAIN list |-> i])

\* The values of a property, by kind.
PropertyValue(kind, value) == [kind |-> kind, value |-> value]
NullValue == PropertyValue("null", <<>>)

\* Node::new with with_iri, with_label and with_property.
Node(id, iri, types, properties) ==
    [id |-> id, iri |-> iri, types |-> types, properties |-> properties]

\* Node::from_iri: the identifier is a function of the IRI.
FromIri(iri, type) == Node(iri, Some(iri), <<type>>, EmptyMap)

HasType(node, type) == \E i \in DOMAIN node.types : node.types[i] = type

\* Edge::between.
Edge(source, label, target) ==
    [id |-> <<source, label, target>>, label |-> label, source |-> source,
     target |-> target, properties |-> EmptyMap]

\* Axiom::new: one axiom per kind and operands.
Axiom(kind, operands) ==
    [id |-> <<kind, operands>>, kind |-> kind, operands |-> operands, provenance |-> None]

AxiomsOf(o, kind) == {o.axioms[x].operands : x \in {y \in DOMAIN o.axioms : y[1] = kind}}

----------------------------------------------------------------------------
(* Schema. *)

Bounds(min, max) == [min |-> min, max |-> max]
AnyCount == Bounds(0, None)
ExactlyOne == Bounds(1, Some(1))

Admits(card, count) == count >= card.min /\ \A m \in card.max : count <= m

PropertyType(name, datatype, card, iri) ==
    [name |-> name, datatype |-> datatype, cardinality |-> card, iri |-> iri]

NodeType(name, iri, supertypes, properties) ==
    [name |-> name, iri |-> iri, supertypes |-> supertypes, properties |-> properties]

EdgeType(name, iri, domain, range) ==
    [name |-> name, iri |-> iri, domain |-> domain, range |-> range,
     cardinality |-> AnyCount, functional |-> FALSE, inverse_of |-> None]

EmptySchema == [node_types |-> EmptyMap, edge_types |-> EmptyMap]

\* Schema::declare_*: the last declaration of a name stands.
DeclareNodeType(schema, type) ==
    [schema EXCEPT !.node_types = Put(@, type.name, type)]
DeclareEdgeType(schema, type) ==
    [schema EXCEPT !.edge_types = Put(@, type.name, type)]

----------------------------------------------------------------------------
(* The ontology. *)

EmptyOntology ==
    [iri |-> None, vocabulary |-> EmptyMap, schema |-> EmptySchema,
     nodes |-> EmptyMap, edges |-> EmptyMap, axioms |-> EmptyMap]

UpsertNode(o, node)   == [o EXCEPT !.nodes = Put(@, node.id, node)]
UpsertEdge(o, edge)   == [o EXCEPT !.edges = Put(@, edge.id, edge)]
UpsertAxiom(o, axiom) == [o EXCEPT !.axioms = Put(@, axiom.id, axiom)]

\* Ontology::declare_*: a name that is declared keeps its declaration.
EnsureNodeType(o, name) ==
    IF name \in DOMAIN o.schema.node_types THEN o
    ELSE [o EXCEPT !.schema = DeclareNodeType(@, NodeType(name, None, <<>>, <<>>))]
EnsureEdgeType(o, name) ==
    IF name \in DOMAIN o.schema.edge_types THEN o
    ELSE [o EXCEPT !.schema = DeclareEdgeType(@, EdgeType(name, None, <<>>, <<>>))]

\* The keys of a BTreeMap in order.  Identifiers are hashes, so their order
\* is arbitrary but always the same.
Listed(S) ==
    LET list[T \in SUBSET S] ==
            IF T = {} THEN <<>> ELSE LET x == CHOOSE y \in T : TRUE IN <<x>> \o list[T \ {x}]
    IN  list[S]

Values(map) == LET keys == Listed(DOMAIN map) IN [i \in DOMAIN keys |-> map[keys[i]]]

Outbound(o, id) == SelectSeq(Values(o.edges), LAMBDA e : e.source = id)
Inbound(o, id)  == SelectSeq(Values(o.edges), LAMBDA e : e.target = id)
=============================================================================
