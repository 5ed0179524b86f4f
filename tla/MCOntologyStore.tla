--------------------------- MODULE MCOntologyStore ---------------------------
(* Worlds for TLC: a graph of three nodes with edges that may come before  *)
(* the nodes they join, a typed one with axioms and odd property values,   *)
(* and one for each vocabulary that can be imported.                       *)
EXTENDS StoreDocuments

MCForever == 5
MCColons  == ("foaf:Agent" :> <<"foaf", "Agent">>) @@ ("urn:Any" :> <<"urn", "Any">>)
MCStandard == ("rdf" :> "rdf") @@ ("rdfs" :> "rdfs") @@ ("owl" :> "owl") @@ ("xsd" :> "xsd") @@ ("schema" :> "schema")
Bindings   == MCStandard @@ ("ex" :> "ex") @@ ("foaf" :> "foaf") @@ ("skos" :> "skos")
MCLastParts  == ("v1/Per" :> "Per") @@ ("v1/Document" :> "Document")
MCCodePoints == <<"0", "0", "E", "9">> :> "é"
MCSpaced == {"v1/Per", "v1/Document"}
MCDotted == {"two.b"}
MCNsRank  == ("_:n" :> 0) @@ ("ex" :> 1) @@ ("rdf" :> 2) @@ ("rdfs" :> 3) @@ ("xsd" :> 4) @@ ("owl" :> 5)
             @@ ("skos" :> 6) @@ ("foaf" :> 7) @@ ("local" :> 8) @@ ("schema" :> 9) @@ ("urn" :> 10)

\* An empty ontology with a schema; with an IRI it has bindings of its own.
Start(iri, schema) == [EmptyOntology EXCEPT !.iri = iri, !.schema = schema,
                                            !.vocabulary = IF iri = None THEN EmptyMap ELSE Bindings]

Text(chars) == PropertyValue("string", chars)

GraphWorld ==
    [starts |-> {EmptyOntology},
     nodes   |-> {Node(1, None, <<"A">>, EmptyMap), Node(2, None, <<"B">>, "name" :> Text(<<"x">>)),
                  Node(3, None, <<"A", "B">>, "name" :> Text(<<"y">>))},
     edges   |-> {Edge(1, "p", 2), Edge(2, "p", 3), Edge(3, "p", 1), Edge(1, "p", 3), Edge(1, "p", 1),
                  Edge(1, "q", 2), Edge(2, "q", 3)},
     axioms  |-> {}, deltas |-> {}, max_edges |-> 4, max_axioms |-> 0]

NameProp == PropertyType("name", "string", ExactlyOne, None)
LabelProp == PropertyType("name", "string", ExactlyOne, Some(<<"rdfs", "label">>))
AgeProp  == PropertyType("age", "float", Bounds(0, Some(1)), Some(<<"ex", "age">>))
JsonProp == PropertyType("extra", "json", AnyCount, None)

Staff(emp, per) ==
    LET emps == DeclareNodeType(EmptySchema, NodeType("Emp", None, emp, <<AgeProp>>))
        pers == DeclareNodeType(emps, NodeType("Per", Some(<<"ex", "v1/Per">>), per, <<NameProp, AgeProp>>))
    IN  DeclareNodeType(pers, NodeType("Org", None, <<"foaf:Agent">>, <<LabelProp>>))

TypedWorld ==
    [starts |-> {Start(None, DeclareEdgeType(Staff(<<"Per">>, <<"Agent">>), EdgeType("p", None, <<"Agent">>, <<"Org">>))),
                 Start(Some(<<"ex", "onto">>), DeclareEdgeType(
                     DeclareNodeType(Staff(<<"Per">>, <<"Emp">>), NodeType("Doc", Some(<<"ex", "v1/Document">>), <<>>, <<JsonProp>>)),
                     [EdgeType("p", Some(<<"ex", "p">>), <<"Org">>, <<>>) EXCEPT !.functional = TRUE]))},
     nodes   |-> {Node(1, None, <<"Emp">>, "age" :> Text(<<"a">>)),
                  Node(1, None, <<"Emp", "Per">>, ("name" :> Text(<<"a", "\"", "\\", "n">>)) @@ ("age" :> NullValue)),
                  Node(1, None, <<"Per", "Org">>, "age" :> PropertyValue("float", <<"NaN">>)),
                  Node(2, Some(<<"ex", "two">>), <<"Org">>, "name" :> Text(<<"\n", "é">>)),
                  Node(2, Some(<<"ex", "two.b">>), <<"Org">>, EmptyMap)},
     edges   |-> {Edge(1, "p", 2), Edge(1, "p", 1), Edge(2, "p", 1)},
     axioms  |-> {Axiom("sub_class_of", <<"Emp", "Org">>), Axiom("sub_class_of", <<"Org", "Per">>),
                  Axiom("sub_class_of", <<"Per", "Emp">>), Axiom("disjoint_with", <<"Emp", "Per">>),
                  Axiom("functional", <<"p">>)},
     deltas  |-> {[nodes |-> <<Node(1, None, <<"Per">>, EmptyMap)>>, edges |-> <<Edge(1, "p", 2)>>,
                   axioms |-> <<Axiom("sub_class_of", <<"Emp", "Org">>)>>]},
     max_edges |-> 2, max_axioms |-> 3]

\* Three things of a vocabulary, one of a class it does not know.
VocabularyWorld(m, types, extra, label, link, back) ==
    [starts |-> {Start(Some(<<"ex", "onto">>), Declare(m).schema)},
     nodes   |-> {Node(1, Some(<<"ex", "one">>), types, (label :> Text(<<"a", "\"">>)) @@ extra),
                  Node(2, Some(<<"ex", "two">>), <<m.default, "Robot">>, "name" :> Text(<<"b">>)),
                  Node(3, Some(<<"ex", "three">>), <<"Robot">>, label :> Text(<<"c">>))},
     edges   |-> {Edge(1, link, 2), Edge(2, back, 1), Edge(1, link, 3), Edge(3, link, 1)},
     axioms  |-> {}, deltas |-> {}, max_edges |-> 4, max_axioms |-> 0]

MCWorlds == ("graph" :> GraphWorld) @@ ("typed" :> TypedWorld)
            @@ ("foaf" :> VocabularyWorld(Foaf, <<"Person", "Organization">>,
                        ("nick" :> Text(<<"a">>)) @@ ("mbox" :> PropertyValue("iri", <<"ex", "mail">>)), "name", "knows", "member"))
            @@ ("schema" :> VocabularyWorld(SchemaOrg, <<"Person">>,
                        ("address" :> Text(<<>>)) @@ ("url" :> PropertyValue("iri", <<"ex", "site">>)), "name", "worksFor", "memberOf"))
            @@ ("skos" :> VocabularyWorld(Skos, <<"Concept">>, "altLabel" :> Text(<<"d">>), "prefLabel", "broader", "narrower"))
MCActivities == {[id |-> "a1", label |-> "commit", agent |-> None]}

AnyNode(name) == [name |-> name, types |-> {}, props |-> EmptyMap]
OfType(name, type) == [name |-> name, types |-> {type}, props |-> EmptyMap]
Named(name, text) == [name |-> name, types |-> {}, props |-> "name" :> Text(text)]
Over(label, range, inbound, target) ==
    [name |-> "e" , label |-> label, range |-> range, inbound |-> inbound, target |-> target]
Query(seed, hops) ==
    [seed |-> seed, hops |-> hops, without |-> None, cols |-> <<>>, order |-> <<>>, skip |-> 0, limit |-> None]

Paths ==
    {Query(OfType("x", "A"), <<Over(l, r, b, AnyNode("y"))>>) :
        l \in {None, Some("p")}, b \in BOOLEAN,
        r \in {<<"one">>, <<"exact", 2>>, <<"any">>, <<"from", 2>>, <<"upto", 2>>, <<"between", 0, 1>>}}
    \cup {Query(AnyNode("x"), <<Over(Some("p"), <<"one">>, FALSE, OfType("y", "B")), [Over(None, <<"upto", 2>>, b, AnyNode("z")) EXCEPT !.name = "f"]>>) : b \in BOOLEAN}

ByEnds == <<[bind |-> "y", descending |-> TRUE], [bind |-> "x", descending |-> FALSE]>>

MCPathQueries ==
    Paths
    \cup {[q EXCEPT !.order = ByEnds, !.skip = 1, !.limit = Some(1)] : q \in {x \in Paths : Len(x.hops) = 1 /\ x.hops[1].range = <<"any">>}}
    \cup {[q EXCEPT !.cols = <<"x", "y">>] : q \in {x \in Paths : Len(x.hops) = 1}}
    \cup {[q EXCEPT !.cols = <<"x", "y", "z">>, !.without = Some(w)] :
             w \in {OfType("x", "B"), OfType("y", "A"), Named("z", <<"y">>)}, q \in {x \in Paths : Len(x.hops) = 2}}
    \cup {[Query(Named("x", <<"x">>), <<>>) EXCEPT !.cols = <<"x">>, !.limit = Some(1)],
          [Query(AnyNode("x"), <<>>) EXCEPT !.cols = <<"x">>, !.limit = Some(2)]}

MCTriples == {<<"x", "p", "y">>, <<"y", "q", "z">>, <<"y", "p", "z">>, <<"y", "a", "B">>, <<"x", "a", "A">>}
=============================================================================
