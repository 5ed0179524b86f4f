-------------------------- MODULE VocabularyImport ---------------------------
(***************************************************************************)
(* atomr-ontology-import: FOAF, SKOS and schema.org documents to an        *)
(* ontology, each by a mapping of the classes and properties it knows.     *)
(***************************************************************************)
EXTENDS RdfCodec

\* A vocabulary: classes by IRI, data properties with the classes that have
\* them, object properties with domain and range, and the class of a target
\* that no triple types.
Foaf ==
    [ns |-> "foaf", classes |-> <<"Person", "Organization">>,
     data |-> << <<"name", "string", <<"Person", "Organization">> >>,
                 <<"mbox", "iri", <<"Person", "Organization">> >>,
                 <<"homepage", "iri", <<"Person", "Organization">> >> >>,
     object |-> << <<"knows", <<"Person">>, <<"Person">> >>,
                   <<"member", <<"Organization">>, <<"Person">> >> >>,
     default |-> "Person"]

SchemaOrg ==
    [ns |-> "schema", classes |-> <<"Organization", "Person", "WebSite", "Place">>,
     data |-> << <<"name", "string", <<"Organization", "Person", "WebSite", "Place">> >>,
                 <<"url", "iri", <<"Organization", "Person", "WebSite", "Place">> >>,
                 <<"address", "string", <<"Organization", "Person", "Place">> >> >>,
     object |-> << <<"memberOf", <<"Person", "Organization">>, <<"Organization">> >>,
                   <<"worksFor", <<"Person">>, <<"Organization">> >> >>,
     default |-> "Organization"]

Skos ==
    [ns |-> "skos", classes |-> <<"Concept">>,
     data |-> << <<"prefLabel", "string", <<"Concept">> >>, <<"altLabel", "string", <<"Concept">> >>,
                 <<"definition", "string", <<"Concept">> >> >>,
     object |-> << <<"broader", <<"Concept">>, <<"Concept">> >>,
                   <<"narrower", <<"Concept">>, <<"Concept">> >>,
                   <<"related", <<"Concept">>, <<"Concept">> >> >>,
     default |-> "Concept"]

\* declare: the schema of a vocabulary, with or without individuals.
Declare(m) ==
    LET props(class) == LET mine == SelectSeq(m.data, LAMBDA d : class \in Range(d[3]))
                        IN  [i \in DOMAIN mine |-> PropertyType(mine[i][1], mine[i][2], AnyCount,
                                                                Some(<<m.ns, mine[i][1]>>))]
        classes == FoldLeft(LAMBDA s, c : DeclareNodeType(s, NodeType(c, Some(<<m.ns, c>>), <<>>, props(c))),
                            EmptySchema, m.classes)
    IN  [EmptyOntology EXCEPT !.schema =
            FoldLeft(LAMBDA s, x : DeclareEdgeType(s, EdgeType(x[1], Some(<<m.ns, x[1]>>), x[2], x[3])),
                     classes, m.object)]

IsClass(m, term) == term.kind = "iri" /\ term.value[1] = m.ns /\ term.value[2] \in Range(m.classes)

\* Pass 1: the recognised classes of a subject, in order.  Any triple whose
\* object is a class counts, whatever its predicate.
SubjectTypes(m, ts, iri) ==
    LET typing == SelectSeq(ts, LAMBDA t : t.subject = IriTerm(iri) /\ IsClass(m, t.object))
    IN  FoldLeft(LAMBDA acc, t : IF t.object.value[2] \in Range(acc) THEN acc
                                 ELSE Append(acc, t.object.value[2]), <<>>, typing)

\* Mutant: an existing node is replaced, and its properties with it.
EnsureNodeAfresh(o, iri, types) == UpsertNode(o, Node(iri, Some(iri), types, EmptyMap))

\* ensure_node: a node that exists keeps its properties and gains types.
EnsureNode(o, iri, types) ==
    IF iri \notin DOMAIN o.nodes THEN UpsertNode(o, Node(iri, Some(iri), types, EmptyMap))
    ELSE LET node == o.nodes[iri]
         IN  UpsertNode(o, [node EXCEPT !.types = @ \o SelectSeq(types, LAMBDA t : t \notin Range(node.types))])

\* literal_value for the datatypes the vocabularies use; text that is no IRI
\* (it is empty or has white space) stays a string.
LiteralValue(datatype, chars) ==
    IF datatype = "iri" /\ chars # <<>> /\ Range(chars) \cap {" ", "\n", "\r", "\t"} = {}
    THEN PropertyValue("iri", chars) ELSE PropertyValue("string", chars)

DataValue(datatype, object) ==
    CASE object.kind = "literal"                      -> Some(LiteralValue(datatype, object.value))
      [] object.kind = "iri" /\ datatype = "iri"      -> Some(PropertyValue("iri", object.value))
      [] OTHER                                        -> None

Entries(m, list, predicate) == SelectSeq(list, LAMBDA x : predicate = <<m.ns, x[1]>>)

\* Pass 2, one triple: a data property of a typed subject, or an edge from
\* a typed subject; its target gets the default class when it has none.
ProjectTriple(m, ts, o, t) ==
    LET data    == Entries(m, m.data, t.predicate)
        object  == Entries(m, m.object, t.predicate)
        subject == t.subject.value
        types   == SubjectTypes(m, ts, subject)
        value   == DataValue(data[1][2], t.object)
        target  == t.object.value
        found   == SubjectTypes(m, ts, target)
        ready   == EnsureNode(o, subject, types)
    IN  IF t.predicate = Rdf("type") \/ t.subject.kind # "iri" \/ types = <<>> THEN o
        ELSE IF data # <<>>
        THEN IF value = None THEN o
             ELSE [ready EXCEPT !.nodes[subject].properties = Put(@, data[1][1], The(value))]
        ELSE IF object # <<>> /\ t.object.kind = "iri"
        THEN UpsertEdge(EnsureNode(ready, target, IF found = <<>> THEN <<m.default>> ELSE found),
                        Edge(subject, object[1][1], target))
        ELSE o

\* project: every typed subject first, then the triples in order.
Project(m, ts) ==
    LET subjects == Listed({ts[i].subject.value : i \in {j \in DOMAIN ts : ts[j].subject.kind = "iri"}})
        typed    == SelectSeq(subjects, LAMBDA s : SubjectTypes(m, ts, s) # <<>>)
        seeded   == FoldLeft(LAMBDA o, s : EnsureNode(o, s, SubjectTypes(m, ts, s)), Declare(m), typed)
    IN  FoldLeft(LAMBDA o, t : ProjectTriple(m, ts, o, t), seeded, ts)

\* mirror_pref_label_as_name: a concept without a name is named by its label.
MirrorPrefLabel(o) ==
    [o EXCEPT !.nodes = [id \in DOMAIN @ |->
        IF HasType(@[id], "Concept") /\ "name" \notin DOMAIN @[id].properties
            /\ "prefLabel" \in DOMAIN @[id].properties
        THEN [@[id] EXCEPT !.properties = Put(@, "name", @["prefLabel"])] ELSE @[id]]]

Import(m, ts) == IF m.ns = "skos" THEN MirrorPrefLabel(Project(m, ts)) ELSE Project(m, ts)
=============================================================================
