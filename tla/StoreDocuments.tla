--------------------------- MODULE StoreDocuments ----------------------------
(***************************************************************************)
(* What is made from an ontology store: validation reports, SHACL shapes,  *)
(* RDF documents, snapshots on disk and answers over the wire.             *)
(***************************************************************************)
EXTENDS OntologyStore, Validation, ShaclShapes, VocabularyImport

----------------------------------------------------------------------------
(* Reports. *)

Classes == DOMAIN o.schema.node_types
           \cup UNION {Range(o.schema.node_types[t].supertypes) : t \in DOMAIN o.schema.node_types}
           \cup UNION {Range(o.nodes[n].types) : n \in DOMAIN o.nodes}
           \cup UNION {Range(x) : x \in AxiomsOf(o, "sub_class_of")}

\* The classes that chains of one or more links lead to.
Beyond(class, links) ==
    LET next(S) == {l[2] : l \in {x \in links : x[1] \in S}}
        up[k \in 0 .. Cardinality(links)] ==
            IF k = 0 THEN next({class}) ELSE LET below == up[k - 1] IN below \cup next(below)
    IN  up[Cardinality(links)]

Declared == {<<c, d>> \in Classes \X Classes :
                c \in DOMAIN o.schema.node_types /\ d \in Range(o.schema.node_types[c].supertypes)}
IsSubtype(c, d) == c = d \/ d \in Beyond(c, Declared)
OnCycle(c) == c \in Beyond(c, AxiomsOf(o, "sub_class_of"))

\* What is wrong with the ontology, stated for each rule by itself.
BadCounts ==
    {n \in DOMAIN o.nodes : \E t \in Range(o.nodes[n].types) \cap DOMAIN o.schema.node_types :
        \E p \in Range(o.schema.node_types[t].properties) :
            LET count == IF p.name \in DOMAIN o.nodes[n].properties THEN 1 ELSE 0
            IN  count < p.cardinality.min \/ \E m \in p.cardinality.max : count > m}
BadKinds ==
    {n \in DOMAIN o.nodes : \E t \in Range(o.nodes[n].types) \cap DOMAIN o.schema.node_types :
        \E p \in Range(o.schema.node_types[t].properties) :
            /\ p.name \in DOMAIN o.nodes[n].properties
            /\ o.nodes[n].properties[p.name].kind \notin {p.datatype, "null"}}
BadEnds(end(_), allowed(_)) ==
    {e \in DOMAIN o.edges :
        /\ o.edges[e].label \in DOMAIN o.schema.edge_types
        /\ end(o.edges[e]) \in DOMAIN o.nodes
        /\ LET classes == Range(allowed(o.schema.edge_types[o.edges[e].label]))
           IN  classes # {} /\ \A t \in Range(o.nodes[end(o.edges[e])].types) :
                                  \A d \in classes : ~IsSubtype(t, d)}
Disjoint == {n \in DOMAIN o.nodes : \E x \in AxiomsOf(o, "disjoint_with") : Range(x) \subseteq Range(o.nodes[n].types)}
Cyclic   == {c \in Classes : OnCycle(c)}

\* The edges a functional property has too many of, for each source.
Surplus(label, source) ==
    LET own == {e \in DOMAIN o.edges : o.edges[e].label = label /\ o.edges[e].source = source}
    IN  IF own = {} THEN 0 ELSE Cardinality(own) - 1

Focused(report, code) == {report[i].focus : i \in {j \in DOMAIN report : report[j].code = code}}

\* A report names every violation of the schema and of the axioms and
\* nothing else: supertypes are followed to the top whatever order types
\* were declared in, a cycle of subclasses is reported for each class on
\* it, and every edge but one of a functional property (shapes.rs:96,
\* consistency.rs:84).
ReportIsExact ==
    LET report == Validate(o)
        functional == Focused(report, "axiom.functional")
    IN  /\ Focused(report, "cardinality.violation") = BadCounts
        /\ Focused(report, "datatype.mismatch") = BadKinds
        /\ Focused(report, "edge.domain") = BadEnds(LAMBDA e : e.source, LAMBDA t : t.domain)
        /\ Focused(report, "edge.range") = BadEnds(LAMBDA e : e.target, LAMBDA t : t.range)
        /\ Focused(report, "axiom.disjoint") = Disjoint
        /\ Focused(report, "axiom.subclass.cycle") = Cyclic
        /\ \A x \in AxiomsOf(o, "functional"), s \in {o.edges[e].source : e \in DOMAIN o.edges} :
              Cardinality({e \in functional : e[1] = s /\ e[2] = x[1]}) = Surplus(x[1], s)
        /\ IsClean(report) <=> BadCounts \cup Disjoint = {} /\ functional = {} /\ Cyclic = {}
                /\ Focused(report, "edge.domain") \cup Focused(report, "edge.range") = {}

----------------------------------------------------------------------------
(* Shapes. *)

\* What shapes say of a schema: a class and a property have the local names
\* of their IRIs, and json is a string.
Shaped(type) ==
    LET iri(opt, name) == FallbackIri(opt, name)
        shaped(p) == [p EXCEPT !.name = LocalName(iri(p.iri, p.name)), !.iri = Some(iri(p.iri, p.name)),
                               !.datatype = IF @ = "json" THEN "string" ELSE @]
    IN  NodeType(LocalName(TypeIri(type)), Some(TypeIri(type)), <<>>,
                 [i \in DOMAIN type.properties |-> shaped(type.properties[i])])

\* A type that shapes do not change: json is not used, and the class and all
\* its properties have the local names of their IRIs.
Faithful(type) ==
    LET shaped == Shaped(type)
    IN  /\ shaped.name = type.name
        /\ \A i \in DOMAIN type.properties :
              /\ shaped.properties[i].name = type.properties[i].name
              /\ type.properties[i].datatype # "json"

\* The same shapes by another hand: a datatype with another name that the
\* parser knows, and counts that are no numbers.
Synonyms == ("integer" :> "int") @@ ("double" :> "decimal") @@ ("dateTime" :> "date") @@ ("base64Binary" :> "hexBinary")
ByHand(doc) ==
    LET written(l) == WriteIri(Xsd(l), doc.prefixes)
        term(t) == IF \E l \in DOMAIN Synonyms : t.predicate = WriteIri(Sh("datatype"), doc.prefixes) /\ t.object.value = written(l)
                   THEN [t EXCEPT !.object.value = written(Synonyms[CHOOSE l \in DOMAIN Synonyms : @ = written(l)])] ELSE t
        counts  == SelectSeq(doc.triples, LAMBDA t : t.predicate = WriteIri(Sh("maxCount"), doc.prefixes))
        many(t) == [t EXCEPT !.object.value = WriteLiteral(<<"m", "a", "n", "y">>)]
    IN  [doc EXCEPT !.triples = [i \in DOMAIN @ |-> term(@[i])] \o [i \in DOMAIN counts |-> many(counts[i])]]

\* A schema compiled to SHACL and parsed back is what its shapes say, the
\* blocks of one shape not mixed up with those of another, and bounds that
\* are not written the defaults (compile.rs, parse.rs).  Hence it judges a
\* node the same when the types of the node are unchanged by shapes; other
\* types come back under other names (parse.rs:88,166) or without json, and
\* types that share a local name replace each other.
ShaclKeepsFindings ==
    LET types == o.schema.node_types
        doc   == ToShaclTurtle(o.schema)
        back  == FromShaclTurtle(doc)
        distinct == \A s, t \in DOMAIN types : Shaped(types[s]).name = Shaped(types[t]).name => s = t
        plain(n) == \A t \in Range(n.types) : \A u \in DOMAIN types :
                        t \in {u, Shaped(types[u]).name} => Faithful(types[u])
    IN  /\ back # None
        /\ FromShaclTurtle(ByHand(doc)) = back
        /\ distinct => /\ Range(The(back).node_types) = {Shaped(types[t]) : t \in DOMAIN types}
                       /\ \A n \in DOMAIN o.nodes : plain(o.nodes[n]) =>
                             NodeFindings([o EXCEPT !.schema = The(back)], o.nodes[n]) = NodeFindings(o, o.nodes[n])

----------------------------------------------------------------------------
(* RDF. *)

\* Text as a reader of bytes sees it.
Garbled(t) ==
    IF t.object.kind # "literal" THEN t
    ELSE [t EXCEPT !.object.value = [i \in DOMAIN @ |-> IF @[i] = "é" THEN "Ã©" ELSE @[i]]]
AllGarbled(ts) == [i \in DOMAIN ts |-> Garbled(ts[i])]

\* An N-Triples document with its wide characters written as escapes.
WithEscapes(doc) ==
    LET wide(chars) == FlattenSeq([i \in DOMAIN chars |->
                            IF chars[i] = "é" THEN <<"\\", "u", "0", "0", "E", "9">> ELSE <<chars[i]>>])
    IN  [doc EXCEPT !.triples = [i \in DOMAIN @ |-> IF @[i].object.kind = "literal"
                                                    THEN [@[i] EXCEPT !.object.value = wide(@)] ELSE @[i]]]

\* Some IRI is written as a CURIE that does not end where its name ends.
HasDottedCurie(doc) ==
    LET dotted(iri) == iri.form = "curie" /\ iri.iri[2] \in Dotted
        irisOf(term) == CASE term.kind = "iri" -> {term.value} [] term.kind = "literal" -> term.datatype [] OTHER -> {}
    IN  \E i \in DOMAIN doc.triples :
            \E iri \in irisOf(doc.triples[i].subject) \cup {doc.triples[i].predicate} \cup irisOf(doc.triples[i].object) :
                dotted(iri)

\* The names of the classes of a document, and of the classes above one:
\* the local names of their IRIs, by declaration and by axioms.
NamedAs(c) == LocalName(ClassIri(o, c))
Above(name) ==
    LET declared == UNION {Range(o.schema.node_types[c].supertypes) :
                              c \in {d \in DOMAIN o.schema.node_types : NamedAs(d) = name}}
        stated   == {x[2] : x \in {y \in AxiomsOf(o, "sub_class_of") : LocalName(EnsureIri(o, y[1])) = name}}
    IN  {LocalName(EnsureIri(o, d)) : d \in declared \cup stated}

\* Classes come back with their superclasses.
KeepsClasses(triples, classes) ==
    LET types == FromRdf(triples).schema.node_types
    IN  \A c \in classes : NamedAs(c) \in DOMAIN types /\ Range(types[NamedAs(c)].supertypes) = Above(NamedAs(c))

\* A document says what the ontology says: both line formats give back the
\* triples they were written from, in order, whatever characters the
\* literals have to escape, and JSON-LD the same set of them; every class
\* comes back with all its superclasses, the ones that axioms add included
\* (turtle.rs, ntriples.rs, jsonld.rs, adapter.rs:from_rdf).  The
\* exceptions: Turtle cannot be read back when a CURIE has a '.', ';' or ','
\* in its local name (turtle.rs:290, against :101); wide characters are
\* garbled, unless N-Triples escapes them; and JSON-LD reads the subclass
\* axioms of a class with an IRI of its own before its declaration.
CodecsKeepTriples ==
    LET triples  == ToRdf(o)
        turtle   == TurtleWrite(o)
        ntriples == NTriplesWrite(o)
        json     == JsonLdParse(JsonLdWrite(o))
        classes  == DOMAIN o.schema.node_types
        distinct == \A c, d \in classes : NamedAs(c) = NamedAs(d) => c = d
    IN  /\ TurtleParse(turtle) = IF HasDottedCurie(turtle) THEN None ELSE Some(AllGarbled(triples))
        /\ NTriplesParse(ntriples) = Some(AllGarbled(triples))
        /\ NTriplesParse(WithEscapes(ntriples)) = Some(triples)
        /\ Range(The(json)) = {[triples[i] EXCEPT !.object = IdTerm(@)] : i \in DOMAIN triples}
        /\ distinct => /\ KeepsClasses(triples, classes)
                       /\ KeepsClasses(The(json), {c \in classes : o.schema.node_types[c].iri = None})

----------------------------------------------------------------------------
(* Imports. *)

\* What an importer gets: the exported document in the format it reads, the
\* same triples in another order, and with types under JSON-LD's "@type",
\* which its parser reads as a predicate named like the class.
ImportInputs(m) ==
    UNION {{ts, Reverse(ts), [i \in DOMAIN ts |-> IF ts[i].predicate = Rdf("type")
                                                  THEN [ts[i] EXCEPT !.predicate = ts[i].object.value] ELSE ts[i]]} :
              ts \in IF m = SchemaOrg THEN JsonLdParse(JsonLdWrite(o)) ELSE TurtleParse(TurtleWrite(o))}

\* What the vocabulary can say about the store.  A node of no known class
\* is only there as the end of an edge, with the default class and no
\* properties; a concept is named by its label.
Spoken(m) ==
    LET known(n) == Range(o.nodes[n].types) \cap Range(m.classes)
        typed    == {n \in DOMAIN o.nodes : known(n) # {}}
        links    == {e \in DOMAIN o.edges : o.edges[e].source \in typed}
        iri(n)   == The(o.nodes[n].iri)
        props(n) == LET p == o.nodes[n].properties
                        said == Restrict(p, DOMAIN p \cap {m.data[i][1] : i \in DOMAIN m.data})
                    IN  IF m = Skos /\ "prefLabel" \in DOMAIN said THEN Put(said, "name", said["prefLabel"]) ELSE said
    IN  [nodes |-> {[iri |-> iri(n), types |-> known(n), properties |-> props(n)] : n \in typed}
                   \cup {[iri |-> iri(n), types |-> {m.default}, properties |-> EmptyMap] :
                            n \in {o.edges[e].target : e \in links} \ typed},
         edges |-> {<<iri(o.edges[e].source), o.edges[e].label, iri(o.edges[e].target)>> : e \in links}]

\* The terms of the vocabulary itself are left out: the declaration of a
\* property mentions a class and makes the property a node.
Heard(imported, m) ==
    LET mine == {n \in DOMAIN imported.nodes : n[1] # m.ns}
    IN  [nodes |-> {[iri |-> The(imported.nodes[n].iri), types |-> Range(imported.nodes[n].types),
                     properties |-> imported.nodes[n].properties] : n \in mine},
         edges |-> DOMAIN imported.edges]

NamedEnds == \A e \in DOMAIN o.edges : {o.edges[e].source, o.edges[e].target} \subseteq DOMAIN o.nodes

\* An ontology over an imported vocabulary whose export can be read back
\* whole (CodecsKeepTriples says when) has, imported again, all the
\* vocabulary can say of it, in whatever order its triples arrive: types
\* found after the properties that need them, and nodes met again through
\* later edges, lose nothing (mapping.rs:181).
ImportReadsExport ==
    \A m \in {Foaf, SchemaOrg, Skos} :
        o.schema = Declare(m).schema /\ NamedEnds /\ TurtleParse(TurtleWrite(o)) = Some(ToRdf(o)) =>
            \A ts \in ImportInputs(m) : Heard(Import(m, ts), m) = Spoken(m)

----------------------------------------------------------------------------
(* Snapshots and calls. *)

IsFinite(map) == \A k \in DOMAIN map : \A p \in DOMAIN map[k].properties :
                    ~(map[k].properties[p].kind = "float" /\ map[k].properties[p].value \in NotFinite)
AllFinite == IsFinite(o.nodes) /\ IsFinite(o.edges)

\* The log of the store, with relations between what it has recorded.
Related(log) ==
    LET ids == Listed(DOMAIN log.activities)
        rel == [i \in DOMAIN ids |-> <<ids[i], ids[i]>>]
    IN  [log EXCEPT !.generations = rel, !.derivations = rel, !.uses = rel,
                    !.attributions = [i \in DOMAIN ids |-> [entity |-> ids[i], agent |-> "agent"]]]

Readers == {"get_node", "get_edge", "match_pattern", "traverse", "snapshot", "diff", "provenance"}
Writers == {"upsert_node", "upsert_edge", "upsert_axiom", "commit"}

\* What clients may ask of a remote store.
Arguments(method) ==
    CASE method = "get_node"      -> {n.id : n \in here.nodes}
      [] method = "get_edge"      -> {e.id : e \in here.edges}
      [] method = "match_pattern" -> {NodeOf(q.seed) : q \in PathQueries}
      [] method = "traverse"      -> {PlanOf(q) : q \in PathQueries}
      [] method = "diff"          -> {EmptyOntology} \cup {UpsertNode(o, n) : n \in here.nodes}
      [] method = "upsert_node"   -> here.nodes
      [] method = "upsert_edge"   -> here.edges
      [] method = "upsert_axiom"  -> here.axioms
      [] method = "commit"        -> {[delta |-> d, activity |-> a] : d \in here.deltas, a \in Activities}
      [] OTHER                    -> {"nothing"}

\* Whether everything a call sends and gets back is finite.
Portable(method, arg) ==
    CASE method = "get_node"    -> IsFinite(Restrict(o.nodes, {arg} \cap DOMAIN o.nodes))
      [] method = "snapshot"    -> AllFinite
      [] method = "diff"        -> IsFinite(arg.nodes) /\ IsFinite(arg.edges)
      [] method = "upsert_node" -> IsFinite(1 :> arg)
      [] OTHER                  -> TRUE

\* The answer of the store itself, and what it becomes.
LocalAnswer(method, arg, log) ==
    CASE method = "get_node"      -> Lookup(o.nodes, arg)
      [] method = "get_edge"      -> Lookup(o.edges, arg)
      [] method = "match_pattern" -> Traverse(o, PlanFrom(arg))
      [] method = "traverse"      -> Traverse(o, arg)
      [] method = "snapshot"      -> o
      [] method = "diff"          -> Diff(o, arg)
      [] method = "provenance"    -> log
LocalEffect(method, arg) ==
    CASE method = "upsert_node"  -> [store EXCEPT !.ontology = UpsertNode(o, arg)]
      [] method = "upsert_edge"  -> [store EXCEPT !.ontology = UpsertEdge(o, arg)]
      [] method = "upsert_axiom" -> [store EXCEPT !.ontology = UpsertAxiom(o, arg)]
      [] method = "commit"       -> Commit(store, arg.delta, arg.activity)

\* A snapshot on disk gives back the ontology and the whole provenance log,
\* and a remote client gets the answers of the local store and has its
\* effects, for every method; the one thing JSON cannot carry is a float
\* that is not finite: a store that holds one cannot be restored, and a
\* call that carries one fails and changes nothing (wire.rs:66,
\* protocol.rs:610).
WireKeepsStore ==
    LET log      == Related(store.provenance)
        served   == [store EXCEPT !.provenance = log]
        snapshot == [ontology |-> o, provenance |-> log, version |-> 1]
    IN  /\ IntoSnapshot(SnapshotWire(snapshot)) = IF AllFinite THEN Some(snapshot) ELSE None
        /\ \A m \in Readers : \A arg \in Arguments(m) :
              Answer(served, m, arg) = IF Portable(m, arg) THEN Some(LocalAnswer(m, arg, log)) ELSE None
        /\ \A m \in Writers : \A arg \in Arguments(m) :
              Effect(store, m, arg) = IF Portable(m, arg) THEN LocalEffect(m, arg) ELSE store

=============================================================================
