------------------------------ MODULE RdfCodec -------------------------------
(***************************************************************************)
(* atomr-ontology-rdf: the projection of an ontology to triples and back,  *)
(* and the Turtle, N-Triples and JSON-LD writers and parsers.              *)
(*                                                                         *)
(* A document is the sequence of what its parser reads: prefix bindings    *)
(* and terms.  A literal's text is kept character by character, because    *)
(* escaping is about that; every other name is one value, and constants    *)
(* say what the code looks for in it.                                      *)
(***************************************************************************)
EXTENDS PropertyGraph

CONSTANTS
    StandardBindings, \* prefix -> base, Vocabulary::with_standard_bindings
    NsRank,           \* namespace -> its place in the order of strings
    Colons,           \* name with a colon -> its parts, <<prefix, local>>
    LastParts,        \* local name with '#', '/' or ':' -> what is behind the last
    CodePoints,       \* hexadecimal digits -> the character of that number
    Spaced,           \* local names with ' ' or '/'
    Dotted            \* local names with '.', ';' or ','

ASSUME ColonsAssumption   == \A n \in DOMAIN Colons : Len(Colons[n]) = 2
ASSUME BindingsAssumption == DOMAIN StandardBindings # {}
ASSUME NsRankAssumption   == \A n \in DOMAIN NsRank : NsRank[n] \in Nat

LocalNs == "local"          \* https://atomr.dev/ontology/local#
Rdf(l)  == <<"rdf", l>>
Rdfs(l) == <<"rdfs", l>>
Owl(l)  == <<"owl", l>>
Xsd(l)  == <<"xsd", l>>

IriTerm(iri)  == [kind |-> "iri", value |-> iri]
Blank(label)  == [kind |-> "blank", value |-> label]
Literal(chars, datatype) == [kind |-> "literal", value |-> chars, datatype |-> datatype]
Triple(s, p, o) == [subject |-> s, predicate |-> p, object |-> o]

----------------------------------------------------------------------------
(* adapter.rs, to_rdf *)

\* A bound CURIE is expanded, another name with a colon is an IRI already,
\* and a plain name is local.
EnsureIri(o, name) ==
    IF name \notin DOMAIN Colons THEN <<LocalNs, name>>
    ELSE LET c == Colons[name]
         IN  IF c[1] \in DOMAIN o.vocabulary THEN <<o.vocabulary[c[1]], c[2]>> ELSE c

IriOr(o, opt, name) == IF opt = None THEN EnsureIri(o, name) ELSE The(opt)

\* xsd_* and datatype_iri.
DatatypeIri(datatype) ==
    CASE datatype = "float"     -> Xsd("double")
      [] datatype = "bool"      -> Xsd("boolean")
      [] datatype = "date_time" -> Xsd("dateTime")
      [] datatype = "iri"       -> Xsd("anyURI")
      [] datatype = "bytes"     -> Xsd("base64Binary")
      [] datatype = "json"      -> Rdf("JSON")
      [] OTHER                  -> Xsd(datatype)

IriTriple(s, p, o) == Triple(IriTerm(s), p, IriTerm(o))
IriTriples(o, s, p, names) == [i \in DOMAIN names |-> IriTriple(s, p, EnsureIri(o, names[i]))]

PropertyTriples(o, class, prop) ==
    LET iri == IriOr(o, prop.iri, prop.name)
    IN  <<IriTriple(iri, Rdf("type"), Owl("DatatypeProperty")),
          IriTriple(iri, Rdfs("domain"), class),
          IriTriple(iri, Rdfs("range"), DatatypeIri(prop.datatype))>>

ClassTriples(o, type) ==
    LET class == IriOr(o, type.iri, type.name)
    IN  <<IriTriple(class, Rdf("type"), Owl("Class"))>>
        \o IriTriples(o, class, Rdfs("subClassOf"), type.supertypes)
        \o FlattenSeq([i \in DOMAIN type.properties |-> PropertyTriples(o, class, type.properties[i])])

EdgeTypeTriples(o, type) ==
    LET pred == IriOr(o, type.iri, type.name)
    IN  <<IriTriple(pred, Rdf("type"), Owl("ObjectProperty"))>>
        \o (IF type.functional THEN <<IriTriple(pred, Rdf("type"), Owl("FunctionalProperty"))>> ELSE <<>>)
        \o (IF type.inverse_of = None THEN <<>>
            ELSE <<IriTriple(pred, Owl("inverseOf"), EnsureIri(o, The(type.inverse_of)))>>)
        \o IriTriples(o, pred, Rdfs("domain"), type.domain)
        \o IriTriples(o, pred, Rdfs("range"), type.range)

EmitSchema(o) ==
    LET nts == Values(o.schema.node_types)
        ets == Values(o.schema.edge_types)
    IN  FlattenSeq([i \in DOMAIN nts |-> ClassTriples(o, nts[i])])
        \o FlattenSeq([i \in DOMAIN ets |-> EdgeTypeTriples(o, ets[i])])

\* node_subject and node_object.  An anonymous node is a blank subject,
\* but as the object of an edge it is an IRI "_:n<id>".
NodeSubject(node) == IF node.iri = None THEN Blank(<<"", node.id>>) ELSE IriTerm(The(node.iri))
NodeObject(o, id) == IF id \in DOMAIN o.nodes /\ o.nodes[id].iri # None
                     THEN IriTerm(The(o.nodes[id].iri)) ELSE IriTerm(<<"_:n", id>>)

\* value_to_object: null has none.
ValueToObject(value) ==
    CASE value.kind = "null" -> None
      [] value.kind = "iri"  -> Some(IriTerm(value.value))
      [] OTHER               -> Some(Literal(value.value, DatatypeIri(value.kind)))

\* The IRI of a property is looked up in the first declared type only.
PropertyIri(o, node, name) ==
    LET declared == SelectSeq(node.types, LAMBDA t : t \in DOMAIN o.schema.node_types)
        props    == IF declared = <<>> THEN <<>> ELSE o.schema.node_types[declared[1]].properties
        found    == SelectSeq(props, LAMBDA p : p.name = name)
    IN  IF found = <<>> THEN EnsureIri(o, name) ELSE IriOr(o, found[1].iri, name)

ClassIri(o, name) == IF name \in DOMAIN o.schema.node_types
                     THEN IriOr(o, o.schema.node_types[name].iri, name) ELSE EnsureIri(o, name)

NodeTriples(o, node) ==
    LET subject == NodeSubject(node)
        keys    == SelectSeq(Listed(DOMAIN node.properties),
                             LAMBDA k : ValueToObject(node.properties[k]) # None)
    IN  [i \in DOMAIN node.types |-> Triple(subject, Rdf("type"), IriTerm(ClassIri(o, node.types[i])))]
        \o [i \in DOMAIN keys |-> Triple(subject, PropertyIri(o, node, keys[i]),
                                         The(ValueToObject(node.properties[keys[i]])))]

\* An edge without a source node is left out.
EdgeTriples(o, edge) ==
    LET pred == IF edge.label \in DOMAIN o.schema.edge_types
                THEN IriOr(o, o.schema.edge_types[edge.label].iri, edge.label) ELSE EnsureIri(o, edge.label)
    IN  IF edge.source \notin DOMAIN o.nodes THEN <<>>
        ELSE <<Triple(NodeSubject(o.nodes[edge.source]), pred, NodeObject(o, edge.target))>>

\* Axioms name classes and properties, whatever IRI the schema gives them.
AxiomPredicate(kind) ==
    CASE kind = "sub_class_of"     -> Rdfs("subClassOf")
      [] kind = "equivalent_class" -> Owl("equivalentClass")
      [] kind = "disjoint_with"    -> Owl("disjointWith")
      [] kind = "domain"           -> Rdfs("domain")
      [] kind = "range"            -> Rdfs("range")
      [] kind = "inverse_of"       -> Owl("inverseOf")
      [] OTHER                     -> Rdf("type")

AxiomObject(o, axiom) ==
    CASE axiom.kind = "functional"         -> Owl("FunctionalProperty")
      [] axiom.kind = "inverse_functional" -> Owl("InverseFunctionalProperty")
      [] axiom.kind = "symmetric"          -> Owl("SymmetricProperty")
      [] axiom.kind = "transitive"         -> Owl("TransitiveProperty")
      [] OTHER                             -> EnsureIri(o, axiom.operands[2])

AxiomTriple(o, axiom) ==
    IriTriple(EnsureIri(o, axiom.operands[1]), AxiomPredicate(axiom.kind), AxiomObject(o, axiom))

ToRdf(o) ==
    LET nodes  == Values(o.nodes)
        edges  == Values(o.edges)
        axioms == Values(o.axioms)
    IN  EmitSchema(o)
        \o FlattenSeq([i \in DOMAIN nodes |-> NodeTriples(o, nodes[i])])
        \o FlattenSeq([i \in DOMAIN edges |-> EdgeTriples(o, edges[i])])
        \o [i \in DOMAIN axioms |-> AxiomTriple(o, axioms[i])]

----------------------------------------------------------------------------
(* adapter.rs, from_rdf: class and property declarations, subclasses. *)

\* A namespace ends with '#', '/' or ':', and a name may hold more of them.
LocalName(iri) == IF iri[2] \in DOMAIN LastParts THEN LastParts[iri[2]] ELSE iri[2]

\* A class declaration starts its type anew; a superclass is added to the
\* type that has the name of the subject.
Absorb(schema, t) ==
    LET iri  == t.subject.value
        name == LocalName(iri)
        sup  == LocalName(t.object.value)
        type == IF name \in DOMAIN schema.node_types THEN schema.node_types[name]
                ELSE NodeType(name, Some(iri), <<>>, <<>>)
    IN  IF t.subject.kind # "iri" \/ t.object.kind # "iri" THEN schema
        ELSE IF t.predicate = Rdf("type") /\ t.object.value = Owl("Class")
        THEN DeclareNodeType(schema, NodeType(name, Some(iri), <<>>, <<>>))
        ELSE IF t.predicate = Rdf("type") /\ t.object.value = Owl("ObjectProperty")
        THEN DeclareEdgeType(schema, EdgeType(name, Some(iri), <<>>, <<>>))
        ELSE IF t.predicate = Rdfs("subClassOf")
        THEN DeclareNodeType(schema, [type EXCEPT !.supertypes = IF sup \in Range(@) THEN @ ELSE Append(@, sup)])
        ELSE schema

FromRdf(triples) == [EmptyOntology EXCEPT !.schema = FoldLeft(Absorb, EmptySchema, triples)]

----------------------------------------------------------------------------
(* Literals.  "é" stands for a character of several bytes. *)

\* Mutant: the quote is not escaped.
EscapeNoQuote(c) == CASE c = "\\" -> <<"\\", "\\">> [] c = "\n" -> <<"\\", "n">> [] OTHER -> <<c>>

Escape(c) ==
    CASE c = "\\" -> <<"\\", "\\">>
      [] c = "\"" -> <<"\\", "\"">>
      [] c = "\n" -> <<"\\", "n">>
      [] c = "\r" -> <<"\\", "r">>
      [] c = "\t" -> <<"\\", "t">>
      [] OTHER    -> <<c>>

WriteLiteral(chars) == <<"\"">> \o FlattenSeq([i \in DOMAIN chars |-> Escape(chars[i])]) \o <<"\"">>

Unescape(c) == CASE c = "n" -> "\n" [] c = "r" -> "\r" [] c = "t" -> "\t" [] OTHER -> c

\* N-Triples names a character by 4 or 8 hexadecimal digits; a number that
\* is no character (a surrogate) is left out.
HexDigits == {"0", "1", "2", "3", "4", "5", "6", "7", "8", "9", "a", "b", "c", "d", "e", "f", "A", "B", "C", "D", "E", "F"}
CodeLength(escape) == CASE escape = "u" -> 4 [] escape = "U" -> 8 [] OTHER -> 0
RECURSIVE ScanLiteral(_, _, _)

\* Both parsers read bytes: a character of several bytes comes back as
\* others.  An unknown escape is itself in Turtle and an error in N-Triples.
\* The text ends with the first quote that is not escaped.
ScanLiteral(text, strict, out) ==
    IF text = <<>> THEN None
    ELSE IF text[1] = "\"" THEN IF Len(text) = 1 THEN Some(out) ELSE None
    ELSE IF text[1] # "\\" THEN ScanLiteral(Tail(text), strict, Append(out, IF text[1] = "é" THEN "Ã©" ELSE text[1]))
    ELSE IF Len(text) = 1 \/ (strict /\ text[2] \notin {"n", "r", "t", "\"", "\\", "u", "U"}) THEN None
    ELSE IF strict /\ CodeLength(text[2]) > 0
    THEN LET digits == SubSeq(text, 3, CodeLength(text[2]) + 2)
             char   == IF digits \in DOMAIN CodePoints THEN <<CodePoints[digits]>> ELSE <<>>
         IN  IF Len(digits) < CodeLength(text[2]) \/ ~(Range(digits) \subseteq HexDigits) THEN None
             ELSE ScanLiteral(SubSeq(text, CodeLength(text[2]) + 3, Len(text)), strict, out \o char)
    ELSE ScanLiteral(SubSeq(text, 3, Len(text)), strict, Append(out, Unescape(text[2])))

ReadLiteral(text, strict) == ScanLiteral(Tail(text), strict, <<>>)

----------------------------------------------------------------------------
(* Turtle and N-Triples. *)

\* push_iri: the first prefix whose base the IRI starts with, unless the
\* rest has a space or a slash.
WriteIri(iri, vocab) ==
    LET bound == {p \in DOMAIN vocab : vocab[p] = iri[1] /\ iri[2] \notin Spaced}
    IN  IF bound = {} THEN [form |-> "angle", iri |-> iri]
        ELSE [form |-> "curie", iri |-> <<CHOOSE p \in bound : TRUE, iri[2]>>]

\* parse_iri_or_curie_or_blank: an unknown prefix is an error.  A CURIE ends
\* at '.', ';' or ',', and what is behind that is no predicate or object.
ReadIri(text, vocab) ==
    IF text.form = "angle" THEN Some(text.iri)
    ELSE IF text.iri[1] \in DOMAIN vocab /\ text.iri[2] \notin Dotted THEN Some(<<vocab[text.iri[1]], text.iri[2]>>) ELSE None

\* xsd:string is the datatype of a literal that is written without one.
WriteTerm(term, vocab, short) ==
    CASE term.kind = "iri"     -> [term EXCEPT !.value = WriteIri(@, vocab)]
      [] term.kind = "blank"   -> term
      [] term.kind = "literal" ->
            [term EXCEPT !.value = WriteLiteral(@),
                         !.datatype = IF short /\ @ = Xsd("string") THEN None ELSE Some(WriteIri(@, vocab))]

ReadTerm(text, vocab, strict) ==
    LET iri(t) == ReadIri(t, vocab)
        chars  == ReadLiteral(text.value, strict)
        type   == IF text.datatype = None THEN Some(Xsd("string")) ELSE iri(The(text.datatype))
    IN  CASE text.kind = "iri"     -> {IriTerm(x) : x \in iri(text.value)}
          [] text.kind = "blank"   -> Some(text)
          [] text.kind = "literal" -> {Literal(c, t) : c \in chars, t \in type}

WriteTriple(t, vocab, short) ==
    Triple(WriteTerm(t.subject, vocab, short), WriteIri(t.predicate, vocab), WriteTerm(t.object, vocab, short))

ReadTriple(text, vocab, strict) ==
    {Triple(s, p, o) : s \in ReadTerm(text.subject, vocab, strict), p \in ReadIri(text.predicate, vocab),
                       o \in ReadTerm(text.object, vocab, strict)}

\* Turtle declares the bindings of the ontology, or the standard ones when
\* it has none; N-Triples has no prefixes.
TurtleWrite(o) ==
    LET ts    == ToRdf(o)
        vocab == IF o.vocabulary = EmptyMap THEN StandardBindings ELSE o.vocabulary
    IN  [prefixes |-> vocab, triples |-> [i \in DOMAIN ts |-> WriteTriple(ts[i], vocab, TRUE)]]
NTriplesWrite(o) ==
    LET ts == ToRdf(o) IN [prefixes |-> EmptyMap, triples |-> [i \in DOMAIN ts |-> WriteTriple(ts[i], EmptyMap, FALSE)]]

\* The triples of a document, or nothing when one of them is malformed.
ReadDocument(doc, strict) ==
    {[i \in DOMAIN read |-> The(read[i])] :
        read \in {r \in {[i \in DOMAIN doc.triples |-> ReadTriple(doc.triples[i], doc.prefixes, strict)]} :
                    \A i \in DOMAIN r : r[i] # None}}

TurtleParse(doc)   == ReadDocument(doc, FALSE)
NTriplesParse(doc) == ReadDocument(doc, TRUE)

----------------------------------------------------------------------------
(* JSON-LD: one object per subject, its predicates and their values.  The  *)
(* objects come in the order of their identifiers, the predicates of an    *)
(* object in the order of their names; strings are escaped by serde_json.  *)

JsonLdWrite(o) ==
    LET ts == ToRdf(o)
        group(s) == [id |-> s, values |->
                     [p \in {ts[i].predicate : i \in {j \in DOMAIN ts : ts[j].subject = s}} |->
                        LET mine == SelectSeq(ts, LAMBDA t : t.subject = s /\ t.predicate = p)
                        IN  [i \in DOMAIN mine |-> mine[i].object]]]
    IN  {group(ts[i].subject) : i \in DOMAIN ts}

\* Identifiers sort as strings, "_:" before every scheme; within one
\* namespace any order will do.
SubjectRank(s) == IF s.kind = "blank" THEN 0 ELSE 1 + NsRank[s.value[1]]
PredicateRank(p) == NsRank[p[1]]

Sorted(S, Rank(_)) ==
    LET list == Listed(S)
    IN  FoldLeft(LAMBDA acc, x : LET less == SelectSeq(acc, LAMBDA y : Rank(y) <= Rank(x))
                                     more == SelectSeq(acc, LAMBDA y : Rank(y) > Rank(x))
                                 IN  less \o <<x>> \o more, <<>>, list)

\* An identifier that starts with "_:" is a blank node, also where an IRI
\* was written.
IdTerm(term) == IF term.kind = "iri" /\ term.value[1] = "_:n" THEN Blank(<<"n", term.value[2]>>) ELSE term

JsonLdParse(doc) ==
    LET objects == Sorted(doc, LAMBDA g : SubjectRank(g.id))
        triples(g) == LET ps == Sorted(DOMAIN g.values, PredicateRank)
                      IN  FlattenSeq([i \in DOMAIN ps |->
                            [j \in DOMAIN g.values[ps[i]] |->
                                Triple(g.id, ps[i], IdTerm(g.values[ps[i]][j]))]])
    IN  Some(FlattenSeq([i \in DOMAIN objects |-> triples(objects[i])]))
=============================================================================
