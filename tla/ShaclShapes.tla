----------------------------- MODULE ShaclShapes -----------------------------
(***************************************************************************)
(* atomr-ontology-shacl: a schema compiled to SHACL shapes in Turtle, and  *)
(* shapes parsed back to a schema.                                         *)
(*                                                                         *)
(* Every node type is a shape with one block per property and per edge     *)
(* type that has it in its domain.  The blocks are blank nodes numbered    *)
(* through the whole document.  Turtle is that of RdfCodec.                *)
(***************************************************************************)
EXTENDS RdfCodec

Sh(l) == <<"sh", l>>
ShaclPrefixes == ("sh" :> "sh") @@ ("xsd" :> "xsd")

\* A name without an IRI is urn:atomr:shacl:<name>.
FallbackIri(opt, name) == IF opt = None THEN <<"urn:atomr:shacl:", name>> ELSE The(opt)

TypeIri(type)  == FallbackIri(type.iri, type.name)
ShapeIri(type) == <<TypeIri(type)[1], TypeIri(type)[2] \o "Shape">>

\* xsd_for_datatype: json has no datatype of its own.
XsdFor(datatype) == IF datatype = "json" THEN Xsd("string") ELSE DatatypeIri(datatype)

Count(n) == Literal(<<ToString(n)>>, Xsd("integer"))

\* minCount when it is not zero, maxCount when there is one.
CountTriples(block, card) ==
    (IF card.min > 0 THEN <<Triple(block, Sh("minCount"), Count(card.min))>> ELSE <<>>)
    \o (IF card.max = None THEN <<>> ELSE <<Triple(block, Sh("maxCount"), Count(The(card.max)))>>)

PropertyBlock(block, prop) ==
    <<Triple(block, Sh("path"), IriTerm(FallbackIri(prop.iri, prop.name)))>>
    \o CountTriples(block, prop.cardinality)
    \o <<Triple(block, Sh("datatype"), IriTerm(XsdFor(prop.datatype)))>>

RangeIri(schema, name) == IF name \in DOMAIN schema.node_types
                          THEN FallbackIri(schema.node_types[name].iri, name) ELSE FallbackIri(None, name)

EdgeBlock(block, schema, type) ==
    <<Triple(block, Sh("path"), IriTerm(FallbackIri(type.iri, type.name)))>>
    \o CountTriples(block, type.cardinality)
    \o <<Triple(block, Sh("nodeKind"), IriTerm(Sh("IRI")))>>
    \o [i \in DOMAIN type.range |-> Triple(block, Sh("class"), IriTerm(RangeIri(schema, type.range[i])))]

BlankLabel(n) == Blank(<<"b", n>>)

\* Mutant: the blank nodes of every shape are numbered from zero.
CompileShapeRestarting(schema, doc, type) ==
    LET edges == SelectSeq(Values(schema.edge_types), LAMBDA e : type.name \in Range(e.domain))
        np    == Len(type.properties)
        label(i) == BlankLabel(i - 1)
        shape == IriTerm(ShapeIri(type))
    IN  [triples |-> doc.triples
            \o <<Triple(shape, Rdf("type"), IriTerm(Sh("NodeShape"))),
                 Triple(shape, Sh("targetClass"), IriTerm(TypeIri(type)))>>
            \o [i \in 1 .. (np + Len(edges)) |-> Triple(shape, Sh("property"), label(i))]
            \o FlattenSeq([i \in 1 .. np |-> PropertyBlock(label(i), type.properties[i])])
            \o FlattenSeq([i \in DOMAIN edges |-> EdgeBlock(label(np + i), schema, edges[i])]),
         next |-> 0]

\* emit_node_shape and collect_property_refs: the shape, then its blocks.
CompileShape(schema, doc, type) ==
    LET edges == SelectSeq(Values(schema.edge_types), LAMBDA e : type.name \in Range(e.domain))
        np    == Len(type.properties)
        label(i) == BlankLabel(doc.next + i - 1)
        shape == IriTerm(ShapeIri(type))
    IN  [triples |-> doc.triples
            \o <<Triple(shape, Rdf("type"), IriTerm(Sh("NodeShape"))),
                 Triple(shape, Sh("targetClass"), IriTerm(TypeIri(type)))>>
            \o [i \in 1 .. (np + Len(edges)) |-> Triple(shape, Sh("property"), label(i))]
            \o FlattenSeq([i \in 1 .. np |-> PropertyBlock(label(i), type.properties[i])])
            \o FlattenSeq([i \in DOMAIN edges |-> EdgeBlock(label(np + i), schema, edges[i])]),
         next |-> doc.next + np + Len(edges)]

ToShaclTurtle(schema) ==
    LET ts == FoldLeft(LAMBDA doc, type : CompileShape(schema, doc, type),
                       [triples |-> <<>>, next |-> 0], Values(schema.node_types)).triples
    IN  [prefixes |-> ShaclPrefixes, triples |-> [i \in DOMAIN ts |-> WriteTriple(ts[i], ShaclPrefixes, FALSE)]]

----------------------------------------------------------------------------
(* parse.rs *)

Integers == {"integer", "int", "long", "short", "byte", "nonNegativeInteger", "positiveInteger",
             "negativeInteger", "nonPositiveInteger"}

\* datatype_from_xsd: anything unknown is a string.
DatatypeFromXsd(iri) ==
    CASE iri \in {Xsd(l) : l \in Integers}                        -> "integer"
      [] iri \in {Xsd("double"), Xsd("float"), Xsd("decimal")}    -> "float"
      [] iri = Xsd("boolean")                                     -> "bool"
      [] iri \in {Xsd("dateTime"), Xsd("date")}                   -> "date_time"
      [] iri = Xsd("anyURI")                                      -> "iri"
      [] iri \in {Xsd("base64Binary"), Xsd("hexBinary")}          -> "bytes"
      [] OTHER                                                    -> "string"

ObjectsOf(ts, subject, predicate) ==
    LET own == SelectSeq(ts, LAMBDA t : t.subject = subject /\ t.predicate = predicate)
    IN  [i \in DOMAIN own |-> own[i].object]

\* A number of one digit, or nothing.
LiteralAsU32(object) ==
    IF object.kind = "literal" THEN {n \in 0..9 : <<ToString(n)>> = object.value} ELSE None

\* parse_property_block: the last value of a term counts, of a count the
\* last one that is a number; a block without a path or a datatype is no
\* property.  A property has the local name of its path.
ParseBlock(ts, block) ==
    LET path == ObjectsOf(ts, block, Sh("path"))
        type == ObjectsOf(ts, block, Sh("datatype"))
        counts(term) == SelectSeq(ObjectsOf(ts, block, Sh(term)), LAMBDA x : LiteralAsU32(x) # None)
        min  == counts("minCount")
        max  == counts("maxCount")
        card == Bounds(IF min = <<>> THEN 0 ELSE The(LiteralAsU32(Last(min))),
                       IF max = <<>> THEN None ELSE LiteralAsU32(Last(max)))
    IN  IF path = <<>> \/ type = <<>> THEN <<>>
        ELSE <<PropertyType(LocalName(Last(path).value), DatatypeFromXsd(Last(type).value), card,
                            Some(Last(path).value))>>

\* build_schema: one node type per shape.
ShapeType(ts, shape) ==
    LET target == ObjectsOf(ts, shape, Sh("targetClass"))[1].value
        blocks == ObjectsOf(ts, shape, Sh("property"))
    IN  NodeType(LocalName(target), Some(target), <<>>,
                 FlattenSeq([i \in DOMAIN blocks |-> ParseBlock(ts, blocks[i])]))

ShapesOf(ts) == {ts[i].subject : i \in {j \in DOMAIN ts : ts[j].predicate = Rdf("type")
                                                        /\ ts[j].object = IriTerm(Sh("NodeShape"))}}
BuildSchema(ts) == FoldLeft(LAMBDA s, shape : DeclareNodeType(s, ShapeType(ts, shape)), EmptySchema, Listed(ShapesOf(ts)))

\* A shape without a target class is an error.
FromShaclTurtle(doc) ==
    {BuildSchema(ts) : ts \in {read \in TurtleParse(doc) :
        \A shape \in ShapesOf(read) : ObjectsOf(read, shape, Sh("targetClass")) # <<>>}}
=============================================================================
