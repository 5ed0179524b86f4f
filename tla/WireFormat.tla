------------------------------ MODULE WireFormat -----------------------------
(***************************************************************************)
(* The two JSON formats of the repository: the snapshots of                *)
(* atomr-ontology-persist (wire.rs) and the calls of                       *)
(* atomr-ontology-remote (protocol.rs).                                    *)
(*                                                                         *)
(* A JSON object is a function from the names of its fields.  Writing may  *)
(* leave out a field that has its default, reading puts the default back.  *)
(* A map keyed by identifiers becomes the list of its values.  Reading     *)
(* returns an Option: None is the decoding error of serde.                 *)
(***************************************************************************)
EXTENDS Traversal

Omit(record, default) == [f \in {g \in DOMAIN record : record[g] # default[g]} |-> record[f]]
Restore(object, default) == object @@ default

\* Every element read, or None when one of them cannot be.
ReadAll(list, Read(_)) ==
    LET read == [i \in DOMAIN list |-> Read(list[i])]
    IN  IF \E i \in DOMAIN read : read[i] = None THEN None
        ELSE Some([i \in DOMAIN read |-> The(read[i])])

Written(list, Write(_)) == [i \in DOMAIN list |-> Write(list[i])]

\* A float that is not finite has no JSON number: serde_json writes null,
\* and a float cannot be read from null.
NotFinite == {<<"NaN">>, <<"inf">>, <<"-inf">>}
WriteValue(v) == [type |-> v.kind,
                  value |-> IF v.kind = "float" /\ v.value \in NotFinite THEN <<"null">> ELSE v.value]
ReadValue(j) == IF j.type = "float" /\ j.value = <<"null">> THEN None
                ELSE Some(PropertyValue(j.type, j.value))

WriteProperties(map) == [k \in DOMAIN map |-> WriteValue(map[k])]
ReadProperties(obj) ==
    IF \E k \in DOMAIN obj : ReadValue(obj[k]) = None THEN None
    ELSE Some([k \in DOMAIN obj |-> The(ReadValue(obj[k]))])

\* Nodes and edges as serde derives it, with their identifiers as bytes.
JsonNode(x) == [x EXCEPT !.properties = WriteProperties(@)]
FromJsonNode(j) == {[j EXCEPT !.properties = map] : map \in ReadProperties(j.properties)}

----------------------------------------------------------------------------
(* wire.rs: identifiers in hexadecimal. *)

EncodeId(id) == <<"hex", id>>
DecodeId(s)  == IF s[1] = "hex" THEN Some(s[2]) ELSE None

NodeWire(n)  == [JsonNode(n) EXCEPT !.id = EncodeId(@)]
IntoNode(w)  == {[n EXCEPT !.id = id] : n \in FromJsonNode(w), id \in DecodeId(w.id)}
EdgeWire(e)  == [JsonNode(e) EXCEPT !.id = EncodeId(@), !.source = EncodeId(@), !.target = EncodeId(@)]
IntoEdge(w)  == {[e EXCEPT !.id = id, !.source = source, !.target = target] :
                    e \in FromJsonNode(w), id \in DecodeId(w.id),
                    source \in DecodeId(w.source), target \in DecodeId(w.target)}
AxiomWire(a) == [a EXCEPT !.provenance = {EncodeId(p) : p \in @}]
IntoAxiom(w) == IF \E p \in w.provenance : DecodeId(p) = None THEN None
                ELSE Some([w EXCEPT !.provenance = UNION {DecodeId(p) : p \in @}])

OntologyWire(o) ==
    [iri |-> o.iri, vocabulary |-> o.vocabulary, schema |-> o.schema, nodes |-> Written(Values(o.nodes), NodeWire),
     edges |-> Written(Values(o.edges), EdgeWire), axioms |-> Written(Values(o.axioms), AxiomWire)]

\* into_ontology: the lists are upserted one after the other.
Rebuild(w, nodes, edges, axioms) ==
    LET head      == [EmptyOntology EXCEPT !.iri = w.iri, !.vocabulary = w.vocabulary, !.schema = w.schema]
        withNodes == FoldLeft(UpsertNode, head, nodes)
        withEdges == FoldLeft(UpsertEdge, withNodes, edges)
    IN  FoldLeft(UpsertAxiom, withEdges, axioms)

IntoOntology(w) ==
    {Rebuild(w, n, e, a) : n \in ReadAll(w.nodes, IntoNode), e \in ReadAll(w.edges, IntoEdge),
                                  a \in ReadAll(w.axioms, IntoAxiom)}

\* The provenance log: activities and entities by identifier, relations in
\* the order they were recorded.  An attribution keeps its identifier in bytes.
EmptyLog == [activities |-> EmptyMap, entities |-> EmptyMap, generations |-> <<>>,
             derivations |-> <<>>, attributions |-> <<>>, uses |-> <<>>]
RecordActivity(log, a) == [log EXCEPT !.activities = Put(@, a.id, a)]
RecordEntity(log, e)   == [log EXCEPT !.entities = Put(@, e.id, e)]

WithId(x, id) == [x EXCEPT !.id = id]
ActivityWire(a)   == WithId(a, EncodeId(a.id))
IntoActivity(w)   == {WithId(w, id) : id \in DecodeId(w.id)}
ProvEntityWire(e) == WithId(e, EncodeId(e.id))
IntoEntity(w)     == {WithId(w, id) : id \in DecodeId(w.id)}
RelationWire(r)   == <<EncodeId(r[1]), EncodeId(r[2])>>
IntoRelation(w)   == {<<x, y>> : x \in DecodeId(w[1]), y \in DecodeId(w[2])}

ProvenanceLogWire(log) ==
    [activities |-> Written(Values(log.activities), ActivityWire),
     entities |-> Written(Values(log.entities), ProvEntityWire),
     generations |-> Written(log.generations, RelationWire),
     derivations |-> Written(log.derivations, RelationWire),
     attributions |-> log.attributions, uses |-> Written(log.uses, RelationWire)]

\* Mutant: the attributions are not put back.
IntoLogUnattributed(w) ==
    {[FoldLeft(RecordEntity, FoldLeft(RecordActivity, EmptyLog, a), e)
        EXCEPT !.generations = g, !.derivations = d, !.uses = u] :
        a \in ReadAll(w.activities, IntoActivity), e \in ReadAll(w.entities, IntoEntity),
        g \in ReadAll(w.generations, IntoRelation), d \in ReadAll(w.derivations, IntoRelation),
        u \in ReadAll(w.uses, IntoRelation)}

IntoLog(w) ==
    {[FoldLeft(RecordEntity, FoldLeft(RecordActivity, EmptyLog, a), e)
        EXCEPT !.generations = g, !.derivations = d, !.uses = u, !.attributions = w.attributions] :
        a \in ReadAll(w.activities, IntoActivity), e \in ReadAll(w.entities, IntoEntity),
        g \in ReadAll(w.generations, IntoRelation), d \in ReadAll(w.derivations, IntoRelation),
        u \in ReadAll(w.uses, IntoRelation)}

SnapshotWire(s) == [ontology |-> OntologyWire(s.ontology), provenance |-> ProvenanceLogWire(s.provenance),
                    version |-> s.version]
IntoSnapshot(w) == {[ontology |-> o, provenance |-> p, version |-> w.version] :
                        o \in IntoOntology(w.ontology), p \in IntoLog(w.provenance)}

----------------------------------------------------------------------------
(* protocol.rs: identifiers as they are, patterns without their defaults. *)

RECURSIVE WireNodePattern(_)
RECURSIVE FromWireNodePattern(_)

WireNodePattern(p) ==
    Omit([p EXCEPT !.properties = WriteProperties(@), !.or = {WireNodePattern(x) : x \in @},
                   !.not = {WireNodePattern(x) : x \in @}], NodePattern)

FromWireNodePattern(w) ==
    LET p == Restore(w, NodePattern)
        nested(S) == {FromWireNodePattern(x) : x \in S}
    IN  IF None \in nested(p.or) \cup nested(p.not) THEN None
        ELSE {[p EXCEPT !.properties = props, !.or = UNION nested(@), !.not = UNION nested(@)] :
                 props \in ReadProperties(p.properties)}

WireEdgePattern(p) ==
    Omit([p EXCEPT !.properties = WriteProperties(@), !.repeat = {<<r.min, r.max>> : r \in @}], EdgePattern)

FromWireEdgePattern(w) ==
    LET p == Restore(w, EdgePattern)
    IN  {[p EXCEPT !.properties = props, !.repeat = {[min |-> r[1], max |-> r[2]] : r \in @}] :
            props \in ReadProperties(p.properties)}

WireSortOrder(s)   == <<s.bind, IF s.descending THEN "descending" ELSE "ascending">>
FromWireSortOrder(w) == [bind |-> w[1], descending |-> w[2] = "descending"]

WireStep(s) == TraversalStep(WireEdgePattern(s.edge), WireNodePattern(s.target), s.outbound)
FromWireStep(w) == {TraversalStep(e, t, w.outbound) :
                        e \in FromWireEdgePattern(w.edge), t \in FromWireNodePattern(w.target)}

WireTraversalPlan(p) ==
    [p EXCEPT !.seed = WireNodePattern(@), !.steps = Written(@, WireStep), !.order = Written(@, WireSortOrder)]
FromWireTraversalPlan(w) ==
    {[w EXCEPT !.seed = seed, !.steps = steps, !.order = Written(@, FromWireSortOrder)] :
        seed \in FromWireNodePattern(w.seed), steps \in ReadAll(w.steps, FromWireStep)}

\* An ontology without an IRI has no such field.
WireOntology(o) ==
    Omit([iri |-> o.iri], [iri |-> None]) @@
    [vocabulary |-> o.vocabulary, schema |-> o.schema, nodes |-> Written(Values(o.nodes), JsonNode),
     edges |-> Written(Values(o.edges), JsonNode), axioms |-> Values(o.axioms)]
FromWireOntology(w) ==
    {Rebuild(Restore(w, [iri |-> None]), n, e, w.axioms) : n \in ReadAll(w.nodes, FromJsonNode), e \in ReadAll(w.edges, FromJsonNode)}

WireProvenanceLog(log) == [log EXCEPT !.activities = Values(@), !.entities = Values(@)]
FromWireProvenanceLog(w) ==
    [FoldLeft(RecordEntity, FoldLeft(RecordActivity, EmptyLog, w.activities), w.entities)
        EXCEPT !.generations = w.generations, !.derivations = w.derivations,
               !.attributions = w.attributions, !.uses = w.uses]

WireDelta(d) == [nodes |-> Written(d.nodes, JsonNode), edges |-> Written(d.edges, JsonNode), axioms |-> d.axioms]
FromWireDelta(w) == {[nodes |-> n, edges |-> e, axioms |-> w.axioms] :
                        n \in ReadAll(w.nodes, FromJsonNode), e \in ReadAll(w.edges, FromJsonNode)}

----------------------------------------------------------------------------
(* The calls of client.rs and the dispatch of server.rs.                   *)

\* What a client puts into the request of a method, and what the server
\* reads from it, or None when the body cannot be decoded.
Request(method, arg) ==
    CASE method \in {"upsert_node", "upsert_edge"} -> JsonNode(arg)
      [] method = "match_pattern" -> WireNodePattern(arg)
      [] method = "traverse"      -> WireTraversalPlan(arg)
      [] method = "diff"          -> WireOntology(arg)
      [] method = "commit"        -> [delta |-> WireDelta(arg.delta), activity |-> arg.activity]
      [] OTHER                    -> arg
Params(method, body) ==
    CASE method \in {"upsert_node", "upsert_edge"} -> FromJsonNode(body)
      [] method = "match_pattern" -> FromWireNodePattern(body)
      [] method = "traverse"      -> FromWireTraversalPlan(body)
      [] method = "diff"          -> FromWireOntology(body)
      [] method = "commit"        -> {[delta |-> d, activity |-> body.activity] : d \in FromWireDelta(body.delta)}
      [] OTHER                    -> Some(body)

Lookup(map, id) == IF id \in DOMAIN map THEN Some(map[id]) ELSE None
Received(method, arg) == LET body == Request(method, arg) IN Params(method, body)

\* dispatch: the answer of each method that reads.
Reply(s, method, p) ==
    CASE method = "get_node"      -> {JsonNode(n) : n \in Lookup(s.ontology.nodes, p)}
      [] method = "get_edge"      -> {JsonNode(e) : e \in Lookup(s.ontology.edges, p)}
      [] method = "match_pattern" -> LET found == Seeds(s.ontology, p) IN [i \in DOMAIN found |-> found[i][1]]
      [] method = "traverse"      -> Traverse(s.ontology, p)
      [] method = "snapshot"      -> WireOntology(s.ontology)
      [] method = "diff"          -> Diff(s.ontology, p)
      [] method = "provenance"    -> WireProvenanceLog(s.provenance)

\* dispatch: what each method that writes leaves in the store.
Applied(s, method, p) ==
    CASE method = "upsert_node"  -> [s EXCEPT !.ontology = UpsertNode(@, p)]
      [] method = "upsert_edge"  -> [s EXCEPT !.ontology = UpsertEdge(@, p)]
      [] method = "upsert_axiom" -> [s EXCEPT !.ontology = UpsertAxiom(@, p)]
      [] method = "commit"       -> Commit(s, p.delta, p.activity)

\* run: a response has a result, or an error when there were no parameters.
RpcOk(value) == [result |-> value]
RpcErr       == [error |-> "decode"]
Run(s, method, params) ==
    LET given == The(params) IN IF params = None THEN RpcErr ELSE RpcOk(Reply(s, method, given))

\* What the client reads from a result.
Decoded(method, result) ==
    CASE method \in {"get_node", "get_edge"} ->
            IF result = None THEN Some(None) ELSE {Some(x) : x \in FromJsonNode(The(result))}
      [] method = "snapshot"   -> FromWireOntology(result)
      [] method = "provenance" -> Some(FromWireProvenanceLog(result))
      [] OTHER                 -> Some(result)

\* A call: what its caller gets, None being an error, and the store it leaves.
Answer(s, method, arg) ==
    LET params   == Received(method, arg)
        response == Run(s, method, params)
        result   == response.result
    IN  IF "error" \in DOMAIN response THEN None ELSE Decoded(method, result)
Effect(s, method, arg) ==
    LET params == Received(method, arg)
        given  == The(params)
    IN  IF params = None THEN s ELSE Applied(s, method, given)
=============================================================================
