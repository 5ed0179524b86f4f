---------------------------- MODULE OntologyStore ----------------------------
(***************************************************************************)
(* The OntologyStore trait as MemStore implements it, and what its clients *)
(* get from it by asking: traversals, Cypher and SPARQL queries.  What is  *)
(* written from a store is in StoreDocuments.                              *)
(*                                                                         *)
(* A world says what the clients of a store may write.  Every read is a    *)
(* function of the store, so the properties are invariants: in every       *)
(* store that writes can lead to, each question has the right answer.      *)
(***************************************************************************)
EXTENDS SparqlSubset, WireFormat

CONSTANTS
    Worlds,      \* name -> what may be written: [starts, nodes, edges, axioms, deltas, max_edges, max_axioms]
    Activities,  \* the activities of commits
    PathQueries, \* paths to ask for, see below
    Triples      \* SPARQL patterns <<subject, predicate or "a", object>> of the queries

ASSUME WorldsAssumption ==
    \A w \in DOMAIN Worlds : Worlds[w].max_edges \in Nat /\ Worlds[w].max_axioms \in Nat

VARIABLES world, store

vars == <<world, store>>

o == store.ontology
here == Worlds[world]

\* MemStore::from_ontology with an ontology that has no content yet.
Init ==
    /\ world \in DOMAIN Worlds
    /\ \E start \in here.starts : store = [ontology |-> start, provenance |-> EmptyLog]

PutNode == \E n \in here.nodes :
    /\ store' = [store EXCEPT !.ontology = UpsertNode(@, n)]
    /\ UNCHANGED world

PutEdge == \E e \in here.edges :
    /\ Cardinality(DOMAIN o.edges \cup {e.id}) <= here.max_edges
    /\ store' = [store EXCEPT !.ontology = UpsertEdge(@, e)]
    /\ UNCHANGED world

PutAxiom == \E a \in here.axioms :
    /\ Cardinality(DOMAIN o.axioms \cup {a.id}) <= here.max_axioms
    /\ store' = [store EXCEPT !.ontology = UpsertAxiom(@, a)]
    /\ UNCHANGED world

CommitDelta == \E d \in here.deltas, a \in Activities :
    /\ Cardinality(DOMAIN o.edges \cup {d.edges[i].id : i \in DOMAIN d.edges}) <= here.max_edges
    /\ Cardinality(DOMAIN o.axioms \cup {d.axioms[i].id : i \in DOMAIN d.axioms}) <= here.max_axioms
    /\ store' = Commit(store, d, a)
    /\ UNCHANGED world

Next == PutNode \/ PutEdge \/ PutAxiom \/ CommitDelta

Spec == Init /\ [][Next]_vars

----------------------------------------------------------------------------
(* Path queries.  A path starts at a node and takes hops; a hop asks for   *)
(* the nodes that paths of certain lengths along edges with its label      *)
(* lead to.                                                                *)
(*   node: [name, types, props]                                            *)
(*   hop:  [name, label, range, inbound, target]                           *)
(*   query: [seed, hops, without, cols, order, skip, limit]                *)

PathNodes(q) == <<q.seed>> \o [i \in DOMAIN q.hops |-> q.hops[i].target]
Names(q) == {PathNodes(q)[i].name : i \in DOMAIN PathNodes(q)}

\* The numbers of hops a range stands for; no path is longer than the nodes it visits.
Lengths(range) ==
    CASE range[1] = "one"   -> {1}
      [] range[1] = "exact" -> {range[2]}
      [] range[1] = "any"   -> 1 .. Forever
      [] range[1] = "from"  -> range[2] .. Forever
      [] range[1] = "upto"  -> 1 .. range[2]
      [] range[1] = "between" -> range[2] .. range[3]

Along(hop, edge) == hop.label \subseteq {edge.label}

\* The paths of every length from a node that visit no node twice: "already-
\* visited node ids on the current expansion path are skipped"
\* (docs/query.md:56-57).
PathsFrom(hop, start) ==
    LET ends(e) == IF hop.inbound THEN <<e.target, e.source>> ELSE <<e.source, e.target>>
        arcs    == {ends(o.edges[e]) : e \in {x \in DOMAIN o.edges : Along(hop, o.edges[x])}}
        paths[k \in 0 .. Forever] ==
            IF k = 0 THEN {<<start>>}
            ELSE {Append(x[1], x[2][2]) : x \in {y \in paths[k - 1] \X arcs :
                                                    Last(y[1]) = y[2][1] /\ y[2][2] \notin Range(y[1])}}
    IN  paths

IsNode(id, node) ==
    /\ id \in DOMAIN o.nodes
    /\ node.types \subseteq Range(o.nodes[id].types)
    /\ \A k \in DOMAIN node.props : k \in DOMAIN o.nodes[id].properties
                                    /\ o.nodes[id].properties[k] = node.props[k]

\* A hop leads to a node when a path of one of its lengths does, with one
\* exception: a range that begins beyond one hop misses a node that a path
\* too short for it leads to as well, because the walk has visited that node
\* by then, on another path (mem.rs:198,243).
Low(range)  == CHOOSE x \in Lengths(range) : \A y \in Lengths(range) : x <= y
High(range) == CHOOSE x \in Lengths(range) : \A y \in Lengths(range) : x >= y

Leads(hop, start, end) ==
    LET paths == PathsFrom(hop, start)
        reached(lengths) == \E k \in lengths \cap (0 .. Forever) : \E p \in paths[k] : Last(p) = end
        nearer == Low(hop.range) > 1 /\ reached(0 .. (Low(hop.range) - 1))
    IN  reached(Lengths(hop.range)) /\ ~nearer

\* The answers of a path query: the nodes its names stand for.
PathAnswers(q) ==
    LET ns == PathNodes(q)
        paths == {p \in [DOMAIN ns -> DOMAIN o.nodes] :
                    /\ \A i \in DOMAIN ns : IsNode(p[i], ns[i])
                    /\ \A i \in DOMAIN q.hops : Leads(q.hops[i], p[i], p[i + 1])}
        kept  == {p \in paths : \A w \in q.without : \A i \in DOMAIN ns : ns[i].name = w.name => ~IsNode(p[i], w)}
    IN  {[n \in Names(q) |-> p[CHOOSE i \in DOMAIN ns : ns[i].name = n]] : p \in kept}

\* An order of all names ranks the answers.
Precedes(q, a, b) ==
    \E i \in DOMAIN q.order :
        /\ \A j \in 1 .. (i - 1) : a[q.order[j].bind] = b[q.order[j].bind]
        /\ IF q.order[i].descending THEN a[q.order[i].bind] > b[q.order[i].bind]
                                    ELSE a[q.order[i].bind] < b[q.order[i].bind]
Rank(q, answers, a) == 1 + Cardinality({b \in answers : Precedes(q, b, a)})

\* Rows that answer a query: as many as skip and limit leave, each one an
\* answer cut down to the columns, no answer twice when all columns are
\* kept, and in the right place when the order is total.
RowsAnswer(rows, q) ==
    LET answers == PathAnswers(q)
        n       == Cardinality(answers)
        left    == IF q.skip > n THEN 0 ELSE n - q.skip
        total   == {q.order[i].bind : i \in DOMAIN q.order} = Names(q)
        cut(a)  == IF q.cols = <<>> THEN a ELSE [k \in Names(q) \cap Range(q.cols) |-> a[k]]
    IN  /\ Len(rows) = IF q.limit = None \/ The(q.limit) > left THEN left ELSE The(q.limit)
        /\ \A i \in DOMAIN rows :
              \E a \in answers : cut(a) = rows[i].nodes /\ (total => Rank(q, answers, a) = q.skip + i)
        /\ q.cols = <<>> => IsInjective([i \in DOMAIN rows |-> rows[i].nodes])

\* A bound edge is the last edge of the walk to the node behind it.
EdgeLeadsTo(rows, q) ==
    \A r \in DOMAIN rows, i \in DOMAIN q.hops :
        q.hops[i].name \in DOMAIN rows[r].edges =>
            LET e == o.edges[rows[r].edges[q.hops[i].name]]
            IN  /\ Along(q.hops[i], e)
                /\ rows[r].nodes[q.hops[i].target.name] = IF q.hops[i].inbound THEN e.source ELSE e.target

\* The plan a client builds for a path query.
HopPattern(hop) ==
    [EdgePattern EXCEPT !.bind = Some(hop.name), !.label = hop.label,
                        !.repeat = IF hop.range[1] = "one" THEN None
                                   ELSE Some([min |-> Low(hop.range), max |-> High(hop.range)])]
NodeOf(node) == [NodePattern EXCEPT !.bind = Some(node.name), !.types = node.types, !.properties = node.props]

PlanOf(q) ==
    [PlanFrom(NodeOf(q.seed)) EXCEPT
        !.steps = [i \in DOMAIN q.hops |-> TraversalStep(HopPattern(q.hops[i]), NodeOf(q.hops[i].target), ~q.hops[i].inbound)],
        !.return_columns = q.cols, !.order = q.order, !.skip = q.skip, !.limit = q.limit]

\* A traversal answers with the paths of the query, once each: a hop with a
\* range leads to the ends of all paths of its lengths that visit no node
\* twice (pattern.rs:97-99, docs/query.md:52-60).  The paths of a step share
\* one visited set; what that costs is the exception in Leads and nothing
\* else.
TraverseFollowsPaths ==
    \A q \in {x \in PathQueries : x.without = None} :
        LET rows == Traverse(o, PlanOf(q)) IN RowsAnswer(rows, q) /\ EdgeLeadsTo(rows, q)

----------------------------------------------------------------------------
(* The same queries in Cypher. *)

CypherProps(props) ==
    IF props = EmptyMap THEN <<>>
    ELSE LET keys == Listed(DOMAIN props)
             kv(k) == <<Word(k), Sym(":"), Str(props[k].value)>>
         IN  <<Sym("{")>> \o kv(keys[1])
             \o FlattenSeq([i \in 1 .. (Len(keys) - 1) |-> <<Sym(",")>> \o kv(keys[i + 1])]) \o <<Sym("}")>>

CypherLabels(types) == LET ts == Listed(types) IN FlattenSeq([i \in DOMAIN ts |-> <<Sym(":"), Word(ts[i])>>])
CypherText(node) == <<Sym("("), Word(node.name)>> \o CypherLabels(node.types) \o CypherProps(node.props) \o <<Sym(")")>>

CypherRange(range) ==
    CASE range[1] = "one"   -> <<>>
      [] range[1] = "exact" -> <<Sym("*"), Number(range[2])>>
      [] range[1] = "any"   -> <<Sym("*")>>
      [] range[1] = "from"  -> <<Sym("*"), Number(range[2]), Sym("..")>>
      [] range[1] = "upto"  -> <<Sym("*"), Sym(".."), Number(range[2])>>
      [] range[1] = "between" -> <<Sym("*"), Number(range[2]), Sym(".."), Number(range[3])>>

HopText(hop) ==
    (IF hop.inbound THEN <<Sym("<")>> ELSE <<>>) \o <<Sym("-"), Sym("["), Word(hop.name)>>
    \o CypherLabels(hop.label) \o CypherRange(hop.range) \o <<Sym("]"), Sym("-")>>
    \o (IF hop.inbound THEN <<>> ELSE <<Sym(">")>>) \o CypherText(hop.target)

Separated(names) == FlattenSeq([i \in DOMAIN names |-> IF i = 1 THEN <<Word(names[i])>> ELSE <<Sym(","), Word(names[i])>>])

MatchText(q) == <<Word("MATCH")>> \o CypherText(q.seed) \o FlattenSeq([i \in DOMAIN q.hops |-> HopText(q.hops[i])])
                \o (IF q.without = None THEN <<>> ELSE <<Word("WHERE"), Word("NOT")>> \o CypherText(The(q.without)))
QueryText(q) == MatchText(q) \o <<Word("RETURN")>> \o Separated(q.cols)
                \o (IF q.limit = None THEN <<>> ELSE <<Word("LIMIT"), Number(The(q.limit))>>)

\* The queries Cypher can ask: with columns, and without order or skip.
CypherQueries == {q \in PathQueries : q.cols # <<>> /\ q.order = <<>> /\ q.skip = 0}

\* The text of a query, cut off before its columns, and with more behind its end.
CypherTexts(q) ==
    LET text == QueryText(q)
        cut  == {SubSeq(text, 1, i) : i \in 0 .. Len(MatchText(q)) + 1}
    IN  {[query |-> q, text |-> text, complete |-> TRUE]}
        \cup {[query |-> q, text |-> t, complete |-> FALSE] : t \in cut \cup {Append(text, Sym(")"))}}

\* Parsing does not look at the store.
CypherPlans == {[query |-> t.query, complete |-> t.complete, parsed |-> CypherParse(t.text)] :
                    t \in UNION {CypherTexts(q) : q \in CypherQueries}}

\* A Cypher query returns the answers of its path, with the nodes that
\* WHERE NOT excludes left out wherever on the path they are, and no query
\* is accepted that stops before its columns or goes on after its end
\* (cypher.rs:43).
CypherAnswers ==
    \A p \in CypherPlans :
        /\ p.complete <=> "plan" \in DOMAIN p.parsed
        /\ p.complete => LET rows == Traverse(o, p.parsed.plan) IN RowsAnswer(rows, p.query)

----------------------------------------------------------------------------
(* SPARQL: basic graph patterns that form a chain. *)

IsTyping(t) == t[2] = "a"
SparqlQueries == UNION {{b \in [1 .. n -> Triples] : IsInjective(b)} : n \in 1 .. 3}

\* What a prefix of the pattern has introduced.
Introduced(b, n) == {b[1][1]} \cup {b[i][3] : i \in {j \in 1 .. n : ~IsTyping(b[j])}}
LastPlace(b, n) == LET es == {j \in 1 .. n : ~IsTyping(b[j])}
                   IN  IF es = {} THEN b[1][1] ELSE b[CHOOSE j \in es : \A k \in es : k <= j][3]

\* Every edge goes on from where the one before it ended, to a new name.
IsChain(b) == \A i \in DOMAIN b :
    /\ b[i][1] \in Introduced(b, i - 1)
    /\ ~IsTyping(b[i]) => b[i][1] = LastPlace(b, i - 1) /\ b[i][3] \notin Introduced(b, i - 1)

SparqlNames(b) == Introduced(b, Len(b))

\* SPARQL's answers, with the two ends of an edge on different nodes: a
\* traversal does not return to the node it starts from.
SparqlAnswers(b) ==
    {m \in [SparqlNames(b) -> DOMAIN o.nodes] : \A i \in DOMAIN b :
        IF IsTyping(b[i]) THEN HasType(o.nodes[m[b[i][1]]], b[i][3])
        ELSE m[b[i][1]] # m[b[i][3]] /\ <<m[b[i][1]], b[i][2], m[b[i][3]]>> \in DOMAIN o.edges}

SparqlVerb(t) == IF IsTyping(t) THEN Word("a") ELSE Curie("ex", t[2])
SparqlObject(t) == IF IsTyping(t) THEN Curie("", t[3]) ELSE Var(t[3])
BlockText(b) == FlattenSeq([i \in DOMAIN b |->
                    <<Var(b[i][1]), SparqlVerb(b[i]), SparqlObject(b[i])>> \o IF i = Len(b) THEN <<>> ELSE <<Sym(".")>>])
SparqlText(b) ==
    <<Word("PREFIX"), PrefixName("ex"), IriToken(<<"ex", "">>), Word("SELECT"), Sym("*"), Word("WHERE"), Sym("{")>>
    \o BlockText(b) \o <<Sym("}")>>

SparqlPlans == [b \in SparqlQueries |-> SparqlParse(SparqlText(b))]
SparqlRejects ==
    \A b \in SparqlQueries :
        (\E i \in DOMAIN b : b[i][1] \notin Introduced(b, i - 1)) => "error" \in DOMAIN SparqlPlans[b]
Chains == {b \in SparqlQueries : IsChain(b)}

\* A chain of SPARQL triples returns the answers of the pattern, once each:
\* a type constrains the node of its subject, wherever in the block it is
\* written, and a subject that was not introduced is refused (sparql.rs:540).
SparqlChainAnswers ==
    /\ SparqlRejects
    /\ \A b \in Chains :
          LET rows == Traverse(o, SparqlPlans[b].plan)
          IN  /\ {rows[i].nodes : i \in DOMAIN rows} = SparqlAnswers(b)
              /\ Len(rows) = Cardinality(SparqlAnswers(b))
=============================================================================
