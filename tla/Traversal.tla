------------------------------ MODULE Traversal ------------------------------
(***************************************************************************)
(* atomr-ontology-store: node and edge patterns, traversal plans and the   *)
(* executor of plans (MemStore::traverse; PersistentStore has the same).   *)
(*                                                                         *)
(* A row binds names to nodes and to edges.  A plan matches a seed and     *)
(* then takes its steps; a step walks between min and max hops, breadth    *)
(* first, and never returns to a node that this walk has reached.          *)
(* Node identifiers are naturals from 1, in the order of the BTreeMap.     *)
(***************************************************************************)
EXTENDS PropertyGraph

CONSTANT Forever    \* usize::MAX as a number of hops
ASSUME ForeverAssumption == Forever \in Nat \ {0}

NodePattern == [bind |-> None, types |-> {}, properties |-> EmptyMap, id |-> None,
                or |-> {}, not |-> {}]
EdgePattern == [bind |-> None, label |-> None, properties |-> EmptyMap, repeat |-> None]
TraversalStep(edge, target, outbound) == [edge |-> edge, target |-> target, outbound |-> outbound]
PlanFrom(seed) == [seed |-> seed, steps |-> <<>>, return_columns |-> <<>>, order |-> <<>>,
                   skip |-> 0, limit |-> None]
EmptyRow == [nodes |-> EmptyMap, edges |-> EmptyMap]

BindNode(row, opt, id) == IF opt = None THEN row ELSE [row EXCEPT !.nodes = Put(@, The(opt), id)]
BindEdge(row, opt, edge) == IF opt = None \/ edge = None THEN row
                            ELSE [row EXCEPT !.edges = Put(@, The(opt), The(edge))]

Agrees(entity, properties) ==
    \A k \in DOMAIN properties :
        k \in DOMAIN entity.properties /\ entity.properties[k] = properties[k]

RECURSIVE MatchNode(_, _)

MatchNode(node, p) ==
    /\ p.id \subseteq {node.id}
    /\ \A t \in p.types : HasType(node, t)
    /\ Agrees(node, p.properties)
    /\ p.or # {} => \E alt \in p.or : MatchNode(node, alt)
    /\ \A neg \in p.not : ~MatchNode(node, neg)

MatchEdge(edge, p) == p.label \subseteq {edge.label} /\ Agrees(edge, p.properties)

\* match_pattern, and the seed of a plan: one row per matching node.
Seeds(o, pattern) ==
    LET matching == SelectSeq(Values(o.nodes), LAMBDA n : MatchNode(n, pattern))
    IN  [i \in DOMAIN matching |-> <<BindNode(EmptyRow, pattern.bind, matching[i].id), matching[i].id>>]

----------------------------------------------------------------------------
(* One step. *)

FarEnd(step, edge) == IF step.outbound THEN edge.target ELSE edge.source

\* Mutant: nodes that were visited are walked through again.
HopRevisits(o, step, acc, cur) ==
    LET candidates == SelectSeq(IF step.outbound THEN Outbound(o, cur) ELSE Inbound(o, cur),
                                LAMBDA e : MatchEdge(e, step.edge))
        reached(a, e) == [a EXCEPT !.layer = Append(@, <<FarEnd(step, e), Some(e.id)>>)]
    IN  FoldLeft(reached, acc, candidates)

\* Follow the edges of one node of a layer, in order; the first edge to
\* reach a node claims it.
Hop(o, step, acc, cur) ==
    LET candidates == SelectSeq(IF step.outbound THEN Outbound(o, cur) ELSE Inbound(o, cur),
                                LAMBDA e : MatchEdge(e, step.edge))
        reached(a, e) == IF FarEnd(step, e) \in a.visited THEN a
                         ELSE [layer |-> Append(a.layer, <<FarEnd(step, e), Some(e.id)>>),
                               visited |-> a.visited \cup {FarEnd(step, e)}]
    IN  FoldLeft(reached, acc, candidates)

NextLayer(o, step, layer, visited) ==
    FoldLeft(LAMBDA acc, entry : Hop(o, step, acc, entry[1]),
             [layer |-> <<>>, visited |-> visited], layer)

\* The rows a layer contributes: a dangling edge leads to no node and
\* contributes nothing, but the walk goes on from there.
Emit(o, step, row, layer) ==
    LET hits == SelectSeq(layer, LAMBDA x : /\ x[1] \in DOMAIN o.nodes
                                            /\ MatchNode(o.nodes[x[1]], step.target))
    IN  [i \in DOMAIN hits |->
            <<BindNode(BindEdge(row, step.edge.bind, hits[i][2]), step.target.bind, hits[i][1]), hits[i][1]>>]

HopRange(step) == IF step.edge.repeat = None THEN [min |-> 1, max |-> 1] ELSE The(step.edge.repeat)

RECURSIVE Walk(_, _, _, _, _, _)

Walk(o, step, row, layer, visited, depth) ==
    LET emitted == IF depth >= HopRange(step).min THEN Emit(o, step, row, layer) ELSE <<>>
        next    == NextLayer(o, step, layer, visited)
    IN  IF depth = HopRange(step).max \/ next.layer = <<>> THEN emitted
        ELSE emitted \o Walk(o, step, row, next.layer, next.visited, depth + 1)

TakeStep(o, frontier, step) ==
    FlattenSeq([i \in DOMAIN frontier |->
        Walk(o, step, frontier[i][1], <<<<frontier[i][2], None>>>>, {frontier[i][2]}, 0)])

----------------------------------------------------------------------------
(* Ordering and projection. *)

\* An unbound name sorts before every node.
SortKey(row, name) == IF name \in DOMAIN row.nodes THEN row.nodes[name] ELSE 0

RowBefore(a, b, order) ==
    \E i \in DOMAIN order :
        /\ \A j \in 1 .. (i - 1) : SortKey(a, order[j].bind) = SortKey(b, order[j].bind)
        /\ IF order[i].descending THEN SortKey(a, order[i].bind) > SortKey(b, order[i].bind)
                                  ELSE SortKey(a, order[i].bind) < SortKey(b, order[i].bind)

\* A stable sort: a row goes behind the rows that it does not precede.
SortRows(rows, order) ==
    FoldLeft(LAMBDA sorted, row :
                LET ahead == SelectSeq(sorted, LAMBDA x : ~RowBefore(row, x, order))
                    after == SelectSeq(sorted, LAMBDA x : RowBefore(row, x, order))
                IN  ahead \o <<row>> \o after,
             <<>>, rows)

Columns(row, names) ==
    [nodes |-> [k \in DOMAIN row.nodes \cap names |-> row.nodes[k]],
     edges |-> [k \in DOMAIN row.edges \cap names |-> row.edges[k]]]

\* apply_ordering_and_projection: sort, skip, truncate, then project.
ApplyOrderingAndProjection(rows, plan) ==
    LET sorted  == IF plan.order = <<>> THEN rows ELSE SortRows(rows, plan.order)
        skipped == SubSeq(sorted, plan.skip + 1, Len(sorted))
        limited == IF plan.limit = None \/ The(plan.limit) >= Len(skipped) THEN skipped
                   ELSE SubSeq(skipped, 1, The(plan.limit))
    IN  IF plan.return_columns = <<>> THEN limited
        ELSE [i \in DOMAIN limited |-> Columns(limited[i], Range(plan.return_columns))]

Traverse(o, plan) ==
    LET frontier == FoldLeft(LAMBDA f, step : TakeStep(o, f, step), Seeds(o, plan.seed), plan.steps)
    IN  ApplyOrderingAndProjection([i \in DOMAIN frontier |-> frontier[i][1]], plan)

----------------------------------------------------------------------------
(* The rest of the store: diff and commit.  A store is an ontology and a   *)
(* provenance log.                                                         *)

Diff(o, other) ==
    [added_nodes   |-> DOMAIN o.nodes \ DOMAIN other.nodes,
     removed_nodes |-> DOMAIN other.nodes \ DOMAIN o.nodes,
     added_edges   |-> DOMAIN o.edges \ DOMAIN other.edges,
     removed_edges |-> DOMAIN other.edges \ DOMAIN o.edges]

\* The provenance of an axiom that has one stands.
Attribute(axiom, id) == IF axiom.provenance = None THEN [axiom EXCEPT !.provenance = Some(id)] ELSE axiom

\* commit_with_provenance: nodes, then edges, then axioms, then the activity.
Commit(s, delta, activity) ==
    LET nodes  == FoldLeft(UpsertNode, s.ontology, delta.nodes)
        edges  == FoldLeft(UpsertEdge, nodes, delta.edges)
        axioms == FoldLeft(LAMBDA o, a : UpsertAxiom(o, Attribute(a, activity.id)), edges, delta.axioms)
    IN  [s EXCEPT !.ontology = axioms, !.provenance.activities = Put(@, activity.id, activity)]
=============================================================================
