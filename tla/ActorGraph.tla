----------------------------- MODULE ActorGraph ------------------------------
(***************************************************************************)
(* atomr-ontology-actor-projection: what a projector writes.  A batch of   *)
(* supervision paths, journal events and actor states becomes a delta of   *)
(* nodes and edges, by one of four projections and three ways to name      *)
(* nodes.                                                                  *)
(*                                                                         *)
(*   path:  [segments, attributes]                                         *)
(*   event: [cursor, actor, path, kind, payload], path an Option           *)
(*   state: [actor, payload, digest], digest an Option                     *)
(*                                                                         *)
(* A rendered path is its segments.  Timestamps and the label of the       *)
(* source are left out.  The names of actors and kinds hold no colon, which *)
(* separates them in what is hashed.                                       *)
(***************************************************************************)
EXTENDS PropertyGraph, FiniteSetsExt

CONSTANT Spaced  \* names with whitespace in them

EmptyDelta == [nodes |-> <<>>, edges |-> <<>>]

AddNode(delta, node) == [nodes |-> Append(delta.nodes, node), edges |-> delta.edges]
AddEdge(delta, edge) == [nodes |-> delta.nodes, edges |-> Append(delta.edges, edge)]

----------------------------------------------------------------------------
(* IriMintingStrategy.  The identifier of a node is what is hashed for it, *)
(* or the next random one.  The tags keep apart what the IRIs keep apart   *)
(* as long as no path begins with "event": /event/{version}/{actor} is the *)
(* IRI of an event (strategy.rs:35,52-57).                                 *)

\* Iri::new refuses whitespace.
Unnameable(minting, names) == minting = "path_based" /\ names \cap Spaced # {}

PathUnnameable(minting, path)   == Unnameable(minting, Range(path.segments))
EventUnnameable(minting, event) == Unnameable(minting, {event.actor})

IriFor(minting, id) == IF minting = "path_based" THEN Some(id) ELSE None

MintActor(minting, segments, fresh) ==
    IF minting = "uuid" THEN <<"random", fresh>> ELSE <<"actor", segments>>

\* Mutant: the position of an event is not part of its name.
MintEventByActor(minting, event, fresh) ==
    CASE minting = "uuid"              -> <<"random", fresh>>
      [] minting = "path_based"        -> <<"event", event.actor>>
      [] minting = "content_addressed" -> <<"event", event.actor, event.kind>>

MintEvent(minting, event, fresh) ==
    CASE minting = "uuid"              -> <<"random", fresh>>
      [] minting = "path_based"        -> <<"event", event.cursor, event.actor>>
      [] minting = "content_addressed" -> <<"event", event.cursor, event.actor, event.kind>>

EventProperties(event) ==
    [event_kind |-> event.kind, actor_id |-> event.actor, cursor_version |-> event.cursor,
     event_payload |-> event.payload]

EventNode(id, minting, properties) == Node(id, IriFor(minting, id), <<"ActorEvent">>, properties)

StateNode(id, state) ==
    Node(id, None, <<"ActorState">>, [actor_id |-> state.actor, state |-> state.payload])

----------------------------------------------------------------------------
(* HierarchicalProjection: one node per path prefix.  The accumulator of a *)
(* batch holds the delta, the prefixes that have a node, the node above    *)
(* the next segment, and how many random identifiers were drawn.           *)

TypeForSegment(segment) ==
    CASE segment = "workflow" -> "Workflow"
      [] segment = "run"      -> "Run"
      [] segment = "step"     -> "Step"
      [] OTHER                -> "ActorPathSegment"

\* Mutant: a prefix that is known already is stepped over.
InsertPrefixIfNew(minting, path, acc, depth) ==
    LET prefix == SubSeq(path.segments, 1, depth)
        id     == MintActor(minting, prefix, acc.fresh)
        node   == Node(id, IriFor(minting, id), <<"Actor", TypeForSegment(path.segments[depth])>>,
                       [path |-> prefix, depth |-> depth - 1])
        linked == IF acc.above = None THEN acc.delta
                  ELSE AddEdge(acc.delta, Edge(The(acc.above), "supervises", id))
    IN  IF prefix \in DOMAIN acc.ids THEN acc
        ELSE [delta |-> AddNode(linked, node), ids |-> Put(acc.ids, prefix, id),
              above |-> Some(id), fresh |-> acc.fresh + 1]

\* One turn of insert_path: an identifier is minted for every prefix, also
\* for one that has its node, and linked to the one above.  Attributes go
\* to the leaf.
InsertPrefix(minting, path, acc, depth) ==
    LET prefix == SubSeq(path.segments, 1, depth)
        id     == MintActor(minting, prefix, acc.fresh)
        isNew  == prefix \notin DOMAIN acc.ids
        node   == Node(id, IriFor(minting, id), <<"Actor", TypeForSegment(path.segments[depth])>>,
                       Overlay(IF depth = Len(path.segments) THEN path.attributes ELSE EmptyMap,
                            [path |-> prefix, depth |-> depth - 1]))
        placed == IF isNew THEN AddNode(acc.delta, node) ELSE acc.delta
    IN  [delta |-> IF acc.above = None THEN placed
                   ELSE AddEdge(placed, Edge(The(acc.above), "supervises", id)),
         ids   |-> IF isNew THEN Put(acc.ids, prefix, id) ELSE acc.ids,
         above |-> Some(id), fresh |-> acc.fresh + 1]

InsertPath(minting, acc, path) ==
    FoldLeft(LAMBDA a, d : InsertPrefix(minting, path, a, d),
             [delta |-> acc.delta, ids |-> acc.ids, above |-> None, fresh |-> acc.fresh],
             [d \in DOMAIN path.segments |-> d])

\* An event comes with its path, and hangs off the node of that path.
InsertEvent(minting, acc, event) ==
    LET placed == IF event.path = None THEN acc ELSE InsertPath(minting, acc, The(event.path))
        id     == MintEvent(minting, event, placed.fresh)
        delta  == AddNode(placed.delta, EventNode(id, minting, EventProperties(event)))
    IN  [delta |-> IF event.path = None \/ The(event.path).segments \notin DOMAIN placed.ids THEN delta
                   ELSE AddEdge(delta, Edge(placed.ids[The(event.path).segments], "emitted", id)),
         ids   |-> placed.ids, above |-> placed.above, fresh |-> placed.fresh + 1]

\* A state hangs off one of the known prefixes that end with its actor.
InsertState(acc, state) ==
    LET id      == <<"state", state.actor>>
        holders == {p \in DOMAIN acc.ids : p[Len(p)] = state.actor}
        holder  == CHOOSE p \in holders : TRUE
        delta   == AddNode(acc.delta, StateNode(id, state))
    IN  [delta |-> IF holders = {} THEN delta
                   ELSE AddEdge(delta, Edge(acc.ids[holder], "holdsState", id)),
         ids   |-> acc.ids, above |-> acc.above, fresh |-> acc.fresh]

HierarchicalFails(batch, minting) ==
    \/ \E i \in DOMAIN batch.paths : PathUnnameable(minting, batch.paths[i])
    \/ \E i \in DOMAIN batch.events :
          \/ EventUnnameable(minting, batch.events[i])
          \/ \E p \in batch.events[i].path : PathUnnameable(minting, p)

Hierarchical(batch, minting, fresh) ==
    LET start  == [delta |-> EmptyDelta, ids |-> EmptyMap, above |-> None, fresh |-> fresh]
        paths  == FoldLeft(LAMBDA a, p : InsertPath(minting, a, p), start, batch.paths)
        events == FoldLeft(LAMBDA a, e : InsertEvent(minting, a, e), paths, batch.events)
        all    == FoldLeft(LAMBDA a, s : InsertState(a, s), events, batch.states)
    IN  [delta |-> all.delta, fresh |-> all.fresh]

----------------------------------------------------------------------------
(* EventStreamProjection: the events of a batch, each the successor of the *)
(* one before.                                                             *)

EventChain(events, minting, fresh, withPath) ==
    LET id(i)   == MintEvent(minting, events[i], fresh + i)
        bare(i) == EventProperties(events[i])
        node(i) == EventNode(id(i), minting,
                       IF withPath /\ events[i].path # None
                       THEN Put(bare(i), "path", The(events[i].path).segments) ELSE bare(i))
    IN  [delta |-> [nodes |-> [i \in DOMAIN events |-> node(i)],
                    edges |-> [i \in 1 .. Len(events) - 1 |-> Edge(id(i), "successor", id(i + 1))]],
         fresh |-> fresh + Len(events) + 1]

EventStream(batch, minting, fresh) == EventChain(batch.events, minting, fresh, TRUE)

EventStreamFails(batch, minting) == \E i \in DOMAIN batch.events : EventUnnameable(minting, batch.events[i])

----------------------------------------------------------------------------
(* SnapshotDiffProjection: what was not projected before.  An event is     *)
(* known by actor and position, a state by actor and digest.               *)

NothingSeen == [paths |-> {}, events |-> {}, states |-> {}]

PathKeys(batch)  == [i \in DOMAIN batch.paths |-> batch.paths[i].segments]
EventKeys(batch) == [i \in DOMAIN batch.events |-> <<batch.events[i].actor, batch.events[i].cursor>>]
StateKeys(batch) == [i \in DOMAIN batch.states |-> <<batch.states[i].actor, batch.states[i].digest>>]

\* The elements of a list whose keys are new, each key once.
Unseen(list, keys, known) ==
    Picked(list, {i \in DOMAIN list : keys[i] \notin known /\ \A j \in 1 .. i - 1 : keys[j] # keys[i]})

\* The new paths and events that cannot be named, by index.
StuckPaths(batch, minting, seen) ==
    {i \in DOMAIN batch.paths : PathKeys(batch)[i] \notin seen.paths /\ PathUnnameable(minting, batch.paths[i])}
StuckEvents(batch, minting, seen) ==
    {i \in DOMAIN batch.events : EventKeys(batch)[i] \notin seen.events /\ EventUnnameable(minting, batch.events[i])}

DiffFails(batch, minting, seen) ==
    StuckPaths(batch, minting, seen) \cup StuckEvents(batch, minting, seen) # {}

\* A key is marked before its node is named, and the first that cannot be
\* named is the last that is marked.
MarkSeen(seen, batch, minting) ==
    LET stuckPaths  == StuckPaths(batch, minting, seen)
        stuckEvents == StuckEvents(batch, minting, seen)
        marked(keys, stuck) == {keys[i] : i \in {j \in DOMAIN keys : \A k \in stuck : j <= k}}
    IN  [paths  |-> seen.paths \cup marked(PathKeys(batch), stuckPaths),
         events |-> seen.events \cup IF stuckPaths = {} THEN marked(EventKeys(batch), stuckEvents) ELSE {},
         states |-> seen.states \cup IF stuckPaths \cup stuckEvents = {} THEN Range(StateKeys(batch)) ELSE {}]

SnapshotDiff(batch, minting, fresh, seen) ==
    LET paths  == Unseen(batch.paths, PathKeys(batch), seen.paths)
        events == Unseen(batch.events, EventKeys(batch), seen.events)
        chain  == EventChain(events, minting, fresh + Len(paths), FALSE)
        states == Unseen(batch.states, StateKeys(batch), seen.states)
        actor(i) == LET id == MintActor(minting, paths[i].segments, fresh + i)
                    IN  Node(id, IriFor(minting, id), <<"Actor">>, [path |-> paths[i].segments])
        held(i)  == StateNode(<<"state", states[i].actor, states[i].digest>>, states[i])
    IN  [delta |-> [nodes |-> [i \in DOMAIN paths |-> actor(i)] \o chain.delta.nodes
                              \o [i \in DOMAIN states |-> held(i)],
                    edges |-> chain.delta.edges],
         fresh |-> chain.fresh]

----------------------------------------------------------------------------
(* FlatProjection: one node per run, with its events and states inside.    *)

\* A segment of workflow_run_key: the one that is due, or one that says what
\* comes next.
RunKeyTurn(key, segment) ==
    CASE key.due = "workflow" -> [workflow |-> Some(segment), run |-> key.run, due |-> ""]
      [] key.due = "run"      -> [workflow |-> key.workflow, run |-> Some(segment), due |-> ""]
      [] key.due = "" /\ segment = "workflow" -> [workflow |-> None, run |-> key.run, due |-> segment]
      [] key.due = "" /\ segment = "run"      -> [workflow |-> key.workflow, run |-> None, due |-> segment]
      [] OTHER -> key

\* workflow_run_key: the segments after the last "workflow" and "run".
WorkflowRunKey(segments) ==
    LET key == FoldLeft(LAMBDA a, s : RunKeyTurn(a, s), [workflow |-> None, run |-> None, due |-> ""], segments)
    IN  {<<w, r>> : w \in key.workflow, r \in IF key.run = None THEN {"<no-run>"} ELSE key.run}

UnroutedKey(state) == <<"<unrouted>", state.actor>>

FlatNode(batch, minting, key) ==
    LET paths  == SelectSeq(batch.paths, LAMBDA p : key \in WorkflowRunKey(p.segments))
        events == SelectSeq(batch.events, LAMBDA e : e.path # None /\ key \in WorkflowRunKey(The(e.path).segments))
        states == SelectSeq(batch.states, LAMBDA s : UnroutedKey(s) = key)
        id     == IF minting = "path_based" THEN <<"actor", key>> ELSE <<"flat", key>>
    IN  Node(id, IriFor(minting, id), <<"Actor", "Run">>,
             [path |-> key, path_count |-> Len(paths), steps |-> [i \in DOMAIN events |-> events[i].payload],
              states |-> [i \in DOMAIN states |-> states[i].payload]])

RunKeys(batch) ==
    (UNION ({WorkflowRunKey(batch.paths[i].segments) : i \in DOMAIN batch.paths}
           \cup {WorkflowRunKey(The(batch.events[i].path).segments) :
                    i \in {j \in DOMAIN batch.events : batch.events[j].path # None}}))
    \cup {UnroutedKey(batch.states[i]) : i \in DOMAIN batch.states}

FlatFails(batch, minting) == \E key \in RunKeys(batch) : Unnameable(minting, {key[1], key[2]})

Flat(batch, minting, fresh) ==
    LET list == SetToSeq(RunKeys(batch))
    IN  [delta |-> [nodes |-> [i \in DOMAIN list |-> FlatNode(batch, minting, list[i])], edges |-> <<>>],
         fresh |-> fresh]

----------------------------------------------------------------------------
(* SchemaStrategy and ConflictResolution. *)

\* enforce_strict_schema: every type and label is declared.
Conforms(delta, schema) ==
    /\ \A i \in DOMAIN delta.nodes : Range(delta.nodes[i].types) \subseteq DOMAIN schema.node_types
    /\ \A i \in DOMAIN delta.edges : delta.edges[i].label \in DOMAIN schema.edge_types

\* actor_schema.
ActorSchema ==
    LET Kind(name, supertypes, props) == NodeType(name, None, supertypes, props)
        Required(name) == <<PropertyType(name, "string", ExactlyOne, None)>>
        kinds == << Kind("Actor", <<>>, <<>>), Kind("Workflow", <<"Actor">>, Required("path")),
                    Kind("Run", <<"Actor">>, <<>>), Kind("Step", <<"Actor">>, <<>>),
                    Kind("ActorPathSegment", <<"Actor">>, <<>>),
                    Kind("ActorEvent", <<>>, Required("event_kind")), Kind("ActorState", <<>>, <<>>),
                    Kind("ActorProjectionCursor", <<>>, <<>>) >>
        links == << EdgeType("supervises", None, <<"Actor">>, <<"Actor">>),
                    EdgeType("emitted", None, <<"Actor">>, <<"ActorEvent">>),
                    [EdgeType("holdsState", None, <<"Actor">>, <<"ActorState">>) EXCEPT !.functional = TRUE],
                    EdgeType("successor", None, <<"ActorEvent">>, <<"ActorEvent">>) >>
    IN  FoldLeft(DeclareEdgeType, FoldLeft(DeclareNodeType, EmptySchema, kinds), links)

\* Mutant: a merge keeps the types, but only the incoming properties.
ReconcileProperties(conflict, existing, incoming) ==
    IF conflict = "last_write_wins" \/ existing = None THEN Some(incoming)
    ELSE IF conflict = "skip_existing" THEN None
    ELSE Some([incoming EXCEPT !.types = The(existing).types])

\* Merge adds the types that are new.
MergedTypes(old, new) == old \o Picked(new, {i \in DOMAIN new : new[i] \notin Range(old)})

\* ConflictResolution::reconcile: nothing, or the node to write.
Reconcile(conflict, existing, incoming) ==
    IF conflict = "last_write_wins" \/ existing = None THEN Some(incoming)
    ELSE IF conflict = "skip_existing" THEN None
    ELSE LET prev == The(existing)
         IN  Some(Node(prev.id, IF incoming.iri = None THEN prev.iri ELSE incoming.iri,
                       MergedTypes(prev.types, incoming.types), Overlay(incoming.properties, prev.properties)))
=============================================================================
