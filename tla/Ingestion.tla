------------------------------ MODULE Ingestion ------------------------------
(***************************************************************************)
(* A poller and a projector that write into a store others write to as     *)
(* well.  Where Projector is about which events get through, this module   *)
(* is about what becomes of them: which nodes and edges the store ends up  *)
(* with, batch after batch, after restarts, and beside another writer.     *)
(*                                                                         *)
(* The source is the in-memory one, which numbers its events, or the       *)
(* snapshot source, which reads another store's checkpoints and numbers    *)
(* the event nodes of the latest snapshot anew at every call.              *)
(***************************************************************************)
EXTENDS ActorGraph

CONSTANTS
    Setups,       \* how a projector may be built
    Events,       \* name -> [actor, path, kind]; the payload is the name
    Silent,       \* ... of which these are nodes of a snapshot without an event
    HashOrder,    \* the names in the order of their nodes in a snapshot
    Stateful,     \* the actors that have states
    KnownPaths,   \* supervision paths the in-memory source may be told of
    MaxVersions, MaxStates, MaxRestarts,
    MaxNotes,     \* conflict policy -> bound on nodes that other clients write
    MaxFresh      \* bound on random identifiers before a batch

Setup ==
    [source : {"memory", "snapshot"},
     projection : {"hierarchical", "flat", "event_stream", "snapshot_diff"},
     minting : {"path_based", "content_addressed", "uuid"},
     conflict : {"last_write_wins", "merge", "skip_existing"},
     fixed : {None, Some(ActorSchema), Some(EmptySchema)}]

ASSUME SetupsAssumption == Setups \subseteq Setup
ASSUME SilentAssumption == Silent \subseteq DOMAIN Events
ASSUME OrderAssumption  == HashOrder \in Seq(DOMAIN Events) /\ Range(HashOrder) = DOMAIN Events
\* An event has one path or none.
ASSUME EventsAssumption == \A e \in DOMAIN Events : \A p, q \in Events[e].path : p = q
ASSUME BoundsAssumption ==
    /\ {MaxVersions, MaxStates, MaxRestarts, MaxFresh} \subseteq Nat
    /\ MaxNotes \in [{"last_write_wins", "merge", "skip_existing"} -> Nat]
\* Attributes have keys of their own: not those of a projection, nor the one
\* that stands for what other clients write.  No path begins with "event",
\* and so no path has the IRI of an event; the code does not check it.
ASSUME PathsAssumption  ==
    \A p \in KnownPaths \cup UNION {Events[e].path : e \in DOMAIN Events} :
        /\ p.segments \in Seq(STRING) /\ "event" \notin Range(SubSeq(p.segments, 1, 1))
        /\ {"path", "event_payload", "note"} \cap DOMAIN p.attributes = {}

VARIABLES
    setup,     \* what the projector was built from
    source,    \* version, the events, paths and states it knows
    poll,      \* the poller: pc, cursor and the batch in hand
    task,      \* the loop: pc, the batch, its nodes and edges to reconcile and to write
    seen,      \* what a SnapshotDiffProjection has projected
    fresh,     \* random identifiers drawn
    store,     \* the ontology written to
    handled,   \* history: events and paths of committed batches
    given,     \* history: positions the source gave to events
    noted,     \* history: nodes another writer annotated
    created,   \* history: ... or wrote before the projector did
    raced,     \* history: ... after the projector had looked for them
    dropped,   \* history: events of batches that a projection has seen and no run committed
    restarts

vars == <<setup, source, poll, task, seen, fresh, store, handled, given, noted, created, raced, dropped, restarts>>

Waiting        == [pc |-> "recv", batch |-> None, raw |-> EmptyDelta, out |-> <<>>]
Refused(batch) == [pc |-> "failed", batch |-> Some(batch), raw |-> EmptyDelta, out |-> <<>>]
Idle           == [pc |-> "idle", cursor |-> 0, batch |-> None]

Init ==
    /\ setup \in Setups
    /\ source = [version |-> 0, events |-> <<>>, paths |-> <<>>, states |-> EmptyMap]
    /\ poll = Idle
    /\ task = Waiting
    /\ seen = NothingSeen
    /\ fresh = 0
    /\ store = EmptyOntology
    /\ handled = [events |-> {}, paths |-> {}]
    /\ given = {}
    /\ noted = {} /\ created = {} /\ raced = {}
    /\ dropped = {}
    /\ restarts = 0

----------------------------------------------------------------------------
(* Sources. *)

\* push_event, or a commit of the store behind the snapshots, with any number
\* of new nodes.
Grow(new) ==
    /\ source.version < MaxVersions
    /\ Range(new) \cap Range(source.events) = {}
    /\ setup.source = "memory" => Len(new) = 1 /\ Range(new) \cap Silent = {}
    /\ source' = [source EXCEPT !.version = @ + 1, !.events = @ \o new]
    /\ UNCHANGED <<setup, poll, task, seen, fresh, store, handled, given, noted, created, raced,
                   dropped, restarts>>

PushPath(path) ==
    /\ setup.source = "memory"
    /\ path \notin Range(source.paths)
    /\ source' = [source EXCEPT !.paths = Append(@, path)]
    /\ UNCHANGED <<setup, poll, task, seen, fresh, store, handled, given, noted, created, raced,
                   dropped, restarts>>

\* put_state, or a commit that changes a node: the next state of an actor;
\* nobody gives it a digest.
PutState(actor) ==
    LET n == IF actor \in DOMAIN source.states THEN source.states[actor] + 1 ELSE 1
        version == IF setup.source = "memory" THEN source.version ELSE source.version + 1
    IN  /\ n <= MaxStates /\ version <= MaxVersions
        /\ source' = [source EXCEPT !.states = Put(@, actor, n), !.version = version]
        /\ UNCHANGED <<setup, poll, task, seen, fresh, store, handled, given, noted, created, raced,
                       dropped, restarts>>

EventAt(name, n) ==
    [cursor |-> n, actor |-> Events[name].actor, path |-> Events[name].path,
     kind |-> Events[name].kind, payload |-> name]

\* journal(since).  A snapshot that is newer than the cursor gives all its
\* events, numbered on from the cursor in the order of its nodes.
Journal(since) ==
    IF setup.source = "memory"
    THEN LET later == SubSeq(source.events, since + 1, Len(source.events))
         IN  [i \in DOMAIN later |-> EventAt(later[i], since + i)]
    ELSE IF source.version <= since THEN <<>>
    ELSE LET held == Picked(HashOrder, {i \in DOMAIN HashOrder : HashOrder[i] \in Range(source.events) \ Silent})
         IN  [i \in DOMAIN held |-> EventAt(held[i], since + i)]

\* paths(): the paths it was told of, or those of all nodes in the snapshot.
Paths ==
    IF setup.source = "memory" THEN source.paths
    ELSE LET held == Picked(HashOrder, {i \in DOMAIN HashOrder : /\ HashOrder[i] \in Range(source.events)
                                                                  /\ Events[HashOrder[i]].path # None})
         IN  [i \in DOMAIN held |-> The(Events[held[i]].path)]

StatesOf(events) ==
    LET actors == SetToSeq({events[i].actor : i \in DOMAIN events} \cap DOMAIN source.states)
    IN  [i \in DOMAIN actors |-> [actor |-> actors[i], payload |-> source.states[actors[i]], digest |-> None]]

----------------------------------------------------------------------------
(* PollingIngest, one tick. *)

\* journal(), paths() and state(); a tick that finds nothing is over.
Fetch ==
    LET events == Journal(poll.cursor)
        paths  == Paths
    IN  /\ poll.pc = "idle"
        /\ events # <<>> \/ paths # <<>>
        /\ poll' = [poll EXCEPT !.pc = "cursor",
                                !.batch = Some([paths |-> paths, events |-> events, states |-> StatesOf(events)])]
        /\ given' = given \cup {<<events[i].actor, events[i].cursor, events[i].payload>> : i \in DOMAIN events}
        /\ UNCHANGED <<setup, source, task, seen, fresh, store, handled, noted, created, raced, dropped, restarts>>

\* cursor(), and the batch goes to the channel.
TakeCursor ==
    /\ poll.pc = "cursor"
    /\ poll' = [poll EXCEPT !.pc = "send", !.cursor = source.version]
    /\ UNCHANGED <<setup, source, task, seen, fresh, store, handled, given, noted, created, raced, dropped, restarts>>

----------------------------------------------------------------------------
(* Projector::run_inner, one batch. *)

Project(batch) ==
    CASE setup.projection = "hierarchical"  -> Hierarchical(batch, setup.minting, fresh)
      [] setup.projection = "event_stream"  -> EventStream(batch, setup.minting, fresh)
      [] setup.projection = "snapshot_diff" -> SnapshotDiff(batch, setup.minting, fresh, seen)
      [] setup.projection = "flat"          -> Flat(batch, setup.minting, fresh)

Fails(batch) ==
    CASE setup.projection = "hierarchical"  -> HierarchicalFails(batch, setup.minting)
      [] setup.projection = "event_stream"  -> EventStreamFails(batch, setup.minting)
      [] setup.projection = "snapshot_diff" -> DiffFails(batch, setup.minting, seen)
      [] setup.projection = "flat"          -> FlatFails(batch, setup.minting)

\* Receive and project; what cannot be named, or what a fixed schema does not
\* know, ends the run.
Receive ==
    LET batch   == The(poll.batch)
        made    == Project(batch)
        refused == Fails(batch) \/ \E s \in setup.fixed : ~Conforms(made.delta, s)
    IN  /\ task.pc = "recv" /\ poll.pc = "send"
        /\ fresh <= MaxFresh
        /\ poll' = [poll EXCEPT !.pc = "idle", !.batch = None]
        /\ task' = IF refused THEN Refused(batch)
                   ELSE [pc |-> "reconcile", batch |-> Some(batch), raw |-> made.delta, out |-> <<>>]
        /\ seen' = IF setup.projection = "snapshot_diff" THEN MarkSeen(seen, batch, setup.minting) ELSE seen
        /\ fresh' = IF setup.minting = "uuid" THEN made.fresh ELSE fresh
        /\ UNCHANGED <<setup, source, store, handled, given, noted, created, raced, dropped, restarts>>

Existing(id) == IF id \in DOMAIN store.nodes THEN Some(store.nodes[id]) ELSE None

\* reconcile_delta: read one node of the store and keep what is to be written.
ReconcileNext ==
    LET incoming == Head(task.raw.nodes)
        result   == Reconcile(setup.conflict, Existing(incoming.id), incoming)
    IN  /\ task.pc = "reconcile" /\ setup.conflict # "last_write_wins"
        /\ task.raw.nodes # <<>>
        /\ task' = [task EXCEPT !.raw.nodes = Tail(@),
                                !.out = IF result = None THEN @ ELSE Append(@, The(result))]
        /\ UNCHANGED <<setup, source, poll, seen, fresh, store, handled, given, noted, created, raced,
                       dropped, restarts>>

\* LastWriteWins reads nothing.
PassThrough ==
    /\ task.pc = "reconcile" /\ setup.conflict = "last_write_wins"
    /\ task.raw.nodes # <<>>
    /\ task' = [task EXCEPT !.raw.nodes = <<>>, !.out = task.raw.nodes]
    /\ UNCHANGED <<setup, source, poll, seen, fresh, store, handled, given, noted, created, raced,
                   dropped, restarts>>

\* commit_with_provenance; an empty delta is not committed.
Commit ==
    LET batch == The(task.batch)
    IN  /\ task.pc = "reconcile" /\ task.raw.nodes = <<>>
        /\ store' = [store EXCEPT !.nodes = PutAll(@, task.out), !.edges = PutAll(@, task.raw.edges)]
        /\ task' = Waiting
        /\ handled' = [events |-> handled.events \cup {batch.events[i].payload : i \in DOMAIN batch.events},
                       paths  |-> handled.paths
                                  \cup {batch.paths[i].segments : i \in DOMAIN batch.paths}
                                  \cup {p.segments : p \in UNION {batch.events[i].path : i \in DOMAIN batch.events}}]
        /\ UNCHANGED <<setup, source, poll, seen, fresh, given, noted, created, raced, dropped, restarts>>

\* The run ends, with its process or because a batch is refused or the store
\* fails, and a new projector is built: with a mode and a projection that
\* start afresh, or with the ones there are, which keep their cursor and what
\* they have seen (projector.rs:41-42).
Restart ==
    \E modeAgain, projectionAgain \in BOOLEAN :
        /\ restarts < MaxRestarts
        /\ restarts' = restarts + 1
        /\ poll' = [Idle EXCEPT !.cursor = IF modeAgain THEN poll.cursor ELSE 0]
        /\ task' = Waiting
        /\ seen' = IF projectionAgain THEN seen ELSE NothingSeen
        /\ dropped' = dropped \cup IF projectionAgain /\ setup.projection = "snapshot_diff"
                                  THEN UNION {{b.events[i].payload : i \in DOMAIN b.events} : b \in task.batch}
                                  ELSE {}
        /\ UNCHANGED <<setup, source, fresh, store, handled, given, noted, created, raced>>

----------------------------------------------------------------------------
(* Another client of the store. *)

\* Every node the projector is about to write was looked for in the store.
InWindow(id) == \E i \in DOMAIN task.out : task.out[i].id = id

WithNote(node) == [node EXCEPT !.properties = Put(@, "note", "note")]

\* It adds a property to a node.
Annotate(id) ==
    /\ Cardinality(noted) < MaxNotes[setup.conflict]
    /\ store' = UpsertNode(store, WithNote(store.nodes[id]))
    /\ noted' = noted \cup {id}
    /\ raced' = IF InWindow(id) THEN raced \cup {id} ELSE raced
    /\ UNCHANGED <<setup, source, poll, task, seen, fresh, handled, given, created, dropped, restarts>>

\* It has written a node that the projector is to write, and added to it: it
\* is another projector of the same source, or one that a caller has given
\* up but that still runs.  Nobody draws another's random identifier.
Create(node) ==
    /\ Cardinality(noted) < MaxNotes[setup.conflict]
    /\ setup.minting # "uuid" /\ node.id \notin DOMAIN store.nodes
    /\ store' = UpsertNode(store, WithNote(node))
    /\ noted' = noted \cup {node.id}
    /\ created' = created \cup {node.id}
    /\ raced' = IF InWindow(node.id) THEN raced \cup {node.id} ELSE raced
    /\ UNCHANGED <<setup, source, poll, task, seen, fresh, handled, given, dropped, restarts>>

----------------------------------------------------------------------------
Next ==
    \/ \E new \in SUBSET DOMAIN Events : Grow(SetToSeq(new))
    \/ \E p \in KnownPaths : PushPath(p)
    \/ \E a \in Stateful : PutState(a)
    \/ Fetch \/ TakeCursor
    \/ Receive \/ ReconcileNext \/ PassThrough \/ Commit \/ Restart
    \/ \E id \in DOMAIN store.nodes : Annotate(id)
    \/ \E node \in Range(task.raw.nodes) \cup Range(task.out) : Create(node)

Spec == Init /\ [][Next]_vars

----------------------------------------------------------------------------
(* Properties. *)

Between == task.pc = "recv"
Named   == setup.minting # "uuid"

\* Positions that were given to two events of one actor.
Clashes == {g \in given : \E h \in given : g[1] = h[1] /\ g[2] = h[2] /\ g[3] # h[3]}

Has(node, key, value) == key \in DOMAIN node.properties /\ node.properties[key] = value
NodesOf(key, value) == {id \in DOMAIN store.nodes : Has(store.nodes[id], key, value)}
Labelled(label) == {<<e[1], e[3]>> : e \in {x \in DOMAIN store.edges : x[2] = label}}

(***************************************************************************)
(* "One node per path segment; supervises edges connect adjacent depths":  *)
(* with names that are not random, the actors in the store are the         *)
(* supervision tree of all paths of all batches, in however many batches,  *)
(* orders and restarts the paths came (hierarchical.rs, insert_path), next *)
(* to actors that another client wrote first; and an event hangs off the   *)
(* actor of its path, unless that has no segment.                          *)
(***************************************************************************)
TreeMirrorsPaths ==
    Between /\ Named /\ setup.projection = "hierarchical" =>
        LET prefixes == UNION {{SubSeq(p, 1, d) : d \in 1 .. Len(p)} : p \in handled.paths}
            actor == [p \in prefixes |-> CHOOSE id \in NodesOf("path", p) : TRUE]
            actors == {n \in DOMAIN store.nodes : HasType(store.nodes[n], "Actor")}
        IN  /\ \A p \in prefixes : Cardinality(NodesOf("path", p)) = 1
            /\ {actor[p] : p \in prefixes} \subseteq actors
            /\ actors \subseteq {actor[p] : p \in prefixes} \cup created
            /\ Labelled("supervises") = {<<actor[Front(p)], actor[p]>> : p \in {q \in prefixes : Len(q) > 1}}
            /\ \A e \in DOMAIN store.edges : {e[1], e[3]} \subseteq DOMAIN store.nodes
            /\ Clashes = {} => \A e \in handled.events : \A p \in Events[e].path : p.segments # <<>> =>
                  \E n \in NodesOf("event_payload", e) : <<actor[p.segments], n>> \in Labelled("emitted")

(***************************************************************************)
(* As long as the source gives no two events of an actor one position,     *)
(* every event of a committed batch has its node, and with the in-memory   *)
(* source exactly one, however often it is read again after a restart      *)
(* (strategy.rs, mint_event; snapshot_diff.rs:93).  The exception are the  *)
(* events of a batch that a SnapshotDiffProjection had marked when its run *)
(* ended before the commit, and that it skips when it is used again        *)
(* (snapshot_diff.rs:93-96, projector.rs:111).                             *)
(***************************************************************************)
EventsKeepTheirNodes ==
    Between /\ setup.projection # "flat" /\ Clashes = {} =>
        \A e \in handled.events :
            LET nodes == NodesOf("event_payload", e)
            IN  /\ nodes = {} => e \in dropped
                /\ setup.source = "memory" /\ Named => Cardinality(nodes) <= 1

(***************************************************************************)
(* With Merge and SkipExisting, what another client wrote to a node stays, *)
(* unless it wrote between the projector's read of the node and its        *)
(* commit; with SkipExisting only if the read had found no node, and the   *)
(* other client wrote the whole node in between (projector.rs:174,238,     *)
(* although strategy.rs:100 promises a no-op).                             *)
(***************************************************************************)
AnnotationsSurvive ==
    setup.conflict # "last_write_wins" =>
        \A n \in noted : ~Has(store.nodes[n], "note", "note") =>
            n \in raced /\ (setup.conflict = "skip_existing" => n \in created)
=============================================================================
