# atomr-ontology: TLA+ models, checks and proofs

atomr-ontology is a Rust workspace for building, storing, versioning, reasoning
over and serving ontologies (nodes, edges and axioms with provenance). This
directory holds TLA+ models of the parts of it whose behaviour depends on
interleaving, failure or long sequences of calls, the TLC runs that check them
on small instances, and TLAPS proofs of the most important properties for every
instance. `PROJECT.json` is the machine-readable index: components, runs,
mutants, the map from definitions to source lines, findings, hazards, theorems.

All paths below are relative to `src/crates/` unless they start with `src/`.

## 1. Inventory

| Component | State | Operations | What is hard |
|---|---|---|---|
| **persist** `PersistentStore` and its `Checkpointer`s (memory, file, SQLite) | an ontology, a provenance ledger and a version under an async `RwLock`; a slot, a file or a table of snapshots | `new`, `from_memory`, upserts, `commit_with_provenance`, reads | the snapshot is cloned under the lock and saved after the lock is released: concurrent saves land in any order, fail, are abandoned, or are cut by a crash |
| **version** `VersionedStore` | a table of commits by content id, branch heads, the current branch | `commit`, `branch`, `checkout`, `merge` (Ours, Theirs, Union), `as_of`, `log` | ids are content hashes: repeating a commit reuses an id that may have descendants; criss-cross merges |
| **extract** `CachedBackend` | a response map and an insertion order under a mutex | `complete`, and `batch_complete`/`stream_complete` through it | the lock is released across the inference call: callers race on one prompt |
| **actor-projection** `Projector`, ingest modes, projections, sources | one task per mode with a cursor, a bounded batch channel, a commit loop, a shutdown watch, broadcast receivers; the sets of what a diff projection has seen | `run`, `run_with_timeout`, `run_until_shutdown`; replay, polling, push hook, event stream; four projections, three minting strategies, three conflict policies, two sources | the source moves on between two awaits; lagging receivers; back-pressure against shutdown; errors of one task among several; paths that arrive in parts and again after a restart; a second writer beside a reconciliation |
| **reason** `Reasoner` and rules | a clone of the ontology, an iteration count, a "something new" flag | `run`, `materialize`; seven rules | a fixed point under several rules in sequence, on cyclic data, with a cap |
| **remote** `RemoteClient`, server and `ServerHandle` | a connection per call, a task per connection, the accept loop | every `OntologyStore` method over one POST; `shutdown`, `Drop` | lost connections, clients that leave, shutdown against the backlog and running tasks |
| **store** `MemStore`, `Pattern`, `TraversalPlan` | an ontology and a provenance log under a lock | upserts, `commit_with_provenance`, `match_pattern`, `traverse`, `snapshot`, `diff` | variable-length hops share one visited set; edges may come before the nodes they join |
| **core**, **provenance** | plain data: ids, nodes, edges, axioms, schema, namespaces, activities | construction, upsert, ledger | none of their own |
| **embed** index and resolver | vectors by id | insert, nearest neighbours, resolve | floating point |
| **induce**, **extract** extractors and pipeline, agentic tools | none beyond a call | prompt a backend, parse its JSON answer, build deltas | the answers of a model |
| **validate**, **shacl** | none | check an ontology against its schema and axioms; schema to SHACL shapes and back | supertypes and subclass axioms with cycles; blocks of shapes numbered through a document |
| **query** (Cypher and SPARQL subsets) | none | text to traversal plans | where in the plan a condition belongs |
| **rdf**, **import** (FOAF, SKOS, schema.org) | none | ontology to triples and back; Turtle, N-Triples, JSON-LD; vocabularies to ontologies | escaping; what a document cannot say; the order of triples |
| **org**, **viz** | none | a schema bundle; DOT and Mermaid text | none |
| **testkit**, umbrella crate and drivers, Python bindings | none | fixtures, re-exports, wrappers | none |

How they interact. Every writer (the projector, the extraction pipeline,
`store_tools`, the RPC server) reaches an ontology through the `OntologyStore`
trait, whose `commit_with_provenance` applies a delta atomically and stamps it.
`PersistentStore` adds durability behind that trait and `RemoteClient` puts it
behind a socket. `Projector` is the only component with several tasks of its
own. `Reasoner` and `VersionedStore` work on ontologies by value. `CachedBackend`
is shared by all extractors of a pipeline.

The properties that make each component correct:

- persist: an acknowledged commit survives a crash; versions order the history;
  a late save never makes the store go back; no snapshot holds half a commit.
- version: the history is a DAG that is never rewritten or lost; `log()` lists
  each ancestor once; `as_of` answers with what was committed.
- cache: what is cached can be evicted; the capacity is exceeded by races alone, and
  by no more than one response each.
- projector: what is read is committed unless the run reports an error; nothing
  is skipped or sent twice; a shutdown ends the run. In the store, the
  supervision tree mirrors the paths, every event has its node, and what others
  wrote survives.
- reasoner: what is derived is entailed; an Ok result is closed; re-running is
  clean; cycles do not make it run away; a run that fails leaves nothing behind.
- remote: a call runs at most once and, when it succeeds, takes effect while
  its caller waits; shutdown is final; every waiting caller is answered.
- store and query: a query returns exactly what it asks for, by a definition that
  knows nothing of visited sets, plans or parsers.
- validate and shacl: a report names every violation and nothing else, also after
  the schema went through SHACL.
- rdf, import, wire formats: what is read back is what was written.

## 2. Modules and how they correspond to the code

| Module | Models | EXTENDS / INSTANCE |
|---|---|---|
| `DurableLog` | abstract: what a persistent store promises about commits | |
| `PersistentStore` | `persist/src/{store,checkpointer,file,sqlite}.rs` | `INSTANCE DurableLog` |
| `PersistentStoreProofs` | | `PersistentStore` |
| `VersionedStore` | `version/src/{store,commit}.rs` | |
| `VersionedLog` | `VersionedStore::log`, step by step | `VersionedStore` |
| `VersionedStoreProofs` | the proofs about both | `VersionedLog` |
| `CachedBackend` | `extract/src/backend.rs` | |
| `CachedBackendProofs` | | `CachedBackend` |
| `Projector` | `actor-projection/src/{projector,batch}.rs`, `ingest/`, `source.rs`: which events get through | |
| `ProjectorProofs` | | `Projector` |
| `Reasoner` | `reason/src/{engine,rules}.rs` | |
| `ReasonerProofs` | | `Reasoner` |
| `RemoteStore` | `remote/src/{client,server}.rs`: the life of a call | |
| `RemoteStoreProofs` | | `RemoteStore` |
| `PropertyGraph` | `core/src`: nodes, edges, axioms, schema, upserts | |
| `Traversal` | `store/src/{pattern,mem}.rs`: patterns, plans and their executor, commits, diffs | `PropertyGraph` |
| `CypherSubset` | `query/src/cypher.rs` | `Traversal` |
| `SparqlSubset` | `query/src/sparql.rs` | `CypherSubset` |
| `WireFormat` | `persist/src/wire.rs`, `remote/src/protocol.rs`, the dispatch of `server.rs` | `Traversal` |
| `OntologyStore` | `store/src/{trait,mem}.rs`: a store, its writers, and the questions asked of it | `SparqlSubset`, `WireFormat` |
| `Validation` | `validate/src` | `PropertyGraph` |
| `RdfCodec` | `rdf/src` | `PropertyGraph` |
| `ShaclShapes` | `shacl/src` | `RdfCodec` |
| `VocabularyImport` | `import/src` | `RdfCodec` |
| `StoreDocuments` | what is made from a store: reports, shapes, documents, snapshots, answers | `OntologyStore`, `Validation`, `ShaclShapes`, `VocabularyImport` |
| `ActorGraph` | `actor-projection/src/projection/`, `strategy.rs`, `vocab.rs`: what a batch becomes | `PropertyGraph` |
| `Ingestion` | poller, projector and sources over one store, batch after batch | `ActorGraph` |
| `FoldInduction` | induction along a fold, with the operator a constant | |
| `IngestionProofs` | | `Ingestion`, `INSTANCE FoldInduction` for each fold |
| `MC*` | instances for TLC | the module of the same name (`MCOntologyStore`: `StoreDocuments`) |

Operators under a comment `Mutant:` are deliberately wrong variants
of the definition that follows them. No specification uses them; they are there
to show that each property can fail.

**PersistentStore.** `state` is the `State` behind the lock. A commit is
`Commit` (the critical section: apply, stamp, record, bump, clone), then either
one `Save` (a memory slot, or one INSERT) or `FileTruncate` and `FileWrite` (the
two halves of `fs::write`), then `Return`. `SaveFails` is an error of the
checkpointer; `Abandon` is a caller that drops the future while the spawned
blocking job runs on; `Crash` takes memory and outstanding saves, and `Drop` is the
end of a store without its process: it is opened again while an INSERT or a write
that nobody awaits still runs. The constant `Restarts` says which of the two may
happen. An item holds
the identity of its last writer, which is enough to tell which commits a
snapshot contains and whether a stamped provenance pointer resolves. The
history variable `acked` holds the commits whose caller was told Ok. A file is
a table of at most one row, which may be `Garbage`.

**VersionedStore.** A Blake3 id is the position at which its preimage was first
committed: two commits share an id exactly when they share a preimage. What is
hashed is modelled as the code does it: `serde_json` refuses maps keyed by
32-byte ids, and the code then hashes a sentinel instead of the snapshot.
`promised` remembers what was committed under each id. `VersionedLog` adds
`walk`, the queue, the visited set and the output of a call of `log()`: `Log`
starts it at the head, `PopFront` is one turn of its loop, `DropLog` the caller
done with the result. The call borrows the store, so no operation runs in
between. `Ancestors` is the least set that holds the head and, with a commit, its
parents; it knows nothing of queues.

**CachedBackend.** `Miss` (look up, release the lock), `Insert` (evict, insert,
push onto `lru_order`), `Hit` and `Fail`. `Key` is the 64-bit hash and may
collide. A batch is several callers. Eviction is first-in first-out: a hit does
not touch `lru_order`. The map is the set of its keys (`cached`), because which text
it holds changes nothing; `races` counts the insertions that find their key cached.

**Projector.** Each mode is a task with a program counter: `Read` covers
`journal()` and `paths()`, `TakeCursor` the later `cursor()` call, `Send` the
wait for room in the channel. `Recv`, `Commit`, `LoopFails` and `Join` are the
loop of `run_inner`; `RequestShutdown`, `Timeout` and `Return` are its callers.
`PushEvent`, `Notify` and `CloseHub` are the actor system. Broadcast receivers
keep the last `SignalCapacity` values and report a lag.

**Reasoner.** A fact is its own content id, so an ontology is a set of facts.
`Apply` is one rule of one pass; `NextPass`, `Cycle` and `Finish` are the ways a
pass ends; `Materialize` and `Return` are what the caller does with the report.
`Stated` gives the two transitivity rules as `rules.rs` words them, with the
reflexive conclusions the code skips.

**RemoteStore.** The stages of a connection are its state. `Leave` covers a
transport error and a dropped future alike; a request that was not sent whole
is `truncated` and answered with 400. The accept loop is at the top of its turn,
where it polls the signal first (`PollSignal`), waits for a connection (`Accept`,
`AcceptPending`), sleeps after an error of `accept()` (`AcceptFails`, `Wake`), or has
ended (`StopListening`): a signal that arrives between the poll and the accept lets
one more connection in. The backing store is a cell with atomic
operations, which is what `OntologyStore` promises.

**OntologyStore and StoreDocuments.** A state is an ontology and a provenance log;
`PutNode`, `PutEdge`, `PutAxiom` and `CommitDelta` are the writing methods, each
one step because `MemStore` holds its lock throughout. Everything else the
repository does with a store is a function of it, and is an operator:
`Traverse` runs a plan as `mem.rs` does (breadth first, one visited set per walk,
seeds in the order of identifiers, then ordering, skip, limit and projection);
`CypherParse` and `SparqlParse` are recursive descent over tokens with the errors
of the code; `Validate` makes the report; `ToRdf`, `FromRdf` and the writers and
parsers of three formats keep the text of a literal character by character,
because escaping is about that; `ToShaclTurtle` and `FromShaclTurtle` use the same
Turtle; `Import` runs the two passes of `mapping.rs`; the operators of `WireFormat`
are the mirror types, with the fields serde leaves out and puts back, and `Answer`
and `Effect` are the eleven methods of the protocol. The properties compare these
with definitions written down independently: a path query is answered by the paths
that visit no node twice, a report by one set per rule. What the code looks for in a
name is a constant: `Spaced`, `Dotted`, `Colons` and `LastParts` say which names hold
a space or a slash, a full stop or comma, a colon, and what is behind the last
separator.

An identifier derived by hashing is what was hashed, an `Option` is a set with at
most one element, a JSON object is a function from field names, and a decoding
error is the empty set.

**Ingestion.** `Grow`, `PushPath` and `PutState` are the system that is observed: any
number of new nodes in one commit, or a commit that only changes a node; `Silent`
nodes have a path and are no events. `Fetch` and `TakeCursor` are one tick of the
poller, `Receive` the projection of a batch with the check of a strict schema and the
names that `Iri::new` refuses (`Spaced`), `ReconcileNext` one `node()` call of
`reconcile_delta`, `Commit` the write. `Restart` is a new projector over the same
store, and chooses for the polling mode and for the projection whether they are new
or the shared ones there are (`projector.rs:41-42`), which keep their cursor and what
they have seen. `Annotate` and `Create` are another client of the store: it adds a
property to a node, or writes a node that the projector is about to write, as a second
projector of the same source does. A random identifier is the next number. `handled`,
`given`, `noted`, `created`, `raced` and `dropped` are history variables.

## 3. Runs

Bounds are the constants of the `.cfg` files and of the `MC*` modules.

| Run | Checks | Bounds, and why they suffice |
|---|---|---|
| `PersistSqlite` | `TypeOK`, `VersionsOrderHistory`, `AckedDurable`, `ProvenanceResolves`, `DurableVersionNeverRegresses`, `ImplementsDurableLog` | two outstanding calls (the pairs that can overtake each other), one item, three commits: one before, one overtaken, one after. The same properties are proved without bounds |
| `PersistFile` | `ProvenanceResolves` with both constructors and torn writes | as above |
| `PersistFileTorn` (violation) | `AckedSurviveRestart` | one caller is enough |
| `VersionGraph` | `TypeOK`, `HistoryIsADag`, `LogListsAncestorsOnce`, `SerializableAsOfIsStable`, `LineageNeverRewritten`, `HistoryNeverLost` | two branches and four commits (`MaxCommits`): a fork, a merge, and a merge of the merge, with one message so that ids repeat |
| `VersionAsOf` (violation) | `AsOfIsStable` | two values at one key |
| `CacheRaces` | `CachedIsEvictable`, `OverCapacityOnlyByRaces` | three callers, three prompts with distinct keys, capacity two, every policy; three races (`MaxRaces`), one more than the capacity. Both are proved without bounds |
| `ProjectorModes` | `DrainedWhenOk`, `NoEventSentTwice`, `ShutdownEnds`, `SentIsCommitted`, `LagCatchesUp` | replay and polling under `run_until_shutdown`, or push hook and event stream under `run_with_timeout`, chosen in `Init`; a channel of one (`Capacity`), so that senders block; broadcast capacity one (`SignalCapacity`) and two events (`MaxEvents`), so that a receiver lags |
| `ProjectorSkips` (violation) | `CursorSkipsNothing` | one poller, two events |
| `ReasonerRuns` | `TypeOK`, `Sound`, `OkIsClosed`, `RerunIsClean`, `NeverHalfClosed`, `CapOnlyWhenTight` | all ontologies of up to three class facts or three property facts, the standard rules and a short list in another order, caps 1 and 4, two runs; class facts and property facts never interact |
| `RemoteCalls` | `Linearizable`, `ShutdownIsFinal`, `CallReturns` | two calls and two values: one overlapping pair, with every turn of the accept loop |
| `StoreQueries` | `TraverseFollowsPaths`, `CypherAnswers`, `SparqlChainAnswers`, `ReportIsExact`, `ShaclKeepsFindings`, `CodecsKeepTriples`, `WireKeepsStore`, `ImportReadsExport` | five worlds. `graph`: three nodes, up to four of seven edges (`max_edges`) with a cycle, a self-loop and parallel labels, and about 60 queries: every kind of hop range, both directions, two hops, conditions, order, skip and limit; every SPARQL block of up to three of five triples. `typed`: two schemas (a chain and a cycle of supertypes), without and with an IRI and bindings of its own, a property `name` whose IRI is `rdfs:label`, class names with a slash and a node name with a full stop; up to two edges and three axioms (`max_axioms`); values with quotes, newlines, wide characters, null, of the wrong datatype, missing, and a float that is not finite. One world per vocabulary: a thing of two classes, one with a class the vocabulary does not know beside one it does, one with an unknown class only |
| `Ingestion` | `TreeMirrorsPaths`, `EventsKeepTheirNodes`, `AnnotationsSurvive` | eleven projectors that between them use every projection, minting, policy and source; four events of two actors, one with a name that is no IRI and one silent in snapshots, with paths that are prefixes of each other, in up to two commits of any size (`MaxVersions`): one before and one after a restart; one state, note and restart each (`MaxStates`, `MaxNotes`, `MaxRestarts`; notes only where a policy keeps them); at most three random identifiers before a batch (`MaxFresh`) |

What the runs over the property graph show:

- `TraverseFollowsPaths`: a hop with a range leads to the ends of all paths of its
  lengths that visit no node twice, once each (`src/docs/query.md:52-58`), with one
  exception stated in `Leads`: a range that begins beyond one hop misses a node that a
  shorter path leads to as well. `CypherAnswers` and `SparqlChainAnswers` say the same
  of queries that went through the parsers, with `WHERE NOT` and types applied to
  the node they name, and that truncated or overlong text is refused.
- `ReportIsExact`: every violated cardinality, datatype, domain, range, disjointness,
  subclass cycle and functional property is reported and nothing else.
- `ShaclKeepsFindings`: a schema that went through SHACL is what its shapes say:
  classes and properties under the local names of their IRIs, `json` as a string. It
  therefore judges a node the same when the types of the node have no `json` and are
  named like their IRIs. Other names for the same datatypes, and counts that are no
  numbers, read back the same.
- `CodecsKeepTriples`, `ImportReadsExport`, `WireKeepsStore`: round trips, with the
  exceptions below stated in the properties.
- `TreeMirrorsPaths`: with names that are not random, the `supervises` edges are those
  of the tree of all paths handled so far, and the `Actor` nodes are the nodes of that
  tree and those another client wrote first. `EventsKeepTheirNodes` holds as long as
  the source gives no position to two events of one actor, which the snapshot source
  does, and as long as no `SnapshotDiffProjection` is used again that had seen the
  event in vain. `AnnotationsSurvive` excepts a client that writes between the
  projector's read of the node and its commit; under `SkipExisting`, one that creates
  the node there.

`CHECK_DEADLOCK FALSE` is set where the system really stops: activity ids are
used up, the run has returned, the caller has reasoned often enough, all calls
have been made, the observed system has done all it may.

### Disagreements between code and documentation

- `PersistFileTorn`: `FileCheckpointer::save` truncates and rewrites the file in
  place; a crash in between loses every commit acknowledged so far.
- `VersionAsOf`: snapshots with any node, edge or axiom cannot be serialized to
  JSON, all hash the same sentinel, and two commits with equal parent and
  message share an id: the second replaces the first and `as_of` changes its
  answer. `SerializableAsOfIsStable` is the part that holds.
- `ProjectorSkips`: the cursor is taken several awaits after the journal was
  read; an event appended in between is behind the cursor and never fetched.

### Observations without a run

The properties are stated so as to hold; these are the cases they leave out.

- persist: `from_memory` over a backend that already holds higher versions:
  `load()` keeps returning the old snapshot. Durability is therefore claimed for
  stores built with `new` only. The memory checkpointer keeps whichever save
  comes last, not the newest.
- version: `merge` of an ancestor makes a merge commit; there is no fast-forward.
- persist: a store that is dropped and opened again in its process while an INSERT that
  nobody awaits still runs (`persist/src/sqlite.rs:72`) gives the version of that
  INSERT a second time. When it lands, two rows have one version, and the commits of
  one of them are acknowledged and not loaded. `load()` still never goes back in
  version, which is proved for this case too.
- cache: two callers that miss the same prompt both push its key
  (`extract/src/backend.rs:182`); the stale duplicate makes a later eviction free
  nothing, and an LRU cache outgrows its capacity (`:126`) by as many responses as
  there were races. "Streaming and batch calls fall through to the inner backend
  uncached" (`:132`) is not what happens: the default implementations (`:98-111`) are
  not overridden and call the cached `complete`.
- store: "match between `min` and `max` consecutive hops"
  (`store/src/pattern.rs:97-99`) and "already-visited node ids on the current expansion
  path are skipped" (`src/docs/query.md:56-57`): the visited set is that of all paths
  of a step (`store/src/mem.rs:198,243`), so with `min` above one a node that a path
  shorter than `min` leads to as well is never returned for its longer path.
- query: a name used twice in one Cypher path is bound to its last place and joins
  nothing; SPARQL triples that share a subject (a star) are compiled to a chain.
- shacl: the parser names classes and properties by the local segment of their IRI
  (`shacl/src/parse.rs:88,166`). The property `name` with the IRI `rdfs:label` of the
  reference schema (`org/src/lib.rs:168-176`) comes back as `label`, so that nodes
  with a `name` lack it and the findings differ; two classes with one local name
  replace each other.
- rdf: the Turtle parser "supports the Turtle subset emitted by `write`"
  (`rdf/src/turtle.rs:101`), but ends a CURIE at a full stop, semicolon or comma
  (`:289-295`), which the writer lets through (`:86`): a document with a dotted local
  name is refused. Both parsers garble characters of several bytes, which N-Triples
  can escape; the target of
  an edge without an IRI is written as the IRI `_:n<id>`, its subject as the blank
  node `_:<id>`; reading JSON-LD loses the subclass axioms of a class with an IRI
  of its own.
- import: importing an exported document makes nodes of the vocabulary's own
  property declarations, because their domain is a known class.
- wire formats: one float that is not finite makes a snapshot, or an answer,
  unreadable.
- actor-projection: with random identifiers, a prefix that several paths of a
  batch share gets a new identifier for each but a node only for the first, so
  `supervises` edges dangle; a flat projection keeps
  only the steps of the last batch; attributes of a leaf are lost under
  `LastWriteWins` when its path comes again as a prefix; states without a digest
  are projected once, however they change; the snapshot source numbers events
  anew from the cursor, so two events of one actor can share a node.
- actor-projection: a `SnapshotDiffProjection` marks what it projects before the
  commit (`snapshot_diff.rs:72,93`) and is shared by the projectors built with it
  (`projector.rs:42,111`; `tests/projection_shapes.rs:94-117` reuses one). After a
  batch that was refused, failed or cut off, a run that reuses it skips what it had
  marked, and commits batches whose events have no node. A polling mode that is
  reused keeps its cursor likewise, and never reads those events again.
- actor-projection: "no-op if a node with that id already exists"
  (`strategy.rs:100`) is decided by the read at `projector.rs:238`; a node that
  another client creates before the commit (`:174`) is replaced.
- actor-projection: nothing keeps the IRI of an event, `/event/{version}/{actor}`,
  from being that of an actor whose path begins with `event` (`strategy.rs:35,52-57`),
  nor the parts of a content address apart when names hold colons (`:63-68`). The
  model supposes that no path begins so (`PathsAssumption`) and no name holds one.
- `run_until_shutdown` waits for the external channel even when its run is over;
  `run_with_timeout` returns while the detached loop goes on committing.
- remote: a write whose caller gave up may land after a retry and replace it.

## 4. Fairness

Only `Projector` and `RemoteStore` state liveness.

- `Projector`: weak fairness on each mode's own steps, on the loop and on the
  caller, because tokio polls every task that can go on. Strong fairness on
  `Stop(m)`: the shutdown branch of `select!` is enabled again and again, and
  `select!` picks among ready branches at random. Nothing is assumed of the
  actor system, of failures, or of whoever asks for a shutdown.
- `RemoteStore`: weak fairness on connection tasks, on the client's future, on
  the accept loop and on `shutdown()`. Clients need not call, leave or lose
  their connection, and nobody need shut the server down. Every operation of
  the backing store is assumed to return, with a result or an error. Strong
  fairness on `Accept(c)`: the loop comes round for ever, and a connection that
  waits each time is taken up some time; that is, `accept()` does not fail for ever.

## 5. Proofs

TLAPS checks every theorem below for all values of the constants; assumptions on
constants are the named `ASSUME`s of the modules, which only keep sentinels
distinct from data and fix the ranges of parameters.

**PersistentStoreProofs.** `TypeCorrect` needs that `load()` is well defined,
and "load() is a snapshot" is not inductive: `BaseInv` adds `DiskHasLatest` (a
disk that parses has a latest row) and `CallsInv` (an outstanding call belongs
to a live store and its snapshot holds its activity). `ProvenanceAlwaysResolves`
follows for every checkpointer and constructor, since every snapshot of the next
state is an old one or the new memory (`SnapshotOrigins`).
The theorems about types, provenance and regression hold for every way to restart.
`VersionsAlwaysOrderHistory`, `SqliteAckedDurable` and `SqliteImplementsDurableLog`
assume that a store ends only with its process (`Restarts \subseteq {"crash"}`) and
`new` as the only constructor, and are false without. The
`HistoryInv` says that the snapshots are ordered, that a live memory is the
newest of them, and that every recorded activity was drawn. For SQLite,
`DurabilityInv` says that acknowledged and saved commits are in some row;
with `HistoryInv` the highest row has them all, which gives
`SqliteAckedDurable`, `SqliteVersionNeverRegresses`, and, action by action,
`SqliteImplementsDurableLog`.

**VersionedStoreProofs.** `VersionTypeCorrect` and `HistoryAlwaysADag` rest on
`RecordStep`: recording a commit puts it under its id and leaves every other
commit alone, and a commit that is replaced had the same preimage, hence the
same parents (`PreimageLineage`). This also gives `LineageIsImmutable` and
`AsOfStableWhenSerializable`.

`HistoryIsKept` needs two facts about reachability: parents that were there stay
the parents (`LineageKept`), hence the ancestors of a commit only grow
(`AncestorsGrow`), and the head an operation leaves behind is among the ancestors
of the head it sets.

**VersionedStoreProofs, log().** `LogKeepsStoreSpec`: with calls of `log()` in between, the
store behaves as without them, so every theorem above carries over.
`LogListsAncestors` is the correctness of the walk on every history, without a
bound on its size. Its invariant `WalkInv` has three parts: the visited set is what
is listed and what waits in the queue, each once (`SeenOnce`); it holds the head
and the parents of what is listed, and nothing but ancestors of the head
(`SeenIsHistory`); and whatever is listed or waits, but for the head, has a child
that was listed before it (`ChildrenFirst`). When
the queue is empty the visited set is closed under parents, and
`AncestorsAreLeast` makes it the ancestors. The parents of a merge are the case
that needs care: both, one or none of them may be new, and they may be equal
(`UnseenParents`).

**ReasonerProofs.** `ReasonerTypeCorrect`; `ReasonerIsSound`, for every
interpretation, rule list and ontology, from the soundness of each rule;
`OkAlwaysClosed` and `RerunAlwaysClean` from `ClosureInv`: as long as a pass has
produced nothing new, the clone is closed under the rules applied in it so far;
the clone contains the ontology; and a materialized ontology is closed.
`ClosedUpToLoops` lifts closure under the code's rules to closure under the
rules as stated. `CapNeverCutsShort` supposes finitely many facts and that the
constant `Enough` is larger than their number; then no cap of `Enough` or more
is ever hit, whatever cycles the ontology has. Its invariant `PassesPaid` is that
every pass but the last has been paid for with a derived fact. `OntologyNeverHalfClosed`:
the caller's ontology is the authored one or a closed one, since nothing but
`Materialize` of an Ok result writes it.

**RemoteStoreProofs.** `RemoteIsLinearizable`, from what each stage of a
connection implies (`CallInv`): before "replying" a request has not run; the
store's present value is in the window of every waiting call; an answer under
way is the value right after the call ran. `RemoteShutdownIsFinal` is an action
property and needs `ServerInv`: the accept loop has ended before `shutdown()`
returns, and takes the backlog with it.

**CachedBackendProofs.** `CachedAlwaysEvictable` holds for every hash function,
collisions included. `CacheOverCapacityOnlyByRaces` is not inductive by itself: an
eviction makes room only if the key at the front of `lru_order` is cached, and a stale
occurrence there frees nothing. `OrderPaysForRaces` accounts for it: the order is
longer than the set of cached keys, and than the capacity, by at most one occurrence
per race; an eviction that meets a stale occurrence shortens the order, and uses up
what one race had left.

**ProjectorProofs.** `ProjectorDrainsWhenOk` from `LoopInv` (the loop ends well with
an empty channel that no task can fill again) and `NothingDropped` (what was sent
is in the channel, in the delta or in the store). `ProjectorSendsOnce` from
`CursorInv` (a mode has sent nothing beyond its cursor, and the batch it is about
to send lies within it by then) and `StreamInv` (what an event stream has yet to
take lies beyond its cursor and in order, however many events a lag lost).
Both hold for every set of modes, capacity and journal.

**FoldInduction, IngestionProofs.** The projections fold over paths, events, states
and segments, of any number. `FoldInduction` has the turn of a fold and what it keeps
as constants, and proves `FoldKeeps` (what holds of the start and is kept by every
turn holds of the result) from the well-foundedness of the naturals; `IngestionProofs`
instantiates it for the fold of each projection step, for the run key of a path and
for the selection of entries from a list. `AnnotationsAlwaysSurvive` is that what
another client wrote to a node survives the projector under Merge and SkipExisting,
unless it wrote between the read of `reconcile_delta` and the commit, and under
SkipExisting only if it created the node there. It rests on `IngestionShape` (the
lists are lists, a node is stored at its id, and no projection writes the other
client's property, `ProjectPlain`) and on `WritesKeepNotes`, which makes it inductive:
what waits to be written is, under SkipExisting, a node the store did not have, or has
since because the other client created it, and, under Merge, a node that carries the
note of the one it replaces. The same id may come several times in a batch;
`PutAllEntries` says that one of its nodes then stands. `PathsAssumption` supposes
that the attributes of paths do not use the names of properties that the projections
or the other client set.

`EventsAlwaysKeepTheirNodes` is that as long as the source gives no two events of an
actor one position, every event of a committed batch has its node, and with the
in-memory source and names that are not random at most one, through restarts with new
or used modes and projections, refused batches, batches that overlap, and writes of
the other client. The exception are the events in `dropped`: a SnapshotDiffProjection
had marked them when a run ended without committing them, and was used again. The
argument is about pairs of an identifier and the event its node stands for, in the
store, in the delta and among the nodes to write (`Pairs`):

- What a projection makes of a batch (`ProjectDraws`, from one lemma per fold):
  an identifier of an event is minted from its position, or is random and drawn
  once, from the numbers after those drawn before; and every position of the batch
  that the projection has not seen has a node (`Drawn`, `Tells`).
- Hence no identifier stands for two events (`PairsFunctional`): for names, because
  they determine actor and position (`NamesApart`) and the position was given to
  one event; for random ones, because they are never drawn again (`DrawnOnce`).
- `ReconcileNext`, `PassThrough`, `Commit`, `Annotate` and `Create` bring up no pair and lose
  no identifier (`NothingNew`): a node that is skipped has its identifier in the
  store, a merged one keeps it. Where no identifier stands for two events they
  therefore change no pair at all (`PairsStay`), and a commit makes the pairs of
  the store all there are.
- `Kept` is what becomes inductive with it: handled events are in the store or were
  dropped (`HandledKept`), the events of the batch in hand are among the pairs or were
  dropped (`BatchTold`), and every position a `SnapshotDiffProjection` has seen is that
  of an event that is stored, was dropped, or is in hand (`SeenTold`). The last one is
  needed because it skips those positions in later batches. `InHand` covers a batch that
  was refused half way: its events are marked and have no nodes. A restart either
  starts with an empty memory or moves them to `dropped`.
- `GivenInv` gives the uniqueness: the in-memory source holds every event once, at
  the position it gave, so an event has one position and one name.

`TreeAlwaysMirrorsPaths` is that with the hierarchical projection and names that are
not random, the actors of the store, but for those another client wrote first, and its
`supervises` edges are between the batches exactly the tree of all paths handled so
far, every edge has both its ends, and, while no position is given twice, every event
hangs off the actor of its path. The property is about the store after a commit; its
inductive form also has to say what is on the way there:

- `TreeOf` says it of any set of nodes and edges: the actors are those of a set of
  prefixes, the `supervises` edges lead to each from the one above it, and no edge
  dangles. `TreeBeside` allows for actors beside the tree that another client created.
  Two such trees beside each other are again one (`TreesJoin`), which is why batches
  may come in any order and overlap.
- `TreeOver` is that of a delta, with the map from prefixes to identifiers that the
  projection keeps. Four more instances of `FoldInduction` carry it through the
  segments of a path, the paths, the events and the states of a batch; within a path,
  the actor above the next segment is the one just made (`TreeAt`).
  `HierarchicalGrows` puts them together for a whole batch.
- `TreeInv` is kept by every action: the store has the tree of the handled paths
  (`StoreTree`); while a batch is reconciled, store and delta together have that of
  its paths as well (`TaskTree`); a node is an actor with the path its name says or
  neither (`TreeNodes`), which a merge keeps since both nodes have the same name;
  and every event hangs off its actor by a name it was given (`Linked`).
- `GivenInv` and `PairsInv` from above say which node that name is of.

`EventsAssumption`, that an event has one path or none, is what an `Option` in the
code is. The property excepts paths without segments, of which `insert_path` makes
no node: there is no actor that an event at such a path could hang off.

Only model-checked:

- liveness, which needs fairness: `CallReturns`, `ShutdownEnds`, `SentIsCommitted`,
  `LagCatchesUp`;
- the properties of `OntologyStore` and `StoreDocuments`: parsers, codecs and
  traversals are recursive operators over their input, which the provers do not
  accept.

## 6. Not modelled

- `extract` extractors and pipeline, `induce`, agentic tools: a prompt to an
  inference backend and the parsing of what it answers. The pipeline is two calls
  in a row that stop at the first error; nothing is kept between calls. The store
  operations they end in are those of `OntologyStore`.
- `embed`: vectors of floats ranked by cosine similarity. Its one piece of state,
  the index, only grows.
- `version::Branch`: a record that `VersionedStore` does not use.
- `org`, `viz`, `testkit`, the umbrella crate and its HTTP driver, the Python
  bindings: fixed data, text output, fixtures, re-exports, and wrappers that
  convert arguments and keep no state.

Within what is modelled: the splitting of query text into tokens, Turtle that the
repository's own writers do not produce (predicate lists, comments, language tags),
timestamps, IRI syntax but for whitespace in the names of a projector, and messages of
findings and errors are left out. Ids are collision free except for the cache's 64-bit
key.

## 7. Plan

Done, in order of importance: durability, version history, cache, projector,
reasoner, remote, each with its proofs; then the store with its queries, reports,
documents and wire formats, model-checked; and what the projector writes, with its
proofs.

Next: a model of `RemoteStore` over `PersistentStore`, replacing the cell by the
real backend.
