--------------------------- MODULE IngestionProofs ---------------------------
(***************************************************************************)
(* Proofs about what the projector leaves in a store, for every journal,   *)
(* set of paths, projection, minting, conflict policy and source, however  *)
(* long the lists of a batch are.  What the folds of the projections build *)
(* is shown with FoldInduction, once for each fold.                        *)
(***************************************************************************)
EXTENDS Ingestion, FiniteSetTheorems, SequenceTheorems, TLAPS

----------------------------------------------------------------------------
(* Lists of nodes. *)

\* A list, of whatever entries.
IsList(s) == \E X : s \in Seq(X)

IsNode(n) == n = [id |-> n.id, iri |-> n.iri, types |-> n.types, properties |-> n.properties]

\* A node as a projection makes it: it has none of other clients' properties.
Plain(n) == IsNode(n) /\ "note" \notin DOMAIN n.properties

PlainList(s) == IsList(s) /\ \A i \in DOMAIN s : Plain(s[i])

PlainDelta(d) == d = [nodes |-> d.nodes, edges |-> d.edges] /\ PlainList(d.nodes)

\* Lists end where their length says.
LEMMA ListDomain ==
    ASSUME NEW s, IsList(s)
    PROVE  Len(s) \in Nat /\ DOMAIN s = 1..Len(s)
BY SMTT(60) DEF IsList

\* A function on 1..n is a list of n entries.
LEMMA ListOfEntries ==
    ASSUME NEW n \in Nat, NEW f, DOMAIN f = 1..n, f = [i \in 1..n |-> f[i]]
    PROVE  IsList(f) /\ Len(f) = n
<1> DEFINE S == {f[i] : i \in 1..n}
<1>1. \A i \in 1..n : f[i] \in S
  BY SMTT(60)
<1> HIDE DEF S
<1>2. f \in [1..n -> S]
  BY <1>1, SMTT(60)
<1>3. f \in Seq(S)
  BY <1>2, SMTT(60)
<1>4. Len(f) = n
  BY <1>2, <1>3, SMTT(60)
<1> QED BY <1>3, <1>4, SMTT(60) DEF IsList

\* Append keeps the entries and adds the last.
LEMMA ListAppend ==
    ASSUME NEW s, NEW x, IsList(s)
    PROVE  /\ IsList(Append(s, x)) /\ Len(Append(s, x)) = Len(s) + 1
           /\ \A i \in DOMAIN s : Append(s, x)[i] = s[i]
           /\ Append(s, x)[Len(s) + 1] = x
<1>1. PICK X : s \in Seq(X)
  BY SMTT(60) DEF IsList
<1>2. s \in Seq(X \cup {x})
  BY <1>1, SMTT(60)
<1>3. Append(s, x) \in Seq(X \cup {x})
  BY <1>2, SMTT(60)
<1> QED BY <1>2, <1>3, SMTT(60) DEF IsList

\* Concatenation has the entries of the first list, then of the second.
LEMMA ListConcat ==
    ASSUME NEW s, NEW t, IsList(s), IsList(t)
    PROVE  /\ IsList(s \o t) /\ Len(s \o t) = Len(s) + Len(t)
           /\ \A i \in 1..(Len(s) + Len(t)) : (s \o t)[i] = IF i <= Len(s) THEN s[i] ELSE t[i - Len(s)]
<1>1. PICK X : s \in Seq(X)
  BY DEF IsList
<1>2. PICK Y : t \in Seq(Y)
  BY DEF IsList
<1>3. s \in Seq(X \cup Y) /\ t \in Seq(X \cup Y)
  BY <1>1, <1>2
<1>4. s \o t \in Seq(X \cup Y)
  BY <1>3
<1> QED BY <1>3, <1>4 DEF IsList

\* Tail drops the first entry and moves the others up.
LEMMA ListTail ==
    ASSUME NEW s, IsList(s), s # <<>>
    PROVE  /\ IsList(Tail(s)) /\ Len(Tail(s)) = Len(s) - 1
           /\ 1 \in DOMAIN s /\ Head(s) = s[1]
           /\ \A i \in DOMAIN Tail(s) : i + 1 \in DOMAIN s /\ Tail(s)[i] = s[i + 1]
BY DEF IsList

\* The list without nodes.
LEMMA PlainEmpty == PlainList(<<>>)
<1>1. <<>> \in Seq({}) /\ DOMAIN <<>> = {}
  OBVIOUS
<1>2. IsList(<<>>)
  BY <1>1, Zenon DEF IsList
<1> QED BY <1>1, <1>2 DEF PlainList

\* Adding a plain node to a list, or a delta, of plain nodes.
LEMMA PlainAppend ==
    ASSUME NEW s, NEW x, PlainList(s), Plain(x)
    PROVE  PlainList(Append(s, x))
<1>1. IsList(s) /\ Len(s) \in Nat /\ DOMAIN s = 1..Len(s)
  BY ListDomain DEF PlainList
<1>2. /\ IsList(Append(s, x)) /\ Len(Append(s, x)) = Len(s) + 1
      /\ \A i \in DOMAIN s : Append(s, x)[i] = s[i]
      /\ Append(s, x)[Len(s) + 1] = x
  BY <1>1, ListAppend
<1>3. DOMAIN Append(s, x) = 1..(Len(s) + 1)
  BY <1>2, ListDomain
<1>4. \A i \in 1..(Len(s) + 1) : i \in DOMAIN s \/ i = Len(s) + 1
  BY <1>1
<1> QED BY <1>2, <1>3, <1>4 DEF PlainList

\* Adding an edge leaves the nodes of a delta alone.
LEMMA PlainEdge ==
    ASSUME NEW d, NEW e, PlainDelta(d)
    PROVE  PlainDelta(AddEdge(d, e))
<1>1. AddEdge(d, e) = [nodes |-> d.nodes, edges |-> Append(d.edges, e)]
  BY DEF AddEdge
<1>2. PlainList(d.nodes)
  BY DEF PlainDelta
<1> QED BY <1>1, <1>2 DEF PlainDelta

\* Two lists of plain nodes, one after the other.
LEMMA PlainConcat ==
    ASSUME NEW s, NEW t, PlainList(s), PlainList(t)
    PROVE  PlainList(s \o t)
<1>1. IsList(s) /\ Len(s) \in Nat /\ DOMAIN s = 1..Len(s) /\ IsList(t) /\ Len(t) \in Nat /\ DOMAIN t = 1..Len(t)
  BY ListDomain DEF PlainList
<1>2. /\ IsList(s \o t) /\ Len(s \o t) = Len(s) + Len(t)
      /\ \A i \in 1..(Len(s) + Len(t)) : (s \o t)[i] = IF i <= Len(s) THEN s[i] ELSE t[i - Len(s)]
  BY <1>1, ListConcat
<1>3. DOMAIN (s \o t) = 1..(Len(s) + Len(t))
  BY <1>2, ListDomain
<1>4. \A i \in 1..(Len(s) + Len(t)) : IF i <= Len(s) THEN i \in DOMAIN s ELSE i - Len(s) \in DOMAIN t
  BY <1>1
<1> QED BY <1>2, <1>3, <1>4 DEF PlainList

----------------------------------------------------------------------------
(* What the folds of the projections keep. *)

PlainPath(p) == p.segments \in Seq(STRING) /\ {"path", "event_payload", "note"} \cap DOMAIN p.attributes = {}

PlainAcc(minting, path, seq, k, acc) == PlainDelta(acc.delta)

PathTurn(minting, none, acc, path)   == InsertPath(minting, acc, path)
EventTurn(minting, none, acc, event) == InsertEvent(minting, acc, event)
StateTurn(minting, none, acc, state) == InsertState(acc, state)
PickTurn(list, S, acc, i)            == IF i \in S THEN Append(acc, list[i]) ELSE acc

\* What was picked by turn k are entries of the list.
PickedSoFar(list, S, seq, k, acc) ==
    IsList(acc) /\ \A j \in DOMAIN acc : \E i \in S \cap DOMAIN list : acc[j] = list[i]

PrefixFold == INSTANCE FoldInduction WITH op <- InsertPrefix, Inv <- PlainAcc
PathFold   == INSTANCE FoldInduction WITH op <- PathTurn, Inv <- PlainAcc
EventFold  == INSTANCE FoldInduction WITH op <- EventTurn, Inv <- PlainAcc
StateFold  == INSTANCE FoldInduction WITH op <- StateTurn, Inv <- PlainAcc
PickFold   == INSTANCE FoldInduction WITH op <- PickTurn, Inv <- PickedSoFar

\* Picked gives a list, of entries at the positions asked for.
LEMMA PickedEntries ==
    ASSUME NEW list, NEW S, IsList(list)
    PROVE  /\ IsList(Picked(list, S))
           /\ \A j \in DOMAIN Picked(list, S) : \E i \in S \cap DOMAIN list : Picked(list, S)[j] = list[i]
<1> DEFINE seq == [i \in DOMAIN list |-> i]
<1>1. Len(list) \in Nat /\ DOMAIN list = 1..Len(list)
  BY ListDomain
<1>2. Len(seq) = Len(list) /\ DOMAIN seq = 1..Len(seq) /\ \A i \in DOMAIN list : seq[i] = i
  BY <1>1
<1>3. Picked(list, S) = PickFold!Folded(list, S, <<>>, seq)
  BY DEF Picked, PickTurn, PickFold!Folded, FoldLeft, MapThenFoldSet, PickFold!MapThenFoldSet, Max, PickFold!Greatest
<1> HIDE DEF seq
<1>4. PickedSoFar(list, S, seq, 0, <<>>)
  <2>1. <<>> \in Seq({})
    OBVIOUS
  <2> QED BY <2>1 DEF PickedSoFar, IsList
<1>5. ASSUME NEW k \in 1..Len(seq), NEW a, PickedSoFar(list, S, seq, k - 1, a)
      PROVE  PickedSoFar(list, S, seq, k, PickTurn(list, S, a, seq[k]))
  <2>1. seq[k] = k /\ k \in DOMAIN list
    BY <1>1, <1>2
  <2>2. CASE k \in S
    <3>1. PickTurn(list, S, a, seq[k]) = Append(a, list[k])
      BY <2>1, <2>2 DEF PickTurn
    <3>2. /\ IsList(Append(a, list[k])) /\ Len(Append(a, list[k])) = Len(a) + 1
          /\ \A i \in DOMAIN a : Append(a, list[k])[i] = a[i]
          /\ Append(a, list[k])[Len(a) + 1] = list[k]
      BY <1>5, ListAppend DEF PickedSoFar
    <3>3. DOMAIN Append(a, list[k]) = 1..(Len(a) + 1) /\ Len(a) \in Nat /\ DOMAIN a = 1..Len(a)
      BY <1>5, <3>2, ListDomain DEF PickedSoFar
    <3>4. \A j \in 1..(Len(a) + 1) : j \in DOMAIN a \/ j = Len(a) + 1
      BY <3>3
    <3> QED BY <1>5, <2>1, <2>2, <3>1, <3>2, <3>3, <3>4 DEF PickedSoFar
  <2>3. CASE k \notin S
    BY <1>5, <2>1, <2>3 DEF PickedSoFar, PickTurn
  <2> QED BY <2>2, <2>3
<1>6. PickedSoFar(list, S, seq, Len(seq), PickFold!Folded(list, S, <<>>, seq))
  BY <1>1, <1>2, <1>4, <1>5, PickFold!FoldKeeps
<1> QED BY <1>3, <1>6 DEF PickedSoFar

\* One segment of insert_path adds at most a plain node.
LEMMA PrefixPlain ==
    ASSUME NEW minting, NEW path, NEW acc, NEW depth, PlainPath(path), PlainDelta(acc.delta)
    PROVE  PlainDelta(InsertPrefix(minting, path, acc, depth).delta)
<1> DEFINE prefix == SubSeq(path.segments, 1, depth)
           id     == MintActor(minting, prefix, acc.fresh)
           own    == [path |-> prefix, depth |-> depth - 1]
           extra  == IF depth = Len(path.segments) THEN path.attributes ELSE EmptyMap
           types  == <<"Actor", TypeForSegment(path.segments[depth])>>
           node   == Node(id, IriFor(minting, id), types, Overlay(extra, own))
           placed == IF prefix \notin DOMAIN acc.ids THEN AddNode(acc.delta, node) ELSE acc.delta
<1>1. Plain(node)
  <2>1. "note" \notin DOMAIN extra
    BY DEF PlainPath, EmptyMap
  <2>2. DOMAIN Overlay(extra, own) = DOMAIN extra \cup {"path", "depth"}
    BY DEF Overlay
  <2> HIDE DEF extra, own, id, types
  <2>3. /\ node = [id |-> id, iri |-> IriFor(minting, id), types |-> types, properties |-> Overlay(extra, own)]
    BY DEF Node
  <2> QED BY <2>1, <2>2, <2>3 DEF Plain, IsNode
<1> HIDE DEF node
<1>2. PlainDelta(placed)
  BY <1>1, PlainAppend DEF AddNode, PlainDelta
<1>3. \/ InsertPrefix(minting, path, acc, depth).delta = placed
      \/ \E e : InsertPrefix(minting, path, acc, depth).delta = AddEdge(placed, e)
  BY DEF InsertPrefix, node
<1> QED BY <1>2, <1>3, PlainEdge

\* insert_path, for paths of any length.
LEMMA PathPlain ==
    ASSUME NEW minting, NEW path, NEW acc, PlainPath(path), PlainDelta(acc.delta)
    PROVE  PlainDelta(InsertPath(minting, acc, path).delta)
<1> DEFINE seq == [d \in DOMAIN path.segments |-> d]
           base == [delta |-> acc.delta, ids |-> acc.ids, above |-> None, fresh |-> acc.fresh]
<1>1. Len(path.segments) \in Nat /\ DOMAIN path.segments = 1..Len(path.segments)
  BY DEF PlainPath
<1>2. Len(seq) = Len(path.segments) /\ DOMAIN seq = 1..Len(seq)
  BY <1>1
<1>3. InsertPath(minting, acc, path) = PrefixFold!Folded(minting, path, base, seq)
  BY DEF InsertPath, PrefixFold!Folded, FoldLeft, MapThenFoldSet, PrefixFold!MapThenFoldSet, Max, PrefixFold!Greatest
<1>4. PlainAcc(minting, path, seq, 0, base)
  BY DEF PlainAcc
<1> HIDE DEF seq, base
<1>5. \A k \in 1..Len(seq) : \A a : PlainAcc(minting, path, seq, k - 1, a)
         => PlainAcc(minting, path, seq, k, InsertPrefix(minting, path, a, seq[k]))
  BY PrefixPlain DEF PlainAcc
<1>6. PlainAcc(minting, path, seq, Len(seq), PrefixFold!Folded(minting, path, base, seq))
  BY <1>1, <1>2, <1>4, <1>5, PrefixFold!FoldKeeps
<1> QED BY <1>3, <1>6 DEF PlainAcc

\* A batch as a source gives it.
PlainEvent(e) == /\ \A p \in e.path : PlainPath(p)
PlainBatch(b) ==
    /\ IsList(b.paths) /\ \A i \in DOMAIN b.paths : PlainPath(b.paths[i])
    /\ IsList(b.events) /\ \A i \in DOMAIN b.events : PlainEvent(b.events[i])
    /\ IsList(b.states)

\* The value of an Option that has one is in it.
LEMMA TheOfSome ==
    ASSUME NEW opt, opt # None
    PROVE  The(opt) \in opt
BY DEF The, None

\* The node of an event, with or without its path, is plain.
LEMMA EventNodePlain ==
    ASSUME NEW id, NEW minting, NEW event
    PROVE  /\ Plain(EventNode(id, minting, EventProperties(event)))
           /\ \A p : Plain(EventNode(id, minting, Put(EventProperties(event), "path", p)))
<1>1. DOMAIN EventProperties(event) = {"event_kind", "actor_id", "cursor_version", "event_payload"}
  BY DEF EventProperties
<1>2. ASSUME NEW props, "note" \notin DOMAIN props PROVE Plain(EventNode(id, minting, props))
  BY <1>2 DEF EventNode, Node, Plain, IsNode
<1>3. \A p : DOMAIN Put(EventProperties(event), "path", p) = DOMAIN EventProperties(event) \cup {"path"}
  BY DEF Put
<1> QED BY <1>1, <1>2, <1>3

\* The node of a state is plain.
LEMMA StateNodePlain ==
    ASSUME NEW id, NEW state
    PROVE  Plain(StateNode(id, state))
BY DEF StateNode, Node, Plain, IsNode

\* One event of the hierarchical projection.
LEMMA EventPlain ==
    ASSUME NEW minting, NEW event, NEW acc, PlainEvent(event), PlainDelta(acc.delta)
    PROVE  PlainDelta(InsertEvent(minting, acc, event).delta)
<1> DEFINE placed == IF event.path = None THEN acc ELSE InsertPath(minting, acc, The(event.path))
           id     == MintEvent(minting, event, placed.fresh)
           node   == EventNode(id, minting, EventProperties(event))
<1>1. PlainDelta(placed.delta)
  <2>1. CASE event.path = None
    BY <2>1
  <2>2. CASE event.path # None
    <3>1. PlainPath(The(event.path))
      BY <2>2, TheOfSome DEF PlainEvent
    <3> QED BY <2>2, <3>1, PathPlain
  <2> QED BY <2>1, <2>2
<1> HIDE DEF placed
<1>2. Plain(node)
  BY EventNodePlain
<1> HIDE DEF node
<1>3. PlainDelta(AddNode(placed.delta, node))
  BY <1>1, <1>2, PlainAppend DEF PlainDelta, AddNode
<1>4. \/ InsertEvent(minting, acc, event).delta = AddNode(placed.delta, node)
      \/ \E e : InsertEvent(minting, acc, event).delta = AddEdge(AddNode(placed.delta, node), e)
  BY DEF InsertEvent, node, placed
<1> QED BY <1>3, <1>4, PlainEdge

\* One state of the hierarchical projection.
LEMMA StatePlain ==
    ASSUME NEW state, NEW acc, PlainDelta(acc.delta)
    PROVE  PlainDelta(InsertState(acc, state).delta)
<1> DEFINE node == StateNode(<<"state", state.actor>>, state)
<1>1. \/ InsertState(acc, state).delta = AddNode(acc.delta, node)
      \/ \E e : InsertState(acc, state).delta = AddEdge(AddNode(acc.delta, node), e)
  BY DEF InsertState
<1>2. Plain(node)
  BY StateNodePlain
<1>3. PlainDelta(AddNode(acc.delta, node))
  BY <1>2, PlainAppend DEF PlainDelta, AddNode
<1> QED BY <1>1, <1>3, PlainEdge

\* The hierarchical projection of any batch.
LEMMA HierarchicalPlain ==
    ASSUME NEW batch, NEW minting, NEW n, PlainBatch(batch)
    PROVE  PlainDelta(Hierarchical(batch, minting, n).delta)
<1> DEFINE start  == [delta |-> EmptyDelta, ids |-> EmptyMap, above |-> None, fresh |-> n]
           paths  == FoldLeft(LAMBDA a, p : InsertPath(minting, a, p), start, batch.paths)
           events == FoldLeft(LAMBDA a, e : InsertEvent(minting, a, e), paths, batch.events)
           all    == FoldLeft(LAMBDA a, s : InsertState(a, s), events, batch.states)
<1>1. Hierarchical(batch, minting, n).delta = all.delta
  BY DEF Hierarchical
<1>2. PlainDelta(start.delta)
  <2>1. start.delta = [nodes |-> <<>>, edges |-> <<>>]
    BY DEF EmptyDelta
  <2> HIDE DEF start
  <2> QED BY <2>1, PlainEmpty DEF PlainDelta
<1> HIDE DEF start
<1>3. PlainDelta(paths.delta)
  <2>1. paths = PathFold!Folded(minting, 0, start, batch.paths)
    BY DEF PathTurn, PathFold!Folded, FoldLeft, MapThenFoldSet, PathFold!MapThenFoldSet, Max, PathFold!Greatest
  <2> HIDE DEF paths
  <2>2. PlainAcc(minting, 0, batch.paths, 0, start)
    BY <1>2 DEF PlainAcc
  <2>3. \A k \in 1..Len(batch.paths) : \A a : PlainAcc(minting, 0, batch.paths, k - 1, a)
           => PlainAcc(minting, 0, batch.paths, k, PathTurn(minting, 0, a, batch.paths[k]))
    BY PathPlain, ListDomain DEF PlainAcc, PathTurn, PlainBatch
  <2>4. PlainAcc(minting, 0, batch.paths, Len(batch.paths), PathFold!Folded(minting, 0, start, batch.paths))
    BY <2>2, <2>3, ListDomain, PathFold!FoldKeeps DEF PlainBatch
  <2> QED BY <2>1, <2>4 DEF PlainAcc
<1> HIDE DEF paths
<1>4. PlainDelta(events.delta)
  <2>1. events = EventFold!Folded(minting, 0, paths, batch.events)
    BY DEF EventTurn, EventFold!Folded, FoldLeft, MapThenFoldSet, EventFold!MapThenFoldSet, Max, EventFold!Greatest
  <2> HIDE DEF events
  <2>2. PlainAcc(minting, 0, batch.events, 0, paths)
    BY <1>3 DEF PlainAcc
  <2>3. \A k \in 1..Len(batch.events) : \A a : PlainAcc(minting, 0, batch.events, k - 1, a)
           => PlainAcc(minting, 0, batch.events, k, EventTurn(minting, 0, a, batch.events[k]))
    BY EventPlain, ListDomain DEF PlainAcc, EventTurn, PlainBatch
  <2>4. PlainAcc(minting, 0, batch.events, Len(batch.events), EventFold!Folded(minting, 0, paths, batch.events))
    BY <2>2, <2>3, ListDomain, EventFold!FoldKeeps DEF PlainBatch
  <2> QED BY <2>1, <2>4 DEF PlainAcc
<1> HIDE DEF events
<1>5. PlainDelta(all.delta)
  <2>1. all = StateFold!Folded(minting, 0, events, batch.states)
    BY DEF StateTurn, StateFold!Folded, FoldLeft, MapThenFoldSet, StateFold!MapThenFoldSet, Max, StateFold!Greatest
  <2> HIDE DEF all
  <2>2. PlainAcc(minting, 0, batch.states, 0, events)
    BY <1>4 DEF PlainAcc
  <2>3. \A k \in 1..Len(batch.states) : \A a : PlainAcc(minting, 0, batch.states, k - 1, a)
           => PlainAcc(minting, 0, batch.states, k, StateTurn(minting, 0, a, batch.states[k]))
    BY StatePlain DEF PlainAcc, StateTurn
  <2>4. PlainAcc(minting, 0, batch.states, Len(batch.states), StateFold!Folded(minting, 0, events, batch.states))
    BY <2>2, <2>3, ListDomain, StateFold!FoldKeeps DEF PlainBatch
  <2> QED BY <2>1, <2>4 DEF PlainAcc
<1> QED BY <1>1, <1>5

\* The chain of events, of any length.
LEMMA ChainPlain ==
    ASSUME NEW events, IsList(events), NEW minting, NEW n, NEW withPath
    PROVE  PlainDelta(EventChain(events, minting, n, withPath).delta)
<1> DEFINE id(i)   == MintEvent(minting, events[i], n + i)
           bare(i) == EventProperties(events[i])
           node(i) == EventNode(id(i), minting,
                          IF withPath /\ events[i].path # None
                          THEN Put(bare(i), "path", The(events[i].path).segments) ELSE bare(i))
           nodes   == [i \in DOMAIN events |-> node(i)]
           edges   == [i \in 1 .. Len(events) - 1 |-> Edge(id(i), "successor", id(i + 1))]
<1>1. EventChain(events, minting, n, withPath).delta = [nodes |-> nodes, edges |-> edges]
  BY DEF EventChain
<1>2. \A i \in DOMAIN events : Plain(node(i))
  BY EventNodePlain
<1> HIDE DEF node
<1>3. Len(events) \in Nat /\ DOMAIN events = 1..Len(events)
  BY ListDomain
<1>4. IsList(nodes)
  BY <1>3, ListOfEntries
<1>5. PlainList(nodes)
  BY <1>2, <1>4 DEF PlainList
<1> HIDE DEF nodes, edges
<1> QED BY <1>1, <1>5 DEF PlainDelta

\* The snapshot-diff projection of any batch, whatever was seen before.
LEMMA DiffPlain ==
    ASSUME NEW batch, NEW minting, NEW n, NEW known, PlainBatch(batch)
    PROVE  PlainDelta(SnapshotDiff(batch, minting, n, known).delta)
<1> DEFINE paths  == Unseen(batch.paths, PathKeys(batch), known.paths)
           events == Unseen(batch.events, EventKeys(batch), known.events)
           chain  == EventChain(events, minting, n + Len(paths), FALSE)
           states == Unseen(batch.states, StateKeys(batch), known.states)
           id(i)    == MintActor(minting, paths[i].segments, n + i)
           actor(i) == Node(id(i), IriFor(minting, id(i)), <<"Actor">>, [path |-> paths[i].segments])
           held(i)  == StateNode(<<"state", states[i].actor, states[i].digest>>, states[i])
           actors == [i \in DOMAIN paths |-> actor(i)]
           helds  == [i \in DOMAIN states |-> held(i)]
<1>1. SnapshotDiff(batch, minting, n, known).delta
        = [nodes |-> actors \o chain.delta.nodes \o helds, edges |-> chain.delta.edges]
  BY DEF SnapshotDiff
<1>2. IsList(paths) /\ IsList(events) /\ IsList(states)
  BY PickedEntries DEF Unseen, PlainBatch
<1>3. \A i : Plain(actor(i))
  BY DEF Node, Plain, IsNode
<1>4. \A i : Plain(held(i))
  BY StateNodePlain
<1>5. PlainDelta(chain.delta)
  BY <1>2, ChainPlain
<1> HIDE DEF paths, events, states, chain, actor, held
<1>6. Len(paths) \in Nat /\ DOMAIN paths = 1..Len(paths) /\ Len(states) \in Nat /\ DOMAIN states = 1..Len(states)
  BY <1>2, ListDomain
<1>7. IsList(actors) /\ IsList(helds)
  BY <1>6, ListOfEntries
<1>8. PlainList(actors) /\ PlainList(helds)
  BY <1>3, <1>4, <1>7 DEF PlainList
<1> HIDE DEF actors, helds
<1>9. PlainList(actors \o chain.delta.nodes \o helds)
  BY <1>5, <1>8, PlainConcat DEF PlainDelta
<1> QED BY <1>1, <1>9 DEF PlainDelta

\* A finite set can be listed.
LEMMA ListOfSet ==
    ASSUME NEW S, IsFiniteSet(S)
    PROVE  SetToSeq(S) \in Seq(S) /\ IsList(SetToSeq(S))
<1>1. Cardinality(S) \in Nat /\ ExistsBijection(1..Cardinality(S), S)
  BY FS_CardinalityType
<1>2. \E f \in [1..Cardinality(S) -> S] : IsInjective(f)
  BY <1>1 DEF ExistsBijection, Bijection, Injection
<1>3. SetToSeq(S) \in [1..Cardinality(S) -> S]
  BY <1>2 DEF SetToSeq
<1>4. SetToSeq(S) \in Seq(S)
  BY <1>1, <1>3
<1> QED BY <1>4 DEF IsList

\* The values of a finite list are finitely many.
LEMMA FiniteImage ==
    ASSUME NEW S, IsFiniteSet(S), NEW f
    PROVE  IsFiniteSet({f[x] : x \in S})
<1> DEFINE T == {f[x] : x \in S}
           g == [x \in S |-> f[x]]
<1>1. g \in Surjection(S, T)
  BY DEF Surjection
<1> QED BY <1>1, FS_Surjection

\* The nodes of one commit are a list of names.
LEMMA NewNames ==
    ASSUME NEW new \in SUBSET DOMAIN Events
    PROVE  SetToSeq(new) \in Seq(DOMAIN Events)
<1>1. Len(HashOrder) \in Nat /\ DOMAIN HashOrder = 1..Len(HashOrder)
  BY OrderAssumption
<1>2. IsFiniteSet(1..Len(HashOrder))
  BY <1>1, FS_Interval
<1>3. Range(HashOrder) = {HashOrder[i] : i \in 1..Len(HashOrder)}
  BY <1>1 DEF Range
<1>4. IsFiniteSet(DOMAIN Events)
  BY <1>2, <1>3, FiniteImage, OrderAssumption
<1>5. SetToSeq(new) \in Seq(new)
  BY <1>4, FS_Subset, ListOfSet
<1> QED BY <1>5

KeyTurn(none1, none2, key, segment) == RunKeyTurn(key, segment)
FiniteKey(none1, none2, seq, k, key) == IsFiniteSet(key.workflow) /\ IsFiniteSet(key.run)
KeyFold == INSTANCE FoldInduction WITH op <- KeyTurn, Inv <- FiniteKey

\* A path has finitely many run keys (none or one).
LEMMA FiniteRunKey ==
    ASSUME NEW segments, IsList(segments)
    PROVE  IsFiniteSet(WorkflowRunKey(segments))
<1> DEFINE start == [workflow |-> None, run |-> None, due |-> ""]
           key == FoldLeft(LAMBDA a, s : RunKeyTurn(a, s), start, segments)
           runs == IF key.run = None THEN {"<no-run>"} ELSE key.run
<1>1. key = KeyFold!Folded(0, 0, start, segments)
  BY DEF KeyTurn, KeyFold!Folded, FoldLeft, MapThenFoldSet, KeyFold!MapThenFoldSet, Max, KeyFold!Greatest
<1>2. WorkflowRunKey(segments) = {<<w, r>> : w \in key.workflow, r \in runs}
  BY DEF WorkflowRunKey
<1> HIDE DEF key
<1>3. FiniteKey(0, 0, segments, 0, start)
  BY FS_EmptySet DEF FiniteKey, None
<1>4. ASSUME NEW k \in 1..Len(segments), NEW a, FiniteKey(0, 0, segments, k - 1, a)
      PROVE  FiniteKey(0, 0, segments, k, KeyTurn(0, 0, a, segments[k]))
  BY <1>4, FS_EmptySet, FS_Singleton DEF FiniteKey, KeyTurn, RunKeyTurn, Some, None
<1> HIDE DEF start
<1>5. FiniteKey(0, 0, segments, Len(segments), KeyFold!Folded(0, 0, start, segments))
  BY <1>3, <1>4, ListDomain, KeyFold!FoldKeeps
<1>6. IsFiniteSet(key.workflow) /\ IsFiniteSet(runs)
  BY <1>1, <1>5, FS_Singleton DEF FiniteKey
<1> HIDE DEF runs
<1>7. IsFiniteSet(key.workflow \X runs)
  BY <1>6, FS_Product
<1>8. {<<w, r>> : w \in key.workflow, r \in runs} = key.workflow \X runs
  OBVIOUS
<1> QED BY <1>2, <1>7, <1>8

\* The flat projection of any batch.
LEMMA FlatPlain ==
    ASSUME NEW batch, NEW minting, NEW n, PlainBatch(batch)
    PROVE  PlainDelta(Flat(batch, minting, n).delta)
<1> DEFINE pathKey  == [i \in DOMAIN batch.paths |-> WorkflowRunKey(batch.paths[i].segments)]
           routed   == {j \in DOMAIN batch.events : batch.events[j].path # None}
           eventKey == [i \in routed |-> WorkflowRunKey(The(batch.events[i].path).segments)]
           stateKey == [i \in DOMAIN batch.states |-> UnroutedKey(batch.states[i])]
           keys == (UNION ({pathKey[i] : i \in DOMAIN batch.paths} \cup {eventKey[i] : i \in routed}))
                   \cup {stateKey[i] : i \in DOMAIN batch.states}
           list == SetToSeq(keys)
           nodes == [i \in DOMAIN list |-> FlatNode(batch, minting, list[i])]
<1>1. Flat(batch, minting, n).delta = [nodes |-> nodes, edges |-> <<>>]
  BY DEF Flat, RunKeys
<1>2. /\ IsFiniteSet(DOMAIN batch.paths) /\ IsFiniteSet(DOMAIN batch.events)
      /\ IsFiniteSet(DOMAIN batch.states) /\ IsFiniteSet(routed)
  <2>1. \A s : IsList(s) => IsFiniteSet(DOMAIN s)
    BY ListDomain, FS_Interval
  <2> QED BY <2>1, FS_Subset DEF PlainBatch
<1>3. /\ \A i \in DOMAIN batch.paths : IsFiniteSet(pathKey[i])
      /\ \A i \in routed : IsFiniteSet(eventKey[i])
  <2>1. \A p : PlainPath(p) => IsList(p.segments)
    BY DEF PlainPath, IsList
  <2>2. \A i \in routed : PlainPath(The(batch.events[i].path))
    BY TheOfSome DEF PlainBatch, PlainEvent
  <2> QED BY <2>1, <2>2, FiniteRunKey DEF PlainBatch
<1> HIDE DEF pathKey, eventKey, stateKey, routed
<1>4. IsFiniteSet(keys)
  <2>1. /\ IsFiniteSet({pathKey[i] : i \in DOMAIN batch.paths}) /\ IsFiniteSet({eventKey[i] : i \in routed})
        /\ IsFiniteSet({stateKey[i] : i \in DOMAIN batch.states})
    BY <1>2, FiniteImage
  <2>2. IsFiniteSet({pathKey[i] : i \in DOMAIN batch.paths} \cup {eventKey[i] : i \in routed})
    BY <2>1, FS_Union
  <2>3. IsFiniteSet(UNION ({pathKey[i] : i \in DOMAIN batch.paths} \cup {eventKey[i] : i \in routed}))
    BY <1>3, <2>2, FS_UNION
  <2> QED BY <2>1, <2>3, FS_Union
<1>5. IsList(list) /\ Len(list) \in Nat /\ DOMAIN list = 1..Len(list)
  BY <1>4, ListOfSet, ListDomain
<1> HIDE DEF list
<1>6. IsList(nodes)
  BY <1>5, ListOfEntries
<1>7. \A i : Plain(FlatNode(batch, minting, list[i]))
  BY DEF FlatNode, Node, Plain, IsNode
<1>8. PlainList(nodes)
  BY <1>6, <1>7 DEF PlainList
<1> HIDE DEF nodes
<1> QED BY <1>1, <1>8 DEF PlainDelta

\* No projection writes another client's property.
LEMMA ProjectPlain ==
    ASSUME setup \in Setups, NEW batch, PlainBatch(batch)
    PROVE  PlainDelta(Project(batch).delta)
<1>1. setup.projection \in {"hierarchical", "flat", "event_stream", "snapshot_diff"}
  BY SetupsAssumption DEF Setup
<1>2. CASE setup.projection = "hierarchical"
  <2>1. Project(batch) = Hierarchical(batch, setup.minting, fresh)
    BY <1>2 DEF Project
  <2> QED BY <2>1, HierarchicalPlain
<1>3. CASE setup.projection = "flat"
  <2>1. Project(batch) = Flat(batch, setup.minting, fresh)
    BY <1>3 DEF Project
  <2> QED BY <2>1, FlatPlain
<1>4. CASE setup.projection = "event_stream"
  <2>1. Project(batch) = EventChain(batch.events, setup.minting, fresh, TRUE)
    BY <1>4 DEF Project, EventStream
  <2> QED BY <2>1, ChainPlain DEF PlainBatch
<1>5. CASE setup.projection = "snapshot_diff"
  <2>1. Project(batch) = SnapshotDiff(batch, setup.minting, fresh, seen)
    BY <1>5 DEF Project
  <2> QED BY <2>1, DiffPlain
<1> QED BY <1>1, <1>2, <1>3, <1>4, <1>5

----------------------------------------------------------------------------
(* What the sources give. *)

\* What the source holds.
SourceOK ==
    /\ source = [version |-> source.version, events |-> source.events, paths |-> source.paths,
                 states |-> source.states]
    /\ source.version \in Nat
    /\ source.events \in Seq(DOMAIN Events)
    /\ source.paths \in Seq(KnownPaths)
    /\ IsFiniteSet(DOMAIN source.states)

\* The path of a journal event is a path the source may hold.
LEMMA EventPaths ==
    ASSUME NEW e \in DOMAIN Events, NEW n
    PROVE  PlainEvent(EventAt(e, n))
BY PathsAssumption DEF PlainEvent, PlainPath, EventAt

\* Both sources read a list of events.
LEMMA JournalPlain ==
    ASSUME setup \in Setups, SourceOK, NEW since \in Nat
    PROVE  IsList(Journal(since)) /\ \A i \in DOMAIN Journal(since) : PlainEvent(Journal(since)[i])
<1>1. ASSUME NEW names, names \in Seq(DOMAIN Events)
      PROVE  LET list == [i \in DOMAIN names |-> EventAt(names[i], since + i)]
             IN  IsList(list) /\ \A i \in DOMAIN list : PlainEvent(list[i])
  <2>1. Len(names) \in Nat /\ DOMAIN names = 1..Len(names) /\ \A i \in DOMAIN names : names[i] \in DOMAIN Events
    BY <1>1
  <2>2. \A i \in DOMAIN names : PlainEvent(EventAt(names[i], since + i))
    BY <2>1, EventPaths
  <2> DEFINE list == [i \in DOMAIN names |-> EventAt(names[i], since + i)]
  <2>3. IsList(list)
    BY <2>1, ListOfEntries
  <2> QED BY <2>2, <2>3
<1>2. CASE setup.source = "memory"
  <2>1. SubSeq(source.events, since + 1, Len(source.events)) \in Seq(DOMAIN Events)
    BY DEF SourceOK
  <2> QED BY <1>1, <1>2, <2>1 DEF Journal
<1>3. CASE setup.source # "memory" /\ source.version <= since
  <2>1. Journal(since) = <<>>
    BY <1>3 DEF Journal
  <2> QED BY <2>1, PlainEmpty DEF PlainList
<1>4. CASE setup.source # "memory" /\ ~(source.version <= since)
  <2> DEFINE held == Picked(HashOrder, {i \in DOMAIN HashOrder : HashOrder[i] \in Range(source.events) \ Silent})
  <2>1. IsList(HashOrder) /\ \A i \in DOMAIN HashOrder : HashOrder[i] \in DOMAIN Events
    BY OrderAssumption DEF IsList
  <2>2. IsList(held) /\ \A j \in DOMAIN held : held[j] \in DOMAIN Events
    BY <2>1, PickedEntries
  <2> HIDE DEF held
  <2>3. held \in Seq(DOMAIN Events)
    BY <2>2 DEF IsList
  <2>4. Journal(since) = [i \in DOMAIN held |-> EventAt(held[i], since + i)]
    BY <1>4 DEF Journal, held
  <2> QED BY <1>1, <2>3, <2>4
<1> QED BY <1>2, <1>3, <1>4

\* Both sources read a list of paths.
LEMMA PathsPlain ==
    ASSUME setup \in Setups, SourceOK
    PROVE  IsList(Paths) /\ \A i \in DOMAIN Paths : PlainPath(Paths[i])
<1>1. CASE setup.source = "memory"
  <2>1. \A i \in DOMAIN source.paths : source.paths[i] \in KnownPaths
    BY DEF SourceOK
  <2> QED BY <1>1, <2>1, PathsAssumption DEF Paths, SourceOK, IsList, PlainPath
<1>2. CASE setup.source # "memory"
  <2> DEFINE at == {i \in DOMAIN HashOrder : /\ HashOrder[i] \in Range(source.events)
                                             /\ Events[HashOrder[i]].path # None}
             held == Picked(HashOrder, at)
             list == [i \in DOMAIN held |-> The(Events[held[i]].path)]
  <2>1. IsList(HashOrder) /\ \A i \in DOMAIN HashOrder : HashOrder[i] \in DOMAIN Events
    BY OrderAssumption DEF IsList
  <2>2. IsList(held) /\ \A j \in DOMAIN held : held[j] \in DOMAIN Events /\ Events[held[j]].path # None
    BY <2>1, PickedEntries
  <2>3. Paths = list
    BY <1>2 DEF Paths
  <2> HIDE DEF held
  <2>4. Len(held) \in Nat /\ DOMAIN held = 1..Len(held)
    BY <2>2, ListDomain
  <2>5. IsList(list)
    BY <2>4, ListOfEntries
  <2>6. ASSUME NEW i \in DOMAIN held PROVE PlainPath(The(Events[held[i]].path))
    <3>1. The(Events[held[i]].path) \in Events[held[i]].path
      BY <2>2, TheOfSome
    <3> QED BY <2>2, <3>1, PathsAssumption DEF PlainPath
  <2> QED BY <2>3, <2>5, <2>6
<1> QED BY <1>1, <1>2

\* Both sources read a list of states.
LEMMA StatesList ==
    ASSUME SourceOK, NEW events
    PROVE  IsList(StatesOf(events))
<1> DEFINE S == {events[i].actor : i \in DOMAIN events} \cap DOMAIN source.states
           actors == SetToSeq(S)
           list == [i \in DOMAIN actors |-> [actor |-> actors[i], payload |-> source.states[actors[i]], digest |-> None]]
<1>1. IsFiniteSet(S)
  BY FS_Subset DEF SourceOK
<1>2. IsList(actors) /\ Len(actors) \in Nat /\ DOMAIN actors = 1..Len(actors)
  BY <1>1, ListOfSet, ListDomain
<1>3. StatesOf(events) = list
  BY DEF StatesOf
<1> HIDE DEF actors
<1> QED BY <1>2, <1>3, ListOfEntries

----------------------------------------------------------------------------
(* The state. *)

\* What the poller holds.
PollOK ==
    /\ poll = [pc |-> poll.pc, cursor |-> poll.cursor, batch |-> poll.batch]
    /\ poll.cursor \in Nat
    /\ \A b \in poll.batch : PlainBatch(b)
    /\ poll.pc = "idle" \/ poll.batch # None

\* What the projector holds.
TaskOK ==
    /\ task = [pc |-> task.pc, batch |-> task.batch, raw |-> task.raw, out |-> task.out]
    /\ PlainDelta(task.raw)
    /\ IsList(task.out) /\ \A i \in DOMAIN task.out : IsNode(task.out[i])

\* What the store holds.
StoreOK ==
    /\ store = [iri |-> store.iri, vocabulary |-> store.vocabulary, schema |-> store.schema,
                nodes |-> store.nodes, edges |-> store.edges, axioms |-> store.axioms]
    /\ \A id \in DOMAIN store.nodes : IsNode(store.nodes[id]) /\ store.nodes[id].id = id

\* The shape of the state.
Shape == setup \in Setups /\ SourceOK /\ PollOK /\ TaskOK /\ StoreOK

\* The nodes of a list, each at its id; one of its entries stands where an id
\* comes more than once.
Overwritten(map, list, all) ==
    /\ DOMAIN all = DOMAIN map \cup {list[i].id : i \in DOMAIN list}
    /\ \A id \in DOMAIN map \ {list[i].id : i \in DOMAIN list} : all[id] = map[id]
    /\ \A id \in {list[i].id : i \in DOMAIN list} :
          \E i \in DOMAIN list : list[i].id = id /\ all[id] = list[i]

\* What a commit makes of the nodes in the store.
LEMMA PutAllEntries ==
    ASSUME NEW map, NEW list, IsList(list)
    PROVE  Overwritten(map, list, PutAll(map, list))
<1> DEFINE ids == {list[i].id : i \in DOMAIN list}
           last(id) == CHOOSE i \in DOMAIN list : list[i].id = id /\ \A j \in DOMAIN list : list[j].id = id => j <= i
<1>1. PutAll(map, list) = [id \in DOMAIN map \cup ids |-> IF id \in ids THEN list[last(id)] ELSE map[id]]
  BY DEF PutAll
<1>2. ASSUME NEW id \in ids PROVE last(id) \in DOMAIN list /\ list[last(id)].id = id
  <2> DEFINE at == {i \in DOMAIN list : list[i].id = id}
  <2>1. Len(list) \in Nat /\ DOMAIN list = 1..Len(list)
    BY ListDomain
  <2>2. at \in SUBSET (1..Len(list)) /\ at # {}
    BY <1>2, <2>1
  <2>3. \E i \in at : \A j \in at : i >= j
    BY <2>1, <2>2, PickFold!MaxOfPositions
  <2>4. \E i \in DOMAIN list : list[i].id = id /\ \A j \in DOMAIN list : list[j].id = id => j <= i
    BY <2>1, <2>3
  <2> QED BY <2>4
<1> HIDE DEF last
<1> QED BY <1>1, <1>2 DEF Overwritten

\* A poll.
LEMMA FetchShape == Shape /\ Fetch => Shape'
<1> SUFFICES ASSUME Shape, Fetch PROVE Shape'
  OBVIOUS
<1> DEFINE events == Journal(poll.cursor)
           b == [paths |-> Paths, events |-> events, states |-> StatesOf(events)]
<1>1. /\ poll' = [poll EXCEPT !.pc = "cursor", !.batch = Some(b)]
      /\ UNCHANGED <<setup, source, task, store>>
  BY DEF Fetch
<1>2. PlainBatch(b)
  <2>1. IsList(events) /\ \A i \in DOMAIN events : PlainEvent(events[i])
    BY JournalPlain DEF Shape, PollOK
  <2>2. IsList(StatesOf(events))
    BY StatesList DEF Shape
  <2> HIDE DEF events
  <2> QED BY <2>1, <2>2, PathsPlain DEF PlainBatch, Shape
<1> HIDE DEF b
<1>3. poll' = [pc |-> "cursor", cursor |-> poll.cursor, batch |-> Some(b)]
  BY <1>1 DEF Shape, PollOK
<1>4. PollOK'
  BY <1>2, <1>3 DEF PollOK, Shape, Some, None
<1>5. SourceOK' /\ TaskOK' /\ StoreOK' /\ setup' \in Setups
  BY <1>1 DEF Shape, SourceOK, TaskOK, StoreOK
<1> QED BY <1>4, <1>5 DEF Shape

\* The source grows.
LEMMA SourceShape ==
    ASSUME Shape,
           \/ \E new \in Seq(DOMAIN Events) : Grow(new)
           \/ \E p \in KnownPaths : PushPath(p)
           \/ \E a \in Stateful : PutState(a)
    PROVE  Shape'
<1>1. /\ UNCHANGED <<setup, poll, task, store>>
  BY DEF Grow, PushPath, PutState
<1>2. PollOK' /\ TaskOK' /\ StoreOK' /\ setup' \in Setups
  BY <1>1 DEF Shape, PollOK, TaskOK, StoreOK
<1>3. ASSUME NEW new \in Seq(DOMAIN Events), Grow(new) PROVE SourceOK'
  <2>1. source' = [version |-> source.version + 1, events |-> source.events \o new, paths |-> source.paths,
                   states |-> source.states]
    BY <1>3 DEF Grow, Shape, SourceOK
  <2> QED BY <2>1 DEF Shape, SourceOK
<1>4. ASSUME NEW p \in KnownPaths, PushPath(p) PROVE SourceOK'
  <2>1. source' = [version |-> source.version, events |-> source.events, paths |-> Append(source.paths, p),
                   states |-> source.states]
    BY <1>4 DEF PushPath, Shape, SourceOK
  <2> QED BY <2>1 DEF Shape, SourceOK
<1>5. ASSUME NEW a \in Stateful, PutState(a) PROVE SourceOK'
  <2> DEFINE n == IF a \in DOMAIN source.states THEN source.states[a] + 1 ELSE 1
             v == IF setup.source = "memory" THEN source.version ELSE source.version + 1
  <2>0. source' = [source EXCEPT !.states = Put(@, a, n), !.version = v]
    BY <1>5 DEF PutState
  <2>1. v \in Nat
    BY DEF Shape, SourceOK
  <2> HIDE DEF n, v
  <2>2. source' = [version |-> v, events |-> source.events, paths |-> source.paths,
                   states |-> Put(source.states, a, n)]
    BY <2>0 DEF Shape, SourceOK
  <2>3. DOMAIN Put(source.states, a, n) = DOMAIN source.states \cup {a}
    BY DEF Put
  <2>4. IsFiniteSet(DOMAIN source.states \cup {a})
    BY FS_AddElement DEF Shape, SourceOK
  <2> QED BY <2>1, <2>2, <2>3, <2>4 DEF Shape, SourceOK
<1> QED BY <1>2, <1>3, <1>4, <1>5 DEF Shape

\* A projector that waits for a batch.
LEMMA WaitingShape ==
    ASSUME Shape, NEW b, task' = Waiting \/ task' = Refused(b)
    PROVE  TaskOK' /\ task'.out = <<>>
<1>1. task' = [pc |-> task'.pc, batch |-> task'.batch, raw |-> EmptyDelta, out |-> <<>>]
  BY DEF Waiting, Refused
<1>2. IsList(<<>>) /\ DOMAIN <<>> = {}
  BY PlainEmpty DEF PlainList
<1>3. PlainDelta(EmptyDelta)
  BY PlainEmpty DEF PlainDelta, EmptyDelta
<1> QED BY <1>1, <1>2, <1>3 DEF TaskOK

\* A batch is received and projected; nothing is reconciled yet.
LEMMA ReceiveShape == Shape /\ Receive => Shape' /\ task'.out = <<>>
<1> SUFFICES ASSUME Shape, Receive PROVE Shape' /\ task'.out = <<>>
  OBVIOUS
<1> DEFINE b == The(poll.batch)
<1>1. /\ poll' = [pc |-> "idle", cursor |-> poll.cursor, batch |-> None]
      /\ UNCHANGED <<setup, source, store>>
  BY DEF Receive, Shape, PollOK
<1>2. PlainBatch(b)
  <2>1. poll.batch # None
    BY DEF Receive, Shape, PollOK
  <2> QED BY <2>1, TheOfSome DEF Shape, PollOK
<1>3. PollOK' /\ SourceOK' /\ StoreOK' /\ setup' \in Setups
  BY <1>1 DEF Shape, PollOK, SourceOK, StoreOK, None
<1>4. \/ task' = Refused(b)
      \/ task' = [pc |-> "reconcile", batch |-> Some(b), raw |-> Project(b).delta, out |-> <<>>]
  BY DEF Receive
<1>5. CASE task' = [pc |-> "reconcile", batch |-> Some(b), raw |-> Project(b).delta, out |-> <<>>]
  <2>1. PlainDelta(Project(b).delta)
    BY <1>2, ProjectPlain DEF Shape
  <2>2. IsList(<<>>) /\ DOMAIN <<>> = {}
    BY PlainEmpty DEF PlainList
  <2> QED BY <1>3, <1>5, <2>1, <2>2 DEF TaskOK, Shape
<1> QED BY <1>3, <1>4, <1>5, WaitingShape DEF Shape

\* What reconcile_delta keeps of a node: its identifier, and a property of the
\* existing node that the incoming one does not have.
LEMMA Reconciled ==
    ASSUME Shape, NEW incoming, Plain(incoming)
    PROVE  LET result == Reconcile(setup.conflict, Existing(incoming.id), incoming)
           IN  /\ result # None => IsNode(The(result)) /\ The(result).id = incoming.id
               /\ setup.conflict = "skip_existing" /\ result # None => incoming.id \notin DOMAIN store.nodes
               /\ setup.conflict = "merge" /\ incoming.id \in DOMAIN store.nodes =>
                     \A v : Has(store.nodes[incoming.id], "note", v) => Has(The(result), "note", v)
<1> DEFINE result == Reconcile(setup.conflict, Existing(incoming.id), incoming)
<1>0. setup.conflict \in {"last_write_wins", "merge", "skip_existing"}
  BY SetupsAssumption DEF Shape, Setup
<1>1. \A x : The(Some(x)) = x /\ Some(x) # None
  BY DEF The, Some, None
<1>2. CASE setup.conflict = "last_write_wins" \/ incoming.id \notin DOMAIN store.nodes
  <2>1. result = Some(incoming)
    BY <1>2 DEF Reconcile, Existing
  <2> QED BY <1>1, <1>2, <2>1 DEF Plain
<1>3. CASE setup.conflict = "skip_existing" /\ incoming.id \in DOMAIN store.nodes
  <2>1. result = None
    BY <1>1, <1>3 DEF Reconcile, Existing
  <2> QED BY <1>3, <2>1
<1>4. CASE setup.conflict = "merge" /\ incoming.id \in DOMAIN store.nodes
  <2> DEFINE prev == store.nodes[incoming.id]
             iri  == IF incoming.iri = None THEN prev.iri ELSE incoming.iri
             types == MergedTypes(prev.types, incoming.types)
             properties == Overlay(incoming.properties, prev.properties)
  <2>1. Existing(incoming.id) = Some(prev)
    BY <1>4 DEF Existing
  <2>2. result = Some(Node(prev.id, iri, types, properties))
    BY <1>1, <1>4, <2>1 DEF Reconcile
  <2>3. The(result) = Node(prev.id, iri, types, properties)
    BY <1>1, <2>2
  <2> HIDE DEF types, iri
  <2>4. IsNode(The(result)) /\ The(result).id = prev.id /\ The(result).properties = properties
    BY <2>3 DEF IsNode, Node
  <2>5. prev.id = incoming.id
    BY <1>4 DEF Shape, StoreOK
  <2>6. \A v : Has(prev, "note", v) => "note" \in DOMAIN properties /\ properties["note"] = v
    BY DEF Has, Overlay, Plain
  <2> QED BY <1>4, <2>4, <2>5, <2>6 DEF Has
<1> QED BY <1>0, <1>2, <1>3, <1>4

\* One node is reconciled: it is skipped, or joins the nodes to write.
LEMMA ReconcileShape ==
    ASSUME Shape, ReconcileNext
    PROVE  /\ Shape'
           /\ \A i \in DOMAIN task'.out :
                  \/ i \in DOMAIN task.out /\ task'.out[i] = task.out[i]
                  \/ \E incoming : /\ Plain(incoming)
                                   /\ Reconcile(setup.conflict, Existing(incoming.id), incoming) # None
                                   /\ task'.out[i] = The(Reconcile(setup.conflict, Existing(incoming.id), incoming))
<1> DEFINE incoming == Head(task.raw.nodes)
           result == Reconcile(setup.conflict, Existing(incoming.id), incoming)
           out == IF result = None THEN task.out ELSE Append(task.out, The(result))
<1>1. /\ IsList(task.raw.nodes) /\ task.raw.nodes # <<>> /\ IsList(task.out)
      /\ \A i \in DOMAIN task.raw.nodes : Plain(task.raw.nodes[i])
  BY DEF ReconcileNext, Shape, TaskOK, PlainDelta, PlainList
<1>2. Plain(incoming) /\ PlainList(Tail(task.raw.nodes))
  BY <1>1, ListTail DEF PlainList
<1>3. result # None => IsNode(The(result))
  BY <1>2, Reconciled
<1>4. task' = [task EXCEPT !.raw.nodes = Tail(@), !.out = out]
  BY DEF ReconcileNext
<1> HIDE DEF result
<1>5. /\ IsList(out)
      /\ \A i \in DOMAIN out : \/ i \in DOMAIN task.out /\ out[i] = task.out[i]
                               \/ result # None /\ out[i] = The(result)
  <2>1. CASE result = None
    BY <1>1, <2>1
  <2>2. CASE result # None
    <3>1. /\ IsList(out) /\ Len(out) = Len(task.out) + 1
          /\ \A i \in DOMAIN task.out : out[i] = task.out[i]
          /\ out[Len(task.out) + 1] = The(result)
      BY <1>1, <2>2, ListAppend
    <3>2. DOMAIN out = 1..(Len(task.out) + 1) /\ Len(task.out) \in Nat /\ DOMAIN task.out = 1..Len(task.out)
      BY <1>1, <3>1, ListDomain
    <3>3. \A i \in 1..(Len(task.out) + 1) : i \in DOMAIN task.out \/ i = Len(task.out) + 1
      BY <3>2
    <3> QED BY <2>2, <3>1, <3>2, <3>3
  <2> QED BY <2>1, <2>2
<1> HIDE DEF out
<1>6. task' = [pc |-> task.pc, batch |-> task.batch,
               raw |-> [nodes |-> Tail(task.raw.nodes), edges |-> task.raw.edges], out |-> out]
  BY <1>4 DEF Shape, TaskOK, PlainDelta
<1>7. TaskOK'
  <2>1. PlainDelta([nodes |-> Tail(task.raw.nodes), edges |-> task.raw.edges])
    BY <1>2 DEF PlainDelta
  <2>2. \A i \in DOMAIN out : IsNode(out[i])
    BY <1>3, <1>5 DEF Shape, TaskOK
  <2> QED BY <1>5, <1>6, <2>1, <2>2 DEF TaskOK
<1>8. PollOK' /\ SourceOK' /\ StoreOK' /\ setup' \in Setups
  BY DEF ReconcileNext, Shape, PollOK, SourceOK, StoreOK
<1>9. task'.out = out
  BY <1>6
<1> QED BY <1>2, <1>5, <1>7, <1>8, <1>9 DEF Shape, result

\* The steps that move no node.
LEMMA OtherShape ==
    ASSUME Shape, TakeCursor \/ PassThrough \/ Restart \/ UNCHANGED vars
    PROVE  Shape'
<1>1. CASE TakeCursor
  <2>1. poll' = [pc |-> "send", cursor |-> source.version, batch |-> poll.batch]
    BY <1>1 DEF TakeCursor, Shape, PollOK
  <2>2. poll.batch # None
    BY <1>1 DEF TakeCursor, Shape, PollOK
  <2>3. PollOK'
    BY <2>1, <2>2 DEF PollOK, Shape, SourceOK
  <2> QED BY <1>1, <2>3 DEF TakeCursor, Shape, SourceOK, TaskOK, StoreOK
<1>2. CASE PassThrough
  <2>1. task' = [pc |-> task.pc, batch |-> task.batch, raw |-> [nodes |-> <<>>, edges |-> task.raw.edges],
                 out |-> task.raw.nodes]
    BY <1>2 DEF PassThrough, Shape, TaskOK, PlainDelta
  <2>2. PlainDelta([nodes |-> <<>>, edges |-> task.raw.edges])
    BY PlainEmpty DEF PlainDelta
  <2>3. IsList(task.raw.nodes) /\ \A i \in DOMAIN task.raw.nodes : IsNode(task.raw.nodes[i])
    BY DEF Shape, TaskOK, PlainDelta, PlainList, Plain
  <2>4. TaskOK'
    BY <2>1, <2>2, <2>3 DEF TaskOK
  <2> QED BY <1>2, <2>4 DEF PassThrough, Shape, SourceOK, PollOK, StoreOK
<1>3. CASE Restart
  <2>1. PollOK'
    BY <1>3 DEF Restart, Idle, PollOK, Shape, None
  <2>2. TaskOK'
    BY <1>3, WaitingShape DEF Restart
  <2> QED BY <1>3, <2>1, <2>2 DEF Restart, Shape, SourceOK, StoreOK
<1>4. CASE UNCHANGED vars
  BY <1>4 DEF vars, Shape, SourceOK, PollOK, TaskOK, StoreOK
<1> QED BY <1>1, <1>2, <1>3, <1>4

\* A commit writes the reconciled nodes, in order.
LEMMA CommitShape ==
    ASSUME Shape, Commit
    PROVE  /\ Shape' /\ task' = Waiting
           /\ store'.nodes = PutAll(store.nodes, task.out)
<1>1. /\ store' = [iri |-> store.iri, vocabulary |-> store.vocabulary, schema |-> store.schema,
                   nodes |-> PutAll(store.nodes, task.out), edges |-> PutAll(store.edges, task.raw.edges), axioms |-> store.axioms]
      /\ task' = Waiting
  BY DEF Commit, Shape, StoreOK
<1>2. \A id \in DOMAIN PutAll(store.nodes, task.out) :
         /\ IsNode(PutAll(store.nodes, task.out)[id])
         /\ PutAll(store.nodes, task.out)[id].id = id
  <2> DEFINE all == PutAll(store.nodes, task.out)
             ids == {task.out[i].id : i \in DOMAIN task.out}
  <2>1. /\ DOMAIN all = DOMAIN store.nodes \cup ids
        /\ \A id \in DOMAIN store.nodes \ ids : all[id] = store.nodes[id]
        /\ \A id \in ids : \E i \in DOMAIN task.out : task.out[i].id = id /\ all[id] = task.out[i]
    <3>1. Overwritten(store.nodes, task.out, all)
      BY PutAllEntries DEF Shape, TaskOK
    <3> HIDE DEF all
    <3> QED BY <3>1 DEF Overwritten
  <2>2. \A i \in DOMAIN task.out : IsNode(task.out[i])
    BY DEF Shape, TaskOK
  <2>3. \A id \in DOMAIN store.nodes : IsNode(store.nodes[id]) /\ store.nodes[id].id = id
    BY DEF Shape, StoreOK
  <2> HIDE DEF all, ids
  <2> QED BY <2>1, <2>2, <2>3 DEF all
<1>3. StoreOK'
  BY <1>1, <1>2 DEF StoreOK
<1>4. TaskOK'
  BY <1>1, WaitingShape
<1>5. SourceOK' /\ PollOK' /\ setup' \in Setups
  BY DEF Commit, Shape, SourceOK, PollOK
<1> QED BY <1>1, <1>3, <1>4, <1>5 DEF Shape

\* Another client writes a node with its property to the store.
LEMMA NoteShape ==
    ASSUME Shape, NEW node, IsNode(node),
           store' = UpsertNode(store, WithNote(node)), UNCHANGED <<setup, source, poll, task>>
    PROVE  /\ Shape'
           /\ DOMAIN store'.nodes = DOMAIN store.nodes \cup {node.id}
           /\ \A n \in DOMAIN store.nodes \ {node.id} : store'.nodes[n] = store.nodes[n]
           /\ store'.nodes[node.id] = WithNote(node)
           /\ store'.edges = store.edges
           /\ Has(store'.nodes[node.id], "note", "note")
<1> DEFINE new == WithNote(node)
<1>1. new = [id |-> node.id, iri |-> node.iri, types |-> node.types,
             properties |-> Put(node.properties, "note", "note")]
  BY DEF WithNote, IsNode
<1> HIDE DEF new
<1>2. store' = [iri |-> store.iri, vocabulary |-> store.vocabulary, schema |-> store.schema,
                nodes |-> Put(store.nodes, node.id, new), edges |-> store.edges, axioms |-> store.axioms]
  BY <1>1 DEF UpsertNode, Shape, StoreOK, new
<1>3. /\ DOMAIN store'.nodes = DOMAIN store.nodes \cup {node.id}
      /\ \A n \in DOMAIN store.nodes \ {node.id} : store'.nodes[n] = store.nodes[n]
      /\ store'.nodes[node.id] = new
  BY <1>2 DEF Put
<1>4. IsNode(new) /\ new.id = node.id /\ Has(new, "note", "note")
  BY <1>1 DEF IsNode, Has, Put
<1>5. StoreOK'
  <2>1. \A id \in DOMAIN store'.nodes : IsNode(store'.nodes[id]) /\ store'.nodes[id].id = id
    BY <1>3, <1>4 DEF Shape, StoreOK
  <2> QED BY <1>2, <2>1 DEF StoreOK
<1>6. SourceOK' /\ PollOK' /\ TaskOK' /\ setup' \in Setups
  BY DEF Shape, SourceOK, PollOK, TaskOK
<1> QED BY <1>2, <1>3, <1>4, <1>5, <1>6 DEF Shape, new

\* It adds its property to a node that is there.
LEMMA AnnotateShape ==
    ASSUME Shape, NEW id \in DOMAIN store.nodes, Annotate(id)
    PROVE  /\ Shape'
           /\ DOMAIN store'.nodes = DOMAIN store.nodes
           /\ \A n \in DOMAIN store.nodes \ {id} : store'.nodes[n] = store.nodes[n]
           /\ store'.nodes[id] = WithNote(store.nodes[id])
           /\ store'.edges = store.edges
           /\ Has(store'.nodes[id], "note", "note")
<1>1. IsNode(store.nodes[id]) /\ store.nodes[id].id = id
  BY DEF Shape, StoreOK
<1>2. store' = UpsertNode(store, WithNote(store.nodes[id])) /\ UNCHANGED <<setup, source, poll, task>>
  BY DEF Annotate
<1> DEFINE node == store.nodes[id]
<1>3. IsNode(node) /\ node.id = id /\ store' = UpsertNode(store, WithNote(node))
  BY <1>1, <1>2
<1> HIDE DEF node
<1>4. /\ Shape'
      /\ DOMAIN store'.nodes = DOMAIN store.nodes \cup {id}
      /\ \A n \in DOMAIN store.nodes \ {id} : store'.nodes[n] = store.nodes[n]
      /\ store'.nodes[id] = WithNote(node)
      /\ store'.edges = store.edges
      /\ Has(store'.nodes[id], "note", "note")
  BY <1>2, <1>3, NoteShape
<1> QED BY <1>4 DEF node

\* Or it writes one that the projector has in hand.
LEMMA CreateShape ==
    ASSUME Shape, NEW node \in Range(task.raw.nodes) \cup Range(task.out), Create(node)
    PROVE  /\ Shape'
           /\ node.id \notin DOMAIN store.nodes
           /\ DOMAIN store'.nodes = DOMAIN store.nodes \cup {node.id}
           /\ \A n \in DOMAIN store.nodes : store'.nodes[n] = store.nodes[n]
           /\ store'.nodes[node.id] = WithNote(node)
           /\ store'.edges = store.edges
           /\ Has(store'.nodes[node.id], "note", "note")
<1>1. IsNode(node)
  <2>1. \A i \in DOMAIN task.raw.nodes : IsNode(task.raw.nodes[i])
    BY DEF Shape, TaskOK, PlainDelta, PlainList, Plain
  <2> QED BY <2>1 DEF Range, Shape, TaskOK
<1>2. /\ store' = UpsertNode(store, WithNote(node)) /\ UNCHANGED <<setup, source, poll, task>>
      /\ node.id \notin DOMAIN store.nodes
  BY DEF Create
<1> QED BY <1>1, <1>2, NoteShape

\* Every step keeps the shape.
LEMMA ShapeStep == Shape /\ [Next]_vars => Shape'
<1> SUFFICES ASSUME Shape, [Next]_vars PROVE Shape'
  OBVIOUS
<1>1. ASSUME NEW new \in SUBSET DOMAIN Events, Grow(SetToSeq(new)) PROVE Shape'
  <2>1. SetToSeq(new) \in Seq(DOMAIN Events)
    BY NewNames
  <2> QED BY <1>1, <2>1, SourceShape
<1>2. ASSUME NEW node \in Range(task.raw.nodes) \cup Range(task.out), Create(node) PROVE Shape'
  BY <1>2, CreateShape
<1>3. ASSUME NEW p \in KnownPaths, PushPath(p) PROVE Shape'
  BY <1>3, SourceShape
<1>4. ASSUME NEW a \in Stateful, PutState(a) PROVE Shape'
  BY <1>4, SourceShape
<1>5. ASSUME NEW id \in DOMAIN store.nodes, Annotate(id) PROVE Shape'
  BY <1>5, AnnotateShape
<1>6. CASE TakeCursor \/ PassThrough \/ Restart \/ UNCHANGED vars
  BY <1>6, OtherShape
<1> QED BY <1>1, <1>2, <1>3, <1>4, <1>5, <1>6, FetchShape, ReceiveShape, ReconcileShape, CommitShape DEF Next

\* What Projector::run_inner and the poller move is well formed in every
\* reachable state: batches are lists a source gives, the delta has only nodes
\* without other clients' properties, and every node is stored at its own id.
THEOREM IngestionShape == Spec => []Shape
<1>1. Init => Shape
  <2> SUFFICES ASSUME Init PROVE Shape
    OBVIOUS
  <2>1. SourceOK
    BY FS_EmptySet DEF Init, SourceOK, EmptyMap
  <2>2. PollOK
    BY DEF Init, PollOK, Idle, None
  <2>3. TaskOK
    <3>1. /\ task = [pc |-> "recv", batch |-> None, raw |-> EmptyDelta, out |-> <<>>]
      BY DEF Init, Waiting
    <3>2. IsList(<<>>) /\ DOMAIN <<>> = {}
      BY PlainEmpty DEF PlainList
    <3>3. PlainDelta(EmptyDelta)
      BY PlainEmpty DEF PlainDelta, EmptyDelta
    <3> QED BY <3>1, <3>2, <3>3 DEF TaskOK
  <2>4. StoreOK
    BY DEF Init, StoreOK, EmptyOntology, EmptyMap
  <2> QED BY <2>1, <2>2, <2>3, <2>4 DEF Init, Shape
<1> QED BY <1>1, ShapeStep, PTL DEF Spec

----------------------------------------------------------------------------
(* Annotations. *)

\* Under SkipExisting nothing that is to be written is in the store yet, unless
\* another client wrote it after it was looked for.  Under Merge it carries the
\* note of the node it will replace, if that was noted before it was read.
WritesKeepNotes ==
    /\ noted \subseteq DOMAIN store.nodes
    /\ setup.conflict = "skip_existing" =>
           \A i \in DOMAIN task.out : task.out[i].id \in DOMAIN store.nodes => task.out[i].id \in created \cap raced
    /\ setup.conflict = "merge" =>
           \A i \in DOMAIN task.out : task.out[i].id \in noted \ raced => Has(task.out[i], "note", "note")

\* What another client wrote to a node survives every later batch under Merge
\* and SkipExisting, unless it was written between reconcile_delta's read of
\* the node and the commit, and with SkipExisting only if that client also
\* wrote the node itself in between; for any journal, projection, minting and
\* source.
THEOREM AnnotationsAlwaysSurvive == Spec => []AnnotationsSurvive
<1> DEFINE Inv == WritesKeepNotes /\ AnnotationsSurvive
<1>1. Init => Inv
  BY DEF Init, WritesKeepNotes, AnnotationsSurvive, Waiting
<1>2. Shape /\ Inv /\ [Next]_vars => Inv'
  <2> SUFFICES ASSUME Shape, Inv, [Next]_vars PROVE Inv'
    OBVIOUS
  <2> USE DEF AnnotationsSurvive, WritesKeepNotes
  <2>0. setup.conflict \in {"last_write_wins", "merge", "skip_existing"}
    BY SetupsAssumption DEF Shape, Setup
  <2>1. CASE UNCHANGED <<setup, task, store, noted, created, raced>>
    BY <2>1
  <2>2. CASE Receive
    <3>1. task'.out = <<>> /\ DOMAIN <<>> = {} /\ UNCHANGED <<setup, store, noted, created, raced>>
      BY <2>2, ReceiveShape DEF Receive
    <3> QED BY <3>1
  <2>3. CASE Restart
    <3>1. task'.out = <<>> /\ DOMAIN <<>> = {} /\ UNCHANGED <<setup, store, noted, created, raced>>
      BY <2>3 DEF Restart, Waiting
    <3> QED BY <3>1
  <2>4. CASE PassThrough
    BY <2>4 DEF PassThrough
  <2>5. CASE ReconcileNext
    <3>1. UNCHANGED <<setup, store, noted, created, raced>>
      BY <2>5 DEF ReconcileNext
    <3>2. ASSUME NEW i \in DOMAIN task'.out
          PROVE  /\ setup.conflict = "skip_existing" /\ task'.out[i].id \in DOMAIN store.nodes =>
                        task'.out[i].id \in created \cap raced
                 /\ setup.conflict = "merge" /\ task'.out[i].id \in noted \ raced => Has(task'.out[i], "note", "note")
      <4>1. CASE i \in DOMAIN task.out /\ task'.out[i] = task.out[i]
        BY <4>1
      <4>2. ASSUME NEW incoming, Plain(incoming),
                   Reconcile(setup.conflict, Existing(incoming.id), incoming) # None,
                   task'.out[i] = The(Reconcile(setup.conflict, Existing(incoming.id), incoming))
            PROVE  /\ setup.conflict = "skip_existing" => task'.out[i].id \notin DOMAIN store.nodes
                   /\ setup.conflict = "merge" /\ task'.out[i].id \in noted \ raced => Has(task'.out[i], "note", "note")
        <5>1. /\ task'.out[i].id = incoming.id
              /\ setup.conflict = "skip_existing" => incoming.id \notin DOMAIN store.nodes
              /\ setup.conflict = "merge" /\ incoming.id \in DOMAIN store.nodes =>
                     \A v : Has(store.nodes[incoming.id], "note", v) => Has(task'.out[i], "note", v)
          BY <4>2, Reconciled
        <5>2. setup.conflict = "merge" /\ incoming.id \in noted \ raced => Has(store.nodes[incoming.id], "note", "note")
          OBVIOUS
        <5> QED BY <5>1, <5>2
      <4> QED BY <2>5, <4>1, <4>2, ReconcileShape
    <3> QED BY <3>1, <3>2
  <2>6. CASE Commit
    <3> DEFINE ids == {task.out[i].id : i \in DOMAIN task.out}
    <3>1. /\ task' = Waiting /\ store'.nodes = PutAll(store.nodes, task.out)
          /\ UNCHANGED <<setup, noted, created, raced>>
      BY <2>6, CommitShape DEF Commit
    <3>2. /\ DOMAIN store'.nodes = DOMAIN store.nodes \cup ids
          /\ \A id \in DOMAIN store.nodes \ ids : store'.nodes[id] = store.nodes[id]
          /\ \A id \in ids : \E i \in DOMAIN task.out : task.out[i].id = id /\ store'.nodes[id] = task.out[i]
      <4>1. Overwritten(store.nodes, task.out, store'.nodes)
        BY <3>1, PutAllEntries DEF Shape, TaskOK
      <4> QED BY <4>1 DEF Overwritten
    <3>3. task'.out = <<>> /\ DOMAIN <<>> = {}
      BY <3>1 DEF Waiting
    <3>4. ASSUME NEW n \in noted, setup.conflict # "last_write_wins"
          PROVE  \/ Has(store'.nodes[n], "note", "note")
                 \/ n \in raced /\ (setup.conflict = "skip_existing" => n \in created)
      <4>1. CASE n \notin ids
        BY <3>2, <3>4, <4>1
      <4>2. CASE n \in ids
        <5>1. PICK i \in DOMAIN task.out : task.out[i].id = n /\ store'.nodes[n] = task.out[i]
          BY <3>2, <4>2
        <5>2. n \in DOMAIN store.nodes
          OBVIOUS
        <5> QED BY <2>0, <3>4, <5>1, <5>2
      <4> QED BY <4>1, <4>2
    <3> QED BY <3>1, <3>2, <3>3, <3>4
  <2>7. ASSUME NEW id \in DOMAIN store.nodes, Annotate(id) PROVE Inv'
    <3>1. /\ DOMAIN store'.nodes = DOMAIN store.nodes
          /\ \A n \in DOMAIN store.nodes \ {id} : store'.nodes[n] = store.nodes[n]
          /\ Has(store'.nodes[id], "note", "note")
      BY <2>7, AnnotateShape
    <3>2. /\ UNCHANGED <<setup, task, created>> /\ noted' = noted \cup {id}
          /\ raced' = IF \E i \in DOMAIN task.out : task.out[i].id = id THEN raced \cup {id} ELSE raced
      BY <2>7 DEF Annotate, InWindow
    <3> QED BY <3>1, <3>2
  <2>8. ASSUME NEW node \in Range(task.raw.nodes) \cup Range(task.out), Create(node) PROVE Inv'
    <3> DEFINE id == node.id
    <3>1. /\ id \notin DOMAIN store.nodes
          /\ DOMAIN store'.nodes = DOMAIN store.nodes \cup {id}
          /\ \A n \in DOMAIN store.nodes : store'.nodes[n] = store.nodes[n]
          /\ Has(store'.nodes[id], "note", "note")
      BY <2>8, CreateShape
    <3>2. /\ UNCHANGED <<setup, task>> /\ noted' = noted \cup {id} /\ created' = created \cup {id}
          /\ raced' = IF \E i \in DOMAIN task.out : task.out[i].id = id THEN raced \cup {id} ELSE raced
      BY <2>8 DEF Create, InWindow
    <3> HIDE DEF id
    <3> QED BY <3>1, <3>2
  <2> QED BY <2>1, <2>2, <2>3, <2>4, <2>5, <2>6, <2>7, <2>8
          DEF Next, Grow, PushPath, PutState, Fetch, TakeCursor, vars
<1> QED BY <1>1, <1>2, IngestionShape, PTL DEF Spec

----------------------------------------------------------------------------
(* What a node says of an event, and which identifier it drew. *)

Mintings == {"path_based", "content_addressed", "uuid"}

\* The payload of the event a node stands for, if it stands for one.
Said(n) == IF "event_payload" \in DOMAIN n.properties THEN {n.properties["event_payload"]} ELSE {}

\* A node of a projection that may draw the random identifiers lo .. hi - 1: with
\* names, the identifier of an event is minted for it, and no other node has
\* such an identifier; else every random identifier is one of the range.
NodeFor(minting, lo, hi, evs, n) ==
    IF minting = "uuid"
    THEN \/ \E k \in Nat : lo <= k /\ k < hi /\ n.id = <<"random", k>>
         \/ Said(n) = {} /\ n.id[1] # "random"
    ELSE \/ Said(n) = {} /\ n.id[1] # "event"
         \/ \E ev \in evs : n.id = MintEvent(minting, ev, 0) /\ Said(n) = {ev.payload}

\* A list of them, in which no random identifier comes twice.
Drawn(minting, lo, hi, evs, list) ==
    /\ lo \in Nat /\ hi \in Nat /\ lo <= hi /\ IsList(list)
    /\ \A i \in DOMAIN list : NodeFor(minting, lo, hi, evs, list[i])
    /\ minting = "uuid" =>
         \A i, j \in DOMAIN list : list[i].id = list[j].id /\ list[i].id[1] = "random" => i = j

\* Every one of some events has a node.
Tells(list, evs) == \A ev \in evs : \E i \in DOMAIN list : Said(list[i]) = {ev.payload}

\* A range may be taken larger.
LEMMA NodeForWider ==
    ASSUME NEW minting, NEW lo \in Nat, NEW hi \in Nat, NEW evs, NEW n,
           NEW low \in Nat, NEW high \in Nat, low <= lo, hi <= high, NodeFor(minting, lo, hi, evs, n)
    PROVE  NodeFor(minting, low, high, evs, n)
BY DEF NodeFor

\* One list of nodes after another, each with a range of its own.
LEMMA DrawnConcat ==
    ASSUME NEW minting, NEW lo, NEW mid, NEW hi, NEW evs, NEW s, NEW t,
           Drawn(minting, lo, mid, evs, s), Drawn(minting, mid, hi, evs, t)
    PROVE  /\ Drawn(minting, lo, hi, evs, s \o t)
           /\ \A told : Tells(s, told) \/ Tells(t, told) => Tells(s \o t, told)
<1>1. /\ lo \in Nat /\ mid \in Nat /\ hi \in Nat /\ lo <= mid /\ mid <= hi /\ IsList(s) /\ IsList(t)
      /\ \A i \in DOMAIN s : NodeFor(minting, lo, mid, evs, s[i])
      /\ \A i \in DOMAIN t : NodeFor(minting, mid, hi, evs, t[i])
  BY DEF Drawn
<1>2. /\ IsList(s \o t) /\ Len(s \o t) = Len(s) + Len(t)
      /\ \A i \in 1..(Len(s) + Len(t)) : (s \o t)[i] = IF i <= Len(s) THEN s[i] ELSE t[i - Len(s)]
  BY <1>1, ListConcat
<1>3. /\ Len(s) \in Nat /\ DOMAIN s = 1..Len(s) /\ Len(t) \in Nat /\ DOMAIN t = 1..Len(t)
      /\ DOMAIN (s \o t) = 1..(Len(s) + Len(t))
  BY <1>1, <1>2, ListDomain
<1> DEFINE all == s \o t
<1>4. \A i \in DOMAIN all : \/ i \in DOMAIN s /\ all[i] = s[i]
                            \/ i - Len(s) \in DOMAIN t /\ all[i] = t[i - Len(s)] /\ i > Len(s)
  BY <1>2, <1>3
<1>5. \A i \in DOMAIN s : i \in DOMAIN all /\ all[i] = s[i]
  BY <1>2, <1>3
<1>6. \A i \in DOMAIN t : i + Len(s) \in DOMAIN all /\ all[i + Len(s)] = t[i]
  BY <1>2, <1>3
<1>7. IsList(all) /\ DOMAIN all \subseteq Int
  BY <1>2, <1>3
<1> HIDE DEF all
<1>8. ASSUME NEW i \in DOMAIN all PROVE NodeFor(minting, lo, hi, evs, all[i])
  <2>1. CASE i \in DOMAIN s /\ all[i] = s[i]
    BY <1>1, <2>1, NodeForWider
  <2>2. CASE i - Len(s) \in DOMAIN t /\ all[i] = t[i - Len(s)]
    BY <1>1, <2>2, NodeForWider
  <2> QED BY <1>4, <2>1, <2>2
<1>9. ASSUME minting = "uuid", NEW i \in DOMAIN all, NEW j \in DOMAIN all,
             all[i].id = all[j].id, all[i].id[1] = "random"
      PROVE  i = j
  <2>1. ASSUME NEW x, NEW y, NodeFor(minting, lo, mid, evs, x), NodeFor(minting, mid, hi, evs, y), x.id = y.id
        PROVE  x.id[1] # "random"
    BY <1>1, <1>9, <2>1 DEF NodeFor
  <2>2. \A a, b \in DOMAIN s : s[a].id = s[b].id /\ s[a].id[1] = "random" => a = b
    BY <1>9 DEF Drawn
  <2>3. \A a, b \in DOMAIN t : t[a].id = t[b].id /\ t[a].id[1] = "random" => a = b
    BY <1>9 DEF Drawn
  <2>4. CASE i \in DOMAIN s /\ all[i] = s[i] /\ j \in DOMAIN s /\ all[j] = s[j]
    BY <1>9, <2>2, <2>4
  <2>5. CASE i \in DOMAIN s /\ all[i] = s[i] /\ j - Len(s) \in DOMAIN t /\ all[j] = t[j - Len(s)]
    BY <1>1, <1>9, <2>1, <2>5
  <2>6. CASE j \in DOMAIN s /\ all[j] = s[j] /\ i - Len(s) \in DOMAIN t /\ all[i] = t[i - Len(s)]
    BY <1>1, <1>9, <2>1, <2>6
  <2>7. CASE /\ i - Len(s) \in DOMAIN t /\ all[i] = t[i - Len(s)]
             /\ j - Len(s) \in DOMAIN t /\ all[j] = t[j - Len(s)]
    <3>1. i - Len(s) = j - Len(s)
      BY <1>9, <2>3, <2>7
    <3> QED BY <1>3, <1>7, <3>1
  <2> QED BY <1>4, <2>4, <2>5, <2>6, <2>7
<1>10. Drawn(minting, lo, hi, evs, all)
  BY <1>1, <1>7, <1>8, <1>9 DEF Drawn
<1>11. \A told : Tells(s, told) \/ Tells(t, told) => Tells(all, told)
  BY <1>5, <1>6 DEF Tells
<1> QED BY <1>10, <1>11 DEF all

\* The list of one node.
LEMMA DrawnOne ==
    ASSUME NEW minting, NEW lo \in Nat, NEW hi \in Nat, lo <= hi, NEW evs, NEW n, NodeFor(minting, lo, hi, evs, n)
    PROVE  Drawn(minting, lo, hi, evs, <<n>>) /\ \A ev : Said(n) = {ev.payload} => Tells(<<n>>, {ev})
<1>1. <<n>> \in Seq({n}) /\ DOMAIN <<n>> = {1} /\ <<n>>[1] = n
  OBVIOUS
<1>2. IsList(<<n>>)
  BY <1>1, Zenon DEF IsList
<1> QED BY <1>1, <1>2 DEF Drawn, Tells

\* The list of none.
LEMMA DrawnNone ==
    ASSUME NEW minting, NEW lo \in Nat, NEW evs
    PROVE  Drawn(minting, lo, lo, evs, <<>>)
<1>1. IsList(<<>>) /\ DOMAIN <<>> = {}
  BY PlainEmpty DEF PlainList
<1> QED BY <1>1 DEF Drawn

\* Drawing on: a node with the next identifiers, or with one of its own kind.
LEMMA DrawnAppend ==
    ASSUME NEW minting, NEW lo, NEW mid, NEW hi \in Nat, mid <= hi, NEW evs, NEW s, NEW n,
           Drawn(minting, lo, mid, evs, s), NodeFor(minting, mid, hi, evs, n)
    PROVE  /\ Drawn(minting, lo, hi, evs, Append(s, n))
           /\ \A told : Tells(s, told) => Tells(Append(s, n), told)
           /\ \A ev : Said(n) = {ev.payload} => Tells(Append(s, n), {ev})
<1>1. Append(s, n) = s \o <<n>>
  <2>1. PICK X : s \in Seq(X)
    BY DEF Drawn, IsList
  <2> DEFINE Y == X \cup {n}
  <2>2. s \in Seq(Y) /\ n \in Y
    BY <2>1
  <2> HIDE DEF Y
  <2> QED BY <2>2, AppendIsConcat, Zenon
<1>2. Drawn(minting, mid, hi, evs, <<n>>) /\ \A ev : Said(n) = {ev.payload} => Tells(<<n>>, {ev})
  BY DrawnOne DEF Drawn
<1> DEFINE one == <<n>>
<1> HIDE DEF one
<1>3. /\ Drawn(minting, lo, hi, evs, s \o one)
      /\ \A told : Tells(s, told) \/ Tells(one, told) => Tells(s \o one, told)
  BY <1>2, DrawnConcat DEF one
<1>4. Append(s, n) = s \o one /\ \A ev : Said(n) = {ev.payload} => Tells(one, {ev})
  BY <1>1, <1>2 DEF one
<1> QED BY <1>3, <1>4

\* The node of an event.
LEMMA EventNodeFor ==
    ASSUME NEW minting \in Mintings, NEW k \in Nat, NEW evs, NEW ev \in evs, NEW props,
           "event_payload" \in DOMAIN props, props["event_payload"] = ev.payload
    PROVE  /\ NodeFor(minting, k, k + 1, evs, EventNode(MintEvent(minting, ev, k), minting, props))
           /\ Said(EventNode(MintEvent(minting, ev, k), minting, props)) = {ev.payload}
<1> DEFINE n == EventNode(MintEvent(minting, ev, k), minting, props)
<1>1. n.id = MintEvent(minting, ev, k) /\ n.properties = props
  BY DEF EventNode, Node
<1> HIDE DEF n
<1>2. Said(n) = {ev.payload}
  BY <1>1 DEF Said
<1>3. CASE minting = "uuid"
  <2>1. n.id = <<"random", k>>
    BY <1>1, <1>3 DEF MintEvent
  <2> QED BY <1>2, <1>3, <2>1 DEF NodeFor, n
<1>4. CASE minting # "uuid"
  <2>1. n.id = MintEvent(minting, ev, 0)
    BY <1>1, <1>4 DEF MintEvent, Mintings
  <2> QED BY <1>2, <1>4, <2>1 DEF NodeFor, n
<1> QED BY <1>3, <1>4

\* The node of an actor.
LEMMA ActorNodeFor ==
    ASSUME NEW minting \in Mintings, NEW k \in Nat, NEW evs, NEW segments, NEW iri, NEW types, NEW props,
           "event_payload" \notin DOMAIN props
    PROVE  NodeFor(minting, k, k + 1, evs, Node(MintActor(minting, segments, k), iri, types, props))
<1> DEFINE n == Node(MintActor(minting, segments, k), iri, types, props)
<1>1. n.id = MintActor(minting, segments, k) /\ n.properties = props
  BY DEF Node
<1> HIDE DEF n
<1>2. Said(n) = {}
  BY <1>1 DEF Said
<1>3. CASE minting = "uuid"
  BY <1>1, <1>2, <1>3 DEF MintActor, NodeFor, n
<1>4. CASE minting # "uuid"
  BY <1>1, <1>2, <1>4 DEF MintActor, NodeFor, n
<1> QED BY <1>3, <1>4

\* The node of a state.
LEMMA StateNodeFor ==
    ASSUME NEW minting \in Mintings, NEW k \in Nat, NEW evs, NEW id, id[1] = "state", NEW state
    PROVE  NodeFor(minting, k, k, evs, StateNode(id, state))
<1> DEFINE n == StateNode(id, state)
<1>1. n.id = id /\ n.properties = [actor_id |-> state.actor, state |-> state.payload]
  BY DEF StateNode, Node
<1> HIDE DEF n
<1>2. Said(n) = {}
  BY <1>1 DEF Said
<1> QED BY <1>1, <1>2 DEF NodeFor, n

----------------------------------------------------------------------------
(* The hierarchical projection. *)

\* What is known of an accumulator: c says how nodes are named, from which
\* number on, and which events there are.
AccOK(c, told, acc) ==
    /\ Drawn(c.minting, c.lo, acc.fresh, c.evs, acc.delta.nodes)
    /\ Tells(acc.delta.nodes, told)

DrawPrefix(c, path, acc, d)  == InsertPrefix(c.minting, path, acc, d)
DrawPath(c, none, acc, path) == InsertPath(c.minting, acc, path)
DrawEvent(c, none, acc, ev)  == InsertEvent(c.minting, acc, ev)
DrawState(c, none, acc, s)   == InsertState(acc, s)
ToldSoFar(c, none, seq, k, acc)   == AccOK(c, c.told, acc)
EventsSoFar(c, none, seq, k, acc) == AccOK(c, {seq[i] : i \in 1..k}, acc)

DrawPrefixes == INSTANCE FoldInduction WITH op <- DrawPrefix, Inv <- ToldSoFar
DrawPaths    == INSTANCE FoldInduction WITH op <- DrawPath, Inv <- ToldSoFar
DrawEvents   == INSTANCE FoldInduction WITH op <- DrawEvent, Inv <- EventsSoFar
DrawStates   == INSTANCE FoldInduction WITH op <- DrawState, Inv <- ToldSoFar

\* One segment draws one identifier, and uses it for an actor or for none.
LEMMA PrefixDraws ==
    ASSUME NEW c, c.minting \in Mintings, NEW told, NEW path, PlainPath(path), NEW acc, NEW depth, AccOK(c, told, acc)
    PROVE  AccOK(c, told, InsertPrefix(c.minting, path, acc, depth))
<1> DEFINE prefix == SubSeq(path.segments, 1, depth)
           id     == MintActor(c.minting, prefix, acc.fresh)
           own    == [path |-> prefix, depth |-> depth - 1]
           extra  == IF depth = Len(path.segments) THEN path.attributes ELSE EmptyMap
           types  == <<"Actor", TypeForSegment(path.segments[depth])>>
           node   == Node(id, IriFor(c.minting, id), types, Overlay(extra, own))
           isNew  == prefix \notin DOMAIN acc.ids
           old    == acc.delta.nodes
           res    == InsertPrefix(c.minting, path, acc, depth)
<1>0. acc.fresh \in Nat /\ c.lo \in Nat /\ c.lo <= acc.fresh
  BY DEF AccOK, Drawn
<1>1. NodeFor(c.minting, acc.fresh, acc.fresh + 1, c.evs, node)
  <2>1. "event_payload" \notin DOMAIN extra
    BY DEF PlainPath, EmptyMap
  <2>2. DOMAIN Overlay(extra, own) = DOMAIN extra \cup {"path", "depth"}
    BY DEF Overlay
  <2> HIDE DEF extra, own, types
  <2> QED BY <1>0, <2>1, <2>2, ActorNodeFor
<1> HIDE DEF node
<1>2. res.fresh = acc.fresh + 1 /\ res.delta.nodes = IF isNew THEN Append(old, node) ELSE old
  BY DEF InsertPrefix, node, AddNode, AddEdge
<1> HIDE DEF isNew, res
<1>3. CASE isNew
  <2>1. /\ Drawn(c.minting, c.lo, acc.fresh + 1, c.evs, Append(old, node))
        /\ Tells(Append(old, node), told)
    <3> DEFINE next == acc.fresh + 1
    <3>1. next \in Nat /\ acc.fresh <= next
      BY <1>0
    <3>2. Drawn(c.minting, c.lo, acc.fresh, c.evs, old) /\ Tells(old, told)
      BY DEF AccOK
    <3>3. NodeFor(c.minting, acc.fresh, next, c.evs, node)
      BY <1>1
    <3> HIDE DEF next, old
    <3> QED BY <3>1, <3>2, <3>3, DrawnAppend DEF next
  <2> QED BY <1>2, <1>3, <2>1 DEF AccOK, res
<1>4. CASE ~isNew
  <2>1. Drawn(c.minting, c.lo, acc.fresh + 1, c.evs, old)
    BY <1>0, NodeForWider DEF AccOK, Drawn
  <2> QED BY <1>2, <1>4, <2>1 DEF AccOK, res
<1> QED BY <1>3, <1>4

\* insert_path, for paths of any length.
LEMMA PathDraws ==
    ASSUME NEW c, c.minting \in Mintings, NEW told, NEW path, PlainPath(path), NEW acc, AccOK(c, told, acc)
    PROVE  AccOK(c, told, InsertPath(c.minting, acc, path))
<1> DEFINE d == [minting |-> c.minting, lo |-> c.lo, evs |-> c.evs, told |-> told]
           seq == [i \in DOMAIN path.segments |-> i]
           base == [delta |-> acc.delta, ids |-> acc.ids, above |-> None, fresh |-> acc.fresh]
<1>0. /\ d.minting = c.minting /\ d.told = told
      /\ \A a : AccOK(d, told, a) <=> AccOK(c, told, a)
  BY DEF AccOK
<1> HIDE DEF d
<1>1. Len(path.segments) \in Nat /\ DOMAIN path.segments = 1..Len(path.segments)
  BY DEF PlainPath
<1>2. Len(seq) = Len(path.segments) /\ DOMAIN seq = 1..Len(seq)
  BY <1>1
<1>3. InsertPath(c.minting, acc, path) = DrawPrefixes!Folded(d, path, base, seq)
  BY <1>0 DEF InsertPath, DrawPrefix, DrawPrefixes!Folded, FoldLeft, MapThenFoldSet,
         DrawPrefixes!MapThenFoldSet, Max, DrawPrefixes!Greatest
<1>4. ToldSoFar(d, path, seq, 0, base)
  <2>1. AccOK(c, told, base)
    BY DEF AccOK
  <2> QED BY <1>0, <2>1 DEF ToldSoFar
<1> HIDE DEF seq, base
<1>5. \A k \in 1..Len(seq) : \A a : ToldSoFar(d, path, seq, k - 1, a)
         => ToldSoFar(d, path, seq, k, DrawPrefix(d, path, a, seq[k]))
  BY <1>0, PrefixDraws DEF ToldSoFar, DrawPrefix
<1>6. ToldSoFar(d, path, seq, Len(seq), DrawPrefixes!Folded(d, path, base, seq))
  BY <1>1, <1>2, <1>4, <1>5, DrawPrefixes!FoldKeeps
<1> QED BY <1>0, <1>3, <1>6 DEF ToldSoFar

\* An event draws the identifier of its node after those of its path.
LEMMA EventDraws ==
    ASSUME NEW c, c.minting \in Mintings, NEW ev \in c.evs, PlainEvent(ev), NEW told, NEW acc, AccOK(c, told, acc)
    PROVE  AccOK(c, told \cup {ev}, InsertEvent(c.minting, acc, ev))
<1> DEFINE placed == IF ev.path = None THEN acc ELSE InsertPath(c.minting, acc, The(ev.path))
           node   == EventNode(MintEvent(c.minting, ev, placed.fresh), c.minting, EventProperties(ev))
           res    == InsertEvent(c.minting, acc, ev)
<1>1. AccOK(c, told, placed)
  <2>1. CASE ev.path = None
    BY <2>1
  <2>2. CASE ev.path # None
    <3>1. PlainPath(The(ev.path))
      BY <2>2, TheOfSome DEF PlainEvent
    <3> QED BY <2>2, <3>1, PathDraws
  <2> QED BY <2>1, <2>2
<1>2. res.fresh = placed.fresh + 1 /\ res.delta.nodes = Append(placed.delta.nodes, node)
  BY DEF InsertEvent, AddNode, AddEdge
<1> HIDE DEF placed, res
<1>3. placed.fresh \in Nat
  BY <1>1 DEF AccOK, Drawn
<1>4. NodeFor(c.minting, placed.fresh, placed.fresh + 1, c.evs, node) /\ Said(node) = {ev.payload}
  <2>1. "event_payload" \in DOMAIN EventProperties(ev) /\ EventProperties(ev)["event_payload"] = ev.payload
    BY DEF EventProperties
  <2> QED BY <1>3, <2>1, EventNodeFor
<1> HIDE DEF node
<1>5. /\ Drawn(c.minting, c.lo, placed.fresh + 1, c.evs, Append(placed.delta.nodes, node))
      /\ Tells(Append(placed.delta.nodes, node), told)
      /\ Tells(Append(placed.delta.nodes, node), {ev})
  <2> DEFINE next == placed.fresh + 1
             old  == placed.delta.nodes
  <2>1. next \in Nat /\ placed.fresh <= next
    BY <1>3
  <2>2. Drawn(c.minting, c.lo, placed.fresh, c.evs, old) /\ Tells(old, told)
    BY <1>1 DEF AccOK
  <2>3. NodeFor(c.minting, placed.fresh, next, c.evs, node)
    BY <1>4
  <2> HIDE DEF next, old
  <2>4. /\ Drawn(c.minting, c.lo, next, c.evs, Append(old, node))
        /\ Tells(Append(old, node), told) /\ Tells(Append(old, node), {ev})
    BY <1>4, <2>1, <2>2, <2>3, DrawnAppend
  <2> QED BY <2>4 DEF next, old
<1>6. Tells(Append(placed.delta.nodes, node), told \cup {ev})
  BY <1>5 DEF Tells
<1> QED BY <1>2, <1>5, <1>6 DEF AccOK, res

\* A state draws none.
LEMMA StateDraws ==
    ASSUME NEW c, c.minting \in Mintings, NEW state, NEW acc, AccOK(c, c.told, acc)
    PROVE  AccOK(c, c.told, InsertState(acc, state))
<1> DEFINE node == StateNode(<<"state", state.actor>>, state)
           res  == InsertState(acc, state)
<1>1. res.fresh = acc.fresh /\ res.delta.nodes = Append(acc.delta.nodes, node)
  BY DEF InsertState, AddNode, AddEdge
<1>2. acc.fresh \in Nat
  BY DEF AccOK, Drawn
<1>3. NodeFor(c.minting, acc.fresh, acc.fresh, c.evs, node)
  BY <1>2, StateNodeFor
<1> HIDE DEF node, res
<1>4. /\ Drawn(c.minting, c.lo, acc.fresh, c.evs, Append(acc.delta.nodes, node))
      /\ Tells(Append(acc.delta.nodes, node), c.told)
  BY <1>2, <1>3, DrawnAppend DEF AccOK
<1> QED BY <1>1, <1>4 DEF AccOK, res

\* The hierarchical projection of any batch draws every identifier once, and
\* has a node for every event.
LEMMA HierarchicalDraws ==
    ASSUME NEW batch, PlainBatch(batch), NEW minting \in Mintings, NEW n \in Nat
    PROVE  LET made == Hierarchical(batch, minting, n)
               evs  == {batch.events[i] : i \in DOMAIN batch.events}
           IN  Drawn(minting, n, made.fresh, evs, made.delta.nodes) /\ Tells(made.delta.nodes, evs)
<1> DEFINE evs    == {batch.events[i] : i \in DOMAIN batch.events}
           start  == [delta |-> EmptyDelta, ids |-> EmptyMap, above |-> None, fresh |-> n]
           paths  == FoldLeft(LAMBDA a, p : InsertPath(minting, a, p), start, batch.paths)
           events == FoldLeft(LAMBDA a, e : InsertEvent(minting, a, e), paths, batch.events)
           all    == FoldLeft(LAMBDA a, s : InsertState(a, s), events, batch.states)
           c(told) == [minting |-> minting, lo |-> n, evs |-> evs, told |-> told]
<1>0. \A told : c(told).minting = minting /\ c(told).lo = n /\ c(told).evs = evs /\ c(told).told = told
  OBVIOUS
<1>1. Hierarchical(batch, minting, n).delta = all.delta /\ Hierarchical(batch, minting, n).fresh = all.fresh
  BY DEF Hierarchical
<1>2. AccOK(c({}), {}, start)
  <2>1. start.fresh = n /\ start.delta.nodes = <<>>
    BY DEF EmptyDelta
  <2> HIDE DEF start, c
  <2> QED BY <1>0, <2>1, DrawnNone DEF AccOK, Tells
<1> HIDE DEF start, c
<1>3. AccOK(c({}), {}, paths)
  <2> DEFINE d == c({})
  <2>1. d.minting = minting /\ d.told = {}
    BY <1>0
  <2> HIDE DEF d
  <2>2. paths = DrawPaths!Folded(d, 0, start, batch.paths)
    BY <2>1 DEF DrawPath, DrawPaths!Folded, FoldLeft, MapThenFoldSet, DrawPaths!MapThenFoldSet, Max,
           DrawPaths!Greatest
  <2> HIDE DEF paths
  <2>3. ToldSoFar(d, 0, batch.paths, 0, start)
    BY <1>2, <2>1 DEF ToldSoFar, d
  <2>4. \A k \in 1..Len(batch.paths) : \A a : ToldSoFar(d, 0, batch.paths, k - 1, a)
           => ToldSoFar(d, 0, batch.paths, k, DrawPath(d, 0, a, batch.paths[k]))
    BY <2>1, PathDraws, ListDomain DEF ToldSoFar, DrawPath, PlainBatch
  <2>5. ToldSoFar(d, 0, batch.paths, Len(batch.paths), DrawPaths!Folded(d, 0, start, batch.paths))
    BY <2>3, <2>4, ListDomain, DrawPaths!FoldKeeps DEF PlainBatch
  <2> QED BY <2>1, <2>2, <2>5 DEF ToldSoFar, d
<1> HIDE DEF paths
<1>4. AccOK(c({}), evs, events)
  <2> DEFINE d == c({})
             seq == batch.events
  <2>1. d.minting = minting /\ d.evs = evs
    BY <1>0
  <2>2. Len(seq) \in Nat /\ DOMAIN seq = 1..Len(seq) /\ \A i \in DOMAIN seq : PlainEvent(seq[i]) /\ seq[i] \in evs
    BY ListDomain DEF PlainBatch
  <2>3. events = DrawEvents!Folded(d, 0, paths, seq)
    BY <2>1 DEF DrawEvent, DrawEvents!Folded, FoldLeft, MapThenFoldSet, DrawEvents!MapThenFoldSet, Max,
           DrawEvents!Greatest
  <2>4. evs = {seq[i] : i \in 1..Len(seq)}
    BY <2>2
  <2> HIDE DEF d, seq, events, evs
  <2>5. EventsSoFar(d, 0, seq, 0, paths)
    <3>1. {seq[i] : i \in 1..0} = {}
      OBVIOUS
    <3> QED BY <1>3, <3>1 DEF EventsSoFar, d
  <2>6. ASSUME NEW k \in 1..Len(seq), NEW a, EventsSoFar(d, 0, seq, k - 1, a)
        PROVE  EventsSoFar(d, 0, seq, k, DrawEvent(d, 0, a, seq[k]))
    <3>1. {seq[i] : i \in 1..k} = {seq[i] : i \in 1..(k - 1)} \cup {seq[k]}
      BY <2>2
    <3>2. AccOK(d, {seq[i] : i \in 1..(k - 1)}, a)
      BY <2>6 DEF EventsSoFar
    <3>3. AccOK(d, {seq[i] : i \in 1..(k - 1)} \cup {seq[k]}, InsertEvent(d.minting, a, seq[k]))
      BY <2>1, <2>2, <3>2, EventDraws
    <3> QED BY <3>1, <3>3 DEF EventsSoFar, DrawEvent
  <2>7. EventsSoFar(d, 0, seq, Len(seq), DrawEvents!Folded(d, 0, paths, seq))
    BY <2>2, <2>5, <2>6, DrawEvents!FoldKeeps
  <2> QED BY <2>3, <2>4, <2>7 DEF EventsSoFar, d
<1> HIDE DEF events
<1>5. AccOK(c(evs), evs, all)
  <2> DEFINE d == c(evs)
  <2>1. d.minting = minting /\ d.told = evs /\ \A a : AccOK(d, evs, a) <=> AccOK(c({}), evs, a)
    BY <1>0 DEF AccOK
  <2> HIDE DEF d
  <2>2. all = DrawStates!Folded(d, 0, events, batch.states)
    BY DEF DrawState, DrawStates!Folded, FoldLeft, MapThenFoldSet, DrawStates!MapThenFoldSet, Max, DrawStates!Greatest
  <2> HIDE DEF all
  <2>3. ToldSoFar(d, 0, batch.states, 0, events)
    BY <1>4, <2>1 DEF ToldSoFar
  <2>4. \A k \in 1..Len(batch.states) : \A a : ToldSoFar(d, 0, batch.states, k - 1, a)
           => ToldSoFar(d, 0, batch.states, k, DrawState(d, 0, a, batch.states[k]))
    BY <2>1, StateDraws DEF ToldSoFar, DrawState
  <2>5. ToldSoFar(d, 0, batch.states, Len(batch.states), DrawStates!Folded(d, 0, events, batch.states))
    BY <2>3, <2>4, ListDomain, DrawStates!FoldKeeps DEF PlainBatch
  <2> QED BY <2>1, <2>2, <2>5 DEF ToldSoFar, d
<1> HIDE DEF all, evs
<1> QED BY <1>0, <1>1, <1>5 DEF AccOK, evs

----------------------------------------------------------------------------
(* The other projections. *)

\* A chain of events draws one identifier for each.
LEMMA ChainDraws ==
    ASSUME NEW events, IsList(events), NEW evs, \A i \in DOMAIN events : events[i] \in evs,
           NEW minting \in Mintings, NEW n \in Nat, NEW withPath
    PROVE  LET made == EventChain(events, minting, n, withPath)
           IN  /\ Drawn(minting, n + 1, made.fresh, evs, made.delta.nodes)
               /\ Tells(made.delta.nodes, {events[i] : i \in DOMAIN events})
<1> DEFINE id(i)   == MintEvent(minting, events[i], n + i)
           bare(i) == EventProperties(events[i])
           props(i) == IF withPath /\ events[i].path # None
                       THEN Put(bare(i), "path", The(events[i].path).segments) ELSE bare(i)
           node(i) == EventNode(id(i), minting, props(i))
           nodes   == [i \in DOMAIN events |-> node(i)]
           hi      == n + Len(events) + 1
<1>1. /\ EventChain(events, minting, n, withPath).delta.nodes = nodes
      /\ EventChain(events, minting, n, withPath).fresh = hi
  BY DEF EventChain
<1>2. Len(events) \in Nat /\ DOMAIN events = 1..Len(events)
  BY ListDomain
<1>3. \A i \in DOMAIN events : NodeFor(minting, n + i, n + i + 1, evs, node(i)) /\ Said(node(i)) = {events[i].payload}
  <2> TAKE i \in DOMAIN events
  <2>1. "event_payload" \in DOMAIN bare(i) /\ bare(i)["event_payload"] = events[i].payload
    BY DEF EventProperties
  <2>2. "event_payload" \in DOMAIN props(i) /\ props(i)["event_payload"] = events[i].payload
    BY <2>1 DEF Put
  <2>3. n + i \in Nat /\ events[i] \in evs
    BY <1>2
  <2> HIDE DEF props
  <2> DEFINE k == n + i
  <2> HIDE DEF k
  <2>4. NodeFor(minting, k, k + 1, evs, EventNode(MintEvent(minting, events[i], k), minting, props(i)))
        /\ Said(EventNode(MintEvent(minting, events[i], k), minting, props(i))) = {events[i].payload}
    BY <2>2, <2>3, EventNodeFor DEF k
  <2> QED BY <2>4 DEF k
<1>4. ASSUME minting = "uuid", NEW i \in DOMAIN events PROVE node(i).id = <<"random", n + i>>
  BY <1>4 DEF EventNode, Node, MintEvent
<1> HIDE DEF node
<1>5. IsList(nodes) /\ DOMAIN nodes = DOMAIN events /\ \A i \in DOMAIN events : nodes[i] = node(i)
  BY <1>2, ListOfEntries
<1> HIDE DEF nodes
<1>6. \A i \in DOMAIN nodes : NodeFor(minting, n + 1, hi, evs, nodes[i])
  <2> TAKE i \in DOMAIN nodes
  <2>1. i \in DOMAIN events /\ nodes[i] = node(i)
    BY <1>5
  <2> DEFINE k == n + i
  <2>2. k \in Nat /\ k + 1 \in Nat /\ n + 1 \in Nat /\ hi \in Nat /\ n + 1 <= k /\ k + 1 <= hi
    BY <1>2, <2>1
  <2>3. NodeFor(minting, k, k + 1, evs, nodes[i])
    BY <1>3, <2>1
  <2> HIDE DEF k, hi
  <2> QED BY <2>2, <2>3, NodeForWider
<1>7. ASSUME minting = "uuid", NEW i \in DOMAIN nodes, NEW j \in DOMAIN nodes, nodes[i].id = nodes[j].id
      PROVE  i = j
  <2>1. n + i = n + j
    BY <1>4, <1>5, <1>7
  <2> QED BY <1>2, <1>5, <2>1
<1>8. n + 1 \in Nat /\ hi \in Nat /\ n + 1 <= hi
  BY <1>2
<1>9. Drawn(minting, n + 1, hi, evs, nodes)
  BY <1>5, <1>6, <1>7, <1>8 DEF Drawn
<1>10. Tells(nodes, {events[i] : i \in DOMAIN events})
  BY <1>3, <1>5 DEF Tells
<1> QED BY <1>1, <1>9, <1>10

\* What was picked by turn k has every entry asked for up to there.
PickedUpTo(list, S, seq, k, acc) ==
    IsList(acc) /\ \A i \in S \cap (1..k) : \E j \in DOMAIN acc : acc[j] = list[i]

PickUpTo == INSTANCE FoldInduction WITH op <- PickTurn, Inv <- PickedUpTo

\* Picked leaves out nothing that is asked for.
LEMMA PickedAll ==
    ASSUME NEW list, NEW S, IsList(list)
    PROVE  \A i \in S \cap DOMAIN list : \E j \in DOMAIN Picked(list, S) : Picked(list, S)[j] = list[i]
<1> DEFINE seq == [i \in DOMAIN list |-> i]
<1>1. Len(list) \in Nat /\ DOMAIN list = 1..Len(list)
  BY ListDomain
<1>2. Len(seq) = Len(list) /\ DOMAIN seq = 1..Len(seq) /\ \A i \in DOMAIN list : seq[i] = i
  BY <1>1
<1>3. Picked(list, S) = PickUpTo!Folded(list, S, <<>>, seq)
  BY DEF Picked, PickTurn, PickUpTo!Folded, FoldLeft, MapThenFoldSet, PickUpTo!MapThenFoldSet, Max, PickUpTo!Greatest
<1> HIDE DEF seq
<1>4. PickedUpTo(list, S, seq, 0, <<>>)
  <2>1. IsList(<<>>) /\ 1..0 = {}
    BY PlainEmpty DEF PlainList
  <2> QED BY <2>1 DEF PickedUpTo
<1>5. ASSUME NEW k \in 1..Len(seq), NEW a, PickedUpTo(list, S, seq, k - 1, a)
      PROVE  PickedUpTo(list, S, seq, k, PickTurn(list, S, a, seq[k]))
  <2>1. seq[k] = k /\ k \in DOMAIN list /\ k \in Nat /\ \A i \in 1..k : i \in 1..(k - 1) \/ i = k
    BY <1>1, <1>2
  <2>2. CASE k \in S
    <3>1. PickTurn(list, S, a, seq[k]) = Append(a, list[k])
      BY <2>1, <2>2 DEF PickTurn
    <3>2. /\ IsList(Append(a, list[k])) /\ Len(Append(a, list[k])) = Len(a) + 1
          /\ \A i \in DOMAIN a : Append(a, list[k])[i] = a[i]
          /\ Append(a, list[k])[Len(a) + 1] = list[k]
      BY <1>5, ListAppend DEF PickedUpTo
    <3>3. DOMAIN Append(a, list[k]) = 1..(Len(a) + 1) /\ Len(a) \in Nat /\ DOMAIN a = 1..Len(a)
      BY <1>5, <3>2, ListDomain DEF PickedUpTo
    <3>4. Len(a) + 1 \in DOMAIN Append(a, list[k]) /\ DOMAIN a \subseteq DOMAIN Append(a, list[k])
      BY <3>3
    <3> DEFINE new == Append(a, list[k])
    <3> HIDE DEF new
    <3>5. \A i \in S \cap (1..k) : \E j \in DOMAIN new : new[j] = list[i]
      BY <1>5, <2>1, <3>2, <3>4 DEF PickedUpTo, new
    <3> QED BY <3>1, <3>2, <3>5 DEF PickedUpTo, new
  <2>3. CASE k \notin S
    BY <1>5, <2>1, <2>3 DEF PickedUpTo, PickTurn
  <2> QED BY <2>2, <2>3
<1>6. PickedUpTo(list, S, seq, Len(seq), PickUpTo!Folded(list, S, <<>>, seq))
  BY <1>1, <1>2, <1>4, <1>5, PickUpTo!FoldKeeps
<1> QED BY <1>1, <1>2, <1>3, <1>6 DEF PickedUpTo

\* An entry whose key is not known has its key among the unseen entries.
LEMMA UnseenFirst ==
    ASSUME NEW list, IsList(list), NEW keys, NEW known, NEW i \in DOMAIN list, keys[i] \notin known
    PROVE  \E f \in DOMAIN list : /\ keys[f] = keys[i]
                                  /\ \E j \in DOMAIN Unseen(list, keys, known) : Unseen(list, keys, known)[j] = list[f]
<1> DEFINE S == {x \in DOMAIN list : keys[x] \notin known /\ \A j \in 1 .. x - 1 : keys[j] # keys[x]}
           T == {x \in DOMAIN list : keys[x] = keys[i]}
<1>1. Len(list) \in Nat /\ DOMAIN list = 1..Len(list)
  BY ListDomain
<1>2. T \in SUBSET Nat /\ T # {}
  BY <1>1
<1>3. PICK f \in T : \A y \in T : f <= y
  BY <1>2, PickUpTo!LeastElement
<1>4. f \in S
  <2>1. \A j \in 1 .. f - 1 : keys[j] # keys[f]
    BY <1>1, <1>3
  <2> QED BY <1>3, <2>1
<1>5. Unseen(list, keys, known) = Picked(list, S)
  BY DEF Unseen
<1> HIDE DEF S
<1>6. \E j \in DOMAIN Picked(list, S) : Picked(list, S)[j] = list[f]
  BY <1>3, <1>4, PickedAll
<1> QED BY <1>3, <1>5, <1>6

\* What a projection makes of a batch when the positions in known were
\* projected before: it draws every identifier once, and has a node for every
\* other position.
Projected(batch, minting, n, known, made) ==
    LET evs == {batch.events[i] : i \in DOMAIN batch.events}
    IN  /\ Drawn(minting, n, made.fresh, evs, made.delta.nodes)
        /\ \A i \in DOMAIN batch.events :
              \/ <<batch.events[i].actor, batch.events[i].cursor>> \in known
              \/ \E ev \in evs : /\ ev.actor = batch.events[i].actor /\ ev.cursor = batch.events[i].cursor
                                 /\ Tells(made.delta.nodes, {ev})

\* The snapshot-diff projection.
LEMMA DiffDraws ==
    ASSUME NEW batch, PlainBatch(batch), NEW minting \in Mintings, NEW n \in Nat, NEW known
    PROVE  Projected(batch, minting, n, known.events, SnapshotDiff(batch, minting, n, known))
<1> DEFINE evs    == {batch.events[i] : i \in DOMAIN batch.events}
           paths  == Unseen(batch.paths, PathKeys(batch), known.paths)
           events == Unseen(batch.events, EventKeys(batch), known.events)
           mid    == n + Len(paths)
           chain  == EventChain(events, minting, mid, FALSE)
           states == Unseen(batch.states, StateKeys(batch), known.states)
           id(i)    == MintActor(minting, paths[i].segments, n + i)
           actor(i) == Node(id(i), IriFor(minting, id(i)), <<"Actor">>, [path |-> paths[i].segments])
           held(i)  == StateNode(<<"state", states[i].actor, states[i].digest>>, states[i])
           actors == [i \in DOMAIN paths |-> actor(i)]
           helds  == [i \in DOMAIN states |-> held(i)]
           made   == SnapshotDiff(batch, minting, n, known)
<1>1. made.delta.nodes = actors \o chain.delta.nodes \o helds /\ made.fresh = chain.fresh
  BY DEF SnapshotDiff
<1>2. IsList(paths) /\ IsList(events) /\ IsList(states)
  BY PickedEntries DEF Unseen, PlainBatch
<1>3. \A i \in DOMAIN events : events[i] \in evs
  <2> DEFINE list == batch.events
             S == {x \in DOMAIN list : EventKeys(batch)[x] \notin known.events
                                      /\ \A j \in 1 .. x - 1 : EventKeys(batch)[j] # EventKeys(batch)[x]}
  <2>1. IsList(list) /\ events = Picked(list, S) /\ \A i \in DOMAIN list : list[i] \in evs
    BY DEF PlainBatch, Unseen
  <2> HIDE DEF S, list, events, evs
  <2>2. \A j \in DOMAIN Picked(list, S) : \E i \in S \cap DOMAIN list : Picked(list, S)[j] = list[i]
    BY <2>1, PickedEntries
  <2> QED BY <2>1, <2>2
<1>4. /\ Len(paths) \in Nat /\ DOMAIN paths = 1..Len(paths) /\ Len(states) \in Nat /\ DOMAIN states = 1..Len(states)
      /\ mid \in Nat
  BY <1>2, ListDomain
<1>5. /\ Drawn(minting, mid + 1, chain.fresh, evs, chain.delta.nodes)
      /\ Tells(chain.delta.nodes, {events[i] : i \in DOMAIN events})
  <2> HIDE DEF events, mid
  <2> QED BY <1>2, <1>3, <1>4, ChainDraws
<1>6. \A i \in DOMAIN batch.events :
         \/ <<batch.events[i].actor, batch.events[i].cursor>> \in known.events
         \/ \E ev \in evs : /\ ev.actor = batch.events[i].actor /\ ev.cursor = batch.events[i].cursor
                            /\ Tells(chain.delta.nodes, {ev})
  <2> SUFFICES ASSUME NEW i \in DOMAIN batch.events,
                      <<batch.events[i].actor, batch.events[i].cursor>> \notin known.events
               PROVE  \E ev \in evs : /\ ev.actor = batch.events[i].actor /\ ev.cursor = batch.events[i].cursor
                                      /\ Tells(chain.delta.nodes, {ev})
    OBVIOUS
  <2> DEFINE keys == EventKeys(batch)
  <2>1. \A x \in DOMAIN batch.events : keys[x] = <<batch.events[x].actor, batch.events[x].cursor>>
    BY DEF EventKeys
  <2> HIDE DEF keys, chain
  <2>2. PICK f \in DOMAIN batch.events :
           keys[f] = keys[i] /\ \E j \in DOMAIN events : events[j] = batch.events[f]
    <3> DEFINE list == batch.events
    <3>1. IsList(list) /\ i \in DOMAIN list /\ keys[i] \notin known.events
      BY <2>1 DEF PlainBatch
    <3>2. events = Unseen(list, keys, known.events)
      BY DEF keys
    <3> HIDE DEF list, events
    <3>3. \E f \in DOMAIN list : /\ keys[f] = keys[i]
                                 /\ \E j \in DOMAIN Unseen(list, keys, known.events) :
                                       Unseen(list, keys, known.events)[j] = list[f]
      BY <3>1, UnseenFirst
    <3> QED BY <3>2, <3>3 DEF list
  <2> HIDE DEF events
  <2>3. Tells(chain.delta.nodes, {batch.events[f]})
    BY <1>5, <2>2 DEF Tells
  <2>4. batch.events[f].actor = batch.events[i].actor /\ batch.events[f].cursor = batch.events[i].cursor
    BY <2>1, <2>2
  <2> QED BY <2>3, <2>4
<1> HIDE DEF paths, events, states, chain
<1>7. Drawn(minting, n, mid + 1, evs, actors)
  <2>1. \A i \in DOMAIN paths : NodeFor(minting, n + i, n + i + 1, evs, actor(i))
    <3> TAKE i \in DOMAIN paths
    <3> DEFINE k == n + i
    <3>1. k \in Nat
      BY <1>4
    <3>2. "event_payload" \notin DOMAIN [path |-> paths[i].segments]
      OBVIOUS
    <3> DEFINE own == [path |-> paths[i].segments]
    <3> HIDE DEF k, own
    <3>3. NodeFor(minting, k, k + 1, evs, Node(MintActor(minting, paths[i].segments, k),
                  IriFor(minting, MintActor(minting, paths[i].segments, k)), <<"Actor">>, own))
      BY <3>1, <3>2, ActorNodeFor DEF own
    <3> QED BY <3>3 DEF k, own
  <2>2. ASSUME minting = "uuid", NEW i \in DOMAIN paths PROVE actor(i).id = <<"random", n + i>>
    BY <2>2 DEF Node, MintActor
  <2> HIDE DEF actor
  <2>3. IsList(actors) /\ DOMAIN actors = DOMAIN paths /\ \A i \in DOMAIN paths : actors[i] = actor(i)
    BY <1>4, ListOfEntries
  <2> HIDE DEF actors
  <2>4. \A i \in DOMAIN actors : NodeFor(minting, n, mid + 1, evs, actors[i])
    <3> TAKE i \in DOMAIN actors
    <3>1. i \in DOMAIN paths /\ actors[i] = actor(i)
      BY <2>3
    <3> DEFINE k == n + i
               hi == mid + 1
    <3>2. k \in Nat /\ k + 1 \in Nat /\ hi \in Nat /\ n <= k /\ k + 1 <= hi
      BY <1>4, <3>1
    <3>3. NodeFor(minting, k, k + 1, evs, actors[i])
      BY <2>1, <3>1
    <3> HIDE DEF k, hi
    <3>4. NodeFor(minting, n, hi, evs, actors[i])
      BY <3>2, <3>3, NodeForWider
    <3> QED BY <3>4 DEF hi
  <2>5. ASSUME minting = "uuid", NEW i \in DOMAIN actors, NEW j \in DOMAIN actors, actors[i].id = actors[j].id
        PROVE  i = j
    <3>1. n + i = n + j
      BY <2>2, <2>3, <2>5
    <3> QED BY <1>4, <2>3, <3>1
  <2>6. mid + 1 \in Nat /\ n <= mid + 1
    BY <1>4
  <2> QED BY <2>3, <2>4, <2>5, <2>6 DEF Drawn
<1>8. Drawn(minting, chain.fresh, chain.fresh, evs, helds)
  <2>1. chain.fresh \in Nat
    BY <1>5 DEF Drawn
  <2>2. \A i \in DOMAIN states : NodeFor(minting, chain.fresh, chain.fresh, evs, held(i)) /\ held(i).id[1] = "state"
    <3> TAKE i \in DOMAIN states
    <3> DEFINE key == <<"state", states[i].actor, states[i].digest>>
    <3>1. key[1] = "state"
      OBVIOUS
    <3>2. StateNode(key, states[i]).id = key
      BY DEF StateNode, Node
    <3> HIDE DEF key
    <3>3. NodeFor(minting, chain.fresh, chain.fresh, evs, StateNode(key, states[i]))
      BY <2>1, <3>1, StateNodeFor
    <3> QED BY <3>1, <3>2, <3>3 DEF key
  <2> HIDE DEF held
  <2>3. IsList(helds) /\ DOMAIN helds = DOMAIN states /\ \A i \in DOMAIN states : helds[i] = held(i)
    BY <1>4, ListOfEntries
  <2>4. \A i \in DOMAIN helds : /\ NodeFor(minting, chain.fresh, chain.fresh, evs, helds[i])
                               /\ helds[i].id[1] # "random"
    <3> HIDE DEF helds, evs
    <3> QED BY <2>2, <2>3
  <2> HIDE DEF helds, evs, made, actors, mid
  <2> QED BY <2>1, <2>3, <2>4 DEF Drawn
<1> HIDE DEF actors, helds, mid, evs
<1>9. /\ Drawn(minting, n, chain.fresh, evs, actors \o chain.delta.nodes)
      /\ \A told : Tells(chain.delta.nodes, told) => Tells(actors \o chain.delta.nodes, told)
  BY <1>5, <1>7, DrawnConcat
<1> DEFINE front == actors \o chain.delta.nodes
<1> HIDE DEF front
<1>10. /\ Drawn(minting, n, chain.fresh, evs, front \o helds)
       /\ \A told : Tells(front, told) => Tells(front \o helds, told)
  BY <1>8, <1>9, DrawnConcat DEF front
<1>11. made.delta.nodes = front \o helds /\ made.fresh = chain.fresh
  BY <1>1 DEF front
<1>12. \A told : Tells(chain.delta.nodes, told) => Tells(front \o helds, told)
  BY <1>9, <1>10 DEF front
<1> HIDE DEF made
<1>13. /\ Drawn(minting, n, made.fresh, evs, made.delta.nodes)
       /\ \A i \in DOMAIN batch.events :
             \/ <<batch.events[i].actor, batch.events[i].cursor>> \in known.events
             \/ \E ev \in evs : /\ ev.actor = batch.events[i].actor /\ ev.cursor = batch.events[i].cursor
                                /\ Tells(made.delta.nodes, {ev})
  BY <1>6, <1>10, <1>11, <1>12
<1> QED BY <1>13 DEF made, evs, Projected

\* What any projection but the flat one makes of a batch.
LEMMA ProjectDraws ==
    ASSUME setup \in Setups, setup.projection # "flat", NEW batch, PlainBatch(batch), fresh \in Nat
    PROVE  Projected(batch, setup.minting, fresh,
                     IF setup.projection = "snapshot_diff" THEN seen.events ELSE {}, Project(batch))
<1> DEFINE evs  == {batch.events[i] : i \in DOMAIN batch.events}
           made == Project(batch)
           minting == setup.minting
<1>1. /\ setup.projection \in {"hierarchical", "flat", "event_stream", "snapshot_diff"}
      /\ minting \in Mintings
  BY SetupsAssumption DEF Setup, Mintings
<1>2. ASSUME NEW m, Drawn(minting, fresh, m.fresh, evs, m.delta.nodes), Tells(m.delta.nodes, evs)
      PROVE  Projected(batch, minting, fresh, {}, m)
  <2>1. \A i \in DOMAIN batch.events : Tells(m.delta.nodes, {batch.events[i]}) /\ batch.events[i] \in evs
    BY <1>2 DEF Tells
  <2> QED BY <1>2, <2>1 DEF Projected
<1>3. CASE setup.projection = "hierarchical"
  <2>1. made = Hierarchical(batch, minting, fresh)
    BY <1>3 DEF Project
  <2>2. Drawn(minting, fresh, made.fresh, evs, made.delta.nodes) /\ Tells(made.delta.nodes, evs)
    <3> HIDE DEF minting, made
    <3> QED BY <1>1, <2>1, HierarchicalDraws
  <2> QED BY <1>2, <1>3, <2>2
<1>4. CASE setup.projection = "event_stream"
  <2> DEFINE events == batch.events
             lo == fresh + 1
             hi == made.fresh
             nodes == made.delta.nodes
  <2>1. made = EventChain(events, minting, fresh, TRUE)
    BY <1>4 DEF Project, EventStream
  <2>2. IsList(events) /\ (\A i \in DOMAIN events : events[i] \in evs) /\ {events[i] : i \in DOMAIN events} = evs
    BY DEF PlainBatch
  <2>3. Drawn(minting, lo, hi, evs, nodes) /\ Tells(nodes, evs)
    <3> HIDE DEF minting, events, evs, made
    <3> QED BY <1>1, <2>1, <2>2, ChainDraws
  <2>4. lo \in Nat /\ fresh <= lo
    OBVIOUS
  <2>5. Drawn(minting, fresh, hi, evs, nodes)
    <3> HIDE DEF lo, hi, nodes, evs, minting
    <3> QED BY <2>3, <2>4, NodeForWider DEF Drawn
  <2> QED BY <1>2, <1>4, <2>3, <2>5
<1>5. CASE setup.projection = "snapshot_diff"
  <2>1. made = SnapshotDiff(batch, minting, fresh, seen)
    BY <1>5 DEF Project
  <2>2. Projected(batch, minting, fresh, seen.events, made)
    <3> HIDE DEF minting, made
    <3> QED BY <1>1, <2>1, DiffDraws
  <2> QED BY <1>5, <2>2
<1> QED BY <1>1, <1>3, <1>4, <1>5

----------------------------------------------------------------------------
(* Identifiers and the events their nodes stand for, in the store and on   *)
(* the way to it.                                                          *)

Pair(n) == <<n.id, Said(n)>>

ListPairs(list) == {Pair(list[i]) : i \in DOMAIN list}

StorePairs == {Pair(store.nodes[id]) : id \in DOMAIN store.nodes}

Pairs == StorePairs \cup ListPairs(task.raw.nodes) \cup ListPairs(task.out)

IdsOf(pairs) == {pr[1] : pr \in pairs}

\* No identifier stands for two events.
Functional(pairs) == \A p, q \in pairs : p[1] = q[1] => p = q

\* Where no identifier stands for two events, pairs whose identifiers are
\* there are there themselves.
LEMMA PairsSettle ==
    ASSUME NEW P, Functional(P), NEW Q, Q \subseteq P, NEW R, R \subseteq P, IdsOf(R) \subseteq IdsOf(Q)
    PROVE  R \subseteq Q
BY DEF Functional, IdsOf

\* Lists without nodes have no pairs.
LEMMA NoPairs == ListPairs(<<>>) = {}
BY DEF ListPairs

\* What reconcile_delta makes of a node has the identifier of that node, and
\* stands for the event of that node or of the one in the store.
LEMMA ReconciledPair ==
    ASSUME Shape, NEW incoming, Plain(incoming)
    PROVE  LET result == Reconcile(setup.conflict, Existing(incoming.id), incoming)
           IN  /\ result # None => /\ The(result).id = incoming.id
                                   /\ Pair(The(result)) \in StorePairs \cup {Pair(incoming)}
               /\ result = None => incoming.id \in DOMAIN store.nodes
<1> DEFINE result == Reconcile(setup.conflict, Existing(incoming.id), incoming)
<1>0. setup.conflict \in {"last_write_wins", "merge", "skip_existing"}
  BY SetupsAssumption DEF Shape, Setup
<1>1. \A x : The(Some(x)) = x /\ Some(x) # None
  BY DEF The, Some, None
<1>2. CASE setup.conflict = "last_write_wins" \/ incoming.id \notin DOMAIN store.nodes
  <2>1. result = Some(incoming)
    BY <1>2 DEF Reconcile, Existing
  <2> QED BY <1>1, <2>1
<1>3. CASE setup.conflict = "skip_existing" /\ incoming.id \in DOMAIN store.nodes
  <2>1. result = None
    BY <1>1, <1>3 DEF Reconcile, Existing
  <2> QED BY <1>3, <2>1
<1>4. CASE setup.conflict = "merge" /\ incoming.id \in DOMAIN store.nodes
  <2> DEFINE prev == store.nodes[incoming.id]
             iri  == IF incoming.iri = None THEN prev.iri ELSE incoming.iri
             types == MergedTypes(prev.types, incoming.types)
             properties == Overlay(incoming.properties, prev.properties)
  <2>1. Existing(incoming.id) = Some(prev)
    BY <1>4 DEF Existing
  <2>2. result = Some(Node(prev.id, iri, types, properties))
    BY <1>1, <1>4, <2>1 DEF Reconcile
  <2>3. The(result) = Node(prev.id, iri, types, properties) /\ result # None
    BY <1>1, <2>2
  <2>4. prev.id = incoming.id /\ Pair(prev) \in StorePairs
    BY <1>4 DEF Shape, StoreOK, StorePairs
  <2> HIDE DEF types, iri, prev, result
  <2>5. The(result).id = prev.id /\ The(result).properties = properties
    BY <2>3 DEF Node
  <2>6. Said(The(result)) = IF Said(incoming) = {} THEN Said(prev) ELSE Said(incoming)
    <3>1. /\ "event_payload" \in DOMAIN properties <=>
                "event_payload" \in DOMAIN incoming.properties \/ "event_payload" \in DOMAIN prev.properties
          /\ "event_payload" \in DOMAIN incoming.properties =>
                properties["event_payload"] = incoming.properties["event_payload"]
          /\ "event_payload" \notin DOMAIN incoming.properties /\ "event_payload" \in DOMAIN prev.properties =>
                properties["event_payload"] = prev.properties["event_payload"]
      BY DEF Overlay
    <3> HIDE DEF properties
    <3> QED BY <2>5, <3>1 DEF Said
  <2>7. Pair(The(result)) = Pair(prev) \/ Pair(The(result)) = Pair(incoming)
    BY <2>4, <2>5, <2>6 DEF Pair
  <2> QED BY <2>3, <2>4, <2>5, <2>7 DEF result
<1> QED BY <1>0, <1>2, <1>3, <1>4

\* A step that writes or prepares to write brings up no pair that was not
\* there, and loses no identifier.
NothingNew ==
    /\ Pairs' \subseteq Pairs
    /\ IdsOf(Pairs) \subseteq IdsOf(Pairs')
    /\ IdsOf(StorePairs) \subseteq IdsOf(StorePairs')

\* A node is reconciled.
LEMMA ReconcilePairs ==
    ASSUME Shape, ReconcileNext
    PROVE  NothingNew
<1> DEFINE raw == task.raw.nodes
           incoming == Head(raw)
           result == Reconcile(setup.conflict, Existing(incoming.id), incoming)
           out == IF result = None THEN task.out ELSE Append(task.out, The(result))
<1>1. /\ IsList(raw) /\ raw # <<>> /\ IsList(task.out)
      /\ \A i \in DOMAIN raw : Plain(raw[i])
  BY DEF ReconcileNext, Shape, TaskOK, PlainDelta, PlainList
<1>2. task'.raw.nodes = Tail(raw) /\ task'.out = out /\ store' = store
  <2>1. task' = [task EXCEPT !.raw.nodes = Tail(@), !.out = out]
    BY DEF ReconcileNext
  <2> HIDE DEF out
  <2> QED BY <2>1 DEF Shape, TaskOK, PlainDelta, ReconcileNext
<1> HIDE DEF raw
<1>3. /\ Plain(incoming) /\ \E i \in DOMAIN raw : raw[i] = incoming
      /\ \A i \in DOMAIN Tail(raw) : i + 1 \in DOMAIN raw /\ Tail(raw)[i] = raw[i + 1]
  BY <1>1, ListTail
<1>4. \A i \in DOMAIN raw : raw[i] = incoming \/ \E j \in DOMAIN Tail(raw) : Tail(raw)[j] = raw[i]
  <2>1. /\ IsList(Tail(raw)) /\ Len(Tail(raw)) = Len(raw) - 1 /\ Head(raw) = raw[1]
        /\ Len(raw) \in Nat /\ DOMAIN raw = 1..Len(raw)
    BY <1>1, ListTail, ListDomain
  <2>2. DOMAIN Tail(raw) = 1..(Len(raw) - 1)
    BY <2>1, ListDomain
  <2> TAKE i \in DOMAIN raw
  <2>3. i = 1 \/ (i - 1 \in DOMAIN Tail(raw) /\ (i - 1) + 1 = i)
    BY <2>1, <2>2
  <2> QED BY <1>3, <2>1, <2>3
<1>5. /\ result # None => The(result).id = incoming.id /\ Pair(The(result)) \in StorePairs \cup {Pair(incoming)}
      /\ result = None => incoming.id \in DOMAIN store.nodes
  BY <1>3, ReconciledPair
<1> HIDE DEF result, incoming
<1>6. /\ IsList(out)
      /\ ListPairs(out) = ListPairs(task.out) \cup IF result = None THEN {} ELSE {Pair(The(result))}
  <2>1. CASE result = None
    BY <1>1, <2>1
  <2>2. CASE result # None
    <3>1. /\ IsList(out) /\ Len(out) = Len(task.out) + 1
          /\ \A i \in DOMAIN task.out : out[i] = task.out[i]
          /\ out[Len(task.out) + 1] = The(result)
      BY <1>1, <2>2, ListAppend
    <3>2. DOMAIN out = 1..(Len(task.out) + 1) /\ Len(task.out) \in Nat /\ DOMAIN task.out = 1..Len(task.out)
      BY <1>1, <3>1, ListDomain
    <3>3. DOMAIN out = DOMAIN task.out \cup {Len(task.out) + 1}
      BY <3>2
    <3> HIDE DEF out
    <3> QED BY <2>2, <3>1, <3>3 DEF ListPairs
  <2> QED BY <2>1, <2>2
<1> HIDE DEF out
<1>7. ListPairs(raw) = ListPairs(Tail(raw)) \cup {Pair(incoming)}
  BY <1>3, <1>4 DEF ListPairs
<1>8. /\ Pairs = StorePairs \cup ListPairs(raw) \cup ListPairs(task.out)
      /\ Pairs' = StorePairs \cup ListPairs(Tail(raw)) \cup ListPairs(out)
      /\ StorePairs' = StorePairs
  BY <1>2 DEF Pairs, StorePairs, raw
<1>9. Pairs' \subseteq Pairs
  BY <1>5, <1>6, <1>7, <1>8
<1>10. incoming.id \in IdsOf(Pairs')
  <2>1. CASE result = None
    <3>1. Pair(store.nodes[incoming.id]) \in Pairs' /\ store.nodes[incoming.id].id = incoming.id
      BY <1>5, <1>8, <2>1 DEF StorePairs, Shape, StoreOK
    <3> QED BY <3>1 DEF IdsOf, Pair
  <2>2. CASE result # None
    <3>1. Pair(The(result)) \in Pairs' /\ The(result).id = incoming.id
      BY <1>5, <1>6, <1>8, <2>2
    <3> QED BY <3>1 DEF IdsOf, Pair
  <2> QED BY <2>1, <2>2
<1>11. \A pr \in Pairs : pr[1] \in IdsOf(Pairs')
  <2>1. Pair(incoming)[1] = incoming.id
    BY DEF Pair
  <2>2. \A pr \in Pairs : pr \in Pairs' \/ pr = Pair(incoming)
    BY <1>6, <1>7, <1>8
  <2> QED BY <1>10, <2>1, <2>2 DEF IdsOf
<1>12. IdsOf(Pairs) \subseteq IdsOf(Pairs')
  BY <1>11 DEF IdsOf
<1> QED BY <1>8, <1>9, <1>12 DEF NothingNew

\* Only a projector that has a batch has nodes on the way to the store, and
\* nodes that pass unread pass together.
TaskInv ==
    /\ task.pc # "reconcile" => task.raw.nodes = <<>> /\ task.out = <<>>
    /\ task.pc = "recv" => task.batch = None
    /\ task.pc = "reconcile" => task.batch # None
    /\ setup.conflict = "last_write_wins" /\ task.raw.nodes # <<>> => task.out = <<>>
    /\ fresh \in Nat

\* Under LastWriteWins the nodes are taken over.
LEMMA PassPairs ==
    ASSUME Shape, TaskInv, PassThrough
    PROVE  NothingNew
<1>1. task'.raw.nodes = <<>> /\ task'.out = task.raw.nodes /\ store' = store /\ task.out = <<>>
  BY DEF PassThrough, Shape, TaskOK, PlainDelta, TaskInv
<1>2. Pairs' = Pairs /\ StorePairs' = StorePairs
  BY <1>1, NoPairs DEF Pairs, StorePairs
<1> QED BY <1>2 DEF NothingNew

\* A commit moves all nodes to the store.
LEMMA CommitPairs ==
    ASSUME Shape, Commit
    PROVE  NothingNew /\ Pairs' = StorePairs'
<1> DEFINE old == store.nodes
           new == store'.nodes
           list == task.out
           ids == {list[i].id : i \in DOMAIN list}
<1>1. task' = Waiting /\ new = PutAll(old, list) /\ task.raw.nodes = <<>>
  BY CommitShape DEF Commit
<1>2. Overwritten(old, list, new)
  BY <1>1, PutAllEntries DEF Shape, TaskOK
<1>3. task'.raw.nodes = <<>> /\ task'.out = <<>>
  BY <1>1 DEF Waiting, EmptyDelta
<1>4. /\ Pairs' = {Pair(new[id]) : id \in DOMAIN new} /\ StorePairs' = Pairs'
      /\ Pairs = {Pair(old[id]) : id \in DOMAIN old} \cup ListPairs(list)
      /\ StorePairs = {Pair(old[id]) : id \in DOMAIN old}
  BY <1>1, <1>3, NoPairs DEF Pairs, StorePairs
<1>5. \A id \in DOMAIN old : old[id].id = id
  BY DEF Shape, StoreOK
<1>6. \A id \in DOMAIN new : new[id].id = id
  BY CommitShape DEF Shape, StoreOK
<1> HIDE DEF old, new, list
<1>7. /\ DOMAIN new = DOMAIN old \cup ids
      /\ \A id \in DOMAIN old \ ids : new[id] = old[id]
      /\ \A id \in ids : \E i \in DOMAIN list : new[id] = list[i]
  BY <1>2 DEF Overwritten
<1>8. Pairs' \subseteq Pairs
  <2> SUFFICES ASSUME NEW id \in DOMAIN new PROVE Pair(new[id]) \in Pairs
    BY <1>4
  <2>1. CASE id \in ids
    <3>1. PICK i \in DOMAIN list : new[id] = list[i]
      BY <1>7, <2>1
    <3> QED BY <1>4, <3>1 DEF ListPairs
  <2>2. CASE id \notin ids
    BY <1>4, <1>7, <2>2
  <2> QED BY <2>1, <2>2
<1>9. \A pr \in Pairs : pr[1] \in DOMAIN new
  BY <1>4, <1>5, <1>7 DEF ListPairs, Pair
<1>10. \A id \in DOMAIN new : id \in IdsOf(Pairs')
  <2> TAKE id \in DOMAIN new
  <2>1. Pair(new[id]) \in Pairs' /\ Pair(new[id])[1] = id
    BY <1>4, <1>6 DEF Pair
  <2> QED BY <2>1 DEF IdsOf
<1>11. IdsOf(Pairs) \subseteq IdsOf(Pairs')
  BY <1>9, <1>10 DEF IdsOf
<1>12. StorePairs \subseteq Pairs
  BY DEF Pairs
<1> QED BY <1>4, <1>8, <1>11, <1>12 DEF NothingNew, IdsOf

\* Another client's property says nothing of events.
LEMMA NotePair ==
    ASSUME NEW node, IsNode(node)
    PROVE  Pair(WithNote(node)) = Pair(node)
<1> DEFINE props == Put(node.properties, "note", "note")
<1>1. /\ "event_payload" \in DOMAIN props <=> "event_payload" \in DOMAIN node.properties
      /\ "event_payload" \in DOMAIN node.properties => props["event_payload"] = node.properties["event_payload"]
  BY DEF Put
<1>2. WithNote(node) = [id |-> node.id, iri |-> node.iri, types |-> node.types, properties |-> props]
  BY DEF WithNote, IsNode
<1>3. WithNote(node).id = node.id /\ WithNote(node).properties = props
  BY <1>2
<1> HIDE DEF props
<1> QED BY <1>1, <1>3 DEF Pair, Said

\* A node that has its property is the node it was.
LEMMA AnnotatePairs ==
    ASSUME Shape, NEW id \in DOMAIN store.nodes, Annotate(id)
    PROVE  NothingNew /\ StorePairs' = StorePairs /\ Pairs' = Pairs
<1>1. /\ DOMAIN store'.nodes = DOMAIN store.nodes
      /\ \A n \in DOMAIN store.nodes \ {id} : store'.nodes[n] = store.nodes[n]
      /\ store'.nodes[id] = WithNote(store.nodes[id])
  BY AnnotateShape
<1>2. Pair(store'.nodes[id]) = Pair(store.nodes[id])
  BY <1>1, NotePair DEF Shape, StoreOK
<1>3. \A n \in DOMAIN store.nodes : Pair(store'.nodes[n]) = Pair(store.nodes[n])
  BY <1>1, <1>2
<1>4. StorePairs' = StorePairs
  BY <1>1, <1>3 DEF StorePairs
<1>5. Pairs' = Pairs
  BY <1>4 DEF Pairs, Annotate
<1> QED BY <1>4, <1>5 DEF NothingNew

\* A node that another client writes first is in the projector's hand.
LEMMA CreatePairs ==
    ASSUME Shape, NEW node \in Range(task.raw.nodes) \cup Range(task.out), Create(node)
    PROVE  NothingNew /\ StorePairs \subseteq StorePairs' /\ Pairs' = Pairs
<1> DEFINE old == store.nodes
           new == store'.nodes
<1>1. /\ DOMAIN new = DOMAIN old \cup {node.id}
      /\ \A n \in DOMAIN old : new[n] = old[n]
      /\ new[node.id] = WithNote(node)
      /\ node.id \notin DOMAIN old
  BY CreateShape
<1>2. IsNode(node) /\ Pair(node) \in ListPairs(task.raw.nodes) \cup ListPairs(task.out)
  <2>1. CASE node \in Range(task.raw.nodes)
    <3>1. PICK i \in DOMAIN task.raw.nodes : node = task.raw.nodes[i]
      BY <2>1 DEF Range
    <3> QED BY <3>1 DEF ListPairs, Shape, TaskOK, PlainDelta, PlainList, Plain
  <2>2. CASE node \in Range(task.out)
    <3>1. PICK i \in DOMAIN task.out : node = task.out[i]
      BY <2>2 DEF Range
    <3> QED BY <3>1 DEF ListPairs, Shape, TaskOK
  <2> QED BY <2>1, <2>2
<1>3. Pair(new[node.id]) = Pair(node)
  BY <1>1, <1>2, NotePair
<1> HIDE DEF old, new
<1>4. {Pair(new[id]) : id \in DOMAIN new} = {Pair(old[id]) : id \in DOMAIN old} \cup {Pair(node)}
  BY <1>1, <1>3
<1>5. StorePairs' = StorePairs \cup {Pair(node)} /\ task' = task
  BY <1>4 DEF StorePairs, Create, old, new
<1>6. Pairs' = Pairs
  BY <1>2, <1>5 DEF Pairs
<1> QED BY <1>5, <1>6 DEF NothingNew, IdsOf

----------------------------------------------------------------------------
(* The positions the source gave. *)

GivenEvent(ev) == \E g \in given : ev = EventAt(g[3], g[2])

\* An event has the actor it is listed with; the events of a batch were given;
\* the in-memory source holds every event at the position it gave.
GivenInv ==
    /\ \A g \in given : g[3] \in DOMAIN Events /\ g[2] \in Nat /\ g = <<Events[g[3]].actor, g[2], g[3]>>
    /\ \A b \in poll.batch \cup task.batch : \A i \in DOMAIN b.events : GivenEvent(b.events[i])
    /\ setup.source = "memory" =>
         /\ \A g \in given : g[2] \in DOMAIN source.events /\ source.events[g[2]] = g[3]
         /\ \A i, j \in DOMAIN source.events : source.events[i] = source.events[j] => i = j

\* What both sources read are events of theirs, at positions.
LEMMA JournalEvents ==
    ASSUME setup \in Setups, SourceOK, NEW since \in Nat, NEW i \in DOMAIN Journal(since)
    PROVE  \E e \in DOMAIN Events, c \in Nat :
              /\ Journal(since)[i] = EventAt(e, c)
              /\ setup.source = "memory" => c \in DOMAIN source.events /\ source.events[c] = e
<1>1. CASE setup.source = "memory"
  <2> DEFINE all == source.events
             later == SubSeq(all, since + 1, Len(all))
  <2>1. all \in Seq(DOMAIN Events)
    BY DEF SourceOK
  <2>2. Journal(since) = [k \in DOMAIN later |-> EventAt(later[k], since + k)]
    BY <1>1 DEF Journal
  <2> HIDE DEF all
  <2>3. /\ DOMAIN later = 1..Len(later) /\ Len(later) \in Nat
        /\ \A k \in DOMAIN later : since + k \in DOMAIN all /\ later[k] = all[since + k]
    BY <2>1
  <2> HIDE DEF later
  <2>4. i \in DOMAIN later /\ i \in Nat /\ Journal(since)[i] = EventAt(later[i], since + i)
    BY <2>2, <2>3
  <2>5. since + i \in Nat /\ later[i] \in DOMAIN Events
    BY <2>1, <2>3, <2>4
  <2> QED BY <2>3, <2>4, <2>5 DEF all
<1>2. CASE setup.source # "memory"
  <2> DEFINE held == Picked(HashOrder, {k \in DOMAIN HashOrder : HashOrder[k] \in Range(source.events) \ Silent})
  <2>1. IsList(HashOrder) /\ \A k \in DOMAIN HashOrder : HashOrder[k] \in DOMAIN Events
    BY OrderAssumption DEF IsList
  <2>2. IsList(held) /\ \A j \in DOMAIN held : held[j] \in DOMAIN Events
    BY <2>1, PickedEntries
  <2>3. Journal(since) = IF source.version <= since THEN <<>> ELSE [k \in DOMAIN held |-> EventAt(held[k], since + k)]
    BY <1>2 DEF Journal
  <2> HIDE DEF held
  <2>4. DOMAIN held = 1..Len(held) /\ Len(held) \in Nat /\ DOMAIN <<>> = {}
    BY <2>2, ListDomain
  <2>5. i \in DOMAIN held /\ Journal(since)[i] = EventAt(held[i], since + i)
    BY <2>3, <2>4
  <2>6. since + i \in Nat /\ held[i] \in DOMAIN Events
    BY <2>2, <2>4, <2>5
  <2> QED BY <1>2, <2>5, <2>6
<1> QED BY <1>1, <1>2
\* A poll gives positions to events.
LEMMA FetchGiven ==
    ASSUME Shape, GivenInv, Fetch
    PROVE  GivenInv' /\ given \subseteq given'
<1> DEFINE events == Journal(poll.cursor)
           b == [paths |-> Paths, events |-> events, states |-> StatesOf(events)]
<1>1. /\ poll' = [poll EXCEPT !.pc = "cursor", !.batch = Some(b)]
      /\ given' = given \cup {<<events[i].actor, events[i].cursor, events[i].payload>> : i \in DOMAIN events}
      /\ UNCHANGED <<setup, source, task>>
  BY DEF Fetch
<1>2. \A i \in DOMAIN events : \E e \in DOMAIN Events, c \in Nat :
         /\ events[i] = EventAt(e, c)
         /\ setup.source = "memory" => c \in DOMAIN source.events /\ source.events[c] = e
  BY JournalEvents DEF Shape, PollOK
<1>3. b.events = events
  OBVIOUS
<1> HIDE DEF events, b
<1>4. poll'.batch = {b}
  BY <1>1 DEF Shape, PollOK, Some
<1>5. \A i \in DOMAIN events : \E e \in DOMAIN Events, c \in Nat :
         /\ events[i] = EventAt(e, c)
         /\ <<events[i].actor, events[i].cursor, events[i].payload>> = <<Events[e].actor, c, e>>
         /\ setup.source = "memory" => c \in DOMAIN source.events /\ source.events[c] = e
  BY <1>2 DEF EventAt
<1>6. ASSUME NEW g \in given'
      PROVE  /\ g[3] \in DOMAIN Events /\ g[2] \in Nat /\ g = <<Events[g[3]].actor, g[2], g[3]>>
             /\ setup.source = "memory" => g[2] \in DOMAIN source.events /\ source.events[g[2]] = g[3]
  <2>1. CASE g \in given
    BY <2>1 DEF GivenInv
  <2>2. ASSUME NEW i \in DOMAIN events, g = <<events[i].actor, events[i].cursor, events[i].payload>>
        PROVE  /\ g[3] \in DOMAIN Events /\ g[2] \in Nat /\ g = <<Events[g[3]].actor, g[2], g[3]>>
               /\ setup.source = "memory" => g[2] \in DOMAIN source.events /\ source.events[g[2]] = g[3]
    <3>1. PICK e \in DOMAIN Events, c \in Nat :
             /\ g = <<Events[e].actor, c, e>>
             /\ setup.source = "memory" => c \in DOMAIN source.events /\ source.events[c] = e
      BY <1>5, <2>2
    <3>2. g[2] = c /\ g[3] = e
      BY <3>1
    <3> QED BY <3>1, <3>2
  <2> QED BY <1>1, <2>1, <2>2
<1>7. ASSUME NEW i \in DOMAIN events PROVE \E g \in given' : events[i] = EventAt(g[3], g[2])
  <2>1. PICK e \in DOMAIN Events, c \in Nat :
           /\ events[i] = EventAt(e, c)
           /\ <<events[i].actor, events[i].cursor, events[i].payload>> = <<Events[e].actor, c, e>>
    BY <1>5
  <2> DEFINE g == <<Events[e].actor, c, e>>
  <2>2. g \in given' /\ g[3] = e /\ g[2] = c
    BY <1>1, <2>1
  <2> QED BY <2>1, <2>2
<1>8. \A x \in poll'.batch \cup task'.batch : \A i \in DOMAIN x.events :
        \E g \in given' : x.events[i] = EventAt(g[3], g[2])
  BY <1>1, <1>3, <1>4, <1>7 DEF GivenInv, GivenEvent
<1>9. setup' = setup /\ source' = source
  BY <1>1
<1> QED BY <1>1, <1>6, <1>8, <1>9 DEF GivenInv, GivenEvent

\* push_event adds an event that was not there, at the next position.
LEMMA GrowGiven ==
    ASSUME Shape, GivenInv, NEW new \in Seq(DOMAIN Events), Grow(new)
    PROVE  GivenInv'
<1>1. /\ UNCHANGED <<setup, poll, task, given>> /\ source'.events = source.events \o new
      /\ setup.source = "memory" => Len(new) = 1
      /\ Range(new) \cap Range(source.events) = {}
  BY DEF Grow, Shape, SourceOK
<1>2. CASE setup.source = "memory"
  <2> DEFINE old == source.events
             all == old \o new
  <2>1. old \in Seq(DOMAIN Events) /\ \A i, j \in DOMAIN old : old[i] = old[j] => i = j
    BY <1>2 DEF Shape, SourceOK, GivenInv
  <2>2. Len(new) = 1 /\ 1 \in DOMAIN new
    BY <1>1, <1>2
  <2> HIDE DEF old
  <2>3. /\ DOMAIN all = 1..(Len(old) + 1) /\ Len(old) \in Nat /\ DOMAIN old = 1..Len(old)
        /\ (\A i \in DOMAIN old : all[i] = old[i]) /\ all[Len(old) + 1] = new[1]
    <3>1. IsList(old) /\ IsList(new) /\ Len(old) \in Nat /\ DOMAIN old = 1..Len(old)
      BY <2>1, ListDomain, Zenon DEF IsList
    <3>2. /\ IsList(all) /\ Len(all) = Len(old) + 1
          /\ \A i \in 1..(Len(old) + 1) : all[i] = IF i <= Len(old) THEN old[i] ELSE new[i - Len(old)]
      BY <2>2, <3>1, ListConcat
    <3>3. DOMAIN all = 1..(Len(old) + 1)
      BY <3>2, ListDomain
    <3> HIDE DEF all
    <3> QED BY <3>1, <3>2, <3>3
  <2>4. \A i \in DOMAIN old : old[i] # new[1]
    BY <1>1, <2>2 DEF Range, old
  <2>5. DOMAIN all = DOMAIN old \cup {Len(old) + 1}
    BY <2>3
  <2> HIDE DEF all
  <2>6. \A i, j \in DOMAIN all : all[i] = all[j] => i = j
    BY <2>1, <2>3, <2>4, <2>5
  <2>7. \A g \in given : g[2] \in DOMAIN all /\ all[g[2]] = g[3]
    BY <1>2, <2>3, <2>5 DEF GivenInv, old
  <2>8. source'.events = all
    BY <1>1 DEF all, old
  <2> QED BY <1>1, <2>6, <2>7, <2>8 DEF GivenInv, GivenEvent
<1>3. CASE setup.source # "memory"
  BY <1>1, <1>3 DEF GivenInv, GivenEvent
<1> QED BY <1>2, <1>3

\* The other steps give no positions, and take their batches from the poller.
LEMMA OtherGiven ==
    ASSUME Shape, GivenInv,
           \/ (\E p \in KnownPaths : PushPath(p)) \/ (\E a \in Stateful : PutState(a))
           \/ TakeCursor \/ Receive \/ ReconcileNext \/ PassThrough \/ Commit \/ Restart
           \/ (\E id \in DOMAIN store.nodes : Annotate(id))
           \/ (\E node \in Range(task.raw.nodes) \cup Range(task.out) : Create(node))
           \/ UNCHANGED vars
    PROVE  GivenInv' /\ given' = given
<1>1. given' = given /\ setup' = setup /\ source'.events = source.events
  BY DEF Shape, SourceOK, PushPath, PutState, TakeCursor, Receive, ReconcileNext, PassThrough, Commit, Restart,
         Annotate, Create, vars
<1>2. poll'.batch \cup task'.batch \subseteq poll.batch \cup task.batch
  <2>1. CASE Receive
    <3>1. poll'.batch = {} /\ The(poll.batch) \in poll.batch
      BY <2>1, TheOfSome DEF Receive, Shape, PollOK, None
    <3>2. task'.batch = {} \/ task'.batch = {The(poll.batch)}
      BY <2>1 DEF Receive, Refused, Some
    <3> QED BY <3>1, <3>2
  <2>2. CASE Commit \/ Restart
    BY <2>2 DEF Commit, Restart, Waiting, Idle, None
  <2>3. CASE TakeCursor \/ ReconcileNext \/ PassThrough
    BY <2>3 DEF Shape, PollOK, TaskOK, TakeCursor, ReconcileNext, PassThrough
  <2>4. CASE UNCHANGED <<poll, task>>
    BY <2>4
  <2> QED BY <2>1, <2>2, <2>3, <2>4 DEF PushPath, PutState, Annotate, Create, vars
<1> QED BY <1>1, <1>2 DEF GivenInv, GivenEvent

\* Every step keeps what is known of positions, and forgets none.
LEMMA GivenStep ==
    ASSUME Shape, GivenInv, [Next]_vars
    PROVE  GivenInv' /\ given \subseteq given'
<1>1. ASSUME NEW new \in SUBSET DOMAIN Events, Grow(SetToSeq(new)) PROVE GivenInv' /\ given' = given
  <2>1. SetToSeq(new) \in Seq(DOMAIN Events)
    BY NewNames
  <2> QED BY <1>1, <2>1, GrowGiven DEF Grow
<1> QED BY <1>1, FetchGiven, OtherGiven DEF Next

----------------------------------------------------------------------------
(* The projector. *)

\* Receive starts on the batch of the poller, or fails.
LEMMA Received ==
    ASSUME Shape, Receive
    PROVE  LET b == The(poll.batch)
           IN  /\ b \in poll.batch /\ PlainBatch(b)
               /\ task.pc = "recv" /\ UNCHANGED <<setup, store, handled, given, created, dropped>>
               /\ \/ task' = [pc |-> "failed", batch |-> Some(b), raw |-> EmptyDelta, out |-> <<>>]
                  \/ task' = [pc |-> "reconcile", batch |-> Some(b), raw |-> Project(b).delta, out |-> <<>>]
               /\ seen' = IF setup.projection = "snapshot_diff" THEN MarkSeen(seen, b, setup.minting) ELSE seen
               /\ fresh' = IF setup.minting = "uuid" THEN Project(b).fresh ELSE fresh
<1>1. The(poll.batch) \in poll.batch
  BY TheOfSome DEF Receive, Shape, PollOK
<1>2. PlainBatch(The(poll.batch))
  BY <1>1 DEF Shape, PollOK
<1> QED BY <1>1, <1>2 DEF Receive, Refused

\* Every step keeps what is known of the projector.
LEMMA TaskStep ==
    ASSUME Shape, TaskInv, [Next]_vars
    PROVE  TaskInv'
<1>1. CASE UNCHANGED <<setup, task, fresh>>
  BY <1>1 DEF TaskInv
<1>2. CASE Receive
  <2> DEFINE b == The(poll.batch)
  <2>1. /\ PlainBatch(b) /\ setup' = setup
        /\ \/ task' = [pc |-> "failed", batch |-> Some(b), raw |-> EmptyDelta, out |-> <<>>]
           \/ task' = [pc |-> "reconcile", batch |-> Some(b), raw |-> Project(b).delta, out |-> <<>>]
        /\ fresh' = IF setup.minting = "uuid" THEN Project(b).fresh ELSE fresh
    BY <1>2, Received
  <2>2. fresh' \in Nat
    <3>1. CASE setup.minting = "uuid" /\ setup.projection # "flat"
      BY <2>1, <3>1, ProjectDraws DEF Shape, TaskInv, Projected, Drawn
    <3>2. CASE setup.minting = "uuid" /\ setup.projection = "flat"
      <4>1. Project(b).fresh = fresh
        BY <3>2 DEF Project, Flat
      <4> QED BY <2>1, <4>1 DEF TaskInv
    <3>3. CASE setup.minting # "uuid"
      BY <2>1, <3>3 DEF TaskInv
    <3> QED BY <3>1, <3>2, <3>3
  <2>3. EmptyDelta.nodes = <<>> /\ Some(b) # None
    BY DEF EmptyDelta, Some, None
  <2> HIDE DEF b
  <2> QED BY <2>1, <2>2, <2>3 DEF TaskInv
<1>3. CASE Commit \/ Restart
  <2>1. task' = [pc |-> "recv", batch |-> None, raw |-> EmptyDelta, out |-> <<>>] /\ fresh' = fresh
    BY <1>3 DEF Commit, Restart, Waiting
  <2>2. EmptyDelta.nodes = <<>>
    BY DEF EmptyDelta
  <2> QED BY <2>1, <2>2 DEF TaskInv
<1>4. CASE ReconcileNext
  <2>1. /\ task'.pc = task.pc /\ task'.batch = task.batch /\ UNCHANGED <<setup, fresh>>
        /\ task.pc = "reconcile" /\ setup.conflict # "last_write_wins"
    BY <1>4 DEF ReconcileNext, Shape, TaskOK
  <2> QED BY <2>1 DEF TaskInv
<1>5. CASE PassThrough
  <2>1. /\ task'.pc = task.pc /\ task'.batch = task.batch /\ UNCHANGED <<setup, fresh>>
        /\ task.pc = "reconcile" /\ task'.raw.nodes = <<>>
    BY <1>5 DEF PassThrough, Shape, TaskOK, PlainDelta
  <2> QED BY <2>1 DEF TaskInv
<1> QED BY <1>1, <1>2, <1>3, <1>4, <1>5
        DEF Next, Grow, PushPath, PutState, Fetch, TakeCursor, Annotate, Create, vars

----------------------------------------------------------------------------
(* Which pairs there may be. *)

\* With names, the identifier of an event is minted from a position it was
\* given, and no other node has such an identifier; else a random identifier
\* is one of those drawn.
GoodPair(pr, lo, hi) ==
    IF Named
    THEN \/ pr[2] = {} /\ pr[1][1] # "event"
         \/ \E g \in given : pr = <<MintEvent(setup.minting, EventAt(g[3], g[2]), 0), {g[3]}>>
    ELSE \/ \E k \in Nat : lo <= k /\ k < hi /\ pr[1] = <<"random", k>>
         \/ pr[2] = {} /\ pr[1][1] # "random"

PairsInv == setup.projection # "flat" => \A pr \in Pairs : GoodPair(pr, 0, fresh)

\* A random identifier was drawn for one node.
DrawnOnce == setup.projection # "flat" /\ ~Named => Functional(Pairs)

\* Pairs are pairs.
LEMMA PairsArePairs == \A pr \in Pairs : pr = <<pr[1], pr[2]>>
BY DEF Pairs, StorePairs, ListPairs, Pair

\* Names that are not random tell positions apart.
LEMMA NamesApart ==
    ASSUME setup \in Setups, Named, NEW g, NEW h
    PROVE  /\ MintEvent(setup.minting, EventAt(g[3], g[2]), 0)[1] = "event"
           /\ MintEvent(setup.minting, EventAt(g[3], g[2]), 0) = MintEvent(setup.minting, EventAt(h[3], h[2]), 0)
              => g[2] = h[2] /\ Events[g[3]].actor = Events[h[3]].actor
<1> DEFINE x == EventAt(g[3], g[2])
           y == EventAt(h[3], h[2])
<1>1. setup.minting \in {"path_based", "content_addressed"}
  BY SetupsAssumption DEF Setup, Named
<1>2. /\ x.cursor = g[2] /\ x.actor = Events[g[3]].actor
      /\ y.cursor = h[2] /\ y.actor = Events[h[3]].actor
  BY DEF EventAt
<1> HIDE DEF x, y
<1>3. /\ MintEvent(setup.minting, x, 0)[1] = "event"
      /\ MintEvent(setup.minting, x, 0) = MintEvent(setup.minting, y, 0) => x.cursor = y.cursor /\ x.actor = y.actor
  <2>1. CASE setup.minting = "path_based"
    BY <2>1 DEF MintEvent
  <2>2. CASE setup.minting = "content_addressed"
    BY <2>2 DEF MintEvent
  <2> QED BY <1>1, <2>1, <2>2
<1> QED BY <1>2, <1>3 DEF x, y

\* As long as no position was given twice, no identifier stands for two events.
LEMMA PairsFunctional ==
    ASSUME setup \in Setups, setup.projection # "flat", GivenInv, PairsInv, DrawnOnce, Clashes = {}
    PROVE  Functional(Pairs)
<1>1. CASE ~Named
  BY <1>1 DEF DrawnOnce
<1>2. CASE Named
  <2> SUFFICES ASSUME NEW p \in Pairs, NEW q \in Pairs, p[1] = q[1] PROVE p = q
    BY DEF Functional
  <2>1. \A r \in Pairs : \/ r[2] = {} /\ r[1][1] # "event"
                         \/ \E g \in given : r = <<MintEvent(setup.minting, EventAt(g[3], g[2]), 0), {g[3]}>>
    BY <1>2 DEF PairsInv, GoodPair
  <2>2. ASSUME NEW g \in given, NEW r, r = <<MintEvent(setup.minting, EventAt(g[3], g[2]), 0), {g[3]}>>
        PROVE  r[1][1] = "event"
    BY <1>2, <2>2, NamesApart
  <2>3. CASE p[2] = {} /\ q[2] = {}
    BY <2>3, PairsArePairs
  <2>4. ASSUME NEW g \in given, p = <<MintEvent(setup.minting, EventAt(g[3], g[2]), 0), {g[3]}>>,
               NEW h \in given, q = <<MintEvent(setup.minting, EventAt(h[3], h[2]), 0), {h[3]}>>
        PROVE  p = q
    <3>1. MintEvent(setup.minting, EventAt(g[3], g[2]), 0) = MintEvent(setup.minting, EventAt(h[3], h[2]), 0)
      BY <2>4
    <3>2. g[2] = h[2] /\ Events[g[3]].actor = Events[h[3]].actor
      BY <1>2, <3>1, NamesApart
    <3>3. g[1] = Events[g[3]].actor /\ h[1] = Events[h[3]].actor
      BY DEF GivenInv
    <3>4. g[3] = h[3]
      BY <3>2, <3>3 DEF Clashes
    <3> QED BY <2>4, <3>1, <3>4
  <2> QED BY <2>1, <2>2, <2>3, <2>4
<1> QED BY <1>1, <1>2

\* The nodes of a projection have good pairs, and each random identifier once.
LEMMA DrawnPairs ==
    ASSUME GivenInv, NEW lo, NEW hi, NEW evs, NEW list, Drawn(setup.minting, lo, hi, evs, list),
           \A ev \in evs : GivenEvent(ev)
    PROVE  /\ \A pr \in ListPairs(list) : GoodPair(pr, lo, hi)
           /\ ~Named => \A p, q \in ListPairs(list) : p[1] = q[1] /\ p[1][1] = "random" => p = q
<1>1. ASSUME NEW i \in DOMAIN list PROVE GoodPair(Pair(list[i]), lo, hi)
  <2>1. NodeFor(setup.minting, lo, hi, evs, list[i])
    BY DEF Drawn
  <2>2. Pair(list[i])[1] = list[i].id /\ Pair(list[i])[2] = Said(list[i])
    BY DEF Pair
  <2>3. CASE ~Named
    BY <2>1, <2>2, <2>3 DEF NodeFor, GoodPair, Named
  <2>4. CASE Named
    <3>1. CASE Said(list[i]) = {} /\ list[i].id[1] # "event"
      BY <2>2, <2>4, <3>1 DEF GoodPair
    <3>2. ASSUME NEW ev \in evs, list[i].id = MintEvent(setup.minting, ev, 0), Said(list[i]) = {ev.payload}
          PROVE  GoodPair(Pair(list[i]), lo, hi)
      <4>1. PICK g \in given : ev = EventAt(g[3], g[2])
        BY DEF GivenEvent
      <4>2. ev.payload = g[3]
        BY <4>1 DEF EventAt
      <4>3. Pair(list[i]) = <<MintEvent(setup.minting, EventAt(g[3], g[2]), 0), {g[3]}>>
        BY <3>2, <4>1, <4>2 DEF Pair
      <4> QED BY <2>4, <4>3 DEF GoodPair
    <3> QED BY <2>1, <2>4, <3>1, <3>2 DEF NodeFor, Named
  <2> QED BY <2>3, <2>4
<1>2. ASSUME ~Named, NEW i \in DOMAIN list, NEW j \in DOMAIN list,
             Pair(list[i])[1] = Pair(list[j])[1], Pair(list[i])[1][1] = "random"
      PROVE  i = j
  BY <1>2 DEF Drawn, Pair, Named
<1> QED BY <1>1, <1>2 DEF ListPairs

\* A range of random identifiers may be taken larger.
LEMMA GoodPairWider ==
    ASSUME NEW pr, NEW lo \in Nat, NEW hi \in Nat, GoodPair(pr, lo, hi), NEW high \in Nat, hi <= high
    PROVE  GoodPair(pr, 0, high)
BY DEF GoodPair

\* Every other step brings up no pair.
LEMMA OtherPairs ==
    ASSUME Shape, TaskInv, [Next]_vars, ~Receive
    PROVE  Pairs' \subseteq Pairs /\ fresh' = fresh /\ setup' = setup
<1>0. fresh' = fresh /\ setup' = setup
  BY DEF Next, Grow, PushPath, PutState, Fetch, TakeCursor, ReconcileNext, PassThrough, Commit, Restart, Annotate,
         Create, vars
<1>1. CASE UNCHANGED <<store, task>>
  BY <1>0, <1>1 DEF Pairs, StorePairs
<1>2. CASE ReconcileNext
  BY <1>0, <1>2, ReconcilePairs DEF NothingNew
<1>3. CASE PassThrough
  BY <1>0, <1>3, PassPairs DEF NothingNew
<1>4. CASE Commit
  BY <1>0, <1>4, CommitPairs DEF NothingNew
<1>5. CASE Restart
  <2>1. task'.raw.nodes = <<>> /\ task'.out = <<>> /\ store' = store
    BY <1>5 DEF Restart, Waiting, EmptyDelta
  <2>2. Pairs' = StorePairs
    BY <2>1, NoPairs DEF Pairs, StorePairs
  <2> QED BY <1>0, <2>2 DEF Pairs
<1>6. ASSUME NEW id \in DOMAIN store.nodes, Annotate(id) PROVE Pairs' \subseteq Pairs
  BY <1>6, AnnotatePairs DEF NothingNew
<1>7. ASSUME NEW node \in Range(task.raw.nodes) \cup Range(task.out), Create(node) PROVE Pairs' \subseteq Pairs
  BY <1>7, CreatePairs DEF NothingNew
<1> QED
  BY <1>0, <1>1, <1>2, <1>3, <1>4, <1>5, <1>6, <1>7 DEF Next, Grow, PushPath, PutState, Fetch, TakeCursor, vars

\* What Receive brings up.
LEMMA ReceivePairs ==
    ASSUME Shape, TaskInv, GivenInv, Receive, setup.projection # "flat"
    PROVE  LET made == Project(The(poll.batch))
               new  == ListPairs(made.delta.nodes)
           IN  /\ StorePairs' = StorePairs /\ Pairs = StorePairs
               /\ Pairs' = StorePairs \/ Pairs' = StorePairs \cup new
               /\ task'.pc = "reconcile" => Pairs' = StorePairs \cup new
               /\ made.fresh \in Nat /\ fresh <= made.fresh
               /\ \A pr \in new : GoodPair(pr, fresh, made.fresh)
               /\ ~Named => \A p, q \in new : p[1] = q[1] /\ p[1][1] = "random" => p = q
<1> DEFINE b    == The(poll.batch)
           made == Project(b)
           new  == ListPairs(made.delta.nodes)
           evs  == {b.events[i] : i \in DOMAIN b.events}
           known == IF setup.projection = "snapshot_diff" THEN seen.events ELSE {}
<1>1. /\ b \in poll.batch /\ PlainBatch(b) /\ task.pc = "recv" /\ store' = store
      /\ \/ task' = [pc |-> "failed", batch |-> Some(b), raw |-> EmptyDelta, out |-> <<>>]
         \/ task' = [pc |-> "reconcile", batch |-> Some(b), raw |-> made.delta, out |-> <<>>]
  BY Received
<1>2. Pairs = StorePairs /\ StorePairs' = StorePairs
  BY <1>1, NoPairs DEF TaskInv, Pairs, StorePairs
<1>3. \/ task'.raw.nodes = <<>> /\ task'.out = <<>> /\ task'.pc = "failed"
      \/ task'.raw.nodes = made.delta.nodes /\ task'.out = <<>>
  <2> HIDE DEF b, made
  <2> QED BY <1>1 DEF EmptyDelta
<1>4. Drawn(setup.minting, fresh, made.fresh, evs, made.delta.nodes)
  <2>1. Projected(b, setup.minting, fresh, known, made)
    BY <1>1, ProjectDraws DEF Shape, TaskInv
  <2> HIDE DEF b, made, known
  <2> QED BY <2>1 DEF Projected
<1>5. \A ev \in evs : GivenEvent(ev)
  BY <1>1 DEF GivenInv
<1> HIDE DEF b, made, evs
<1>6. /\ \A pr \in new : GoodPair(pr, fresh, made.fresh)
      /\ ~Named => \A p, q \in new : p[1] = q[1] /\ p[1][1] = "random" => p = q
  BY <1>4, <1>5, DrawnPairs
<1>7. made.fresh \in Nat /\ fresh <= made.fresh
  BY <1>4 DEF Drawn
<1>8. /\ Pairs' = StorePairs \/ Pairs' = StorePairs \cup new
      /\ task'.pc = "reconcile" => Pairs' = StorePairs \cup new
  BY <1>2, <1>3, NoPairs DEF Pairs
<1> QED BY <1>2, <1>6, <1>7, <1>8 DEF b, made

\* Every step keeps pairs good and random identifiers apart.
LEMMA PairsStep ==
    ASSUME Shape, TaskInv, GivenInv, PairsInv, DrawnOnce, [Next]_vars
    PROVE  PairsInv' /\ DrawnOnce'
<1>0. given \subseteq given'
  BY GivenStep
<1>1. CASE ~Receive
  <2>1. Pairs' \subseteq Pairs /\ fresh' = fresh /\ setup' = setup
    BY <1>1, OtherPairs
  <2>2. \A pr : GoodPair(pr, 0, fresh) => GoodPair(pr, 0, fresh)'
    BY <1>0, <2>1 DEF GoodPair, Named
  <2> QED BY <2>1, <2>2 DEF PairsInv, DrawnOnce, Functional, Named
<1>2. CASE Receive
  <2>1. setup' = setup /\ given' = given
    BY <1>2 DEF Receive
  <2>2. CASE setup.projection = "flat"
    BY <2>1, <2>2 DEF PairsInv, DrawnOnce
  <2>3. CASE setup.projection # "flat"
    <3> DEFINE made == Project(The(poll.batch))
               new  == ListPairs(made.delta.nodes)
    <3>1. /\ Pairs = StorePairs
          /\ Pairs' = StorePairs \/ Pairs' = StorePairs \cup new
          /\ made.fresh \in Nat /\ fresh <= made.fresh
          /\ \A pr \in new : GoodPair(pr, fresh, made.fresh)
          /\ ~Named => \A p, q \in new : p[1] = q[1] /\ p[1][1] = "random" => p = q
      BY <1>2, <2>3, ReceivePairs
    <3>2. fresh' = IF setup.minting = "uuid" THEN made.fresh ELSE fresh
      BY <1>2, Received
    <3>3. \A pr \in new : \E n : pr = Pair(n)
      BY DEF ListPairs
    <3> HIDE DEF made, new
    <3>4. fresh \in Nat /\ fresh' \in Nat /\ fresh <= fresh' /\ (~Named => fresh' = made.fresh)
      BY <3>1, <3>2 DEF TaskInv, Named
    <3>5. \A pr \in Pairs : GoodPair(pr, 0, fresh')
      BY <2>3, <3>4, GoodPairWider DEF PairsInv
    <3>6. \A pr \in new : GoodPair(pr, fresh, fresh')
      BY <3>1, <3>4 DEF GoodPair
    <3>7. \A pr \in new : GoodPair(pr, 0, fresh')
      BY <3>4, <3>6, GoodPairWider
    <3>8. \A pr : GoodPair(pr, 0, fresh') => GoodPair(pr, 0, fresh)'
      BY <2>1 DEF GoodPair, Named
    <3>9. PairsInv'
      BY <3>1, <3>5, <3>7, <3>8 DEF PairsInv
    <3>10. ASSUME ~Named PROVE Functional(StorePairs \cup new)
      <4>1. \A p, q \in StorePairs : p[1] = q[1] => p = q
        BY <2>3, <3>1, <3>10 DEF DrawnOnce, Functional
      <4>2. ASSUME NEW p \in StorePairs, NEW q \in new, p[1] = q[1] PROVE p = q
        <5>1. \/ \E k \in Nat : k < fresh /\ p[1] = <<"random", k>>
              \/ p[2] = {} /\ p[1][1] # "random"
          BY <2>3, <3>1, <3>10 DEF PairsInv, GoodPair
        <5>2. \/ \E k \in Nat : fresh <= k /\ q[1] = <<"random", k>>
              \/ q[2] = {} /\ q[1][1] # "random"
          BY <3>1, <3>10 DEF GoodPair
        <5>3. p[2] = {} /\ q[2] = {}
          BY <3>4, <4>2, <5>1, <5>2
        <5>4. p = <<p[1], p[2]>> /\ q = <<q[1], q[2]>>
          BY <3>1, <3>3, PairsArePairs DEF Pair
        <5> QED BY <4>2, <5>3, <5>4
      <4>3. ASSUME NEW p \in new, NEW q \in new, p[1] = q[1] PROVE p = q
        <5>1. CASE p[1][1] = "random"
          BY <3>1, <3>10, <4>3, <5>1
        <5>2. CASE p[1][1] # "random"
          <6>1. p[2] = {} /\ q[2] = {}
            <7>1. \A r \in new : (\E k \in Nat : r[1] = <<"random", k>>) \/ r[2] = {}
              BY <3>1, <3>10 DEF GoodPair
            <7> QED BY <4>3, <5>2, <7>1
          <6>2. p = <<p[1], p[2]>> /\ q = <<q[1], q[2]>>
            BY <3>3 DEF Pair
          <6> QED BY <4>3, <6>1, <6>2
        <5> QED BY <5>1, <5>2
      <4> QED BY <4>1, <4>2, <4>3 DEF Functional
    <3>11. DrawnOnce'
      BY <2>1, <2>3, <3>1, <3>10 DEF DrawnOnce, Named, Functional
    <3> QED BY <3>9, <3>11
  <2> QED BY <2>2, <2>3
<1> QED BY <1>1, <1>2

\* What the poller and the projector hold always has identifiers that tell the
\* positions apart, or random ones of which none comes twice.
LEMMA PairsAlways == Spec => [](GivenInv /\ TaskInv /\ PairsInv /\ DrawnOnce)
<1> DEFINE Inv == GivenInv /\ TaskInv /\ PairsInv /\ DrawnOnce
<1>1. Init => Inv
  <2> SUFFICES ASSUME Init PROVE Inv
    OBVIOUS
  <2>1. /\ task.raw.nodes = <<>> /\ task.out = <<>> /\ task.batch = None /\ task.pc = "recv" /\ poll.batch = None
        /\ given = {} /\ DOMAIN source.events = {} /\ fresh = 0 /\ DOMAIN store.nodes = {}
    BY DEF Init, Waiting, EmptyDelta, Idle, EmptyOntology, EmptyMap
  <2>2. Pairs = {}
    BY <2>1, NoPairs DEF Pairs, StorePairs
  <2>3. GivenInv /\ TaskInv
    BY <2>1 DEF GivenInv, TaskInv, None
  <2>4. PairsInv /\ DrawnOnce
    BY <2>2 DEF PairsInv, DrawnOnce, Functional
  <2> QED BY <2>3, <2>4
<1>2. Shape /\ Inv /\ [Next]_vars => Inv'
  BY GivenStep, TaskStep, PairsStep
<1> QED BY <1>1, <1>2, IngestionShape, PTL DEF Spec

----------------------------------------------------------------------------
(* Events keep their nodes. *)

\* Some node, in the store or on the way to it, stands for the event; some
\* node in the store does.
Told(e)   == \E pr \in Pairs : pr[2] = {e}
Stored(e) == \E pr \in StorePairs : pr[2] = {e}

\* The events of the batch that is projected, or was refused.
InHand == UNION {{b.events[i].payload : i \in DOMAIN b.events} : b \in task.batch}

HandledKept == \A e \in handled.events : Stored(e) \/ e \in dropped

BatchTold == task.pc = "reconcile" => \A e \in InHand : Told(e) \/ e \in dropped

\* A position a SnapshotDiffProjection has seen is that of an event that is
\* stored, or was lost, or is in hand: marked, but not yet committed.
SeenTold ==
    setup.projection = "snapshot_diff" =>
        \A k \in seen.events : \E g \in given :
            k = <<g[1], g[2]>> /\ (Stored(g[3]) \/ g[3] \in dropped \cup InHand)

Kept == setup.projection # "flat" /\ Clashes = {} => HandledKept /\ BatchTold /\ SeenTold

\* Where no identifier stands for two events, a step that brings up no pair
\* and loses no identifier changes no pair, and takes none from the store.
LEMMA PairsStay ==
    ASSUME Functional(Pairs), NothingNew
    PROVE  Pairs' = Pairs /\ StorePairs \subseteq StorePairs'
<1>1. StorePairs \subseteq Pairs /\ StorePairs' \subseteq Pairs'
  BY DEF Pairs
<1> DEFINE P == Pairs
           Q == Pairs'
           R == StorePairs
           S == StorePairs'
<1>2. /\ Functional(P) /\ Q \subseteq P /\ R \subseteq P /\ S \subseteq P
      /\ IdsOf(P) \subseteq IdsOf(Q) /\ IdsOf(R) \subseteq IdsOf(S)
  BY <1>1 DEF NothingNew
<1> HIDE DEF P, Q, R, S
<1>3. P \subseteq Q
  BY <1>2, PairsSettle
<1>4. R \subseteq S
  BY <1>2, PairsSettle
<1> QED BY <1>2, <1>3, <1>4 DEF P, Q, R, S

\* The events of a batch that is received have nodes then: a new one, or, where
\* the projection has seen the position, the one from before, unless that was
\* lost.
LEMMA ReceiveTells ==
    ASSUME Shape, TaskInv, GivenInv, Receive, setup.projection # "flat", Clashes = {}, SeenTold,
           task'.pc = "reconcile", NEW i \in DOMAIN The(poll.batch).events
    PROVE  LET payload == The(poll.batch).events[i].payload
           IN  payload \in dropped \/ \E pr \in Pairs' : pr[2] = {payload}
<1> DEFINE b    == The(poll.batch)
           made == Project(b)
           new  == ListPairs(made.delta.nodes)
           evs  == {b.events[j] : j \in DOMAIN b.events}
           known == IF setup.projection = "snapshot_diff" THEN seen.events ELSE {}
           event == b.events[i]
<1>1. b \in poll.batch /\ PlainBatch(b) /\ task.pc = "recv"
  BY Received
<1>2. Pairs = StorePairs /\ Pairs' = StorePairs \cup new
  BY ReceivePairs
<1>3. \/ <<event.actor, event.cursor>> \in known
      \/ \E ev \in evs : /\ ev.actor = event.actor /\ ev.cursor = event.cursor
                         /\ Tells(made.delta.nodes, {ev})
  <2>1. Projected(b, setup.minting, fresh, known, made)
    BY <1>1, ProjectDraws DEF Shape, TaskInv
  <2>2. i \in DOMAIN b.events
    OBVIOUS
  <2> HIDE DEF b, made, known
  <2> QED BY <2>1, <2>2 DEF Projected
<1>4. \A ev \in evs : \E g \in given : ev = EventAt(g[3], g[2])
  BY <1>1 DEF GivenInv, GivenEvent
<1>5. event \in evs
  OBVIOUS
<1> HIDE DEF b, made, evs, known, event, new
<1>6. \A ev \in evs : \E g \in given : g[1] = ev.actor /\ g[2] = ev.cursor /\ g[3] = ev.payload
  BY <1>4 DEF EventAt, GivenInv
<1>7. \A g, h \in given : g[1] = h[1] /\ g[2] = h[2] => g[3] = h[3]
  BY DEF Clashes
<1>8. PICK g \in given : g[1] = event.actor /\ g[2] = event.cursor /\ g[3] = event.payload
  BY <1>5, <1>6
<1>9. event.payload \in dropped \/ \E pr \in Pairs' : pr[2] = {event.payload}
  <2>1. CASE <<event.actor, event.cursor>> \in known
    <3>1. PICK h \in given : /\ <<event.actor, event.cursor>> = <<h[1], h[2]>>
                             /\ Stored(h[3]) \/ h[3] \in dropped \cup InHand
      BY <1>1, <2>1 DEF SeenTold, known
    <3>2. h[3] = event.payload
      BY <1>7, <1>8, <3>1
    <3>3. InHand = {}
      BY <1>1 DEF TaskInv, InHand, None
    <3> QED BY <1>2, <3>1, <3>2, <3>3 DEF Stored
  <2>2. ASSUME NEW ev \in evs, ev.actor = event.actor, ev.cursor = event.cursor, Tells(made.delta.nodes, {ev})
        PROVE  \E pr \in Pairs' : pr[2] = {event.payload}
    <3>1. ev.payload = event.payload
      BY <1>6, <1>7, <1>8, <2>2
    <3>2. PICK j \in DOMAIN made.delta.nodes : Said(made.delta.nodes[j]) = {ev.payload}
      BY <2>2 DEF Tells
    <3>3. Pair(made.delta.nodes[j]) \in new /\ Pair(made.delta.nodes[j])[2] = {ev.payload}
      BY <3>2 DEF new, ListPairs, Pair
    <3> QED BY <1>2, <3>1, <3>3
  <2> QED BY <1>3, <2>1, <2>2
<1> QED BY <1>9 DEF event, b

\* What a SnapshotDiffProjection marks it was given.
LEMMA MarksGiven ==
    ASSUME GivenInv, NEW b \in poll.batch, NEW k \in MarkSeen(seen, b, setup.minting).events
    PROVE  \/ k \in seen.events
           \/ \E i \in DOMAIN b.events, g \in given : k = <<g[1], g[2]>> /\ g[3] = b.events[i].payload
<1>1. k \in seen.events \/ \E i \in DOMAIN b.events : k = <<b.events[i].actor, b.events[i].cursor>>
  <2> DEFINE stuckPaths  == StuckPaths(b, setup.minting, seen)
             stuckEvents == StuckEvents(b, setup.minting, seen)
             marked == {j \in DOMAIN EventKeys(b) : \A x \in stuckEvents : j <= x}
  <2>1. MarkSeen(seen, b, setup.minting).events
        = seen.events \cup IF stuckPaths = {} THEN {EventKeys(b)[i] : i \in marked} ELSE {}
    BY DEF MarkSeen
  <2>2. marked \subseteq DOMAIN b.events /\ \A i \in DOMAIN b.events :
           EventKeys(b)[i] = <<b.events[i].actor, b.events[i].cursor>>
    BY DEF EventKeys
  <2> HIDE DEF marked, stuckPaths
  <2> QED BY <2>1, <2>2
<1>2. \A i \in DOMAIN b.events : \E g \in given : b.events[i] = EventAt(g[3], g[2])
  BY DEF GivenInv, GivenEvent
<1>3. ASSUME NEW i \in DOMAIN b.events
      PROVE  \E g \in given : <<b.events[i].actor, b.events[i].cursor>> = <<g[1], g[2]>> /\ g[3] = b.events[i].payload
  <2>1. PICK g \in given : b.events[i] = EventAt(g[3], g[2])
    BY <1>2
  <2>2. b.events[i].actor = Events[g[3]].actor /\ b.events[i].cursor = g[2] /\ b.events[i].payload = g[3]
    BY <2>1 DEF EventAt
  <2>3. g[1] = Events[g[3]].actor
    BY DEF GivenInv
  <2> QED BY <2>2, <2>3
<1> QED BY <1>1, <1>3

\* Every step keeps events their nodes.
LEMMA KeptStep ==
    ASSUME Shape, TaskInv, GivenInv, PairsInv, DrawnOnce, Kept, [Next]_vars
    PROVE  Kept'
<1>0. given \subseteq given' /\ setup' = setup /\ dropped \subseteq dropped'
  BY GivenStep DEF Next, Grow, PushPath, PutState, Fetch, TakeCursor, Receive, ReconcileNext, PassThrough, Commit,
                   Restart, Annotate, Create, vars
<1> SUFFICES ASSUME setup.projection # "flat", Clashes' = {} PROVE HandledKept' /\ BatchTold' /\ SeenTold'
  BY <1>0 DEF Kept
<1>1. Clashes = {}
  BY <1>0 DEF Clashes
<1>2. HandledKept /\ BatchTold /\ SeenTold
  BY <1>1 DEF Kept
<1>3. Functional(Pairs)
  BY <1>1, PairsFunctional DEF Shape
<1>4. CASE UNCHANGED <<store, task, seen, handled>>
  <2>1. Pairs' = Pairs /\ StorePairs' = StorePairs /\ InHand' = InHand
    BY <1>4 DEF Pairs, StorePairs, InHand
  <2> QED BY <1>0, <1>2, <1>4, <2>1 DEF HandledKept, BatchTold, SeenTold, Told, Stored
<1>5. ASSUME NothingNew, UNCHANGED <<seen, handled, given>>, task'.pc = task.pc, task'.batch = task.batch
      PROVE  HandledKept' /\ BatchTold' /\ SeenTold'
  <2>1. Pairs' = Pairs /\ StorePairs \subseteq StorePairs'
    BY <1>3, <1>5, PairsStay
  <2>2. InHand' = InHand
    BY <1>5 DEF InHand
  <2> QED BY <1>0, <1>2, <1>5, <2>1, <2>2 DEF HandledKept, BatchTold, SeenTold, Told, Stored
<1>6. CASE ReconcileNext
  BY <1>5, <1>6, ReconcilePairs DEF ReconcileNext, Shape, TaskOK
<1>7. CASE PassThrough
  BY <1>5, <1>7, PassPairs DEF PassThrough, Shape, TaskOK
<1>8. ASSUME NEW id \in DOMAIN store.nodes, Annotate(id) PROVE HandledKept' /\ BatchTold' /\ SeenTold'
  BY <1>5, <1>8, AnnotatePairs DEF Annotate
<1>9. ASSUME NEW node \in Range(task.raw.nodes) \cup Range(task.out), Create(node)
      PROVE  HandledKept' /\ BatchTold' /\ SeenTold'
  BY <1>5, <1>9, CreatePairs DEF Create
<1>10. CASE Commit
  <2>1. Pairs' = Pairs /\ StorePairs \subseteq StorePairs' /\ Pairs' = StorePairs'
    BY <1>3, <1>10, CommitPairs, PairsStay
  <2>2. /\ task'.pc = "recv" /\ UNCHANGED <<seen, given>> /\ task.pc = "reconcile"
        /\ handled'.events = handled.events \cup {The(task.batch).events[i].payload : i \in DOMAIN The(task.batch).events}
    BY <1>10 DEF Commit, Waiting
  <2>3. The(task.batch) \in task.batch
    BY <2>2, TheOfSome DEF TaskInv
  <2>4. handled'.events \subseteq handled.events \cup InHand
    BY <2>2, <2>3 DEF InHand
  <2>5. \A e \in InHand : Stored(e)' \/ e \in dropped'
    BY <1>0, <1>2, <2>1, <2>2 DEF BatchTold, Told, Stored
  <2>6. \A e : Stored(e) => Stored(e)'
    BY <2>1 DEF Stored
  <2> QED BY <1>0, <1>2, <2>2, <2>4, <2>5, <2>6 DEF HandledKept, BatchTold, SeenTold
<1>11. CASE Restart
  <2>1. /\ store' = store /\ handled' = handled /\ task'.pc = "recv" /\ given' = given
        /\ \/ seen'.events = {}
           \/ seen' = seen /\ (setup.projection = "snapshot_diff" => InHand \subseteq dropped')
    BY <1>11 DEF Restart, Waiting, NothingSeen, InHand
  <2>2. \A e : Stored(e)' <=> Stored(e)
    BY <2>1 DEF Stored, StorePairs
  <2>3. HandledKept' /\ BatchTold'
    BY <1>0, <1>2, <2>1, <2>2 DEF HandledKept, BatchTold
  <2>4. CASE seen'.events = {}
    BY <2>3, <2>4 DEF SeenTold
  <2>5. CASE seen' = seen /\ (setup.projection = "snapshot_diff" => InHand \subseteq dropped')
    <3>1. ASSUME setup.projection = "snapshot_diff", NEW k \in seen.events
          PROVE  \E g \in given : k = <<g[1], g[2]>> /\ (Stored(g[3])' \/ g[3] \in dropped')
      BY <1>0, <1>2, <2>2, <2>5, <3>1 DEF SeenTold
    <3> QED BY <1>0, <2>1, <2>3, <2>5, <3>1 DEF SeenTold
  <2> QED BY <2>1, <2>4, <2>5
<1>12. CASE Receive
  <2> DEFINE b == The(poll.batch)
  <2>1. /\ UNCHANGED <<store, handled, given, dropped>> /\ task.pc = "recv" /\ b \in poll.batch
        /\ \/ task' = [pc |-> "failed", batch |-> Some(b), raw |-> EmptyDelta, out |-> <<>>]
           \/ task' = [pc |-> "reconcile", batch |-> Some(b), raw |-> Project(b).delta, out |-> <<>>]
        /\ seen' = IF setup.projection = "snapshot_diff" THEN MarkSeen(seen, b, setup.minting) ELSE seen
    BY <1>12, Received
  <2>2. StorePairs' = StorePairs
    BY <1>12, ReceivePairs
  <2>3. HandledKept'
    BY <1>2, <2>1, <2>2 DEF HandledKept, Stored
  <2>4. task'.batch = {b}
    BY <2>1 DEF Some
  <2>5. InHand = {} /\ InHand' = {b.events[i].payload : i \in DOMAIN b.events}
    BY <2>1, <2>4 DEF InHand, TaskInv, None
  <2>6. BatchTold'
    <3> SUFFICES ASSUME task'.pc = "reconcile", NEW e \in InHand' PROVE e \in dropped' \/ Told(e)'
      BY DEF BatchTold
    <3>1. PICK i \in DOMAIN b.events : e = b.events[i].payload
      BY <2>5
    <3>2. e \in dropped \/ \E pr \in Pairs' : pr[2] = {e}
      BY <1>1, <1>2, <1>12, <3>1, ReceiveTells
    <3> QED BY <1>0, <3>2 DEF Told
  <2>7. ASSUME setup.projection = "snapshot_diff", NEW k \in seen'.events
        PROVE  \E g \in given' : k = <<g[1], g[2]>> /\ (Stored(g[3])' \/ g[3] \in dropped' \cup InHand')
    <3>1. CASE k \in seen.events
      <4>1. PICK g \in given : k = <<g[1], g[2]>> /\ (Stored(g[3]) \/ g[3] \in dropped \cup InHand)
        BY <1>2, <2>7, <3>1 DEF SeenTold
      <4> QED BY <2>1, <2>2, <2>5, <4>1 DEF Stored
    <3>2. ASSUME NEW i \in DOMAIN b.events, NEW g \in given, k = <<g[1], g[2]>>, g[3] = b.events[i].payload
          PROVE  \E h \in given' : k = <<h[1], h[2]>> /\ (Stored(h[3])' \/ h[3] \in dropped' \cup InHand')
      BY <2>1, <2>5, <3>2
    <3>3. k \in MarkSeen(seen, b, setup.minting).events
      BY <2>1, <2>7
    <3> HIDE DEF b
    <3> QED BY <2>1, <3>1, <3>2, <3>3, MarksGiven
  <2> QED BY <1>0, <2>3, <2>6, <2>7 DEF SeenTold
<1> QED BY <1>4, <1>6, <1>7, <1>8, <1>9, <1>10, <1>11, <1>12
        DEF Next, Grow, PushPath, PutState, Fetch, TakeCursor, vars

\* What the parts say of the store.
LEMMA KeptEvents ==
    ASSUME Shape, GivenInv, PairsInv, Kept
    PROVE  EventsKeepTheirNodes
<1> SUFFICES ASSUME setup.projection # "flat", Clashes = {}, NEW e \in handled.events
             PROVE  LET nodes == NodesOf("event_payload", e)
                    IN  /\ nodes = {} => e \in dropped
                        /\ setup.source = "memory" /\ Named => Cardinality(nodes) <= 1
  BY DEF EventsKeepTheirNodes
<1> DEFINE nodes == NodesOf("event_payload", e)
<1>1. \A id : id \in nodes <=> id \in DOMAIN store.nodes /\ Said(store.nodes[id]) = {e}
  BY DEF NodesOf, Has, Said
<1> HIDE DEF nodes
<1>2. nodes = {} => e \in dropped
  BY <1>1 DEF Kept, HandledKept, Stored, StorePairs, Pair
<1>3. ASSUME setup.source = "memory", Named PROVE Cardinality(nodes) <= 1
  <2>1. ASSUME NEW n \in nodes
        PROVE  \E g \in given : n = MintEvent(setup.minting, EventAt(g[3], g[2]), 0) /\ g[3] = e
    <3>1. n \in DOMAIN store.nodes /\ store.nodes[n].id = n /\ Said(store.nodes[n]) = {e}
      BY <1>1 DEF Shape, StoreOK
    <3>2. <<n, {e}>> \in Pairs
      BY <3>1 DEF Pairs, StorePairs, Pair
    <3>3. GoodPair(<<n, {e}>>, 0, fresh)
      BY <3>2 DEF PairsInv
    <3> QED BY <1>3, <3>3 DEF GoodPair
  <2>2. \A g, h \in given : g[3] = e /\ h[3] = e => g[2] = h[2]
    BY <1>3 DEF GivenInv
  <2>3. \A n, m \in nodes : n = m
    BY <2>1, <2>2
  <2>4. CASE nodes = {}
    BY <2>4, FS_EmptySet
  <2>5. ASSUME NEW id \in nodes PROVE Cardinality(nodes) <= 1
    <3>1. nodes = {id}
      BY <2>3, <2>5
    <3> QED BY <3>1, FS_Singleton
  <2> QED BY <2>4, <2>5
<1> QED BY <1>2, <1>3 DEF nodes

\* However often a journal is read again, after restarts that keep or replace
\* the mode and the projection, and beside another writer: as long as the
\* source gives no two events of an actor one position, every event of a
\* committed batch has its node, unless a SnapshotDiffProjection that is used
\* again had marked it in a batch that was not committed; and with the
\* in-memory source and names that are not random no event has two
\* (strategy.rs, mint_event; snapshot_diff.rs:93-96, projector.rs:111).
THEOREM EventsAlwaysKeepTheirNodes == Spec => []EventsKeepTheirNodes
<1> DEFINE Base == GivenInv /\ TaskInv /\ PairsInv /\ DrawnOnce
<1>1. Init => Kept
  <2> SUFFICES ASSUME Init PROVE Kept
    OBVIOUS
  <2>1. handled.events = {} /\ seen.events = {} /\ task.pc = "recv"
    BY DEF Init, Waiting, NothingSeen
  <2> QED BY <2>1 DEF Kept, HandledKept, BatchTold, SeenTold
<1>2. Shape /\ Base /\ Kept /\ [Next]_vars => Kept'
  BY KeptStep
<1>3. Shape /\ Base /\ Kept => EventsKeepTheirNodes
  BY KeptEvents
<1> QED BY <1>1, <1>2, <1>3, IngestionShape, PairsAlways, PTL DEF Spec

----------------------------------------------------------------------------
(* The supervision tree. *)

\* The name of an actor.
ActorId(p) == <<"actor", p>>

\* The first segments of a path, at most k; those of all paths in a set.
Upto(s, k) == {SubSeq(s, 1, d) : d \in 1 .. k}
AllPrefixes(D) == UNION {Upto(p, Len(p)) : p \in D}

\* The edge to a prefix from the one above it.
Above(p) == <<ActorId(Front(p)), "supervises", ActorId(p)>>
Supervision(P) == {Above(p) : p \in {q \in P : Len(q) > 1}}

Ids(list) == {list[i].id : i \in DOMAIN list}
Actors(ids) == {id \in ids : id[1] = "actor"}
Supervising(edges) == {e \in edges : e[2] = "supervises"}

\* Nodes and edges, by their identifiers, are the tree of some prefixes, with
\* whatever else hangs off it.
TreeOf(P, ids, edges) ==
    /\ Actors(ids) = {ActorId(p) : p \in P}
    /\ Supervising(edges) = Supervision(P)
    /\ \A e \in edges : e[1] \in ids /\ e[3] \in ids

\* The same with some more actors beside it.
TreeBeside(P, ids, edges, extra) ==
    /\ {ActorId(p) : p \in P} \subseteq ids
    /\ Actors(ids) \subseteq {ActorId(p) : p \in P} \cup extra
    /\ Supervising(edges) = Supervision(P)
    /\ \A e \in edges : e[1] \in ids /\ e[3] \in ids

\* A node of the hierarchical projection: an actor, which has its path, or not.
TreeNode(n) ==
    /\ IsList(n.types)
    /\ \/ \E p : n.id = ActorId(p) /\ Has(n, "path", p) /\ HasType(n, "Actor")
       \/ n.id[1] # "actor" /\ "path" \notin DOMAIN n.properties /\ ~HasType(n, "Actor")

\* A tree joins another that has actors beside it.
LEMMA TreesJoin ==
    ASSUME NEW P, NEW Q, NEW ids, NEW others, NEW edges, NEW links, NEW extra,
           TreeBeside(P, ids, edges, extra), TreeOf(Q, others, links)
    PROVE  TreeBeside(P \cup Q, ids \cup others, edges \cup links, extra)
<1>1. /\ {ActorId(p) : p \in P \cup Q} \subseteq ids \cup others
      /\ Actors(ids \cup others) \subseteq {ActorId(p) : p \in P \cup Q} \cup extra
  <2>1. Actors(ids \cup others) = Actors(ids) \cup Actors(others) /\ Actors(others) \subseteq others
    BY DEF Actors
  <2>2. {ActorId(p) : p \in P \cup Q} = {ActorId(p) : p \in P} \cup {ActorId(p) : p \in Q}
    OBVIOUS
  <2> QED BY <2>1, <2>2 DEF TreeOf, TreeBeside
<1>2. Supervising(edges \cup links) = Supervision(P \cup Q)
  <2>1. Supervising(edges \cup links) = Supervising(edges) \cup Supervising(links)
    BY DEF Supervising
  <2>2. Supervision(P \cup Q) = Supervision(P) \cup Supervision(Q)
    BY DEF Supervision
  <2> QED BY <2>1, <2>2 DEF TreeOf, TreeBeside
<1>3. \A e \in edges \cup links : e[1] \in ids \cup others /\ e[3] \in ids \cup others
  BY DEF TreeOf, TreeBeside
<1> QED BY <1>1, <1>2, <1>3 DEF TreeBeside

\* More actors may stand beside a tree.
LEMMA TreeBesideMore ==
    ASSUME NEW P, NEW ids, NEW more, NEW edges, NEW extra, NEW wide,
           TreeBeside(P, ids, edges, extra), ids \subseteq more, more \subseteq ids \cup wide, extra \subseteq wide
    PROVE  TreeBeside(P, more, edges, wide)
<1>1. Actors(more) \subseteq Actors(ids) \cup wide
  BY DEF Actors
<1> QED BY <1>1 DEF TreeBeside

\* The prefixes of two sets of paths.
LEMMA PrefixesJoin ==
    ASSUME NEW D, NEW E
    PROVE  AllPrefixes(D \cup E) = AllPrefixes(D) \cup AllPrefixes(E)
BY DEF AllPrefixes

\* What Append does to the identifiers of a list.
LEMMA IdsAppend ==
    ASSUME NEW s, NEW x, IsList(s)
    PROVE  /\ IsList(Append(s, x)) /\ Ids(Append(s, x)) = Ids(s) \cup {x.id}
           /\ \A i \in DOMAIN Append(s, x) : Append(s, x)[i] = x \/ \E j \in DOMAIN s : Append(s, x)[i] = s[j]
<1>1. /\ IsList(Append(s, x)) /\ Len(Append(s, x)) = Len(s) + 1
      /\ \A i \in DOMAIN s : Append(s, x)[i] = s[i]
      /\ Append(s, x)[Len(s) + 1] = x
  BY ListAppend
<1>2. DOMAIN Append(s, x) = 1..(Len(s) + 1) /\ Len(s) \in Nat /\ DOMAIN s = 1..Len(s)
  BY <1>1, ListDomain
<1>3. DOMAIN Append(s, x) = DOMAIN s \cup {Len(s) + 1}
  BY <1>2
<1> DEFINE all == Append(s, x)
<1> HIDE DEF all
<1>4. /\ IsList(all) /\ DOMAIN all = DOMAIN s \cup {Len(s) + 1} /\ all[Len(s) + 1] = x
      /\ \A i \in DOMAIN s : all[i] = s[i]
  BY <1>1, <1>3 DEF all
<1>5. Ids(all) = Ids(s) \cup {x.id}
  BY <1>4 DEF Ids
<1>6. \A i \in DOMAIN all : all[i] = x \/ \E j \in DOMAIN s : all[i] = s[j]
  BY <1>4
<1> QED BY <1>4, <1>5, <1>6 DEF all

\* A prefix of several segments, under the one above it.
LEMMA TreeGrows ==
    ASSUME NEW P, NEW ids, NEW edges, TreeOf(P, ids, edges), NEW q, Len(q) > 1, Front(q) \in P
    PROVE  TreeOf(P \cup {q}, ids \cup {ActorId(q)}, edges \cup {Above(q)})
<1>1. Actors(ids \cup {ActorId(q)}) = Actors(ids) \cup {ActorId(q)}
  BY DEF Actors, ActorId
<1>2. Supervising(edges \cup {Above(q)}) = Supervising(edges) \cup {Above(q)}
  BY DEF Supervising, Above
<1>3. Supervision(P \cup {q}) = Supervision(P) \cup {Above(q)}
  BY DEF Supervision
<1>4. ActorId(Front(q)) \in ids
  BY DEF TreeOf, Actors
<1>5. Above(q)[1] = ActorId(Front(q)) /\ Above(q)[3] = ActorId(q)
  BY DEF Above
<1> QED BY <1>1, <1>2, <1>3, <1>4, <1>5 DEF TreeOf

\* A root.
LEMMA TreeRoot ==
    ASSUME NEW P, NEW ids, NEW edges, TreeOf(P, ids, edges), NEW q, ~(Len(q) > 1)
    PROVE  TreeOf(P \cup {q}, ids \cup {ActorId(q)}, edges)
<1>1. Actors(ids \cup {ActorId(q)}) = Actors(ids) \cup {ActorId(q)}
  BY DEF Actors, ActorId
<1>2. Supervision(P \cup {q}) = Supervision(P)
  BY DEF Supervision
<1> QED BY <1>1, <1>2 DEF TreeOf

\* A node that is no actor, and an edge to it from an actor.
LEMMA TreeLeaf ==
    ASSUME NEW P, NEW ids, NEW edges, TreeOf(P, ids, edges), NEW x, x[1] # "actor",
           NEW label, label # "supervises"
    PROVE  /\ TreeOf(P, ids \cup {x}, edges)
           /\ \A p \in P : TreeOf(P, ids \cup {x}, edges \cup {<<ActorId(p), label, x>>})
<1>1. Actors(ids \cup {x}) = Actors(ids)
  BY DEF Actors
<1>2. TreeOf(P, ids \cup {x}, edges)
  BY <1>1 DEF TreeOf
<1>3. ASSUME NEW p \in P PROVE TreeOf(P, ids \cup {x}, edges \cup {<<ActorId(p), label, x>>})
  <2> DEFINE e == <<ActorId(p), label, x>>
  <2>1. e[1] = ActorId(p) /\ e[2] = label /\ e[3] = x
    OBVIOUS
  <2> HIDE DEF e
  <2>2. Supervising(edges \cup {e}) = Supervising(edges)
    BY <2>1 DEF Supervising
  <2>3. ActorId(p) \in ids
    BY DEF TreeOf, Actors
  <2>4. TreeOf(P, ids \cup {x}, edges \cup {e})
    BY <1>2, <2>1, <2>2, <2>3 DEF TreeOf
  <2> QED BY <2>4 DEF e
<1> QED BY <1>2, <1>3

----------------------------------------------------------------------------
(* The hierarchical projection builds the tree. *)

\* What is known of an accumulator: the prefixes that have a node, and some
\* edges that are there.
TreeOver(P, E, acc) ==
    /\ IsList(acc.delta.nodes) /\ IsList(acc.delta.edges)
    /\ \A i \in DOMAIN acc.delta.nodes : TreeNode(acc.delta.nodes[i])
    /\ acc.ids = [p \in P |-> ActorId(p)]
    /\ TreeOf(P, Ids(acc.delta.nodes), Ids(acc.delta.edges))
    /\ E \subseteq Ids(acc.delta.edges)

\* ... and, after the first k segments of a path, the node above the next.
TreeAt(P, E, s, k, acc) ==
    /\ TreeOver(P, E, acc)
    /\ k = 0 => acc.above = None
    /\ k # 0 => acc.above = Some(ActorId(SubSeq(s, 1, k))) /\ SubSeq(s, 1, k) \in P

\* The node of a prefix.
LEMMA ActorTreeNode ==
    ASSUME NEW p, NEW iri, NEW type, NEW props, "path" \in DOMAIN props, props["path"] = p
    PROVE  TreeNode(Node(ActorId(p), iri, <<"Actor", type>>, props))
<1> DEFINE n == Node(ActorId(p), iri, <<"Actor", type>>, props)
<1>1. n.id = ActorId(p) /\ n.types = <<"Actor", type>> /\ n.properties = props
  BY DEF Node
<1>2. <<"Actor", type>> \in Seq({"Actor", type}) /\ 1 \in DOMAIN <<"Actor", type>> /\ <<"Actor", type>>[1] = "Actor"
  OBVIOUS
<1> HIDE DEF n
<1>3. IsList(n.types)
  BY <1>1, <1>2, Zenon DEF IsList
<1>4. Has(n, "path", p)
  BY <1>1 DEF Has
<1>5. HasType(n, "Actor")
  BY <1>1, <1>2 DEF HasType
<1> QED BY <1>1, <1>3, <1>4, <1>5 DEF TreeNode, n

\* The node of an event or a state.
LEMMA LeafTreeNode ==
    ASSUME NEW id, id[1] # "actor", NEW iri, NEW type, type # "Actor", NEW props, "path" \notin DOMAIN props
    PROVE  TreeNode(Node(id, iri, <<type>>, props))
<1> DEFINE n == Node(id, iri, <<type>>, props)
<1>1. n.id = id /\ n.types = <<type>> /\ n.properties = props
  BY DEF Node
<1>2. <<type>> \in Seq({type}) /\ DOMAIN <<type>> = {1} /\ <<type>>[1] = type
  OBVIOUS
<1> HIDE DEF n
<1>3. IsList(n.types)
  BY <1>1, <1>2, Zenon DEF IsList
<1>4. ~HasType(n, "Actor")
  BY <1>1, <1>2 DEF HasType
<1> QED BY <1>1, <1>3, <1>4 DEF TreeNode, n

\* The first segments of a path, one after the other.
LEMMA PrefixOf ==
    ASSUME NEW s \in Seq(STRING), NEW d \in 1..Len(s)
    PROVE  /\ Len(SubSeq(s, 1, d)) = d
           /\ d > 1 => Front(SubSeq(s, 1, d)) = SubSeq(s, 1, d - 1) /\ d - 1 \in 1..Len(s)
<1>1. /\ Len(s) \in Nat /\ d \in Nat /\ 1 <= d /\ d <= Len(s)
      /\ SubSeq(s, 1, d) \in Seq(STRING) /\ Len(SubSeq(s, 1, d)) = d
      /\ \A i \in 1..d : SubSeq(s, 1, d)[i] = s[i]
  OBVIOUS
<1>2. ASSUME d > 1 PROVE Front(SubSeq(s, 1, d)) = SubSeq(s, 1, d - 1) /\ d - 1 \in 1..Len(s)
  <2> DEFINE t == SubSeq(s, 1, d)
  <2>1. t \in Seq(STRING) /\ Len(t) = d /\ \A i \in 1..d : t[i] = s[i]
    BY <1>1
  <2> HIDE DEF t
  <2>2. d - 1 \in 1..Len(s) /\ d - 1 \in Nat
    BY <1>1, <1>2
  <2>3. SubSeq(t, 1, d - 1) = SubSeq(s, 1, d - 1)
    BY <1>1, <2>1, <2>2
  <2> QED BY <2>1, <2>2, <2>3 DEF Front, t
<1> QED BY <1>1, <1>2

\* One segment of insert_path: its prefix has a node then, linked to the one
\* above.
LEMMA PrefixGrows ==
    ASSUME NEW minting, minting # "uuid", NEW path, PlainPath(path), NEW d \in 1..Len(path.segments),
           NEW P, NEW E, NEW acc, TreeAt(P, E, path.segments, d - 1, acc)
    PROVE  TreeAt(P \cup {SubSeq(path.segments, 1, d)}, E, path.segments, d, InsertPrefix(minting, path, acc, d))
<1> DEFINE q     == SubSeq(path.segments, 1, d)
           res   == InsertPrefix(minting, path, acc, d)
           own   == [path |-> q, depth |-> d - 1]
           extra == IF d = Len(path.segments) THEN path.attributes ELSE EmptyMap
           type  == TypeForSegment(path.segments[d])
           iri   == IriFor(minting, ActorId(q))
           node  == Node(ActorId(q), iri, <<"Actor", type>>, Overlay(extra, own))
           nodes == IF q \notin P THEN Append(acc.delta.nodes, node) ELSE acc.delta.nodes
           link  == Edge(The(acc.above), "supervises", ActorId(q))
           edges == IF d = 1 THEN acc.delta.edges ELSE Append(acc.delta.edges, link)
           ids   == IF q \notin P THEN Put(acc.ids, q, ActorId(q)) ELSE acc.ids
<1>0. /\ d \in Nat /\ (d = 1 \/ d > 1) /\ TreeOver(P, E, acc)
      /\ d = 1 => acc.above = None
      /\ d > 1 => /\ acc.above = Some(ActorId(SubSeq(path.segments, 1, d - 1)))
                  /\ SubSeq(path.segments, 1, d - 1) \in P
  BY DEF TreeAt, PlainPath
<1>1. /\ DOMAIN acc.ids = P /\ (\A p \in P : acc.ids[p] = ActorId(p))
      /\ IsList(acc.delta.nodes) /\ IsList(acc.delta.edges)
      /\ \A i \in DOMAIN acc.delta.nodes : TreeNode(acc.delta.nodes[i])
      /\ TreeOf(P, Ids(acc.delta.nodes), Ids(acc.delta.edges)) /\ E \subseteq Ids(acc.delta.edges)
  BY <1>0 DEF TreeOver
<1>3. acc.above = None <=> d = 1
  BY <1>0 DEF Some, None
<1>4. MintActor(minting, q, acc.fresh) = ActorId(q)
  BY DEF MintActor, ActorId
<1>5. res.delta.nodes = nodes /\ res.delta.edges = edges /\ res.ids = ids /\ res.above = Some(ActorId(q))
  <2>1. /\ res.delta = IF d = 1 THEN IF q \notin P THEN AddNode(acc.delta, node) ELSE acc.delta
                       ELSE AddEdge(IF q \notin P THEN AddNode(acc.delta, node) ELSE acc.delta, link)
        /\ res.ids = ids /\ res.above = Some(ActorId(q))
    BY <1>1, <1>3, <1>4 DEF InsertPrefix
  <2> HIDE DEF node, link, ids, q, res
  <2> QED BY <2>1 DEF AddNode, AddEdge
<1>6. TreeNode(node) /\ node.id = ActorId(q)
  <2>1. "path" \notin DOMAIN extra
    BY DEF PlainPath, EmptyMap
  <2>2. "path" \in DOMAIN Overlay(extra, own) /\ Overlay(extra, own)["path"] = q
    <3> HIDE DEF extra, q
    <3> QED BY <2>1 DEF Overlay
  <2> HIDE DEF extra, own, iri, type, q
  <2> QED BY <2>2, ActorTreeNode DEF Node
<1>7. d > 1 => link.id = Above(q)
  <2>1. d > 1 => The(acc.above) = ActorId(SubSeq(path.segments, 1, d - 1))
    BY <1>0 DEF The, Some
  <2>2. d > 1 => Front(q) = SubSeq(path.segments, 1, d - 1)
    BY PrefixOf DEF PlainPath
  <2> HIDE DEF q
  <2> QED BY <2>1, <2>2 DEF Edge, Above
<1>8. Len(q) = d /\ (d > 1 => Front(q) \in P)
  BY <1>0, PrefixOf DEF PlainPath
<1> HIDE DEF res, node, link, q
<1>9. /\ IsList(nodes) /\ (\A i \in DOMAIN nodes : TreeNode(nodes[i]))
      /\ Ids(nodes) = Ids(acc.delta.nodes) \cup {ActorId(q)}
  <2>1. CASE q \notin P
    <3> DEFINE old == acc.delta.nodes
    <3>1. /\ IsList(Append(old, node)) /\ Ids(Append(old, node)) = Ids(old) \cup {node.id}
          /\ \A i \in DOMAIN Append(old, node) :
                Append(old, node)[i] = node \/ \E j \in DOMAIN old : Append(old, node)[i] = old[j]
      BY <1>1, IdsAppend
    <3> QED BY <1>1, <1>6, <2>1, <3>1
  <2>2. CASE q \in P
    <3>1. ActorId(q) \in Ids(acc.delta.nodes)
      BY <1>1, <2>2 DEF TreeOf, Actors
    <3> QED BY <1>1, <2>2, <3>1
  <2> QED BY <2>1, <2>2
<1>10. IsList(edges) /\ Ids(edges) = Ids(acc.delta.edges) \cup IF d = 1 THEN {} ELSE {Above(q)}
  BY <1>0, <1>1, <1>7, IdsAppend
<1>11. ids = [p \in P \cup {q} |-> ActorId(p)]
  <2>1. acc.ids = [p \in P |-> ActorId(p)]
    BY <1>0 DEF TreeOver
  <2>2. CASE q \in P
    BY <2>1, <2>2
  <2>3. CASE q \notin P
    <3>1. ids = [k \in P \cup {q} |-> IF k = q THEN ActorId(q) ELSE acc.ids[k]]
      BY <1>1, <2>3 DEF Put
    <3> HIDE DEF ids
    <3> QED BY <1>1, <3>1
  <2> QED BY <2>2, <2>3
<1> HIDE DEF nodes, edges, ids
<1>12. TreeOf(P \cup {q}, Ids(nodes), Ids(edges))
  <2>1. CASE d = 1
    <3>1. ~(Len(q) > 1) /\ Ids(edges) = Ids(acc.delta.edges)
      BY <1>8, <1>10, <2>1
    <3> QED BY <1>1, <1>9, <3>1, TreeRoot
  <2>2. CASE d > 1
    BY <1>1, <1>8, <1>9, <1>10, <2>2, TreeGrows
  <2> QED BY <1>0, <2>1, <2>2
<1>13. TreeOver(P \cup {q}, E, res)
  BY <1>1, <1>5, <1>9, <1>10, <1>11, <1>12 DEF TreeOver
<1> QED BY <1>0, <1>5, <1>13 DEF q, res, TreeAt


\* The paths of some events, and the edges to those events from their actors.
PathsOf(evs) == {p.segments : p \in UNION {ev.path : ev \in evs}}
Emissions(minting, evs) ==
    UNION {{<<ActorId(p.segments), "emitted", MintEvent(minting, ev, 0)>> : p \in {q \in ev.path : q.segments # <<>>}} :
              ev \in evs}

\* What is known in the middle of a path, of the paths, of the events and of
\* the states of a batch.
PrefixTree(c, path, seq, k, acc) ==
    TreeAt(c.known \cup Upto(path.segments, k), c.edges, path.segments, k, acc)
PathTree(c, none, seq, k, acc)  == TreeOver(AllPrefixes({seq[i].segments : i \in 1..k}), {}, acc)
EventTree(c, none, seq, k, acc) ==
    TreeOver(AllPrefixes(c.known \cup PathsOf({seq[i] : i \in 1..k})), Emissions(c.minting, {seq[i] : i \in 1..k}), acc)
StateTree(c, none, seq, k, acc) == TreeOver(c.known, c.edges, acc)

GrowPrefixes == INSTANCE FoldInduction WITH op <- DrawPrefix, Inv <- PrefixTree
GrowPaths    == INSTANCE FoldInduction WITH op <- DrawPath, Inv <- PathTree
GrowEvents   == INSTANCE FoldInduction WITH op <- DrawEvent, Inv <- EventTree
GrowStates   == INSTANCE FoldInduction WITH op <- DrawState, Inv <- StateTree

\* insert_path: every prefix of the path is in the tree.
LEMMA PathGrows ==
    ASSUME NEW minting, minting # "uuid", NEW path, PlainPath(path), NEW P, NEW E, NEW acc, TreeOver(P, E, acc)
    PROVE  TreeOver(P \cup Upto(path.segments, Len(path.segments)), E, InsertPath(minting, acc, path))
<1> DEFINE c    == [minting |-> minting, known |-> P, edges |-> E]
           seq  == [i \in DOMAIN path.segments |-> i]
           base == [delta |-> acc.delta, ids |-> acc.ids, above |-> None, fresh |-> acc.fresh]
           n    == Len(path.segments)
<1>0. c.minting = minting /\ c.known = P /\ c.edges = E
  OBVIOUS
<1> HIDE DEF c
<1>1. n \in Nat /\ DOMAIN path.segments = 1..n
  BY DEF PlainPath
<1>2. Len(seq) = n /\ DOMAIN seq = 1..Len(seq) /\ \A i \in 1..n : seq[i] = i
  BY <1>1
<1>3. InsertPath(minting, acc, path) = GrowPrefixes!Folded(c, path, base, seq)
  BY <1>0 DEF InsertPath, DrawPrefix, GrowPrefixes!Folded, FoldLeft, MapThenFoldSet,
         GrowPrefixes!MapThenFoldSet, Max, GrowPrefixes!Greatest
<1>4. PrefixTree(c, path, seq, 0, base)
  <2>1. P \cup Upto(path.segments, 0) = P
    BY DEF Upto
  <2>2. TreeOver(P, E, base) /\ base.above = None
    BY DEF TreeOver
  <2> HIDE DEF base
  <2> QED BY <1>0, <2>1, <2>2 DEF PrefixTree, TreeAt
<1> HIDE DEF seq, base, n
<1>5. ASSUME NEW k \in 1..Len(seq), NEW a, PrefixTree(c, path, seq, k - 1, a)
      PROVE  PrefixTree(c, path, seq, k, DrawPrefix(c, path, a, seq[k]))
  <2> DEFINE s == path.segments
             Q == P \cup Upto(s, k - 1)
             q == SubSeq(s, 1, k)
             res == InsertPrefix(minting, path, a, k)
  <2>1. k \in Nat /\ k >= 1 /\ k \in 1..Len(s) /\ seq[k] = k
    BY <1>1, <1>2 DEF n
  <2>2. TreeAt(Q, E, s, k - 1, a)
    BY <1>0, <1>5 DEF PrefixTree
  <2>3. Q \cup {q} = P \cup Upto(s, k)
    <3>1. 1..k = (1..(k - 1)) \cup {k}
      BY <2>1
    <3> QED BY <3>1 DEF Upto
  <2> HIDE DEF Q
  <2>4. TreeAt(Q \cup {q}, E, s, k, res)
    BY <2>1, <2>2, PrefixGrows
  <2>5. DrawPrefix(c, path, a, seq[k]) = res
    BY <1>0, <2>1 DEF DrawPrefix
  <2> HIDE DEF res, q
  <2>6. PrefixTree(c, path, seq, k, res)
    BY <1>0, <2>3, <2>4 DEF PrefixTree
  <2> QED BY <2>5, <2>6
<1>6. PrefixTree(c, path, seq, Len(seq), GrowPrefixes!Folded(c, path, base, seq))
  BY <1>1, <1>2, <1>4, <1>5, GrowPrefixes!FoldKeeps
<1> QED BY <1>0, <1>2, <1>3, <1>6 DEF PrefixTree, TreeAt, n


\* A node that is no actor joins, and maybe an edge to it from an actor.
LEMMA LeafGrows ==
    ASSUME NEW P, NEW E, NEW acc, TreeOver(P, E, acc), NEW node, TreeNode(node), node.id[1] # "actor",
           NEW label, label # "supervises", NEW res, res.ids = acc.ids,
           res.delta.nodes = Append(acc.delta.nodes, node)
    PROVE  /\ res.delta.edges = acc.delta.edges => TreeOver(P, E, res)
           /\ \A p \in P : res.delta.edges = Append(acc.delta.edges, Edge(acc.ids[p], label, node.id))
                              => TreeOver(P, E \cup {<<ActorId(p), label, node.id>>}, res)
<1> DEFINE nodes == acc.delta.nodes
           edges == acc.delta.edges
           all   == res.delta.nodes
<1>1. /\ IsList(nodes) /\ IsList(edges) /\ (\A i \in DOMAIN nodes : TreeNode(nodes[i]))
      /\ TreeOf(P, Ids(nodes), Ids(edges)) /\ E \subseteq Ids(edges)
      /\ acc.ids = [p \in P |-> ActorId(p)]
  BY DEF TreeOver
<1>2. /\ IsList(all) /\ Ids(all) = Ids(nodes) \cup {node.id}
      /\ \A i \in DOMAIN all : all[i] = node \/ \E j \in DOMAIN nodes : all[i] = nodes[j]
  BY <1>1, IdsAppend
<1>3. \A i \in DOMAIN all : TreeNode(all[i])
  BY <1>1, <1>2
<1> HIDE DEF nodes, edges, all
<1>4. /\ TreeOf(P, Ids(all), Ids(edges))
      /\ \A p \in P : TreeOf(P, Ids(all), Ids(edges) \cup {<<ActorId(p), label, node.id>>})
  <2> DEFINE I == Ids(nodes)
             L == Ids(edges)
             x == node.id
  <2>1. TreeOf(P, I, L) /\ x[1] # "actor"
    BY <1>1
  <2> HIDE DEF I, L, x
  <2>2. TreeOf(P, I \cup {x}, L) /\ \A p \in P : TreeOf(P, I \cup {x}, L \cup {<<ActorId(p), label, x>>})
    BY <2>1, TreeLeaf
  <2> QED BY <1>2, <2>2 DEF I, L, x
<1>5. ASSUME res.delta.edges = edges PROVE TreeOver(P, E, res)
  BY <1>1, <1>2, <1>3, <1>4, <1>5 DEF TreeOver, all
<1>6. ASSUME NEW p \in P, res.delta.edges = Append(edges, Edge(acc.ids[p], label, node.id))
      PROVE  TreeOver(P, E \cup {<<ActorId(p), label, node.id>>}, res)
  <2> DEFINE link == Edge(acc.ids[p], label, node.id)
  <2>1. link.id = <<ActorId(p), label, node.id>>
    BY <1>1 DEF Edge
  <2> HIDE DEF link
  <2>2. IsList(Append(edges, link)) /\ Ids(Append(edges, link)) = Ids(edges) \cup {link.id}
    BY <1>1, IdsAppend
  <2>3. IsList(res.delta.edges) /\ Ids(res.delta.edges) = Ids(edges) \cup {<<ActorId(p), label, node.id>>}
    BY <1>6, <2>1, <2>2 DEF link
  <2> QED BY <1>1, <1>2, <1>3, <1>4, <2>3 DEF TreeOver, all
<1> QED BY <1>5, <1>6 DEF edges

\* An event brings its path along, and hangs off the actor of that path.
LEMMA EventGrows ==
    ASSUME NEW minting \in Mintings, minting # "uuid", NEW ev, PlainEvent(ev), \A p, q \in ev.path : p = q,
           NEW D, NEW E, NEW acc, TreeOver(AllPrefixes(D), E, acc)
    PROVE  TreeOver(AllPrefixes(D \cup PathsOf({ev})), E \cup Emissions(minting, {ev}), InsertEvent(minting, acc, ev))
<1> DEFINE placed == IF ev.path = None THEN acc ELSE InsertPath(minting, acc, The(ev.path))
           id     == MintEvent(minting, ev, 0)
           node   == EventNode(id, minting, EventProperties(ev))
           res    == InsertEvent(minting, acc, ev)
           s      == The(ev.path).segments
           P      == AllPrefixes(D \cup PathsOf({ev}))
           made   == Emissions(minting, {ev})
           link   == Edge(placed.ids[s], "emitted", id)
           free   == ev.path = None \/ s \notin DOMAIN placed.ids
<1>1. id[1] = "event" /\ MintEvent(minting, ev, placed.fresh) = id
  BY DEF MintEvent, Mintings
<1>2. TreeNode(node) /\ node.id = id
  <2>1. "path" \notin DOMAIN EventProperties(ev)
    BY DEF EventProperties
  <2> HIDE DEF id
  <2> QED BY <1>1, <2>1, LeafTreeNode DEF EventNode, Node
<1>3. /\ res.ids = placed.ids
      /\ res.delta.nodes = Append(placed.delta.nodes, node)
      /\ free => res.delta.edges = placed.delta.edges
      /\ ~free => res.delta.edges = Append(placed.delta.edges, link)
  <2> HIDE DEF id, node, placed
  <2> QED BY <1>1 DEF InsertEvent, AddNode, AddEdge, node, placed
<1>4. TreeOver(P, E, placed)
  <2>1. CASE ev.path = None
    <3>1. PathsOf({ev}) = {}
      BY <2>1 DEF PathsOf, None
    <3> QED BY <2>1, <3>1
  <2>2. CASE ev.path # None
    <3>1. The(ev.path) \in ev.path
      BY <2>2, TheOfSome
    <3>2. PathsOf({ev}) = {s} /\ PlainPath(The(ev.path))
      BY <3>1 DEF PathsOf, PlainEvent
    <3>3. P = AllPrefixes(D) \cup Upto(s, Len(s))
      BY <3>2 DEF AllPrefixes
    <3> HIDE DEF P
    <3> QED BY <2>2, <3>2, <3>3, PathGrows
  <2> QED BY <2>1, <2>2
<1>5. \/ made = {}
      \/ made = {<<ActorId(s), "emitted", id>>} /\ s \in P /\ ev.path # None
  <2>1. CASE ev.path = None
    BY <2>1 DEF Emissions, None
  <2>2. CASE ev.path # None
    <3>1. The(ev.path) \in ev.path /\ ev.path = {The(ev.path)}
      BY <2>2, TheOfSome
    <3>2. s \in Seq(STRING) /\ PathsOf({ev}) = {s}
      BY <3>1 DEF PlainEvent, PlainPath, PathsOf
    <3>3. CASE s = <<>>
      BY <3>1, <3>3 DEF Emissions
    <3>4. CASE s # <<>>
      <4>1. made = {<<ActorId(s), "emitted", id>>}
        BY <3>1, <3>4 DEF Emissions
      <4>2. Len(s) \in 1..Len(s) /\ SubSeq(s, 1, Len(s)) = s
        BY <3>2, <3>4
      <4>3. s \in Upto(s, Len(s))
        BY <4>2 DEF Upto
      <4> HIDE DEF made, id, s
      <4> QED BY <2>2, <3>2, <4>1, <4>3 DEF AllPrefixes
    <3> QED BY <3>3, <3>4
  <2> QED BY <2>1, <2>2
<1> HIDE DEF res, P, made, id, node, s, placed
<1>6. DOMAIN placed.ids = P
  BY <1>4 DEF TreeOver
<1>7. CASE free
  <2>1. made = {}
    BY <1>5, <1>6, <1>7
  <2>2. TreeOver(P, E, res)
    BY <1>1, <1>2, <1>3, <1>4, <1>7, LeafGrows
  <2> QED BY <2>1, <2>2 DEF P, made, res
<1>8. CASE ~free
  <2>1. s \in P
    BY <1>6, <1>8
  <2>2. TreeOver(P, E \cup {<<ActorId(s), "emitted", id>>}, res)
    BY <1>1, <1>2, <1>3, <1>4, <1>8, <2>1, LeafGrows
  <2>3. TreeOver(P, E \cup made, res)
    BY <1>5, <2>2 DEF TreeOver
  <2> QED BY <2>3 DEF P, made, res
<1> QED BY <1>7, <1>8

\* A state hangs off an actor, or off none.
LEMMA StateGrows ==
    ASSUME NEW P, NEW E, NEW acc, TreeOver(P, E, acc), NEW state
    PROVE  TreeOver(P, E, InsertState(acc, state))
<1> DEFINE id      == <<"state", state.actor>>
           node    == StateNode(id, state)
           res     == InsertState(acc, state)
           holders == {p \in DOMAIN acc.ids : p[Len(p)] = state.actor}
           holder  == CHOOSE p \in holders : TRUE
<1>1. TreeNode(node) /\ node.id = id /\ id[1] # "actor"
  <2>1. id[1] = "state" /\ "path" \notin DOMAIN [actor_id |-> state.actor, state |-> state.payload]
    OBVIOUS
  <2> HIDE DEF id
  <2> QED BY <2>1, LeafTreeNode DEF StateNode, Node
<1> HIDE DEF id, node
<1>2. /\ res.ids = acc.ids
      /\ res.delta.nodes = Append(acc.delta.nodes, node)
      /\ \/ res.delta.edges = acc.delta.edges
         \/ holders # {} /\ res.delta.edges = Append(acc.delta.edges, Edge(acc.ids[holder], "holdsState", id))
  BY DEF InsertState, AddNode, AddEdge, node, id
<1>3. DOMAIN acc.ids = P
  BY DEF TreeOver
<1>4. holders # {} => holder \in P
  BY <1>3
<1> HIDE DEF holder, holders, res
<1>5. CASE res.delta.edges = acc.delta.edges
  BY <1>1, <1>2, <1>5, LeafGrows DEF res
<1>6. CASE holders # {} /\ res.delta.edges = Append(acc.delta.edges, Edge(acc.ids[holder], "holdsState", id))
  <2>1. TreeOver(P, E \cup {<<ActorId(holder), "holdsState", id>>}, res)
    BY <1>1, <1>2, <1>4, <1>6, LeafGrows
  <2> QED BY <2>1 DEF TreeOver, res
<1> QED BY <1>2, <1>5, <1>6


EventsOf(batch) == {batch.events[i] : i \in DOMAIN batch.events}

BatchPaths(batch) == {batch.paths[i].segments : i \in DOMAIN batch.paths} \cup PathsOf(EventsOf(batch))

\* A delta has the tree of the paths of a batch, and its events in it.
BatchTree(batch, minting, delta) ==
    /\ IsList(delta.nodes) /\ IsList(delta.edges)
    /\ \A i \in DOMAIN delta.nodes : TreeNode(delta.nodes[i])
    /\ TreeOf(AllPrefixes(BatchPaths(batch)), Ids(delta.nodes), Ids(delta.edges))
    /\ Emissions(minting, EventsOf(batch)) \subseteq Ids(delta.edges)

\* The hierarchical projection of any batch, with names that are not random.
LEMMA HierarchicalGrows ==
    ASSUME NEW batch, PlainBatch(batch), NEW minting \in Mintings, minting # "uuid", NEW n,
           \A ev \in EventsOf(batch) : \A p, q \in ev.path : p = q
    PROVE  BatchTree(batch, minting, Hierarchical(batch, minting, n).delta)
<1> DEFINE start  == [delta |-> EmptyDelta, ids |-> EmptyMap, above |-> None, fresh |-> n]
           paths  == FoldLeft(LAMBDA a, p : InsertPath(minting, a, p), start, batch.paths)
           events == FoldLeft(LAMBDA a, e : InsertEvent(minting, a, e), paths, batch.events)
           all    == FoldLeft(LAMBDA a, s : InsertState(a, s), events, batch.states)
           told   == {batch.paths[i].segments : i \in DOMAIN batch.paths}
           evs    == EventsOf(batch)
           P      == AllPrefixes(BatchPaths(batch))
           made   == Emissions(minting, evs)
           c(known, edges) == [minting |-> minting, known |-> known, edges |-> edges]
<1>0. \A D, E : c(D, E).minting = minting /\ c(D, E).known = D /\ c(D, E).edges = E
  OBVIOUS
<1> HIDE DEF c
<1>1. Hierarchical(batch, minting, n).delta = all.delta
  BY DEF Hierarchical
<1>2. TreeOver({}, {}, start)
  <2>1. start.delta.nodes = <<>> /\ start.delta.edges = <<>> /\ start.ids = <<>>
    BY DEF EmptyDelta, EmptyMap
  <2>2. IsList(<<>>) /\ DOMAIN <<>> = {}
    BY PlainEmpty DEF PlainList
  <2>3. <<>> = [p \in {} |-> ActorId(p)]
    OBVIOUS
  <2>4. Ids(<<>>) = {}
    BY <2>2 DEF Ids
  <2>5. TreeOf({}, {}, {})
    BY DEF TreeOf, Actors, Supervising, Supervision
  <2> HIDE DEF start
  <2> QED BY <2>1, <2>2, <2>3, <2>4, <2>5 DEF TreeOver
<1> HIDE DEF start
<1>3. TreeOver(AllPrefixes(told), {}, paths)
  <2> DEFINE seq == batch.paths
             d == c({}, {})
             upto(k) == {seq[i].segments : i \in 1..k}
  <2>1. /\ Len(seq) \in Nat /\ DOMAIN seq = 1..Len(seq) /\ d.minting = minting
        /\ \A i \in DOMAIN seq : PlainPath(seq[i])
    BY <1>0, ListDomain DEF PlainBatch
  <2> HIDE DEF d
  <2>2. paths = GrowPaths!Folded(d, 0, start, seq)
    BY <2>1 DEF DrawPath, GrowPaths!Folded, FoldLeft, MapThenFoldSet, GrowPaths!MapThenFoldSet, Max, GrowPaths!Greatest
  <2>3. told = upto(Len(seq))
    BY <2>1
  <2> HIDE DEF paths, seq, told
  <2>4. PathTree(d, 0, seq, 0, start)
    <3>1. AllPrefixes(upto(0)) = {}
      BY DEF AllPrefixes
    <3> QED BY <1>2, <3>1 DEF PathTree
  <2>5. ASSUME NEW k \in 1..Len(seq), NEW a, PathTree(d, 0, seq, k - 1, a)
        PROVE  PathTree(d, 0, seq, k, DrawPath(d, 0, a, seq[k]))
    <3> DEFINE s == seq[k].segments
    <3>1. upto(k) = upto(k - 1) \cup {s}
      <4>1. 1..k = (1..(k - 1)) \cup {k}
        BY <2>1
      <4> QED BY <4>1
    <3>2. AllPrefixes(upto(k)) = AllPrefixes(upto(k - 1)) \cup Upto(s, Len(s))
      BY <3>1 DEF AllPrefixes
    <3>3. TreeOver(AllPrefixes(upto(k - 1)), {}, a)
      BY <2>5 DEF PathTree
    <3>4. TreeOver(AllPrefixes(upto(k - 1)) \cup Upto(s, Len(s)), {}, InsertPath(minting, a, seq[k]))
      BY <2>1, <3>3, PathGrows
    <3>5. TreeOver(AllPrefixes(upto(k)), {}, InsertPath(minting, a, seq[k]))
      BY <3>2, <3>4
    <3> QED BY <2>1, <3>5 DEF PathTree, DrawPath
  <2>6. PathTree(d, 0, seq, Len(seq), GrowPaths!Folded(d, 0, start, seq))
    BY <2>1, <2>4, <2>5, GrowPaths!FoldKeeps
  <2> QED BY <2>2, <2>3, <2>6 DEF PathTree
<1> HIDE DEF paths
<1>4. TreeOver(P, made, events)
  <2> DEFINE seq == batch.events
             d == c(told, {})
             upto(k) == {seq[i] : i \in 1..k}
  <2>1. /\ Len(seq) \in Nat /\ DOMAIN seq = 1..Len(seq) /\ d.minting = minting /\ d.known = told
        /\ \A i \in DOMAIN seq : PlainEvent(seq[i]) /\ seq[i] \in evs
    BY <1>0, ListDomain DEF PlainBatch, EventsOf
  <2> HIDE DEF d
  <2>2. events = GrowEvents!Folded(d, 0, paths, seq)
    BY <2>1 DEF DrawEvent, GrowEvents!Folded, FoldLeft, MapThenFoldSet, GrowEvents!MapThenFoldSet, Max,
           GrowEvents!Greatest
  <2>3. evs = upto(Len(seq))
    BY <2>1 DEF EventsOf
  <2>4. P = AllPrefixes(told \cup PathsOf(evs))
    BY DEF BatchPaths
  <2> HIDE DEF events, seq, told, evs, P
  <2>5. EventTree(d, 0, seq, 0, paths)
    <3>1. upto(0) = {}
      OBVIOUS
    <3>2. PathsOf({}) = {} /\ Emissions(minting, {}) = {}
      BY DEF PathsOf, Emissions
    <3>3. TreeOver(AllPrefixes(told \cup PathsOf(upto(0))), Emissions(minting, upto(0)), paths)
      BY <1>3, <3>1, <3>2
    <3> QED BY <2>1, <3>3 DEF EventTree
  <2>6. ASSUME NEW k \in 1..Len(seq), NEW a, EventTree(d, 0, seq, k - 1, a)
        PROVE  EventTree(d, 0, seq, k, DrawEvent(d, 0, a, seq[k]))
    <3> DEFINE ev == seq[k]
               D  == told \cup PathsOf(upto(k - 1))
               E  == Emissions(minting, upto(k - 1))
    <3>1. upto(k) = upto(k - 1) \cup {ev}
      <4>1. 1..k = (1..(k - 1)) \cup {k}
        BY <2>1
      <4> QED BY <4>1
    <3>2. told \cup PathsOf(upto(k)) = D \cup PathsOf({ev})
      BY <3>1 DEF PathsOf
    <3>3. Emissions(minting, upto(k)) = E \cup Emissions(minting, {ev})
      BY <3>1 DEF Emissions
    <3>4. TreeOver(AllPrefixes(D), E, a)
      BY <2>1, <2>6 DEF EventTree
    <3>5. PlainEvent(ev) /\ \A p, q \in ev.path : p = q
      BY <2>1 DEF evs
    <3> HIDE DEF D, E, ev
    <3>6. TreeOver(AllPrefixes(D \cup PathsOf({ev})), E \cup Emissions(minting, {ev}), InsertEvent(minting, a, ev))
      BY <3>4, <3>5, EventGrows
    <3>7. TreeOver(AllPrefixes(told \cup PathsOf(upto(k))), Emissions(minting, upto(k)), InsertEvent(minting, a, ev))
      BY <3>2, <3>3, <3>6
    <3> QED BY <2>1, <3>7 DEF EventTree, DrawEvent, ev
  <2>7. EventTree(d, 0, seq, Len(seq), GrowEvents!Folded(d, 0, paths, seq))
    BY <2>1, <2>5, <2>6, GrowEvents!FoldKeeps
  <2> QED BY <2>1, <2>2, <2>3, <2>4, <2>7 DEF EventTree
<1> HIDE DEF events, P, made
<1>5. TreeOver(P, made, all)
  <2> DEFINE d == c(P, made)
  <2>1. d.known = P /\ d.edges = made
    BY <1>0
  <2> HIDE DEF d
  <2>2. all = GrowStates!Folded(d, 0, events, batch.states)
    BY DEF DrawState, GrowStates!Folded, FoldLeft, MapThenFoldSet, GrowStates!MapThenFoldSet, Max, GrowStates!Greatest
  <2> HIDE DEF all
  <2>3. StateTree(d, 0, batch.states, 0, events)
    BY <1>4, <2>1 DEF StateTree
  <2>4. \A k \in 1..Len(batch.states) : \A a : StateTree(d, 0, batch.states, k - 1, a)
           => StateTree(d, 0, batch.states, k, DrawState(d, 0, a, batch.states[k]))
    BY <2>1, StateGrows DEF StateTree, DrawState
  <2>5. StateTree(d, 0, batch.states, Len(batch.states), GrowStates!Folded(d, 0, events, batch.states))
    BY <2>3, <2>4, ListDomain, GrowStates!FoldKeeps DEF PlainBatch
  <2> QED BY <2>1, <2>2, <2>5 DEF StateTree
<1> HIDE DEF all
<1> QED BY <1>1, <1>5 DEF TreeOver, BatchTree, P, made


----------------------------------------------------------------------------
(* The tree in the store, and what joins it. *)

Growing == setup.projection = "hierarchical" /\ Named

TreeNodes ==
    /\ \A id \in DOMAIN store.nodes : TreeNode(store.nodes[id])
    /\ \A i \in DOMAIN task.raw.nodes : TreeNode(task.raw.nodes[i])
    /\ \A i \in DOMAIN task.out : TreeNode(task.out[i])

\* Between the batches, the store has the tree of all paths, and actors that
\* another client wrote.
StoreTree ==
    /\ handled.paths \subseteq Seq(STRING)
    /\ TreeBeside(AllPrefixes(handled.paths), DOMAIN store.nodes, DOMAIN store.edges, created)

\* With what is on the way, it has the one of the batch as well.
TaskTree ==
    task.pc = "reconcile" => \A b \in task.batch :
        /\ BatchPaths(b) \subseteq Seq(STRING)
        /\ TreeBeside(AllPrefixes(handled.paths \cup BatchPaths(b)), IdsOf(Pairs),
                      DOMAIN store.edges \cup Ids(task.raw.edges), created)
        /\ Emissions(setup.minting, EventsOf(b)) \subseteq Ids(task.raw.edges)

\* An event hangs off its actor by the name of a position it was given.
HangsAt(e, g, p, edges) == <<ActorId(p.segments), "emitted", MintEvent(setup.minting, EventAt(e, g[2]), 0)>> \in edges

Linked ==
    \A e \in handled.events : \A p \in Events[e].path :
        /\ p.segments \in handled.paths
        /\ p.segments # <<>> => \E g \in given : g[3] = e /\ HangsAt(e, g, p, DOMAIN store.edges)

TreeInv == Growing => TreeNodes /\ StoreTree /\ TaskTree /\ Linked

\* The identifiers of the nodes in a store.
LEMMA MapIds ==
    ASSUME NEW map, \A id \in DOMAIN map : map[id].id = id
    PROVE  IdsOf({Pair(map[id]) : id \in DOMAIN map}) = DOMAIN map
<1>1. \A id \in DOMAIN map : Pair(map[id])[1] = id
  BY DEF Pair
<1> DEFINE pairs == {Pair(map[id]) : id \in DOMAIN map}
<1>2. \A id \in DOMAIN map : Pair(map[id]) \in pairs
  OBVIOUS
<1>3. \A pr \in pairs : \E id \in DOMAIN map : pr = Pair(map[id])
  OBVIOUS
<1> HIDE DEF pairs
<1>4. IdsOf(pairs) = DOMAIN map
  BY <1>1, <1>2, <1>3 DEF IdsOf
<1> QED BY <1>4 DEF pairs

\* The identifiers of the nodes in a list.
LEMMA ListIds ==
    ASSUME NEW list
    PROVE  IdsOf(ListPairs(list)) = Ids(list)
<1>1. \A i \in DOMAIN list : Pair(list[i])[1] = list[i].id
  BY DEF Pair
<1>2. ListPairs(list) = {Pair(list[i]) : i \in DOMAIN list}
  BY DEF ListPairs
<1> QED BY <1>1, <1>2 DEF IdsOf, Ids

\* A merge of two nodes of one name is a node of that kind.
LEMMA MergeKeepsKind ==
    ASSUME NEW prev, TreeNode(prev), NEW incoming, TreeNode(incoming), incoming.id = prev.id, NEW iri
    PROVE  TreeNode(Node(prev.id, iri, MergedTypes(prev.types, incoming.types),
                         Overlay(incoming.properties, prev.properties)))
<1> DEFINE old    == prev.types
           new    == incoming.types
           added  == Picked(new, {i \in DOMAIN new : new[i] \notin Range(old)})
           types  == MergedTypes(old, new)
           props  == Overlay(incoming.properties, prev.properties)
           n      == Node(prev.id, iri, types, props)
<1>1. IsList(old) /\ IsList(new)
  BY DEF TreeNode
<1>2. IsList(added) /\ \A j \in DOMAIN added : \E i \in DOMAIN new : added[j] = new[i]
  <2> DEFINE S == {i \in DOMAIN new : new[i] \notin Range(old)}
  <2> HIDE DEF S
  <2>1. /\ IsList(Picked(new, S))
        /\ \A j \in DOMAIN Picked(new, S) : \E i \in S \cap DOMAIN new : Picked(new, S)[j] = new[i]
    BY <1>1, PickedEntries
  <2>2. added = Picked(new, S)
    BY DEF S
  <2> HIDE DEF added
  <2> QED BY <2>1, <2>2
<1>3. types = old \o added
  BY DEF MergedTypes
<1>4. n.id = prev.id /\ n.types = types /\ n.properties = props
  <2> HIDE DEF types, props
  <2> QED BY DEF Node
<1>5. /\ "path" \in DOMAIN props <=> "path" \in DOMAIN incoming.properties \/ "path" \in DOMAIN prev.properties
      /\ "path" \in DOMAIN incoming.properties => props["path"] = incoming.properties["path"]
  BY DEF Overlay
<1> HIDE DEF old, new, added, types, props, n
<1>6. /\ IsList(types) /\ Len(types) = Len(old) + Len(added)
      /\ \A i \in 1..(Len(old) + Len(added)) : types[i] = IF i <= Len(old) THEN old[i] ELSE added[i - Len(old)]
  BY <1>1, <1>2, <1>3, ListConcat
<1>7. /\ DOMAIN types = 1..(Len(old) + Len(added)) /\ Len(old) \in Nat /\ DOMAIN old = 1..Len(old)
      /\ Len(added) \in Nat /\ DOMAIN added = 1..Len(added)
  BY <1>1, <1>2, <1>6, ListDomain
<1>8. \A i \in DOMAIN types : (\E j \in DOMAIN old : types[i] = old[j]) \/ (\E j \in DOMAIN new : types[i] = new[j])
  <2> TAKE i \in DOMAIN types
  <2>1. CASE i <= Len(old)
    <3>1. i \in DOMAIN old /\ types[i] = old[i]
      BY <1>6, <1>7, <2>1
    <3> QED BY <3>1
  <2>2. CASE ~(i <= Len(old))
    <3>1. i - Len(old) \in DOMAIN added /\ types[i] = added[i - Len(old)]
      BY <1>6, <1>7, <2>2
    <3> QED BY <1>2, <3>1
  <2> QED BY <2>1, <2>2
<1>9. \A i \in DOMAIN old : i \in DOMAIN types /\ types[i] = old[i]
  BY <1>6, <1>7
<1>10. TreeNode(n)
  <2>1. ASSUME NEW p, prev.id = ActorId(p), Has(prev, "path", p), HasType(prev, "Actor")
        PROVE  TreeNode(n)
    <3>1. ActorId(p)[1] = "actor" /\ \A q : ActorId(p) = ActorId(q) => p = q
      BY DEF ActorId
    <3>2. Has(incoming, "path", p)
      BY <2>1, <3>1 DEF TreeNode
    <3>3. Has(n, "path", p)
      BY <1>4, <1>5, <3>2 DEF Has
    <3>4. HasType(n, "Actor")
      BY <1>4, <1>9, <2>1 DEF HasType, old
    <3> QED BY <1>4, <1>6, <2>1, <3>3, <3>4 DEF TreeNode
  <2>2. CASE prev.id[1] # "actor" /\ "path" \notin DOMAIN prev.properties /\ ~HasType(prev, "Actor")
    <3>1. \A p : prev.id # ActorId(p)
      BY <2>2 DEF ActorId
    <3>2. "path" \notin DOMAIN incoming.properties /\ ~HasType(incoming, "Actor")
      BY <3>1 DEF TreeNode
    <3>3. ~HasType(n, "Actor")
      BY <1>4, <1>8, <2>2, <3>2 DEF HasType, old, new
    <3> QED BY <1>4, <1>5, <1>6, <2>2, <3>2, <3>3 DEF TreeNode
  <2> QED BY <2>1, <2>2 DEF TreeNode
<1> QED BY <1>10 DEF n, types, props, old, new

\* What reconcile_delta keeps of a node of the projection.
LEMMA ReconcileKeepsKind ==
    ASSUME Shape, TreeNodes, NEW incoming, TreeNode(incoming),
           Reconcile(setup.conflict, Existing(incoming.id), incoming) # None
    PROVE  TreeNode(The(Reconcile(setup.conflict, Existing(incoming.id), incoming)))
<1> DEFINE result == Reconcile(setup.conflict, Existing(incoming.id), incoming)
           prev   == store.nodes[incoming.id]
           iri    == IF incoming.iri = None THEN prev.iri ELSE incoming.iri
<1>1. \A x : The(Some(x)) = x /\ Some(x) # None
  BY DEF The, Some, None
<1>2. CASE result = Some(incoming)
  BY <1>1, <1>2
<1>3. CASE incoming.id \in DOMAIN store.nodes /\ result # Some(incoming)
  <2>1. Existing(incoming.id) = Some(prev) /\ TreeNode(prev) /\ prev.id = incoming.id
    BY <1>3 DEF Existing, TreeNodes, Shape, StoreOK
  <2>2. result = Some(Node(prev.id, iri, MergedTypes(prev.types, incoming.types),
                           Overlay(incoming.properties, prev.properties)))
    BY <1>1, <1>3, <2>1 DEF Reconcile
  <2> HIDE DEF iri, result
  <2> QED BY <1>1, <2>1, <2>2, MergeKeepsKind DEF result
<1>4. CASE incoming.id \notin DOMAIN store.nodes /\ result # Some(incoming)
  BY <1>4 DEF Reconcile, Existing
<1> QED BY <1>2, <1>3, <1>4


\* The batch that is received grows the tree of its paths.
LEMMA ReceiveGrows ==
    ASSUME Shape, GivenInv, Growing, Receive
    PROVE  LET b == The(poll.batch)
           IN  BatchPaths(b) \subseteq Seq(STRING) /\ BatchTree(b, setup.minting, Project(b).delta)
<1> DEFINE b == The(poll.batch)
<1>1. b \in poll.batch /\ PlainBatch(b)
  BY Received
<1>2. setup.minting \in Mintings /\ setup.minting # "uuid"
  BY SetupsAssumption DEF Shape, Setup, Mintings, Growing, Named
<1>3. Project(b) = Hierarchical(b, setup.minting, fresh)
  BY DEF Project, Growing
<1>4. \A ev \in EventsOf(b) : \E g \in given : ev = EventAt(g[3], g[2]) /\ g[3] \in DOMAIN Events
  BY <1>1 DEF GivenInv, GivenEvent, EventsOf
<1> HIDE DEF b
<1>5. \A ev \in EventsOf(b) : \A p, q \in ev.path : p = q
  BY <1>4, EventsAssumption DEF EventAt
<1>6. BatchTree(b, setup.minting, Project(b).delta)
  BY <1>1, <1>2, <1>3, <1>5, HierarchicalGrows
<1>7. BatchPaths(b) \subseteq Seq(STRING)
  <2>1. \A i \in DOMAIN b.paths : b.paths[i].segments \in Seq(STRING)
    BY <1>1 DEF PlainBatch, PlainPath
  <2>2. \A ev \in EventsOf(b) : \A p \in ev.path : p.segments \in Seq(STRING)
    BY <1>1 DEF PlainBatch, PlainEvent, PlainPath, EventsOf
  <2> QED BY <2>1, <2>2 DEF BatchPaths, PathsOf
<1> QED BY <1>6, <1>7 DEF b

\* Every step keeps nodes of their kind.
LEMMA TreeNodesStep ==
    ASSUME Shape, TaskInv, GivenInv, Growing, TreeNodes, [Next]_vars
    PROVE  TreeNodes'
<1>1. CASE UNCHANGED <<store, task>>
  BY <1>1 DEF TreeNodes
<1>2. DOMAIN <<>> = {}
  OBVIOUS
<1>3. CASE Receive
  <2> DEFINE b == The(poll.batch)
  <2>1. /\ store' = store
        /\ \/ task' = [pc |-> "failed", batch |-> Some(b), raw |-> EmptyDelta, out |-> <<>>]
           \/ task' = [pc |-> "reconcile", batch |-> Some(b), raw |-> Project(b).delta, out |-> <<>>]
    BY <1>3, Received
  <2>2. BatchTree(b, setup.minting, Project(b).delta)
    BY <1>3, ReceiveGrows
  <2> HIDE DEF b
  <2>3. CASE task' = [pc |-> "failed", batch |-> Some(b), raw |-> EmptyDelta, out |-> <<>>]
    BY <1>2, <2>1, <2>3 DEF TreeNodes, EmptyDelta
  <2>4. CASE task' = [pc |-> "reconcile", batch |-> Some(b), raw |-> Project(b).delta, out |-> <<>>]
    BY <1>2, <2>1, <2>2, <2>4 DEF TreeNodes, BatchTree
  <2> QED BY <2>1, <2>3, <2>4
<1>4. CASE ReconcileNext
  <2> DEFINE raw == task.raw.nodes
             incoming == Head(raw)
             result == Reconcile(setup.conflict, Existing(incoming.id), incoming)
             out == IF result = None THEN task.out ELSE Append(task.out, The(result))
  <2>1. IsList(raw) /\ raw # <<>> /\ IsList(task.out)
    BY <1>4 DEF ReconcileNext, Shape, TaskOK, PlainDelta, PlainList
  <2>2. task'.raw.nodes = Tail(raw) /\ task'.out = out /\ store' = store
    <3>1. task' = [task EXCEPT !.raw.nodes = Tail(@), !.out = out] /\ store' = store
      BY <1>4 DEF ReconcileNext
    <3> HIDE DEF out
    <3> QED BY <3>1 DEF Shape, TaskOK, PlainDelta
  <2>3. TreeNode(incoming) /\ \A i \in DOMAIN Tail(raw) : TreeNode(Tail(raw)[i])
    BY <2>1, ListTail DEF TreeNodes
  <2>4. result # None => TreeNode(The(result))
    BY <2>3, ReconcileKeepsKind
  <2> HIDE DEF result, raw
  <2>5. \A i \in DOMAIN out : TreeNode(out[i])
    <3>1. CASE result = None
      BY <3>1 DEF TreeNodes
    <3>2. CASE result # None
      <4> DEFINE x == The(result)
                 old == task.out
      <4> HIDE DEF x, old
      <4>1. \A i \in DOMAIN Append(old, x) : Append(old, x)[i] = x \/ \E j \in DOMAIN old : Append(old, x)[i] = old[j]
        BY <2>1, IdsAppend DEF old
      <4>2. TreeNode(x) /\ (\A j \in DOMAIN old : TreeNode(old[j])) /\ out = Append(old, x)
        BY <2>4, <3>2 DEF x, old, TreeNodes
      <4> HIDE DEF out
      <4> QED BY <4>1, <4>2
    <3> QED BY <3>1, <3>2
  <2> HIDE DEF out
  <2> QED BY <2>2, <2>3, <2>5 DEF TreeNodes
<1>5. CASE PassThrough
  <2>1. task'.raw.nodes = <<>> /\ task'.out = task.raw.nodes /\ store' = store
    BY <1>5 DEF PassThrough, Shape, TaskOK, PlainDelta
  <2> QED BY <1>2, <2>1 DEF TreeNodes
<1>6. CASE Commit
  <2> DEFINE old == store.nodes
             new == store'.nodes
             list == task.out
  <2>1. task' = Waiting /\ new = PutAll(old, list)
    BY <1>6, CommitShape
  <2>2. Overwritten(old, list, new)
    BY <2>1, PutAllEntries DEF Shape, TaskOK
  <2>3. task'.raw.nodes = <<>> /\ task'.out = <<>>
    BY <2>1 DEF Waiting, EmptyDelta
  <2>4. (\A id \in DOMAIN old : TreeNode(old[id])) /\ \A i \in DOMAIN list : TreeNode(list[i])
    BY DEF TreeNodes
  <2> HIDE DEF old, new, list
  <2>5. \A id \in DOMAIN new : TreeNode(new[id])
    BY <2>2, <2>4 DEF Overwritten
  <2> QED BY <1>2, <2>3, <2>5 DEF TreeNodes, new
<1>7. CASE Restart
  <2>1. task'.raw.nodes = <<>> /\ task'.out = <<>> /\ store' = store
    BY <1>7 DEF Restart, Waiting, EmptyDelta
  <2> QED BY <1>2, <2>1 DEF TreeNodes
<1>8. ASSUME NEW n, IsNode(n), TreeNode(n) PROVE TreeNode(WithNote(n))
  <2> DEFINE props == Put(n.properties, "note", "note")
  <2>1. /\ "path" \in DOMAIN props <=> "path" \in DOMAIN n.properties
        /\ "path" \in DOMAIN n.properties => props["path"] = n.properties["path"]
    BY DEF Put
  <2>2. WithNote(n) = [id |-> n.id, iri |-> n.iri, types |-> n.types, properties |-> props]
    BY <1>8 DEF WithNote, IsNode
  <2>3. WithNote(n).id = n.id /\ WithNote(n).types = n.types /\ WithNote(n).properties = props
    BY <2>2
  <2> HIDE DEF props
  <2> QED BY <1>8, <2>1, <2>3 DEF TreeNode, Has, HasType
<1>9. ASSUME NEW id \in DOMAIN store.nodes, Annotate(id) PROVE TreeNodes'
  <2>1. /\ task' = task /\ DOMAIN store'.nodes = DOMAIN store.nodes
        /\ \A n \in DOMAIN store.nodes \ {id} : store'.nodes[n] = store.nodes[n]
        /\ store'.nodes[id] = WithNote(store.nodes[id])
    BY <1>9, AnnotateShape DEF Annotate
  <2>2. TreeNode(store'.nodes[id])
    BY <1>8, <2>1 DEF TreeNodes, Shape, StoreOK
  <2> QED BY <2>1, <2>2 DEF TreeNodes
<1>10. ASSUME NEW node \in Range(task.raw.nodes) \cup Range(task.out), Create(node) PROVE TreeNodes'
  <2>1. /\ task' = task /\ DOMAIN store'.nodes = DOMAIN store.nodes \cup {node.id}
        /\ \A n \in DOMAIN store.nodes : store'.nodes[n] = store.nodes[n]
        /\ store'.nodes[node.id] = WithNote(node)
    BY <1>10, CreateShape DEF Create
  <2>2. IsNode(node) /\ TreeNode(node)
    BY DEF Range, Shape, TaskOK, PlainDelta, PlainList, Plain, TreeNodes
  <2>3. TreeNode(store'.nodes[node.id])
    BY <1>8, <2>1, <2>2
  <2> QED BY <2>1, <2>3 DEF TreeNodes
<1> QED BY <1>1, <1>3, <1>4, <1>5, <1>6, <1>7, <1>9, <1>10 DEF Next, Grow, PushPath, PutState, Fetch, TakeCursor, vars


\* A step that changes no path and no edge, and adds no identifier to the store
\* but those of nodes that another client writes.
LEMMA StoreTreeStays ==
    ASSUME StoreTree, Linked, UNCHANGED <<setup, handled>>, given \subseteq given',
           store'.edges = store.edges, DOMAIN store.nodes \subseteq DOMAIN store'.nodes,
           DOMAIN store'.nodes \subseteq DOMAIN store.nodes \cup created', created \subseteq created'
    PROVE  StoreTree' /\ Linked'
<1>1. StoreTree'
  <2>1. TreeBeside(AllPrefixes(handled.paths), DOMAIN store'.nodes, DOMAIN store.edges, created')
    BY TreeBesideMore DEF StoreTree
  <2> QED BY <2>1 DEF StoreTree
<1>2. \A e, g, p : HangsAt(e, g, p, DOMAIN store.edges)' <=> HangsAt(e, g, p, DOMAIN store.edges)
  BY DEF HangsAt
<1>3. Linked'
  BY <1>2 DEF Linked
<1> QED BY <1>1, <1>3

\* A step that only moves the nodes of a batch on.
LEMMA TaskTreeStays ==
    ASSUME TaskTree, UNCHANGED <<setup, handled>>, task'.pc = task.pc, task'.batch = task.batch,
           task'.raw.edges = task.raw.edges, store'.edges = store.edges, NothingNew, created \subseteq created'
    PROVE  TaskTree'
<1>1. IdsOf(Pairs') = IdsOf(Pairs)
  <2>1. IdsOf(Pairs') \subseteq IdsOf(Pairs)
    BY DEF NothingNew, IdsOf
  <2> QED BY <2>1 DEF NothingNew
<1>2. IdsOf(Pairs)' = IdsOf(Pairs)
  BY <1>1 DEF IdsOf
<1>3. ASSUME task.pc = "reconcile", NEW b \in task.batch
      PROVE  TreeBeside(AllPrefixes(handled.paths \cup BatchPaths(b)), IdsOf(Pairs)',
                        DOMAIN store.edges \cup Ids(task.raw.edges), created')
  BY <1>2, <1>3, TreeBesideMore DEF TaskTree
<1> QED BY <1>2, <1>3 DEF TaskTree

\* A commit joins the tree of the batch to the one in the store.
LEMMA CommitGrows ==
    ASSUME Shape, TaskInv, GivenInv, StoreTree, TaskTree, Linked, Commit
    PROVE  StoreTree' /\ TaskTree' /\ Linked'
<1> DEFINE b == The(task.batch)
<1>1. /\ task.pc = "reconcile" /\ UNCHANGED <<setup, given, created>> /\ task'.pc = "recv"
      /\ store'.edges = PutAll(store.edges, task.raw.edges)
      /\ handled'.events = handled.events \cup {b.events[i].payload : i \in DOMAIN b.events}
      /\ handled'.paths = handled.paths \cup {b.paths[i].segments : i \in DOMAIN b.paths}
                            \cup {p.segments : p \in UNION {b.events[i].path : i \in DOMAIN b.events}}
  BY DEF Commit, Waiting, Shape, StoreOK
<1>2. b \in task.batch
  BY <1>1, TheOfSome DEF TaskInv
<1> HIDE DEF b
<1>3. handled'.paths = handled.paths \cup BatchPaths(b)
  <2>1. PathsOf(EventsOf(b)) = {p.segments : p \in UNION {b.events[i].path : i \in DOMAIN b.events}}
    BY DEF PathsOf, EventsOf
  <2> QED BY <1>1, <2>1 DEF BatchPaths
<1>4. DOMAIN store'.edges = DOMAIN store.edges \cup Ids(task.raw.edges)
  BY <1>1 DEF PutAll, Ids
<1>5. IdsOf(Pairs) = DOMAIN store'.nodes
  <2>1. NothingNew /\ Pairs' = StorePairs'
    BY CommitPairs
  <2>2. Shape'
    BY CommitShape
  <2>3. IdsOf(StorePairs') = DOMAIN store'.nodes
    BY <2>2, MapIds DEF Shape, StoreOK, StorePairs
  <2>4. IdsOf(Pairs') = IdsOf(Pairs)
    BY <2>1 DEF NothingNew, IdsOf
  <2> QED BY <2>1, <2>3, <2>4
<1>6. /\ BatchPaths(b) \subseteq Seq(STRING)
      /\ TreeBeside(AllPrefixes(handled.paths \cup BatchPaths(b)), IdsOf(Pairs),
                    DOMAIN store.edges \cup Ids(task.raw.edges), created)
      /\ Emissions(setup.minting, EventsOf(b)) \subseteq Ids(task.raw.edges)
  BY <1>1, <1>2 DEF TaskTree
<1>7. StoreTree'
  <2>1. TreeBeside(AllPrefixes(handled'.paths), DOMAIN store'.nodes, DOMAIN store'.edges, created')
    BY <1>1, <1>3, <1>4, <1>5, <1>6
  <2>2. handled'.paths \subseteq Seq(STRING)
    BY <1>3, <1>6 DEF StoreTree
  <2> QED BY <2>1, <2>2 DEF StoreTree
<1>8. TaskTree'
  BY <1>1 DEF TaskTree
<1>9. ASSUME NEW e \in handled'.events, NEW p \in Events[e].path
      PROVE  /\ p.segments \in handled'.paths
             /\ p.segments # <<>> => \E g \in given : g[3] = e /\ HangsAt(e, g, p, DOMAIN store'.edges)
  <2>1. CASE e \in handled.events
    BY <1>3, <1>4, <1>9, <2>1 DEF Linked, HangsAt
  <2>2. ASSUME NEW i \in DOMAIN b.events, e = b.events[i].payload
        PROVE  /\ p.segments \in handled'.paths
               /\ p.segments # <<>> => \E g \in given : g[3] = e /\ HangsAt(e, g, p, DOMAIN store'.edges)
    <3> DEFINE ev == b.events[i]
    <3>1. PICK g \in given : ev = EventAt(g[3], g[2])
      BY <1>2 DEF GivenInv, GivenEvent
    <3>2. ev.payload = g[3] /\ ev.path = Events[g[3]].path
      BY <3>1 DEF EventAt
    <3>3. ev \in EventsOf(b)
      BY DEF EventsOf
    <3>4. g[3] = e /\ ev = EventAt(e, g[2]) /\ p \in ev.path
      BY <1>9, <2>2, <3>1, <3>2
    <3> HIDE DEF ev
    <3>5. ASSUME p.segments # <<>> PROVE HangsAt(e, g, p, DOMAIN store'.edges)
      <4>1. <<ActorId(p.segments), "emitted", MintEvent(setup.minting, ev, 0)>> \in Emissions(setup.minting, EventsOf(b))
        BY <3>3, <3>4, <3>5 DEF Emissions
      <4> QED BY <1>4, <1>6, <3>4, <4>1 DEF HangsAt
    <3>6. p.segments \in handled'.paths
      BY <1>3, <3>3, <3>4 DEF BatchPaths, PathsOf
    <3> QED BY <3>4, <3>5, <3>6
  <2> QED BY <1>1, <2>1, <2>2
<1>10. Linked'
  <2>1. \A e, g, p : HangsAt(e, g, p, DOMAIN store'.edges) <=> HangsAt(e, g, p, DOMAIN store.edges)'
    BY <1>1 DEF HangsAt
  <2> QED BY <1>1, <1>9, <2>1 DEF Linked
<1> QED BY <1>7, <1>8, <1>10

\* Every step keeps the tree.
LEMMA TreeStep ==
    ASSUME Shape, TaskInv, GivenInv, TreeInv, [Next]_vars
    PROVE  TreeInv'
<1>0. given \subseteq given' /\ setup' = setup /\ created \subseteq created'
  BY GivenStep DEF Next, Grow, PushPath, PutState, Fetch, TakeCursor, Receive, ReconcileNext, PassThrough, Commit,
                   Restart, Annotate, Create, vars
<1> SUFFICES ASSUME Growing PROVE TreeNodes' /\ StoreTree' /\ TaskTree' /\ Linked'
  BY <1>0 DEF TreeInv, Growing, Named
<1>1. TreeNodes /\ StoreTree /\ TaskTree /\ Linked
  BY DEF TreeInv
<1>2. TreeNodes'
  BY <1>1, TreeNodesStep
<1>3. CASE UNCHANGED <<store, task, handled>>
  <2>1. StoreTree' /\ Linked'
    BY <1>0, <1>1, <1>3, StoreTreeStays
  <2>2. NothingNew
    BY <1>3 DEF NothingNew, Pairs, StorePairs
  <2>3. TaskTree'
    BY <1>0, <1>1, <1>3, <2>2, TaskTreeStays
  <2> QED BY <1>2, <2>1, <2>3
<1>4. CASE ReconcileNext
  <2>1. /\ UNCHANGED <<store, handled>> /\ task'.pc = task.pc
        /\ task'.batch = task.batch /\ task'.raw.edges = task.raw.edges
    BY <1>4 DEF ReconcileNext, Shape, TaskOK, PlainDelta
  <2>2. StoreTree' /\ Linked'
    BY <1>0, <1>1, <2>1, StoreTreeStays
  <2>3. TaskTree'
    BY <1>0, <1>1, <1>4, <2>1, ReconcilePairs, TaskTreeStays
  <2> QED BY <1>2, <2>2, <2>3
<1>5. CASE PassThrough
  <2>1. /\ UNCHANGED <<store, handled>> /\ task'.pc = task.pc
        /\ task'.batch = task.batch /\ task'.raw.edges = task.raw.edges
    BY <1>5 DEF PassThrough, Shape, TaskOK, PlainDelta
  <2>2. StoreTree' /\ Linked'
    BY <1>0, <1>1, <2>1, StoreTreeStays
  <2>3. TaskTree'
    BY <1>0, <1>1, <1>5, <2>1, PassPairs, TaskTreeStays
  <2> QED BY <1>2, <2>2, <2>3
<1>6. ASSUME NEW id \in DOMAIN store.nodes, Annotate(id) PROVE StoreTree' /\ Linked' /\ TaskTree'
  <2>1. UNCHANGED <<handled, task>> /\ store'.edges = store.edges /\ DOMAIN store'.nodes = DOMAIN store.nodes
    BY <1>6, AnnotateShape DEF Annotate
  <2>2. StoreTree' /\ Linked'
    BY <1>0, <1>1, <2>1, StoreTreeStays
  <2>3. TaskTree'
    BY <1>0, <1>1, <1>6, <2>1, AnnotatePairs, TaskTreeStays
  <2> QED BY <2>2, <2>3
<1>7. CASE Commit
  BY <1>1, <1>2, <1>7, CommitGrows
<1>8. CASE Restart
  <2>1. UNCHANGED <<store, handled>> /\ task'.pc = "recv"
    BY <1>8 DEF Restart, Waiting
  <2>2. StoreTree' /\ Linked'
    BY <1>0, <1>1, <2>1, StoreTreeStays
  <2> QED BY <1>2, <2>1, <2>2 DEF TaskTree
<1>9. CASE Receive
  <2> DEFINE b == The(poll.batch)
             d == Project(b).delta
  <2>1. /\ UNCHANGED <<store, handled, created>>
        /\ \/ task' = [pc |-> "failed", batch |-> Some(b), raw |-> EmptyDelta, out |-> <<>>]
           \/ task' = [pc |-> "reconcile", batch |-> Some(b), raw |-> d, out |-> <<>>]
    BY <1>9, Received
  <2>2. BatchPaths(b) \subseteq Seq(STRING) /\ BatchTree(b, setup.minting, d)
    BY <1>9, ReceiveGrows
  <2>3. StoreTree' /\ Linked'
    BY <1>0, <1>1, <2>1, StoreTreeStays
  <2>4. task'.pc = "reconcile" => Pairs' = StorePairs \cup ListPairs(d.nodes)
    BY <1>9, ReceivePairs DEF Growing
  <2> HIDE DEF b, d
  <2>5. CASE task'.pc = "failed"
    BY <1>2, <2>3, <2>5 DEF TaskTree
  <2>6. CASE task' = [pc |-> "reconcile", batch |-> Some(b), raw |-> d, out |-> <<>>]
    <3> DEFINE P == AllPrefixes(handled.paths)
               Q == AllPrefixes(BatchPaths(b))
    <3>1. IdsOf(Pairs)' = DOMAIN store.nodes \cup Ids(d.nodes)
      <4>1. IdsOf(StorePairs) = DOMAIN store.nodes /\ IdsOf(ListPairs(d.nodes)) = Ids(d.nodes)
        BY MapIds, ListIds DEF Shape, StoreOK, StorePairs
      <4>2. Pairs' = StorePairs \cup ListPairs(d.nodes)
        BY <2>4, <2>6
      <4>3. IdsOf(StorePairs \cup ListPairs(d.nodes)) = IdsOf(StorePairs) \cup IdsOf(ListPairs(d.nodes))
        BY DEF IdsOf
      <4>4. IdsOf(Pairs') = DOMAIN store.nodes \cup Ids(d.nodes)
        BY <4>1, <4>2, <4>3
      <4> QED BY <4>4 DEF IdsOf
    <3>2. TreeBeside(P, DOMAIN store.nodes, DOMAIN store.edges, created) /\ TreeOf(Q, Ids(d.nodes), Ids(d.edges))
      BY <1>1, <2>2 DEF StoreTree, BatchTree
    <3>3. TreeBeside(P \cup Q, DOMAIN store.nodes \cup Ids(d.nodes), DOMAIN store.edges \cup Ids(d.edges), created)
      BY <3>2, TreesJoin
    <3>4. P \cup Q = AllPrefixes(handled.paths \cup BatchPaths(b))
      BY PrefixesJoin
    <3>5. TreeBeside(AllPrefixes(handled'.paths \cup BatchPaths(b)), IdsOf(Pairs)',
                     DOMAIN store'.edges \cup Ids(task'.raw.edges), created')
      BY <2>1, <2>6, <3>1, <3>3, <3>4
    <3>6. Emissions(setup'.minting, EventsOf(b)) \subseteq Ids(task'.raw.edges)
      BY <1>0, <2>2, <2>6 DEF BatchTree
    <3>7. task'.batch = {b}
      BY <2>6 DEF Some
    <3>8. TaskTree'
      BY <2>2, <3>5, <3>6, <3>7 DEF TaskTree
    <3> QED BY <1>2, <2>3, <3>8
  <2> QED BY <2>1, <2>5, <2>6
<1>10. ASSUME NEW node \in Range(task.raw.nodes) \cup Range(task.out), Create(node)
       PROVE  StoreTree' /\ Linked' /\ TaskTree'
  <2>1. /\ UNCHANGED <<handled, task>> /\ store'.edges = store.edges
        /\ DOMAIN store'.nodes = DOMAIN store.nodes \cup {node.id} /\ node.id \in created'
    BY <1>10, CreateShape DEF Create
  <2>2. StoreTree' /\ Linked'
    BY <1>0, <1>1, <2>1, StoreTreeStays
  <2>3. TaskTree'
    BY <1>0, <1>1, <1>10, <2>1, CreatePairs, TaskTreeStays
  <2> QED BY <2>2, <2>3
<1> QED BY <1>2, <1>3, <1>4, <1>5, <1>6, <1>7, <1>8, <1>9, <1>10
       DEF Next, Grow, PushPath, PutState, Fetch, TakeCursor, vars


\* The prefix above a prefix is one.
LEMMA PrefixesClosed ==
    ASSUME NEW D \in SUBSET Seq(STRING), NEW p \in AllPrefixes(D), Len(p) > 1
    PROVE  Front(p) \in AllPrefixes(D)
<1>1. PICK s \in D : p \in Upto(s, Len(s))
  BY DEF AllPrefixes
<1>2. PICK d \in 1..Len(s) : p = SubSeq(s, 1, d)
  BY <1>1 DEF Upto
<1>3. s \in Seq(STRING) /\ Len(p) = d
  BY <1>2, PrefixOf
<1>4. Front(p) = SubSeq(s, 1, d - 1) /\ d - 1 \in 1..Len(s)
  BY <1>2, <1>3, PrefixOf
<1>5. Front(p) \in Upto(s, Len(s))
  BY <1>4 DEF Upto
<1> QED BY <1>5 DEF AllPrefixes

\* What the parts say of the store.
LEMMA TreeMirrors ==
    ASSUME Shape, GivenInv, PairsInv, TreeInv
    PROVE  TreeMirrorsPaths
<1> SUFFICES ASSUME Named, setup.projection = "hierarchical"
             PROVE  LET prefixes == UNION {{SubSeq(p, 1, d) : d \in 1 .. Len(p)} : p \in handled.paths}
                        actor == [p \in prefixes |-> CHOOSE id \in NodesOf("path", p) : TRUE]
                        actors == {n \in DOMAIN store.nodes : HasType(store.nodes[n], "Actor")}
                    IN  /\ \A p \in prefixes : Cardinality(NodesOf("path", p)) = 1
                        /\ {actor[p] : p \in prefixes} \subseteq actors
                        /\ actors \subseteq {actor[p] : p \in prefixes} \cup created
                        /\ Labelled("supervises") = {<<actor[Front(p)], actor[p]>> : p \in {q \in prefixes : Len(q) > 1}}
                        /\ \A e \in DOMAIN store.edges : {e[1], e[3]} \subseteq DOMAIN store.nodes
                        /\ Clashes = {} => \A e \in handled.events : \A p \in Events[e].path : p.segments # <<>> =>
                              \E n \in NodesOf("event_payload", e) : <<actor[p.segments], n>> \in Labelled("emitted")
  BY DEF TreeMirrorsPaths
<1> DEFINE prefixes == UNION {{SubSeq(p, 1, d) : d \in 1 .. Len(p)} : p \in handled.paths}
           actor == [p \in prefixes |-> CHOOSE id \in NodesOf("path", p) : TRUE]
           nodes == store.nodes
<1>1. prefixes = AllPrefixes(handled.paths)
  BY DEF AllPrefixes, Upto
<1>2. TreeNodes /\ StoreTree /\ Linked
  BY DEF TreeInv, Growing
<1>3. /\ {ActorId(p) : p \in prefixes} \subseteq DOMAIN nodes
      /\ Actors(DOMAIN nodes) \subseteq {ActorId(p) : p \in prefixes} \cup created
      /\ Supervising(DOMAIN store.edges) = Supervision(prefixes)
      /\ \A e \in DOMAIN store.edges : e[1] \in DOMAIN nodes /\ e[3] \in DOMAIN nodes
      /\ handled.paths \subseteq Seq(STRING)
  <2> HIDE DEF prefixes
  <2> QED BY <1>1, <1>2 DEF StoreTree, TreeBeside
<1>4. \A id \in DOMAIN nodes : nodes[id].id = id /\ TreeNode(nodes[id])
  BY <1>2 DEF TreeNodes, Shape, StoreOK
<1>5. \A p \in prefixes : Len(p) > 1 => Front(p) \in prefixes
  <2> HIDE DEF prefixes
  <2> QED BY <1>1, <1>3, PrefixesClosed
<1> HIDE DEF prefixes, nodes
<1>6. \A p : ActorId(p)[1] = "actor" /\ ActorId(p)[2] = p
  BY DEF ActorId
<1>7. ASSUME NEW p \in prefixes PROVE NodesOf("path", p) = {ActorId(p)}
  <2>1. ActorId(p) \in DOMAIN nodes
    BY <1>3
  <2>2. Has(nodes[ActorId(p)], "path", p)
    BY <1>4, <1>6, <2>1 DEF TreeNode
  <2>3. ASSUME NEW id \in DOMAIN nodes, Has(nodes[id], "path", p) PROVE id = ActorId(p)
    BY <1>4, <2>3 DEF TreeNode, Has
  <2> QED BY <2>1, <2>2, <2>3 DEF NodesOf, nodes
<1>8. \A p \in prefixes : actor[p] = ActorId(p)
  BY <1>7
<1> HIDE DEF actor
<1>9. \A p \in prefixes : Cardinality(NodesOf("path", p)) = 1
  BY <1>7, FS_Singleton
<1>10. LET actors == {n \in DOMAIN nodes : HasType(nodes[n], "Actor")}
       IN  /\ {actor[p] : p \in prefixes} \subseteq actors
           /\ actors \subseteq {actor[p] : p \in prefixes} \cup created
  <2>1. \A n \in DOMAIN nodes : HasType(nodes[n], "Actor") <=> n[1] = "actor"
    BY <1>4, <1>6 DEF TreeNode
  <2>2. {actor[p] : p \in prefixes} = {ActorId(p) : p \in prefixes}
    BY <1>8
  <2> QED BY <1>3, <1>6, <2>1, <2>2 DEF Actors
<1>11. Labelled("supervises") = {<<actor[Front(p)], actor[p]>> : p \in {q \in prefixes : Len(q) > 1}}
  <2> DEFINE deep == {q \in prefixes : Len(q) > 1}
  <2>1. Labelled("supervises") = {<<e[1], e[3]>> : e \in Supervising(DOMAIN store.edges)}
    BY DEF Labelled, Supervising
  <2>2. Labelled("supervises") = {<<e[1], e[3]>> : e \in {Above(p) : p \in deep}}
    BY <1>3, <2>1 DEF Supervision
  <2>3. \A p \in deep : Above(p)[1] = actor[Front(p)] /\ Above(p)[3] = actor[p]
    BY <1>5, <1>8 DEF Above
  <2> HIDE DEF deep
  <2>4. Labelled("supervises") = {<<actor[Front(p)], actor[p]>> : p \in deep}
    BY <2>2, <2>3
  <2> QED BY <2>4 DEF deep
<1>12. \A e \in DOMAIN store.edges : {e[1], e[3]} \subseteq DOMAIN nodes
  BY <1>3
<1>13. ASSUME Clashes = {}, NEW e \in handled.events, NEW p \in Events[e].path, p.segments # <<>>
       PROVE  \E n \in NodesOf("event_payload", e) : <<actor[p.segments], n>> \in Labelled("emitted")
  <2>1. PICK g \in given : g[3] = e /\ HangsAt(e, g, p, DOMAIN store.edges)
    BY <1>2, <1>13 DEF Linked
  <2> DEFINE n == MintEvent(setup.minting, EventAt(g[3], g[2]), 0)
             link == <<ActorId(p.segments), "emitted", n>>
  <2>2. link \in DOMAIN store.edges /\ link[1] = ActorId(p.segments) /\ link[2] = "emitted" /\ link[3] = n
    BY <2>1 DEF HangsAt
  <2>3. n[1] = "event"
    BY NamesApart DEF Shape
  <2> HIDE DEF n, link
  <2>4. n \in DOMAIN nodes /\ ActorId(p.segments) \in DOMAIN nodes
    BY <1>3, <2>2
  <2>5. p.segments \in prefixes
    <3> DEFINE s == p.segments
    <3>1. s \in handled.paths /\ s \in Seq(STRING) /\ s # <<>>
      BY <1>2, <1>3, <1>13 DEF Linked
    <3> HIDE DEF s
    <3>2. s = SubSeq(s, 1, Len(s)) /\ Len(s) \in 1 .. Len(s)
      BY <3>1
    <3>3. s \in {SubSeq(s, 1, d) : d \in 1 .. Len(s)}
      BY <3>2
    <3>4. s \in prefixes
      BY <3>1, <3>3 DEF prefixes
    <3> QED BY <3>4 DEF s
  <2>6. Said(nodes[n]) = {e}
    <3>1. <<n, Said(nodes[n])>> \in Pairs
      BY <1>4, <2>4 DEF Pairs, StorePairs, Pair, nodes
    <3> DEFINE pr == <<n, Said(nodes[n])>>
    <3>2. pr[1] = n /\ pr[2] = Said(nodes[n]) /\ pr \in Pairs
      BY <3>1
    <3> HIDE DEF pr
    <3>3. PICK h \in given : pr = <<MintEvent(setup.minting, EventAt(h[3], h[2]), 0), {h[3]}>>
      BY <2>3, <3>2 DEF PairsInv, GoodPair
    <3>4. g[2] = h[2] /\ Events[g[3]].actor = Events[h[3]].actor
      BY <3>2, <3>3, NamesApart DEF n, Shape
    <3>5. g[1] = Events[g[3]].actor /\ h[1] = Events[h[3]].actor
      BY DEF GivenInv
    <3>6. g[3] = h[3]
      BY <1>13, <3>4, <3>5 DEF Clashes
    <3> QED BY <2>1, <3>2, <3>3, <3>6
  <2>7. n \in NodesOf("event_payload", e)
    BY <2>4, <2>6 DEF NodesOf, Has, Said, nodes
  <2>8. <<actor[p.segments], n>> \in Labelled("emitted")
    BY <1>8, <2>2, <2>5 DEF Labelled
  <2> QED BY <2>7, <2>8
<1> QED BY <1>9, <1>10, <1>11, <1>12, <1>13 DEF prefixes, actor, nodes

\* "One node per path segment; supervises edges connect adjacent depths"
\* (hierarchical.rs, insert_path), however many batches, in whatever order,
\* with whatever restarts and beside another writer, and however long paths
\* and batches are: with names that are not random, the actors in the store are
\* the supervision tree of all paths of all batches, next to actors that the
\* other writer wrote first, every edge has both its ends, and as long as no
\* position is given twice every event hangs off the actor of its path.
THEOREM TreeAlwaysMirrorsPaths == Spec => []TreeMirrorsPaths
<1> DEFINE Base == GivenInv /\ TaskInv /\ PairsInv /\ DrawnOnce
<1>1. Init => TreeInv
  <2> SUFFICES ASSUME Init PROVE TreeInv
    OBVIOUS
  <2>1. /\ task.raw.nodes = <<>> /\ task.out = <<>> /\ task.pc = "recv"
        /\ DOMAIN store.nodes = {} /\ DOMAIN store.edges = {} /\ handled.events = {} /\ handled.paths = {}
    BY DEF Init, Waiting, EmptyDelta, EmptyOntology, EmptyMap
  <2>2. TreeBeside({}, {}, {}, created)
    BY DEF TreeBeside, Actors, Supervising, Supervision
  <2>3. AllPrefixes({}) = {}
    BY DEF AllPrefixes
  <2>4. StoreTree
    BY <2>1, <2>2, <2>3 DEF StoreTree
  <2>5. TreeNodes /\ TaskTree /\ Linked
    BY <2>1 DEF TreeNodes, TaskTree, Linked
  <2> QED BY <2>4, <2>5 DEF TreeInv
<1>2. Shape /\ Base /\ TreeInv /\ [Next]_vars => TreeInv'
  BY TreeStep
<1>3. Shape /\ Base /\ TreeInv => TreeMirrorsPaths
  BY TreeMirrors
<1> QED BY <1>1, <1>2, <1>3, IngestionShape, PairsAlways, PTL DEF Spec
=============================================================================
