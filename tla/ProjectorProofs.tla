--------------------------- MODULE ProjectorProofs ---------------------------
(* Proofs about the projector, for every set of ingest modes, entry point    *)
(* and projection strategy, every channel capacity and every journal: a run  *)
(* that ends well has committed all that was sent, and no mode sends an      *)
(* event twice.                                                              *)
EXTENDS Projector, TLAPS

IngestState ==
    [pc : {"start", "select", "read", "send", "exited", "failed", "aborted"},
     cursor : Nat, batch : SUBSET Nat]

Receiver == [queue : Seq(Nat), lagged : BOOLEAN]

TypeOK ==
    /\ setup \in Setup
    /\ version \in Nat
    /\ hub \in [notified : Nat, open : BOOLEAN]
    /\ inbox \in [Modes -> Receiver]
    /\ ingest \in [Modes -> IngestState]
    /\ channel \in Seq(SUBSET Nat)
    /\ loop \in [pc : {"recv", "commit", "done"}, delta : SUBSET Nat, result : {"none", "ok", "error"}]
    /\ seen \in SUBSET Nat
    /\ store \in SUBSET Nat
    /\ shutdown \in BOOLEAN
    /\ caller \in {"waiting", "stopping", "timed_out", "returned"}
    /\ sent \in [Modes -> SUBSET Nat]

----------------------------------------------------------------------------
(* The inductive invariants. *)

\* What a channel holds.
Queued(ch) == UNION {ch[i] : i \in 1..Len(ch)}

\* The loop has a delta only while it commits, and is done when it has a
\* result; it ends well with an empty channel that nobody can fill again.
LoopInv ==
    /\ loop.pc # "commit" => loop.delta = {}
    /\ loop.pc = "done" <=> loop.result # "none"
    /\ loop.result = "ok" => channel = <<>> /\ \A m \in Modes : ~Running(m)

\* Until the loop fails, an event that was sent is in the channel, in the
\* delta or in the store, and so is one that a snapshot diff will not emit
\* again.
NothingDropped ==
    loop.result # "error" =>
        /\ \A m \in Modes : sent[m] \ {Paths} \subseteq store \cup loop.delta \cup Queued(channel)
        /\ Projection = "snapshot_diff" => seen \ {Paths} \subseteq store \cup loop.delta

\* A mode has sent nothing beyond its cursor, and a batch it will send ends
\* at the cursor by then.
CursorInv(m) ==
    /\ sent[m] \subseteq 0..ingest[m].cursor
    /\ ingest[m].cursor <= version
    /\ ingest[m].pc = "read" => ingest[m].batch \subseteq 0..version
    /\ ingest[m].pc = "send" => ingest[m].batch \subseteq 0..ingest[m].cursor

\* The events that an event stream has yet to take lie beyond its cursor, in
\* the order of the journal, however many were lost in between.
StreamInv ==
    "event_stream" \in Modes =>
        LET queue == inbox["event_stream"].queue
        IN  /\ ingest["event_stream"].pc # "read"
            /\ ingest["event_stream"].cursor <= hub.notified
            /\ \A i \in 1..Len(queue) : ingest["event_stream"].cursor < queue[i] /\ queue[i] <= hub.notified
            /\ \A i, j \in 1..Len(queue) : i < j => queue[i] < queue[j]

SentInv == /\ hub.notified <= version
           /\ \A m \in Modes : CursorInv(m)
           /\ StreamInv

----------------------------------------------------------------------------
(* Types. *)

\* A delivery keeps a receiver well typed, and so does taking a message.
LEMMA DeliverType ==
    ASSUME NEW box \in Receiver, NEW x \in Nat
    PROVE  Deliver(box, x) \in Receiver
<1>1. CASE Len(box.queue) < SignalCapacity
  BY <1>1 DEF Deliver, Receiver
<1>2. CASE ~(Len(box.queue) < SignalCapacity)
  <2>1. box.queue # <<>>
    BY <1>2, BoundsAssumption DEF Receiver
  <2> QED BY <1>2, <2>1 DEF Deliver, Receiver
<1> QED BY <1>1, <1>2

LEMMA ConsumedType ==
    ASSUME inbox \in [Modes -> Receiver], NEW m \in Modes, Wakes(m)
    PROVE  Consumed(m) \in [Modes -> Receiver]
<1>1. CASE m \in {"push_hook", "event_stream"}
  <2> DEFINE rest == Tail(inbox[m].queue)
  <2>1. inbox[m].queue \in Seq(Nat) /\ inbox[m].queue # <<>>
    BY <1>1 DEF Wakes, Receiver
  <2>2. rest \in Seq(Nat)
    BY <2>1
  <2>3. Consumed(m) = [inbox EXCEPT ![m] = [inbox[m] EXCEPT !.queue = rest]]
    BY <1>1 DEF Consumed
  <2> HIDE DEF rest
  <2>4. [inbox[m] EXCEPT !.queue = rest] \in Receiver
    BY <2>2 DEF Receiver
  <2> QED BY <2>3, <2>4
<1>2. CASE m \notin {"push_hook", "event_stream"}
  BY <1>2 DEF Consumed
<1> QED BY <1>1, <1>2

\* A step of an ingest mode keeps the state well typed.
LEMMA IngestType ==
    ASSUME TypeOK, NEW m \in Modes, Ingest(m) \/ Stop(m) \/ SourceFails(m)
    PROVE  TypeOK'
<1>1. /\ ingest \in [Modes -> IngestState]
      /\ inbox \in [Modes -> Receiver]
      /\ version \in Nat
  BY DEF TypeOK
<1>2. setup' = setup /\ Modes' = Modes
  BY DEF Ingest, Subscribe, Read, TakeCursor, RecvEvent, Lagged, Send, Closed, Stop, SourceFails, source, Modes
<1>3. ingest' \in [Modes -> IngestState]
  <2>1. CASE Subscribe(m) \/ Closed(m) \/ Stop(m)
    BY <1>1, <2>1 DEF Subscribe, Closed, Stop, IngestState
  <2>2. CASE Read(m)
    <3> DEFINE b == Journal(ingest[m].cursor) \cup KnownPaths
    <3>1. b \in SUBSET Nat
      BY <1>1 DEF Journal, KnownPaths, Paths, IngestState
    <3>2. ingest' = ingest \/ ingest' = [ingest EXCEPT ![m].pc = "read", ![m].batch = b]
      BY <2>2 DEF Read
    <3> HIDE DEF b
    <3> QED BY <1>1, <3>1, <3>2 DEF IngestState
  <2>3. CASE TakeCursor(m)
    BY <1>1, <2>3 DEF TakeCursor, Resume, IngestState
  <2>4. CASE RecvEvent(m)
    <3> DEFINE x == Head(inbox[m].queue)
               b == {x} \cup KnownPaths
    <3>1. x \in Nat
      BY <1>1, <2>4 DEF RecvEvent, Wakes, Receiver
    <3>2. b \in SUBSET Nat
      BY <3>1 DEF KnownPaths, Paths
    <3>3. ingest' = [ingest EXCEPT ![m].pc = "send", ![m].cursor = x, ![m].batch = b]
      BY <2>4 DEF RecvEvent
    <3> HIDE DEF x, b
    <3> QED BY <1>1, <3>1, <3>2, <3>3 DEF IngestState
  <2>5. CASE Lagged(m)
    BY <1>1, <2>5 DEF Lagged
  <2>6. CASE Send(m)
    BY <1>1, <2>6 DEF Send, Resume, IngestState
  <2>7. CASE SourceFails(m)
    BY <1>1, <2>7 DEF SourceFails, IngestState
  <2> QED BY <2>1, <2>2, <2>3, <2>4, <2>5, <2>6, <2>7 DEF Ingest
<1>4. inbox' \in [Modes -> Receiver]
  <2>1. CASE Lagged(m)
    BY <1>1, <2>1 DEF Lagged, Receiver
  <2>2. CASE inbox' = Consumed(m) /\ Wakes(m)
    BY <1>1, <2>2, ConsumedType
  <2>3. CASE inbox' = inbox
    BY <1>1, <2>3
  <2> QED BY <2>1, <2>2, <2>3
          DEF Ingest, Subscribe, Read, TakeCursor, RecvEvent, Send, Closed, Stop, SourceFails, source
<1>5. channel' \in Seq(SUBSET Nat) /\ sent' \in [Modes -> SUBSET Nat]
  <2>0. channel \in Seq(SUBSET Nat) /\ sent \in [Modes -> SUBSET Nat]
    BY DEF TypeOK
  <2>1. CASE Send(m)
    <3>1. ingest[m].batch \in SUBSET Nat
      BY <1>1 DEF IngestState
    <3> QED BY <2>0, <2>1, <3>1 DEF Send
  <2>2. CASE UNCHANGED <<channel, sent>>
    BY <2>0, <2>2
  <2> QED BY <2>1, <2>2
          DEF Ingest, Subscribe, Read, TakeCursor, RecvEvent, Lagged, Closed, Stop, SourceFails
<1>6. UNCHANGED <<version, hub, loop, seen, store, shutdown, caller>>
  BY DEF Ingest, Subscribe, Read, TakeCursor, RecvEvent, Lagged, Send, Closed, Stop, SourceFails, source
<1> QED BY <1>2, <1>3, <1>4, <1>5, <1>6 DEF TypeOK

\* What is projected is part of what was received.
LEMMA ProjectedIsReceived ==
    ASSUME TypeOK, NEW batch \in SUBSET Nat
    PROVE  /\ Project(batch) \subseteq batch
           /\ batch \ {Paths} \subseteq Project(batch) \cup seen
           /\ Projection # "snapshot_diff" => batch \ {Paths} \subseteq Project(batch)
BY DEF TypeOK, Setup, Projections, Projection, Project

\* Every reachable state of the source, the modes and the loop is well typed.
THEOREM ProjectorTypeCorrect == Spec => []TypeOK
<1>1. Init => TypeOK
  <2> SUFFICES ASSUME Init PROVE TypeOK
    OBVIOUS
  <2>1. setup \in Setup /\ hub \in [notified : Nat, open : BOOLEAN] /\ shutdown \in BOOLEAN
    BY SetupsAssumption DEF Init
  <2>2. inbox \in [Modes -> Receiver]
    BY DEF Init, Receiver
  <2> QED BY <2>1, <2>2 DEF Init, TypeOK, IngestState
<1>2. TypeOK /\ [Next]_vars => TypeOK'
  <2> SUFFICES ASSUME TypeOK, [Next]_vars PROVE TypeOK'
    OBVIOUS
  <2> USE DEF TypeOK, source, Modes
  <2>1. CASE PushEvent
    BY <2>1 DEF PushEvent
  <2>2. CASE Notify
    <3>1. hub.notified + 1 \in Nat
      OBVIOUS
    <3>2. inbox' \in [Modes -> Receiver]
      BY <2>2, <3>1, DeliverType DEF Notify
    <3> QED BY <2>2, <3>1, <3>2 DEF Notify
  <2>3. CASE CloseHub
    BY <2>3 DEF CloseHub
  <2>4. ASSUME NEW m \in Modes, Ingest(m) \/ Stop(m) \/ SourceFails(m) PROVE TypeOK'
    BY <2>4, IngestType
  <2>5. CASE Recv
    <3>1. Head(channel) \in SUBSET Nat /\ Tail(channel) \in Seq(SUBSET Nat)
      BY <2>5 DEF Recv
    <3>2. Project(Head(channel)) \in SUBSET Nat
      BY <3>1, ProjectedIsReceived
    <3> QED BY <2>5, <3>1, <3>2 DEF Recv
  <2>6. CASE Commit
    BY <2>6 DEF Commit
  <2>7. CASE LoopFails
    <3>1. seen' \in SUBSET Nat
      BY <2>7 DEF LoopFails
    <3>2. ingest' \in [Modes -> IngestState]
      <4>1. \A m \in Modes : [ingest[m] EXCEPT !.pc = "aborted"] \in IngestState
        BY DEF IngestState
      <4> QED BY <2>7, <4>1 DEF LoopFails
    <3> QED BY <2>7, <3>1, <3>2 DEF LoopFails
  <2>8. CASE Join
    BY <2>8 DEF Join
  <2>9. CASE RequestShutdown \/ Timeout
    BY <2>9 DEF RequestShutdown, Timeout
  <2>10. CASE Return
    BY <2>10 DEF Return
  <2>11. CASE UNCHANGED vars
    BY <2>11 DEF vars
  <2> QED BY <2>1, <2>2, <2>3, <2>4, <2>5, <2>6, <2>7, <2>8, <2>9, <2>10, <2>11 DEF Next
<1> QED BY <1>1, <1>2, PTL DEF Spec
----------------------------------------------------------------------------
(* A run that ends well is drained. *)

\* Sending puts a batch into the channel, receiving takes one out.
LEMMA QueuedAfterSend ==
    ASSUME NEW ch \in Seq(SUBSET Nat), NEW batch \in SUBSET Nat
    PROVE  Queued(Append(ch, batch)) = Queued(ch) \cup batch
<1> DEFINE next == Append(ch, batch)
<1>1. /\ Len(next) = Len(ch) + 1 /\ Len(ch) \in Nat
      /\ \A i \in 1..Len(ch) : next[i] = ch[i]
      /\ next[Len(ch) + 1] = batch
  OBVIOUS
<1> HIDE DEF next
<1>2. \A i \in 1..Len(next) : i \in 1..Len(ch) \/ i = Len(ch) + 1
  BY <1>1
<1>3. 1..Len(ch) \subseteq 1..Len(next) /\ Len(ch) + 1 \in 1..Len(next)
  BY <1>1
<1>4. Queued(next) = Queued(ch) \cup batch
  BY <1>1, <1>2, <1>3, Zenon DEF Queued
<1> QED BY <1>4 DEF next

LEMMA QueuedAfterRecv ==
    ASSUME NEW ch \in Seq(SUBSET Nat), ch # <<>>
    PROVE  Queued(ch) \subseteq Head(ch) \cup Queued(Tail(ch))
<1> DEFINE rest == Tail(ch)
<1>1. /\ Len(rest) = Len(ch) - 1 /\ Len(ch) \in Nat
      /\ \A i \in 1..Len(rest) : rest[i] = ch[i + 1]
      /\ Head(ch) = ch[1]
  OBVIOUS
<1> HIDE DEF rest
<1>2. ASSUME NEW i \in 1..Len(ch), i # 1 PROVE ch[i] = rest[i - 1] /\ i - 1 \in 1..Len(rest)
  BY <1>1, <1>2
<1>3. \A i \in 1..Len(ch) : ch[i] \subseteq Head(ch) \cup Queued(rest)
  BY <1>1, <1>2 DEF Queued
<1> QED BY <1>3 DEF Queued, rest

\* What the actor system, the caller and the modes do, sending aside, leaves
\* the channel and the loop alone and wakes no task that has ended.
LEMMA QuietSteps ==
    ASSUME TypeOK,
           \/ PushEvent \/ Notify \/ CloseHub \/ RequestShutdown \/ Timeout \/ Return
           \/ \E m \in Modes : (Ingest(m) /\ ~Send(m)) \/ Stop(m) \/ SourceFails(m)
           \/ UNCHANGED vars
    PROVE  /\ UNCHANGED <<setup, channel, loop, seen, store, sent>>
           /\ \A n \in Modes : ~Running(n) => ~Running(n)'
<1>1. CASE PushEvent \/ Notify \/ CloseHub \/ RequestShutdown \/ Timeout \/ Return \/ UNCHANGED vars
  BY <1>1 DEF PushEvent, Notify, CloseHub, RequestShutdown, Timeout, Return, vars, source, Running
<1>2. ASSUME NEW m \in Modes, (Ingest(m) /\ ~Send(m)) \/ Stop(m) \/ SourceFails(m)
      PROVE  /\ UNCHANGED <<setup, channel, loop, seen, store, sent>>
             /\ \A n \in Modes : ~Running(n) => ~Running(n)'
  <2>1. UNCHANGED <<setup, channel, loop, seen, store, sent>>
    BY <1>2 DEF Ingest, Subscribe, Read, TakeCursor, RecvEvent, Lagged, Closed, Stop, SourceFails, source
  <2>2. \A n \in Modes : n # m => ingest'[n] = ingest[n]
    BY <1>2 DEF Ingest, Subscribe, Read, TakeCursor, RecvEvent, Lagged, Closed, Stop, SourceFails, TypeOK
  <2>3. ~Running(m) => ingest' = ingest
    BY <1>2 DEF Ingest, Subscribe, Read, TakeCursor, RecvEvent, Lagged, Closed, Stop, SourceFails,
                Wakes, Running, Ended
  <2> QED BY <2>1, <2>2, <2>3 DEF Running
<1> QED BY <1>1, <1>2

\* A run that ends well, also by a shutdown or after a timeout, has committed
\* every event that any of its modes has sent, whatever the projection
\* strategy and however the modes interleave.
THEOREM ProjectorDrainsWhenOk == Spec => []DrainedWhenOk
<1> DEFINE Inv == LoopInv /\ NothingDropped
<1>1. Init => Inv
  BY DEF Init, LoopInv, NothingDropped, Modes
<1>2. TypeOK /\ Inv /\ [Next]_vars => Inv'
  <2> SUFFICES ASSUME TypeOK, Inv, [Next]_vars PROVE Inv'
    OBVIOUS
  <2>1. ASSUME UNCHANGED <<setup, channel, loop, seen, store, sent>>,
               \A n \in Modes : ~Running(n) => ~Running(n)'
        PROVE  Inv'
    <3>1. Modes' = Modes /\ Projection' = Projection
      BY <2>1 DEF Modes, Projection
    <3>2. LoopInv'
      BY <2>1, <3>1 DEF LoopInv
    <3>3. NothingDropped'
      BY <2>1, <3>1 DEF NothingDropped
    <3> QED BY <3>2, <3>3
  <2>2. ASSUME NEW m \in Modes, Send(m) PROVE Inv'
    <3>1. /\ UNCHANGED <<setup, loop, seen, store>>
          /\ Modes' = Modes /\ Projection' = Projection
      BY <2>2 DEF Send, source, Modes, Projection
    <3>2. loop.result # "ok"
      BY <2>2 DEF LoopInv, Send, Running, Ended
    <3>3. ingest[m].batch \in SUBSET Nat /\ channel \in Seq(SUBSET Nat)
      BY DEF TypeOK, IngestState
    <3>4. Queued(channel') = Queued(channel) \cup ingest[m].batch
      BY <2>2, <3>3, QueuedAfterSend DEF Send
    <3>5. \A n \in Modes : sent'[n] \subseteq sent[n] \cup ingest[m].batch
      BY <2>2 DEF Send, TypeOK
    <3>6. LoopInv'
      BY <3>1, <3>2 DEF LoopInv
    <3>7. NothingDropped'
      BY <3>1, <3>4, <3>5 DEF NothingDropped
    <3> QED BY <3>6, <3>7
  <2>3. CASE Recv
    <3> DEFINE batch == Head(channel)
               delta == Project(batch)
    <3>1. /\ UNCHANGED <<setup, store, sent>> /\ Modes' = Modes /\ Projection' = Projection
          /\ loop.pc = "recv" /\ channel # <<>> /\ channel' = Tail(channel)
          /\ seen' = seen \cup batch
      BY <2>3 DEF Recv, source, Modes, Projection
    <3>2. batch \in SUBSET Nat /\ channel \in Seq(SUBSET Nat)
      BY <3>1 DEF TypeOK
    <3>3. loop.delta = {} /\ loop.result = "none" /\ loop'.result = "none"
      BY <2>3, <3>1 DEF LoopInv, Recv, TypeOK
    <3>4. loop'.delta = delta /\ loop'.pc = IF delta = {} THEN "recv" ELSE "commit"
      BY <2>3, <3>1, <3>3 DEF Recv, TypeOK
    <3>5. Queued(channel) \subseteq batch \cup Queued(channel')
      BY <3>1, <3>2, QueuedAfterRecv
    <3>6. /\ batch \ {Paths} \subseteq delta \cup seen
          /\ Projection # "snapshot_diff" => batch \ {Paths} \subseteq delta
      BY <3>2, ProjectedIsReceived
    <3>7. Projection = "snapshot_diff" => seen \ {Paths} \subseteq store
      BY <3>3 DEF NothingDropped
    <3>8. batch \ {Paths} \subseteq store \cup delta
      BY <3>6, <3>7
    <3> HIDE DEF batch, delta
    <3>9. LoopInv'
      BY <3>1, <3>3, <3>4 DEF LoopInv
    <3>10. \A m \in Modes : sent[m] \ {Paths} \subseteq store \cup Queued(channel)
      BY <3>3 DEF NothingDropped
    <3>11. NothingDropped'
      BY <3>1, <3>4, <3>5, <3>7, <3>8, <3>10 DEF NothingDropped
    <3> QED BY <3>9, <3>11
  <2>4. CASE Commit
    <3>1. /\ UNCHANGED <<setup, channel, seen, sent>> /\ Modes' = Modes /\ Projection' = Projection
          /\ store' = store \cup loop.delta
          /\ loop.pc = "commit" /\ loop' = [loop EXCEPT !.pc = "recv", !.delta = {}]
      BY <2>4 DEF Commit, source, Modes, Projection
    <3>2. loop'.pc = "recv" /\ loop'.delta = {} /\ loop'.result = loop.result /\ loop.result = "none"
      BY <3>1 DEF TypeOK, LoopInv
    <3> QED BY <3>1, <3>2 DEF LoopInv, NothingDropped
  <2>5. CASE LoopFails
    BY <2>5 DEF LoopFails, LoopInv, NothingDropped
  <2>6. CASE Join
    <3>1. /\ UNCHANGED <<setup, ingest, channel, seen, store, sent>>
          /\ Modes' = Modes /\ Projection' = Projection
          /\ channel = <<>> /\ \A m \in Modes : ~Running(m)
      BY <2>6 DEF Join, source, Modes, Projection
    <3>2. /\ loop.pc = "recv" /\ loop'.pc = "done" /\ loop'.delta = loop.delta
          /\ loop'.result \in {"ok", "error"} /\ loop.result = "none"
      BY <2>6 DEF Join, TypeOK, LoopInv
    <3>3. LoopInv'
      BY <3>1, <3>2 DEF LoopInv, Running
    <3>4. NothingDropped'
      BY <3>1, <3>2 DEF NothingDropped
    <3> QED BY <3>3, <3>4
  <2> QED BY <2>1, <2>2, <2>3, <2>4, <2>5, <2>6, QuietSteps DEF Next
<1>3. Inv => DrainedWhenOk
  <2> SUFFICES ASSUME Inv, loop.result = "ok", NEW m \in Modes PROVE sent[m] \ {Paths} \subseteq store
    BY DEF DrainedWhenOk
  <2>1. channel = <<>> /\ loop.delta = {}
    BY DEF LoopInv
  <2>2. Queued(channel) = {}
    BY <2>1 DEF Queued
  <2> QED BY <2>1, <2>2 DEF NothingDropped
<1> QED BY <1>1, <1>2, <1>3, ProjectorTypeCorrect, PTL DEF Spec
----------------------------------------------------------------------------
(* No event is sent twice. *)

\* The batch in hand is new to the mode.
BatchIsNew(m) == (ingest[m].batch \ {Paths}) \cap sent[m] = {}

\* A step of mode m leaves the other modes alone.
LEMMA OtherModes ==
    ASSUME TypeOK, NEW m \in Modes, Ingest(m) \/ Stop(m) \/ SourceFails(m),
           NEW n \in Modes, n # m
    PROVE  ingest'[n] = ingest[n] /\ inbox'[n] = inbox[n] /\ sent'[n] = sent[n]
<1>1. ingest'[n] = ingest[n]
  BY DEF Ingest, Subscribe, Read, TakeCursor, RecvEvent, Lagged, Send, Closed, Stop, SourceFails, TypeOK
<1>2. inbox'[n] = inbox[n]
  BY DEF Ingest, Subscribe, Read, TakeCursor, RecvEvent, Lagged, Send, Closed, Stop, SourceFails,
         Consumed, source, TypeOK
<1>3. sent'[n] = sent[n]
  BY DEF Ingest, Subscribe, Read, TakeCursor, RecvEvent, Lagged, Send, Closed, Stop, SourceFails, TypeOK
<1> QED BY <1>1, <1>2, <1>3

\* Taking the oldest event of an event stream leaves later ones.
LEMMA StreamConsumed ==
    ASSUME TypeOK, SentInv, "event_stream" \in Modes, Wakes("event_stream"),
           inbox' = Consumed("event_stream")
    PROVE  LET queue == inbox["event_stream"].queue
               rest  == inbox'["event_stream"].queue
           IN  /\ Head(queue) \in Nat
               /\ ingest["event_stream"].cursor < Head(queue) /\ Head(queue) <= hub.notified
               /\ \A i \in 1..Len(rest) : Head(queue) < rest[i] /\ rest[i] <= hub.notified
               /\ \A i, j \in 1..Len(rest) : i < j => rest[i] < rest[j]
<1> DEFINE queue == inbox["event_stream"].queue
           rest  == inbox'["event_stream"].queue
<1>1. queue \in Seq(Nat) /\ queue # <<>>
  BY DEF Wakes, TypeOK, Receiver
<1>2. rest = Tail(queue)
  BY DEF Consumed, TypeOK, Receiver
<1>3. /\ \A i \in 1..Len(queue) : ingest["event_stream"].cursor < queue[i] /\ queue[i] <= hub.notified
      /\ \A i, j \in 1..Len(queue) : i < j => queue[i] < queue[j]
  BY DEF SentInv, StreamInv
<1> HIDE DEF queue, rest
<1>4. /\ Len(rest) = Len(queue) - 1 /\ Len(queue) \in Nat /\ Len(queue) # 0
      /\ Head(queue) = queue[1] /\ queue[1] \in Nat
      /\ \A i \in 1..Len(rest) : rest[i] = queue[i + 1]
  BY <1>1, <1>2
<1>5. /\ 1 \in 1..Len(queue)
      /\ \A i \in 1..Len(rest) : i + 1 \in 1..Len(queue) /\ 1 < i + 1
  BY <1>4
<1>6. \A i, j \in 1..Len(rest) : i < j => rest[i] < rest[j]
  BY <1>3, <1>4, <1>5
<1>7. \A i \in 1..Len(rest) : Head(queue) < rest[i] /\ rest[i] <= hub.notified
  BY <1>3, <1>4, <1>5
<1> QED BY <1>3, <1>4, <1>5, <1>6, <1>7 DEF queue, rest

\* A mode's own step keeps its batch new and its cursor ahead of what it has
\* sent.
LEMMA CursorStep ==
    ASSUME TypeOK, SentInv, NEW m \in Modes, BatchIsNew(m), Ingest(m) \/ Stop(m) \/ SourceFails(m)
    PROVE  CursorInv(m)' /\ BatchIsNew(m)'
<1>1. /\ ingest \in [Modes -> IngestState] /\ ingest[m] \in IngestState
      /\ version \in Nat /\ sent \in [Modes -> SUBSET Nat]
  BY DEF TypeOK
<1>2. CursorInv(m)
  BY DEF SentInv
<1>3. version' = version
  BY DEF Ingest, Subscribe, Read, TakeCursor, RecvEvent, Lagged, Send, Closed, Stop, SourceFails, source
<1> USE DEF Paths
<1>4. CASE Subscribe(m) \/ Closed(m) \/ Stop(m) \/ Lagged(m)
  <2>1. /\ ingest'[m].cursor = ingest[m].cursor /\ ingest'[m].batch = ingest[m].batch
        /\ ingest'[m].pc \in {"select", "exited"} /\ sent' = sent
    BY <1>1, <1>4 DEF Subscribe, Closed, Stop, Lagged, IngestState
  <2> QED BY <1>2, <1>3, <2>1 DEF CursorInv, BatchIsNew
<1>5. CASE Read(m)
  <2> DEFINE b == Journal(ingest[m].cursor) \cup KnownPaths
  <2>1. sent' = sent
    BY <1>5 DEF Read
  <2>2. CASE ingest' = ingest
    BY <1>2, <1>3, <2>1, <2>2 DEF CursorInv, BatchIsNew
  <2>3. CASE ingest' = [ingest EXCEPT ![m].pc = "read", ![m].batch = b]
    <3>1. b \subseteq 0..version /\ (b \ {0}) \cap (0..ingest[m].cursor) = {}
      BY <1>1 DEF Journal, KnownPaths, IngestState
    <3> HIDE DEF b
    <3>2. ingest'[m].pc = "read" /\ ingest'[m].batch = b /\ ingest'[m].cursor = ingest[m].cursor
      BY <1>1, <2>3 DEF IngestState
    <3> QED BY <1>2, <1>3, <2>1, <3>1, <3>2 DEF CursorInv, BatchIsNew
  <2> QED BY <1>5, <2>2, <2>3 DEF Read
<1>6. CASE TakeCursor(m)
  <2>1. /\ sent' = sent /\ ingest[m].pc = "read"
        /\ ingest'[m].cursor = version /\ ingest'[m].batch = ingest[m].batch
        /\ ingest'[m].pc \in {"send", "exited", "select"}
    BY <1>1, <1>6 DEF TakeCursor, Resume, IngestState
  <2>2. 0..ingest[m].cursor \subseteq 0..version
    BY <1>1, <1>2 DEF CursorInv, IngestState
  <2> QED BY <1>1, <1>2, <1>3, <2>1, <2>2 DEF CursorInv, BatchIsNew
<1>7. CASE RecvEvent(m)
  <2> DEFINE x == Head(inbox[m].queue)
             b == {x} \cup KnownPaths
  <2>1. m = "event_stream" /\ Wakes(m) /\ inbox' = Consumed(m) /\ sent' = sent
    BY <1>7 DEF RecvEvent
  <2>2. x \in Nat /\ ingest[m].cursor < x /\ x <= hub.notified
    BY <2>1, StreamConsumed
  <2>3. x <= version /\ hub.notified \in Nat
    BY <1>1, <2>2 DEF SentInv, TypeOK
  <2> HIDE DEF x
  <2>4. b \subseteq 0..x /\ (b \ {0}) \cap (0..ingest[m].cursor) = {} /\ 0..ingest[m].cursor \subseteq 0..x
    BY <1>1, <2>2 DEF KnownPaths, IngestState
  <2> HIDE DEF b
  <2>5. ingest'[m].pc = "send" /\ ingest'[m].batch = b /\ ingest'[m].cursor = x
    BY <1>1, <1>7 DEF RecvEvent, IngestState, x, b
  <2> QED BY <1>2, <1>3, <2>1, <2>3, <2>4, <2>5 DEF CursorInv, BatchIsNew
<1>8. CASE Send(m)
  <2>1. /\ ingest[m].pc = "send" /\ sent'[m] = sent[m] \cup ingest[m].batch
        /\ ingest'[m].cursor = ingest[m].cursor /\ ingest'[m].batch = {}
        /\ ingest'[m].pc \in {"exited", "select"}
    BY <1>1, <1>8 DEF Send, Resume, IngestState
  <2> QED BY <1>2, <1>3, <2>1 DEF CursorInv, BatchIsNew
<1>9. CASE SourceFails(m)
  <2>1. /\ sent' = sent /\ ingest'[m].cursor = ingest[m].cursor
        /\ ingest'[m].batch = {} /\ ingest'[m].pc = "failed"
    BY <1>1, <1>9 DEF SourceFails, IngestState
  <2> QED BY <1>2, <1>3, <2>1 DEF CursorInv, BatchIsNew
<1> QED BY <1>4, <1>5, <1>6, <1>7, <1>8, <1>9 DEF Ingest

\* The event stream's own step keeps the events it has yet to take ahead of
\* its cursor and in order.
LEMMA StreamStep ==
    ASSUME TypeOK, SentInv, NEW m \in Modes, m = "event_stream",
           Ingest(m) \/ Stop(m) \/ SourceFails(m)
    PROVE  StreamInv'
<1>1. /\ ingest \in [Modes -> IngestState] /\ ingest[m] \in IngestState
      /\ inbox \in [Modes -> Receiver] /\ inbox[m] \in Receiver
  BY DEF TypeOK
<1>2. StreamInv
  BY DEF SentInv
<1>3. hub' = hub
  BY DEF Ingest, Subscribe, Read, TakeCursor, RecvEvent, Lagged, Send, Closed, Stop, SourceFails, source
<1>4. CASE Closed(m) \/ Stop(m) \/ Lagged(m) \/ Send(m)
  <2>1. /\ ingest'[m].cursor = ingest[m].cursor /\ ingest'[m].pc # "read"
        /\ inbox'[m].queue = inbox[m].queue
    BY <1>1, <1>4 DEF Closed, Stop, Lagged, Send, Resume, IngestState, Receiver, source
  <2> QED BY <1>2, <1>3, <2>1 DEF StreamInv
<1>5. CASE RecvEvent(m)
  <2>1. Wakes(m) /\ inbox' = Consumed(m)
    BY <1>5 DEF RecvEvent
  <2>2. ingest'[m].cursor = Head(inbox[m].queue) /\ ingest'[m].pc = "send"
    BY <1>1, <1>5 DEF RecvEvent, IngestState
  <2> QED BY <1>3, <2>1, <2>2, StreamConsumed DEF StreamInv
<1>6. CASE SourceFails(m)
  <2>1. ingest'[m].cursor = ingest[m].cursor /\ ingest'[m].pc = "failed"
    BY <1>1, <1>6 DEF SourceFails, IngestState
  <2>2. CASE inbox' = inbox
    BY <1>2, <1>3, <2>1, <2>2 DEF StreamInv
  <2>3. CASE Wakes(m) /\ inbox' = Consumed(m)
    <3> DEFINE rest == inbox'[m].queue
               x == Head(inbox[m].queue)
    <3>1. /\ x \in Nat /\ ingest[m].cursor < x
          /\ \A i \in 1..Len(rest) : x < rest[i] /\ rest[i] <= hub.notified
          /\ \A i, j \in 1..Len(rest) : i < j => rest[i] < rest[j]
      BY <2>3, StreamConsumed
    <3>2. rest \in Seq(Nat) /\ ingest[m].cursor \in Nat
      BY <1>1, <2>3, ConsumedType DEF Receiver, IngestState
    <3>3. \A i \in 1..Len(rest) : rest[i] \in Nat
      BY <3>2
    <3> HIDE DEF x
    <3>4. \A i \in 1..Len(rest) : ingest[m].cursor < rest[i] /\ rest[i] <= hub.notified
      BY <3>1, <3>2, <3>3
    <3> QED BY <1>2, <1>3, <2>1, <3>1, <3>4 DEF StreamInv
  <2> QED BY <1>6, <2>2, <2>3 DEF SourceFails
<1>7. ~Subscribe(m) /\ ~Read(m) /\ ~TakeCursor(m)
  BY <1>2 DEF Subscribe, Read, TakeCursor, StreamInv
<1> QED BY <1>4, <1>5, <1>6, <1>7 DEF Ingest

\* A notification lies beyond all that the event stream holds or has taken,
\* also when it pushes out the oldest one.
LEMMA StreamNotified ==
    ASSUME TypeOK, SentInv, Notify
    PROVE  StreamInv'
<1> SUFFICES ASSUME "event_stream" \in Modes PROVE StreamInv'
  BY DEF StreamInv, Notify, Modes
<1> DEFINE m == "event_stream"
           queue == inbox[m].queue
           x == hub.notified + 1
           after == inbox'[m].queue
<1>1. /\ queue \in Seq(Nat) /\ hub.notified \in Nat /\ inbox[m] \in Receiver
      /\ ingest[m].cursor \in Nat
  BY DEF TypeOK, Receiver, IngestState
<1>2. /\ ingest[m].pc # "read" /\ ingest[m].cursor <= hub.notified
      /\ \A i \in 1..Len(queue) : ingest[m].cursor < queue[i] /\ queue[i] <= hub.notified
      /\ \A i, j \in 1..Len(queue) : i < j => queue[i] < queue[j]
  BY DEF SentInv, StreamInv
<1>3. hub'.notified = x /\ ingest' = ingest /\ inbox'[m] = Deliver(inbox[m], x)
  BY DEF Notify, Subscribed, TypeOK
<1>4. /\ \A i \in 1..Len(after) : ingest[m].cursor < after[i] /\ after[i] <= x
      /\ \A i, j \in 1..Len(after) : i < j => after[i] < after[j]
  <2>1. CASE Len(queue) < SignalCapacity
    <3>1. after = Append(queue, x)
      BY <1>1, <1>3, <2>1 DEF Deliver, Receiver
    <3> HIDE DEF m, queue, after
    <3>2. /\ Len(after) = Len(queue) + 1 /\ Len(queue) \in Nat
          /\ \A i \in 1..Len(queue) : after[i] = queue[i] /\ queue[i] \in Nat
          /\ after[Len(queue) + 1] = x
      BY <1>1, <3>1
    <3>3. \A i \in 1..Len(after) : i \in 1..Len(queue) \/ i = Len(queue) + 1
      BY <3>2
    <3>4. \A i \in 1..Len(after) : ingest[m].cursor < after[i] /\ after[i] <= x
      BY <1>1, <1>2, <3>2, <3>3
    <3>5. \A i, j \in 1..Len(after) : i < j => after[i] < after[j]
      BY <1>1, <1>2, <3>2, <3>3
    <3> QED BY <3>4, <3>5
  <2>2. CASE ~(Len(queue) < SignalCapacity)
    <3> DEFINE rest == Tail(queue)
    <3>1. after = Append(rest, x)
      BY <1>1, <1>3, <2>2 DEF Deliver, Receiver
    <3>2. queue # <<>>
      BY <2>2, BoundsAssumption
    <3> HIDE DEF m, queue, after
    <3>3. /\ rest \in Seq(Nat) /\ Len(rest) = Len(queue) - 1 /\ Len(rest) \in Nat /\ Len(queue) \in Nat
          /\ \A i \in 1..Len(rest) : rest[i] = queue[i + 1] /\ queue[i + 1] \in Nat
      BY <1>1, <3>2
    <3> HIDE DEF rest
    <3>4. /\ Len(after) = Len(rest) + 1
          /\ \A i \in 1..Len(rest) : after[i] = rest[i]
          /\ after[Len(rest) + 1] = x
      BY <1>1, <3>1, <3>3
    <3>5. \A i \in 1..Len(after) : i \in 1..Len(rest) \/ i = Len(rest) + 1
      BY <3>3, <3>4
    <3>6. \A i \in 1..Len(rest) : i + 1 \in 1..Len(queue)
      BY <3>3
    <3>7. \A i \in 1..Len(rest) : ingest[m].cursor < rest[i] /\ rest[i] <= hub.notified /\ rest[i] \in Nat
      BY <1>2, <3>3, <3>6
    <3>8. ASSUME NEW i \in 1..Len(rest), NEW j \in 1..Len(rest), i < j PROVE rest[i] < rest[j]
      <4>1. i + 1 \in 1..Len(queue) /\ j + 1 \in 1..Len(queue) /\ i + 1 < j + 1
        BY <3>3, <3>6, <3>8
      <4> QED BY <1>2, <3>3, <4>1
    <3>9. ASSUME NEW i \in 1..Len(after) PROVE ingest[m].cursor < after[i] /\ after[i] <= x
      <4>1. CASE i \in 1..Len(rest)
        BY <1>1, <3>4, <3>7, <4>1
      <4>2. CASE i = Len(rest) + 1
        BY <1>1, <1>2, <3>4, <4>2
      <4> QED BY <3>5, <4>1, <4>2
    <3>10. ASSUME NEW i \in 1..Len(after), NEW j \in 1..Len(after), i < j PROVE after[i] < after[j]
      <4>1. i \in 1..Len(rest)
        BY <3>3, <3>4, <3>5, <3>10
      <4>2. CASE j \in 1..Len(rest)
        BY <3>4, <3>8, <3>10, <4>1, <4>2
      <4>3. CASE j = Len(rest) + 1
        BY <1>1, <3>4, <3>7, <4>1, <4>3
      <4> QED BY <3>5, <4>2, <4>3
    <3> QED BY <3>9, <3>10
  <2> QED BY <2>1, <2>2
<1> QED BY <1>1, <1>2, <1>3, <1>4 DEF StreamInv

\* No ingest mode sends an event twice, whatever its source appends between
\* its reads and however many notifications it loses.
THEOREM ProjectorSendsOnce == Spec => []NoEventSentTwice
<1> DEFINE Inv == SentInv /\ \A m \in Modes : BatchIsNew(m)
<1>1. Init => Inv
  <2> SUFFICES ASSUME Init PROVE Inv
    OBVIOUS
  <2>1. \A m \in Modes : /\ ingest[m].cursor = 0 /\ ingest[m].batch = {} /\ sent[m] = {}
                         /\ ingest[m].pc \in {"start", "select"} /\ inbox[m].queue = <<>>
    BY DEF Init
  <2>2. version = 0 /\ hub.notified = 0
    BY DEF Init
  <2> QED BY <2>1, <2>2 DEF SentInv, CursorInv, StreamInv, BatchIsNew
<1>2. TypeOK /\ Inv /\ [Next]_vars => Inv'
  <2> SUFFICES ASSUME TypeOK, Inv, [Next]_vars PROVE Inv'
    OBVIOUS
  <2>0. version \in Nat /\ hub.notified \in Nat /\ \A m \in Modes : ingest[m].cursor \in Nat
    BY DEF TypeOK, IngestState
  <2>1. CASE PushEvent
    <3>1. UNCHANGED <<setup, hub, inbox, ingest, sent>> /\ version' = version + 1
      BY <2>1 DEF PushEvent
    <3>2. Modes' = Modes
      BY <3>1 DEF Modes
    <3>3. hub.notified <= version'
      BY <2>0, <3>1 DEF SentInv
    <3>4. ASSUME NEW m \in Modes PROVE CursorInv(m)'
      <4>1. CursorInv(m) /\ ingest[m].cursor \in Nat
        BY <2>0 DEF SentInv
      <4>2. 0..version \subseteq 0..(version + 1)
        BY <2>0
      <4>3. ingest[m].cursor <= version + 1
        BY <2>0, <4>1 DEF CursorInv
      <4> QED BY <3>1, <4>1, <4>2, <4>3 DEF CursorInv
    <3> QED BY <3>1, <3>2, <3>3, <3>4 DEF SentInv, StreamInv, BatchIsNew
  <2>2. CASE Notify
    <3>1. /\ UNCHANGED <<setup, version, ingest, sent>> /\ Modes' = Modes
          /\ hub'.notified <= version'
      BY <2>0, <2>2 DEF Notify, Modes, TypeOK
    <3>2. StreamInv'
      BY <2>2, StreamNotified
    <3> QED BY <3>1, <3>2 DEF SentInv, CursorInv, BatchIsNew
  <2>3. ASSUME NEW m \in Modes, Ingest(m) \/ Stop(m) \/ SourceFails(m) PROVE Inv'
    <3>1. UNCHANGED <<setup, version, hub>> /\ Modes' = Modes
      BY <2>3 DEF Ingest, Subscribe, Read, TakeCursor, RecvEvent, Lagged, Send, Closed, Stop, SourceFails,
                  source, Modes
    <3>2. CursorInv(m)' /\ BatchIsNew(m)'
      BY <2>3, CursorStep
    <3>3. \A n \in Modes : n # m => /\ ingest'[n] = ingest[n] /\ inbox'[n] = inbox[n]
                                    /\ sent'[n] = sent[n]
      BY <2>3, OtherModes
    <3>4. \A n \in Modes : n # m => CursorInv(n)' /\ BatchIsNew(n)'
      BY <3>1, <3>3 DEF SentInv, CursorInv, BatchIsNew
    <3>5. StreamInv'
      <4>1. CASE m = "event_stream"
        BY <2>3, <4>1, StreamStep
      <4>2. CASE m # "event_stream"
        BY <3>1, <3>3, <4>2 DEF SentInv, StreamInv
      <4> QED BY <4>1, <4>2
    <3> QED BY <3>1, <3>2, <3>4, <3>5 DEF SentInv
  <2>4. CASE LoopFails
    <3>1. /\ UNCHANGED <<setup, version, hub, inbox, sent>> /\ Modes' = Modes
      BY <2>4 DEF LoopFails, source, Modes
    <3>2. \A m \in Modes : /\ ingest'[m].cursor = ingest[m].cursor /\ ingest'[m].batch = ingest[m].batch
                           /\ ingest'[m].pc \in {ingest[m].pc, "aborted"}
      BY <2>4 DEF LoopFails, TypeOK, IngestState
    <3> QED BY <3>1, <3>2 DEF SentInv, CursorInv, StreamInv, BatchIsNew
  <2>5. CASE UNCHANGED <<setup, version, hub.notified, inbox, ingest, sent>>
    BY <2>5 DEF SentInv, CursorInv, StreamInv, BatchIsNew, Modes
  <2>6. CASE CloseHub
    BY <2>5, <2>6 DEF CloseHub, TypeOK
  <2>7. CASE Recv \/ Commit \/ Join \/ RequestShutdown \/ Timeout \/ Return \/ UNCHANGED vars
    BY <2>5, <2>7 DEF Recv, Commit, Join, RequestShutdown, Timeout, Return, vars, source
  <2> QED BY <2>1, <2>2, <2>3, <2>4, <2>6, <2>7 DEF Next
<1>3. Inv => NoEventSentTwice
  BY DEF NoEventSentTwice, BatchIsNew
<1> QED BY <1>1, <1>2, <1>3, ProjectorTypeCorrect, PTL DEF Spec
=============================================================================
