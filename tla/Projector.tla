------------------------------ MODULE Projector ------------------------------
(***************************************************************************)
(* atomr-ontology-actor-projection: a Projector pumps the journal of an    *)
(* actor system into an ontology store.                                    *)
(*                                                                         *)
(* Ingest modes are tasks of a JoinSet.  Each reads the source in several  *)
(* awaits (journal, paths, states, then cursor) while the actor system     *)
(* keeps appending, and sends its batch into a bounded channel.  One loop  *)
(* receives the batches, projects each into a delta and commits it.  The   *)
(* loop ends when the last mode has dropped its sender and the channel is  *)
(* drained, or with the first error of a projection or a commit, which     *)
(* aborts the modes.                                                       *)
(*                                                                         *)
(* Data abstraction: an event is its journal position; the supervision     *)
(* paths are the one item Paths.  Actor states travel with their events.   *)
(***************************************************************************)
EXTENDS Naturals, Sequences

CONSTANTS
    Setups,         \* how a projector may be built and run
    Capacity,       \* of the batch channel
    SignalCapacity, \* of a broadcast channel
    MaxEvents       \* bound on the journal

AllModes    == {"replay", "polling", "push_hook", "event_stream"}
Projections == {"hierarchical", "event_stream", "snapshot_diff"}

\* The modes in use, the entry point, the projection strategy, and whether
\* the source knows any supervision path.
Setup == [modes : SUBSET AllModes, entry : {"run", "run_with_timeout", "run_until_shutdown"},
          projection : Projections, paths : BOOLEAN]

ASSUME SetupsAssumption == Setups \subseteq Setup
ASSUME BoundsAssumption == /\ Capacity \in Nat \ {0} /\ SignalCapacity \in Nat \ {0}
                           /\ MaxEvents \in Nat

VARIABLES
    setup,     \* what ProjectorBuilder::build was given
    version,   \* events in the journal, the source's cursor
    hub,       \* notified: events announced; open: is there a sender?
    inbox,     \* mode -> its broadcast receiver
    ingest,    \* mode -> its task: pc, cursor and the batch in hand
    channel,   \* batches on their way to the loop
    loop,      \* the loop: pc, the delta it commits, and its result
    seen,      \* what a SnapshotDiffProjection has emitted
    store,     \* what the store holds
    shutdown,  \* the shutdown watch channel
    caller,    \* the caller of run*, waiting for the result
    sent       \* history: mode -> what it has sent

source == <<setup, version, hub, inbox>>
vars   == <<setup, version, hub, inbox, ingest, channel, loop, seen, store, shutdown, caller, sent>>

Modes      == setup.modes
Entry      == setup.entry
Projection == setup.projection

Paths  == 0
Ended  == {"exited", "failed", "aborted"}

Init ==
    /\ setup \in Setups
    /\ version = 0
    /\ hub = [notified |-> 0, open |-> TRUE]
    /\ inbox = [m \in Modes |-> [queue |-> <<>>, lagged |-> FALSE]]
    /\ ingest = [m \in Modes |-> [pc |-> IF m \in {"replay", "push_hook"} THEN "start" ELSE "select",
                                  cursor |-> 0, batch |-> {}]]
    /\ channel = <<>>
    /\ loop = [pc |-> "recv", delta |-> {}, result |-> "none"]
    /\ seen = {}
    /\ store = {}
    /\ shutdown = FALSE
    /\ caller = "waiting"
    /\ sent = [m \in Modes |-> {}]

----------------------------------------------------------------------------
(* The actor system. *)

\* push_event, or the inner save of a PushHookCheckpointer.
PushEvent ==
    /\ version < MaxEvents
    /\ version' = version + 1
    /\ UNCHANGED <<setup, hub, inbox, ingest, channel, loop, seen, store, shutdown, caller, sent>>

\* What a broadcast channel does to a receiver: a full queue loses its
\* oldest message, and the receiver will be told that it lagged.
Deliver(box, x) ==
    IF Len(box.queue) < SignalCapacity
    THEN [box EXCEPT !.queue = Append(@, x)]
    ELSE [queue |-> Append(Tail(box.queue), x), lagged |-> TRUE]

\* push_hook subscribes when it runs, event_stream is built with a receiver.
Subscribed(m) == m = "event_stream" \/ (m = "push_hook" /\ ingest[m].pc # "start")

\* The actor system announces its next event, as an event on the event
\* stream and as the signal after a save.
Notify ==
    /\ Modes \cap {"push_hook", "event_stream"} # {}
    /\ hub.open
    /\ hub.notified < version
    /\ hub' = [hub EXCEPT !.notified = @ + 1]
    /\ inbox' = [m \in Modes |-> IF Subscribed(m) THEN Deliver(inbox[m], hub.notified + 1)
                                                  ELSE inbox[m]]
    /\ UNCHANGED <<setup, version, ingest, channel, loop, seen, store, shutdown, caller, sent>>

\* The actor system drops the sender of the event stream.
CloseHub ==
    /\ "event_stream" \in Modes
    /\ hub.open
    /\ hub' = [hub EXCEPT !.open = FALSE]
    /\ UNCHANGED <<setup, version, inbox, ingest, channel, loop, seen, store, shutdown, caller, sent>>

----------------------------------------------------------------------------
(* Ingest modes. *)

Running(m) == ingest[m].pc \notin Ended

\* Where a mode goes after its batch: a replay is over, the others loop.
Resume(m) == IF m = "replay" THEN "exited" ELSE "select"

\* PushHookIngest::run up to its loop.
Subscribe(m) ==
    /\ m = "push_hook" /\ ingest[m].pc = "start"
    /\ ingest' = [ingest EXCEPT ![m].pc = "select"]
    /\ UNCHANGED <<source, channel, loop, seen, store, shutdown, caller, sent>>

\* The branch of select! that makes a mode read its source is ready: a tick
\* of the interval, a signal, an event.
Wakes(m) ==
    CASE m = "replay"  -> ingest[m].pc = "start"
      [] m = "polling" -> ingest[m].pc = "select"
      [] OTHER         -> /\ ingest[m].pc = "select"
                          /\ ~inbox[m].lagged /\ inbox[m].queue # <<>>

Consumed(m) == IF m \in {"push_hook", "event_stream"}
               THEN [inbox EXCEPT ![m].queue = Tail(@)] ELSE inbox

\* Mutant: events at the cursor are fetched again.
JournalInclusive(since) == since .. version

\* source.journal(since) and source.paths().
Journal(since) == (since + 1) .. version
KnownPaths     == IF setup.paths THEN {Paths} ELSE {}

\* journal() and paths(); a poll that finds nothing leaves its cursor.
Read(m) ==
    LET batch == Journal(ingest[m].cursor) \cup KnownPaths
    IN  /\ m # "event_stream"
        /\ Wakes(m)
        /\ inbox' = Consumed(m)
        /\ ingest' = IF m = "polling" /\ batch = {} THEN ingest
                     ELSE [ingest EXCEPT ![m].pc = "read", ![m].batch = batch]
        /\ UNCHANGED <<setup, version, hub, channel, loop, seen, store, shutdown, caller, sent>>

\* source.cursor(): the mode will read on from there.  An empty batch of a
\* replay or a push hook is not sent.
TakeCursor(m) ==
    /\ ingest[m].pc = "read"
    /\ ingest' = [ingest EXCEPT ![m].cursor = version,
                                ![m].pc = IF ingest[m].batch = {} THEN Resume(m) ELSE "send"]
    /\ UNCHANGED <<source, channel, loop, seen, store, shutdown, caller, sent>>

\* EventStreamIngest: one event is one batch, with the path it carries.
RecvEvent(m) ==
    /\ m = "event_stream"
    /\ Wakes(m)
    /\ inbox' = Consumed(m)
    /\ ingest' = [ingest EXCEPT ![m].pc = "send", ![m].cursor = Head(inbox[m].queue),
                                ![m].batch = {Head(inbox[m].queue)} \cup KnownPaths]
    /\ UNCHANGED <<setup, version, hub, channel, loop, seen, store, shutdown, caller, sent>>

\* Mutant: a lagged receiver is replaced by a fresh one.
LaggedResubscribes(m) ==
    /\ ingest[m].pc = "select" /\ inbox[m].lagged
    /\ inbox' = [inbox EXCEPT ![m] = [queue |-> <<>>, lagged |-> FALSE]]
    /\ UNCHANGED <<setup, version, hub, ingest, channel, loop, seen, store, shutdown, caller, sent>>

\* RecvError::Lagged: go on with what the channel has kept.
Lagged(m) ==
    /\ ingest[m].pc = "select" /\ inbox[m].lagged
    /\ inbox' = [inbox EXCEPT ![m].lagged = FALSE]
    /\ UNCHANGED <<setup, version, hub, ingest, channel, loop, seen, store, shutdown, caller, sent>>

\* IngestCtx::send: waits for room in the channel.
Send(m) ==
    /\ ingest[m].pc = "send"
    /\ Len(channel) < Capacity
    /\ channel' = Append(channel, ingest[m].batch)
    /\ sent' = [sent EXCEPT ![m] = @ \cup ingest[m].batch]
    /\ ingest' = [ingest EXCEPT ![m].pc = Resume(m), ![m].batch = {}]
    /\ UNCHANGED <<source, loop, seen, store, shutdown, caller>>

\* Mutant: the shutdown is only looked at before the first read.
StopBeforeReading(m) ==
    /\ m # "replay" /\ ingest[m].pc = "select" /\ ingest[m].cursor = 0
    /\ shutdown
    /\ ingest' = [ingest EXCEPT ![m].pc = "exited"]
    /\ UNCHANGED <<source, channel, loop, seen, store, shutdown, caller, sent>>

\* The shutdown branch of select!.  A replay does not listen.
Stop(m) ==
    /\ m # "replay" /\ ingest[m].pc = "select"
    /\ shutdown
    /\ ingest' = [ingest EXCEPT ![m].pc = "exited"]
    /\ UNCHANGED <<source, channel, loop, seen, store, shutdown, caller, sent>>

\* RecvError::Closed.  A push hook holds a sender itself and never sees it;
\* the synthetic batch of an event stream is empty and never sent.
Closed(m) ==
    /\ m = "event_stream" /\ ingest[m].pc = "select"
    /\ ~hub.open /\ ~inbox[m].lagged /\ inbox[m].queue = <<>>
    /\ ingest' = [ingest EXCEPT ![m].pc = "exited"]
    /\ UNCHANGED <<source, channel, loop, seen, store, shutdown, caller, sent>>

\* A call of the source fails: the mode returns the error.
SourceFails(m) ==
    /\ Wakes(m) \/ ingest[m].pc = "read"
    /\ inbox' = IF Wakes(m) THEN Consumed(m) ELSE inbox
    /\ ingest' = [ingest EXCEPT ![m].pc = "failed", ![m].batch = {}]
    /\ UNCHANGED <<setup, version, hub, channel, loop, seen, store, shutdown, caller, sent>>

Ingest(m) == \/ Subscribe(m) \/ Read(m) \/ TakeCursor(m) \/ RecvEvent(m)
             \/ Lagged(m) \/ Send(m) \/ Closed(m)

----------------------------------------------------------------------------
(* The loop of run_inner. *)

\* ProjectionStrategy::project: what of a batch becomes nodes and edges.
Project(batch) ==
    CASE Projection = "hierarchical"  -> batch
      [] Projection = "event_stream"  -> batch \ {Paths}
      [] Projection = "snapshot_diff" -> batch \ seen

\* Mutant: the batch is marked as seen before it is compared.
RecvMarksFirst ==
    /\ loop.pc = "recv" /\ channel # <<>>
    /\ channel' = Tail(channel)
    /\ seen' = seen \cup Head(channel)
    /\ loop' = IF Head(channel) \ seen' = {} THEN loop
               ELSE [loop EXCEPT !.pc = "commit", !.delta = Head(channel) \ seen']
    /\ UNCHANGED <<source, ingest, store, shutdown, caller, sent>>

\* Receive and project a batch; an empty delta is not committed.
Recv ==
    /\ loop.pc = "recv" /\ channel # <<>>
    /\ channel' = Tail(channel)
    /\ seen' = seen \cup Head(channel)
    /\ loop' = IF Project(Head(channel)) = {} THEN loop
               ELSE [loop EXCEPT !.pc = "commit", !.delta = Project(Head(channel))]
    /\ UNCHANGED <<source, ingest, store, shutdown, caller, sent>>

\* store.commit_with_provenance.
Commit ==
    /\ loop.pc = "commit"
    /\ store' = store \cup loop.delta
    /\ loop' = [loop EXCEPT !.pc = "recv", !.delta = {}]
    /\ UNCHANGED <<source, ingest, channel, seen, shutdown, caller, sent>>

\* An error of the projection, of a strict schema, of the reconciliation
\* or of the commit: return it, drop the channel, abort the modes.
LoopFails ==
    /\ loop.pc = "commit" \/ (loop.pc = "recv" /\ channel # <<>>)
    /\ loop' = [pc |-> "done", delta |-> {}, result |-> "error"]
    /\ seen' = IF loop.pc = "recv" THEN seen \cup Head(channel) ELSE seen
    /\ channel' = <<>>
    /\ ingest' = [m \in Modes |-> IF Running(m) THEN [ingest[m] EXCEPT !.pc = "aborted"]
                                                ELSE ingest[m]]
    /\ UNCHANGED <<source, store, shutdown, caller, sent>>

\* Mutant: the loop ends with the modes, not with the channel.
JoinUndrained ==
    /\ loop.pc = "recv"
    /\ \A m \in Modes : ~Running(m)
    /\ loop' = [loop EXCEPT !.pc = "done",
                            !.result = IF \E m \in Modes : ingest[m].pc = "failed" THEN "error" ELSE "ok"]
    /\ UNCHANGED <<source, ingest, channel, seen, store, shutdown, caller, sent>>

\* recv() returns None: every sender is gone and the channel is drained.
\* The results of the modes are joined.
Join ==
    /\ loop.pc = "recv" /\ channel = <<>>
    /\ \A m \in Modes : ~Running(m)
    /\ loop' = [loop EXCEPT !.pc = "done",
                            !.result = IF \E m \in Modes : ingest[m].pc = "failed" THEN "error" ELSE "ok"]
    /\ UNCHANGED <<source, ingest, channel, seen, store, shutdown, caller, sent>>

----------------------------------------------------------------------------
(* run, run_with_timeout and run_until_shutdown. *)

\* run_until_shutdown: the external channel changed, or its sender is gone.
RequestShutdown ==
    /\ Entry = "run_until_shutdown" /\ caller = "waiting"
    /\ shutdown' = TRUE
    /\ caller' = "stopping"
    /\ UNCHANGED <<source, ingest, channel, loop, seen, store, sent>>

\* run_with_timeout: signal shutdown and return an error at once; the
\* spawned loop goes on by itself.
Timeout ==
    /\ Entry = "run_with_timeout" /\ caller = "waiting"
    /\ loop.result = "none"
    /\ shutdown' = TRUE
    /\ caller' = "timed_out"
    /\ UNCHANGED <<source, ingest, channel, loop, seen, store, sent>>

\* The join handle of the loop resolves.
Return ==
    /\ loop.result # "none"
    /\ caller = "stopping" \/ (caller = "waiting" /\ Entry # "run_until_shutdown")
    /\ caller' = "returned"
    /\ UNCHANGED <<source, ingest, channel, loop, seen, store, shutdown, sent>>

----------------------------------------------------------------------------
Next ==
    \/ PushEvent \/ Notify \/ CloseHub
    \/ \E m \in Modes : Ingest(m) \/ Stop(m) \/ SourceFails(m)
    \/ Recv \/ Commit \/ LoopFails \/ Join
    \/ RequestShutdown \/ Timeout \/ Return

Spec == Init /\ [][Next]_vars

\* The runtime runs every task that can go on, and select! picks a ready
\* branch at random, so a shutdown that stays signalled is seen.  Nothing
\* makes the actor system append, fail, or ask for a shutdown.
Fairness ==
    /\ \A m \in AllModes : WF_vars(m \in Modes /\ Ingest(m)) /\ SF_vars(m \in Modes /\ Stop(m))
    /\ WF_vars(Recv) /\ WF_vars(Commit) /\ WF_vars(Join) /\ WF_vars(Return)

FairSpec == Spec /\ Fairness

----------------------------------------------------------------------------
(* Properties. *)

(***************************************************************************)
(* A run that ends well has committed every event that any mode has sent:  *)
(* a shutdown drains the channel, also after a timeout.                    *)
(***************************************************************************)
DrainedWhenOk == loop.result = "ok" => \A m \in Modes : sent[m] \ {Paths} \subseteq store

(***************************************************************************)
(* A mode sends no event twice: it reads strictly after its cursor, and    *)
(* the cursor it takes covers what it has read.                            *)
(***************************************************************************)
NoEventSentTwice ==
    \A m \in Modes : (ingest[m].batch \ {Paths}) \cap sent[m] = {}

(***************************************************************************)
(* Once a shutdown is signalled the loop ends, whatever the modes are      *)
(* doing and however full the channel is.                                  *)
(***************************************************************************)
ShutdownEnds == shutdown ~> loop.result # "none"

(***************************************************************************)
(* An event that was sent is committed, or the run ends with an error.     *)
(***************************************************************************)
SentIsCommitted ==
    \A m \in AllModes, e \in 1..MaxEvents :
        (m \in Modes /\ e \in sent[m]) ~> (e \in store \/ loop.result = "error")

(***************************************************************************)
(* "Resync from the latest cursor; data is durable in the source": a push  *)
(* hook reads on past every save that was signalled to it, also when so    *)
(* many signals came that some were lost.                                  *)
(***************************************************************************)
LagCatchesUp ==
    \A n \in 1..MaxEvents :
        ("push_hook" \in Modes /\ \E i \in DOMAIN inbox["push_hook"].queue : inbox["push_hook"].queue[i] = n)
            ~> ("push_hook" \in Modes => ingest["push_hook"].cursor >= n \/ ~Running("push_hook"))

\* Events some mode or the loop still holds.
InHand == store \cup loop.delta \cup UNION {ingest[m].batch : m \in Modes}
            \cup UNION {channel[i] : i \in DOMAIN channel}

(***************************************************************************)
(* "Each tick fetches journal events strictly after the last seen cursor": *)
(* what the cursor has passed was read, and nothing is skipped.            *)
(***************************************************************************)
CursorSkipsNothing ==
    \A m \in Modes \ {"event_stream"} :
        loop.result = "none" /\ ingest[m].pc # "failed" => 1..ingest[m].cursor \subseteq InHand
=============================================================================
