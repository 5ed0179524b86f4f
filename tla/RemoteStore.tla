----------------------------- MODULE RemoteStore -----------------------------
(* The RPC client and server of atomr-ontology-remote.                       *)
(*                                                                           *)
(* A call of RemoteClient is one POST on a connection of its own.  The       *)
(* server's accept loop spawns a task per connection, which reads the        *)
(* request, runs it against the backing store and writes the response.       *)
(* The client may leave, or lose the connection, at any time; the task does  *)
(* not notice and carries on.  The server's handle shuts the accept loop     *)
(* down, or aborts it when dropped; neither touches the connection tasks.    *)
(*                                                                           *)
(* The backing store is any OntologyStore whose operations are atomic, here  *)
(* one cell that writes replace (upserts, commit) and reads return.          *)
EXTENDS Integers, FiniteSets

CONSTANTS
    Calls,            \* the calls clients ever make, each on its own connection
    Values,           \* what may be written
    Absent,           \* the cell before the first write
    Nothing           \* no operation or no answer yet

ASSUME AbsentAssumption == Absent \notin Values
ASSUME NothingAssumption == Nothing \notin Values \cup {Absent}

VARIABLES
    store,            \* the backing store's cell
    client,           \* client[c]: "idle", "waiting", "ok" or "err"
    op,               \* op[c]: the value to write, Absent for a read
    result,           \* result[c]: what an Ok call returned
    conn,             \* conn[c]: where the connection and its task are
    truncated,        \* the connections whose request never arrives whole
    answer,           \* answer[c]: what the task writes, Nothing for an error
    loop,             \* the accept loop: "top", "armed", "asleep" or "ended"
    handle,           \* "held", "shutting" or "dropped", then "returned"
    executed,         \* history: how often each call ran against the store
    window            \* history: the store's values since each call began

clients == <<client, op, result>>
vars == <<store, client, op, result, conn, truncated, answer, loop, handle, executed, window>>

----------------------------------------------------------------------------
(* The client. *)

\* The listener lives in the accept loop, and is closed with it.
listening == loop # "ended"

Init ==
    /\ store = Absent
    /\ client = [c \in Calls |-> "idle"]
    /\ op = [c \in Calls |-> Nothing]
    /\ result = [c \in Calls |-> Nothing]
    /\ conn = [c \in Calls |-> "none"]
    /\ truncated = {}
    /\ answer = [c \in Calls |-> Nothing]
    /\ loop = "top"
    /\ handle = "held"
    /\ executed = [c \in Calls |-> 0]
    /\ window = [c \in Calls |-> {}]

\* A trait method serializes its parameters and `call` POSTs them; a closed
\* port refuses the connection.
Call(c, o) ==
    /\ client[c] = "idle"
    /\ op' = [op EXCEPT ![c] = o]
    /\ window' = [window EXCEPT ![c] = {store}]
    /\ IF listening
       THEN /\ client' = [client EXCEPT ![c] = "waiting"]
            /\ conn' = [conn EXCEPT ![c] = "backlog"]
       ELSE /\ client' = [client EXCEPT ![c] = "err"]
            /\ UNCHANGED conn
    /\ UNCHANGED <<store, result, truncated, answer, loop, handle, executed>>

\* The client stops waiting: send() or bytes() reports a transport error, or
\* the caller drops the future.  What it had not sent is lost.
Leave(c) ==
    /\ client[c] = "waiting"
    /\ client' = [client EXCEPT ![c] = "err"]
    /\ window' = [window EXCEPT ![c] = {}]
    /\ \/ UNCHANGED truncated
       \/ conn[c] \in {"backlog", "reading"} /\ truncated' = truncated \cup {c}
    /\ UNCHANGED <<store, op, result, conn, answer, loop, handle, executed>>

\* `call` reads the response: a populated `error` is an error, a result is
\* what the method returns.
Receive(c) ==
    /\ client[c] = "waiting"
    /\ conn[c] = "answered"
    /\ client' = [client EXCEPT ![c] = IF answer[c] = Nothing THEN "err" ELSE "ok"]
    /\ result' = [result EXCEPT ![c] = answer[c]]
    /\ conn' = [conn EXCEPT ![c] = "closed"]
    /\ UNCHANGED <<store, op, truncated, answer, loop, handle, executed, window>>

\* A connection that was reset before it was answered.
Reset(c) ==
    /\ client[c] = "waiting"
    /\ conn[c] = "closed"
    /\ client' = [client EXCEPT ![c] = "err"]
    /\ window' = [window EXCEPT ![c] = {}]
    /\ UNCHANGED <<store, op, result, conn, truncated, answer, loop, handle, executed>>

----------------------------------------------------------------------------
(* The server. *)

\* A turn of the accept loop polls the signal first (the select is biased),
\* and goes on to accept if it was not sent.  It may be sent right after.
PollSignal ==
    /\ loop = "top" /\ handle = "held"
    /\ loop' = "armed"
    /\ UNCHANGED <<store, clients, conn, truncated, answer, handle, executed, window>>

\* It spawns a task for a connection ...
Accept(c) ==
    /\ loop = "armed"
    /\ conn[c] = "backlog"
    /\ loop' = "top"
    /\ conn' = [conn EXCEPT ![c] = "reading"]
    /\ UNCHANGED <<store, clients, truncated, answer, handle, executed, window>>

\* ... or waits, with nobody there, until the signal or a connection wakes it ...
AcceptPending ==
    /\ loop = "armed"
    /\ \A c \in Calls : conn[c] # "backlog"
    /\ loop' = "top"
    /\ UNCHANGED <<store, clients, conn, truncated, answer, handle, executed, window>>

\* ... or, after an error of accept(), sleeps without looking at the signal.
AcceptFails ==
    /\ loop = "armed"
    /\ loop' = "asleep"
    /\ UNCHANGED <<store, clients, conn, truncated, answer, handle, executed, window>>

Wake ==
    /\ loop = "asleep"
    /\ loop' = "top"
    /\ UNCHANGED <<store, clients, conn, truncated, answer, handle, executed, window>>

\* read_request: a whole request goes to `dispatch`.
ReadRequest(c) ==
    /\ conn[c] = "reading" /\ c \notin truncated
    /\ conn' = [conn EXCEPT ![c] = "running"]
    /\ UNCHANGED <<store, clients, truncated, answer, loop, handle, executed, window>>

\* ... and anything less is answered with 400.
BadRequest(c) ==
    /\ conn[c] = "reading" /\ c \in truncated
    /\ conn' = [conn EXCEPT ![c] = "replying"]
    /\ answer' = [answer EXCEPT ![c] = Nothing]
    /\ UNCHANGED <<store, clients, truncated, loop, handle, executed, window>>

\* Mutant: the answer is encoded before the operation has run.
ExecuteBefore(c) ==
    /\ conn[c] = "running"
    /\ store' = IF op[c] = Absent THEN store ELSE op[c]
    /\ conn' = [conn EXCEPT ![c] = "replying"]
    /\ answer' = [answer EXCEPT ![c] = store]
    /\ executed' = [executed EXCEPT ![c] = @ + 1]
    /\ window' = [d \in Calls |-> IF client[d] = "waiting" THEN window[d] \cup {store'} ELSE window[d]]
    /\ UNCHANGED <<clients, truncated, loop, handle>>

\* `dispatch` runs the method against the store and encodes its result,
\* whether or not anybody still waits for it.
Execute(c) ==
    /\ conn[c] = "running"
    /\ store' = IF op[c] = Absent THEN store ELSE op[c]
    /\ conn' = [conn EXCEPT ![c] = "replying"]
    /\ answer' = [answer EXCEPT ![c] = store']
    /\ executed' = [executed EXCEPT ![c] = @ + 1]
    /\ window' = [d \in Calls |-> IF client[d] = "waiting" THEN window[d] \cup {store'} ELSE window[d]]
    /\ UNCHANGED <<clients, truncated, loop, handle>>

\* The store refuses the operation; its error is the answer.
StoreFails(c) ==
    /\ conn[c] = "running"
    /\ conn' = [conn EXCEPT ![c] = "replying"]
    /\ answer' = [answer EXCEPT ![c] = Nothing]
    /\ UNCHANGED <<store, clients, truncated, loop, handle, executed, window>>

\* write_response, then the socket is shut down; nobody may be there.
WriteResponse(c) ==
    /\ conn[c] = "replying"
    /\ conn' = [conn EXCEPT ![c] = IF client[c] = "waiting" THEN "answered" ELSE "closed"]
    /\ UNCHANGED <<store, clients, truncated, answer, loop, handle, executed, window>>

\* ServerHandle::shutdown and Drop both send the signal; Drop also aborts
\* the accept loop.
Signal(how) ==
    /\ handle = "held"
    /\ handle' = how
    /\ UNCHANGED <<store, clients, conn, truncated, answer, loop, executed, window>>

\* The loop may end: at its top it sees the signal; asleep it sees nothing,
\* but the abort of Drop ends it there too.
MayStop ==
    \/ loop = "top" /\ handle # "held"
    \/ loop = "asleep" /\ handle = "dropped"

\* Mutant: the listener belongs to the handle's owner and stays open, so that
\* nothing resets the connections that the loop leaves behind.
StopListeningKeepsSocket ==
    /\ MayStop
    /\ loop' = "ended"
    /\ UNCHANGED <<store, clients, conn, truncated, answer, handle, executed, window>>

\* The accept loop ends and drops its listener, which resets the connections
\* nobody accepted.
StopListening ==
    /\ MayStop
    /\ loop' = "ended"
    /\ conn' = [c \in Calls |-> IF conn[c] = "backlog" THEN "closed" ELSE conn[c]]
    /\ UNCHANGED <<store, clients, truncated, answer, handle, executed, window>>

\* Mutant: shutdown() does not wait for the accept loop.
ShutdownReturnsAtOnce ==
    /\ handle = "shutting"
    /\ handle' = "returned"
    /\ UNCHANGED <<store, clients, conn, truncated, answer, loop, executed, window>>

\* shutdown() has joined the accept loop.
ShutdownReturns ==
    /\ handle = "shutting" /\ ~listening
    /\ handle' = "returned"
    /\ UNCHANGED <<store, clients, conn, truncated, answer, loop, executed, window>>

Task(c) == ReadRequest(c) \/ BadRequest(c) \/ Execute(c) \/ StoreFails(c) \/ WriteResponse(c)

Next ==
    \/ \E c \in Calls :
          \/ \E o \in Values \cup {Absent} : Call(c, o)
          \/ Leave(c) \/ Receive(c) \/ Reset(c) \/ Accept(c) \/ Task(c)
    \/ \E how \in {"shutting", "dropped"} : Signal(how)
    \/ PollSignal \/ AcceptPending \/ AcceptFails \/ Wake
    \/ StopListening
    \/ ShutdownReturns

Spec == Init /\ [][Next]_vars

\* The runtime polls every ready task and the client's future.  The accept
\* loop comes round for ever; a connection that waits each time is accepted
\* some time, that is, accept() does not fail for ever.
FairSpec ==
    /\ Spec
    /\ \A c \in Calls : WF_vars(Receive(c)) /\ WF_vars(Reset(c)) /\ WF_vars(Task(c))
    /\ \A c \in Calls : SF_vars(Accept(c))
    /\ WF_vars(PollSignal) /\ WF_vars(AcceptPending) /\ WF_vars(Wake)
    /\ WF_vars(StopListening)
    /\ WF_vars(ShutdownReturns)

----------------------------------------------------------------------------
(* Properties. *)

\* "One request per connection" (docs/remote.md): no call runs twice, and an
\* Ok call has run, while its caller waited: its answer is what the store
\* held at some moment of the call.
Linearizable ==
    \A c \in Calls :
        /\ executed[c] <= 1
        /\ client[c] = "ok" => /\ executed[c] = 1
                               /\ result[c] \in window[c]
                               /\ op[c] # Absent => result[c] = op[c]

\* "Returns once the accept loop has exited; in-flight requests may still
\* complete" (server.rs): once shutdown() has returned no connection is
\* taken up any more, and a call that begins then fails and never runs.
ShutdownIsFinal ==
    [][handle = "returned" => \A c \in Calls :
          /\ conn'[c] \in {"reading", "running"} => conn[c] \in {"reading", "running"}
          /\ client[c] = "idle" => client'[c] # "waiting"]_vars

\* A client that keeps waiting gets an answer or an error, whatever the
\* server's handle does meanwhile.
CallReturns == \A c \in Calls : client[c] = "waiting" ~> client[c] # "waiting"
=============================================================================
