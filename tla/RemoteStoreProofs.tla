-------------------------- MODULE RemoteStoreProofs --------------------------
(* Proofs about the RPC client and server, for every set of calls and of     *)
(* values: whatever clients, connection tasks and the server's handle do,    *)
(* an Ok call ran exactly once while its caller waited, and nothing is       *)
(* taken up after shutdown() has returned.                                   *)
EXTENDS RemoteStore, TLAPS

Cell == Values \cup {Absent}

TypeOK ==
    /\ store \in Cell
    /\ client \in [Calls -> {"idle", "waiting", "ok", "err"}]
    /\ op \in [Calls -> Cell \cup {Nothing}]
    /\ result \in [Calls -> Cell \cup {Nothing}]
    /\ conn \in [Calls -> {"none", "backlog", "reading", "running", "replying", "answered", "closed"}]
    /\ truncated \subseteq Calls
    /\ answer \in [Calls -> Cell \cup {Nothing}]
    /\ loop \in {"top", "armed", "asleep", "ended"}
    /\ handle \in {"held", "shutting", "dropped", "returned"}
    /\ executed \in [Calls -> Nat]
    /\ window \in [Calls -> SUBSET Cell]

----------------------------------------------------------------------------
(* The inductive invariant. *)

\* A call that has begun has an operation, and only such a call has a
\* connection.
BegunHasOp ==
    \A c \in Calls : IF client[c] = "idle" THEN conn[c] = "none" ELSE op[c] \in Cell

\* A connection runs its request at most once, on its way from "running" to
\* "replying": before that the call has not run, and afterwards it never
\* returns there.
RunsOnce(c) ==
    /\ executed[c] <= 1
    /\ conn[c] \in {"none", "backlog", "reading", "running"} => executed[c] = 0

\* The store's present value is in the window of every call that waits, and
\* an answer on its way to the caller is what the store held after the call
\* ran: the value that the call wrote, if it wrote one.
AnswerFromWindow(c) ==
    client[c] = "waiting" =>
        /\ store \in window[c]
        /\ conn[c] \in {"replying", "answered"} /\ answer[c] # Nothing =>
               /\ executed[c] = 1
               /\ answer[c] \in window[c]
               /\ op[c] # Absent => answer[c] = op[c]

\* What the caller was given was such an answer; its connection is done.
ReturnedAnswer(c) ==
    client[c] = "ok" => /\ conn[c] = "closed"
                        /\ executed[c] = 1
                        /\ result[c] \in window[c]
                        /\ op[c] # Absent => result[c] = op[c]

CallInv == \A c \in Calls : RunsOnce(c) /\ AnswerFromWindow(c) /\ ReturnedAnswer(c)

\* shutdown() returns once the accept loop has ended, which empties the
\* backlog of the listener.
ServerInv ==
    /\ handle = "returned" => ~listening
    /\ ~listening => \A c \in Calls : conn[c] # "backlog"

----------------------------------------------------------------------------
(* The theorems. *)

\* The step of the type invariant, which needs that a running request has an
\* operation: the store only ever takes a value that some call brought.
LEMMA TypeStep ==
    ASSUME TypeOK, BegunHasOp, [Next]_vars
    PROVE  TypeOK' /\ BegunHasOp'
<1> USE DEF TypeOK, BegunHasOp, Cell
<1>1. ASSUME NEW c \in Calls, NEW o \in Values \cup {Absent}, Call(c, o) PROVE TypeOK' /\ BegunHasOp'
  BY <1>1 DEF Call
<1>2. ASSUME NEW c \in Calls, Leave(c) PROVE TypeOK' /\ BegunHasOp'
  BY <1>2 DEF Leave
<1>3. ASSUME NEW c \in Calls, Receive(c) PROVE TypeOK' /\ BegunHasOp'
  BY <1>3 DEF Receive
<1>4. ASSUME NEW c \in Calls, Reset(c) PROVE TypeOK' /\ BegunHasOp'
  BY <1>4 DEF Reset
<1>5. ASSUME NEW c \in Calls, Accept(c) \/ ReadRequest(c) PROVE TypeOK' /\ BegunHasOp'
  BY <1>5 DEF Accept, ReadRequest, clients
<1>6. ASSUME NEW c \in Calls, BadRequest(c) \/ StoreFails(c) PROVE TypeOK' /\ BegunHasOp'
  BY <1>6 DEF BadRequest, StoreFails, clients
<1>7. ASSUME NEW c \in Calls, Execute(c) PROVE TypeOK' /\ BegunHasOp'
  <2>1. store' \in Cell
    BY <1>7 DEF Execute
  <2>2. /\ conn' \in [Calls -> {"none", "backlog", "reading", "running", "replying", "answered", "closed"}]
        /\ answer' \in [Calls -> Cell \cup {Nothing}]
        /\ executed' \in [Calls -> Nat]
    BY <1>7, <2>1 DEF Execute
  <2>3. window' \in [Calls -> SUBSET Cell]
    BY <1>7, <2>1 DEF Execute
  <2>4. BegunHasOp'
    BY <1>7 DEF Execute, clients
  <2> QED BY <1>7, <2>1, <2>2, <2>3, <2>4 DEF Execute, clients
<1>8. ASSUME NEW c \in Calls, WriteResponse(c) PROVE TypeOK' /\ BegunHasOp'
  BY <1>8 DEF WriteResponse, clients
<1>9. ASSUME NEW how \in {"shutting", "dropped"}, Signal(how) PROVE TypeOK' /\ BegunHasOp'
  BY <1>9 DEF Signal, clients
<1>10. CASE StopListening
  BY <1>10 DEF StopListening, clients
<1>11. CASE ShutdownReturns
  BY <1>11 DEF ShutdownReturns, clients
<1>12. CASE PollSignal \/ AcceptPending \/ AcceptFails \/ Wake
  BY <1>12 DEF PollSignal, AcceptPending, AcceptFails, Wake, clients
<1>13. CASE UNCHANGED vars
  BY <1>13 DEF vars
<1> QED BY <1>1, <1>2, <1>3, <1>4, <1>5, <1>6, <1>7, <1>8, <1>9, <1>10, <1>11, <1>12, <1>13 DEF Next, Task

\* Every reachable state of the clients, the connection tasks and the
\* server's handle is well typed, and a call that has begun has an operation.
THEOREM RemoteTypeCorrect == Spec => [](TypeOK /\ BegunHasOp)
<1>1. Init => TypeOK /\ BegunHasOp
  BY DEF Init, TypeOK, BegunHasOp, Cell
<1>2. (TypeOK /\ BegunHasOp) /\ [Next]_vars => (TypeOK /\ BegunHasOp)'
  BY TypeStep
<1> QED BY <1>1, <1>2, PTL DEF Spec

\* However calls, losses, refusals and shutdown interleave, no request runs
\* twice, and what a client method returns is what the store held at a
\* moment while the method's caller waited: the value it wrote, if it wrote.
THEOREM RemoteIsLinearizable == Spec => []Linearizable
<1>1. Init => CallInv
  BY DEF Init, CallInv, RunsOnce, AnswerFromWindow, ReturnedAnswer
<1>2. TypeOK /\ BegunHasOp /\ CallInv /\ [Next]_vars => CallInv'
  <2> SUFFICES ASSUME TypeOK, BegunHasOp, CallInv, [Next]_vars, NEW d \in Calls
               PROVE  RunsOnce(d)' /\ AnswerFromWindow(d)' /\ ReturnedAnswer(d)'
    BY DEF CallInv
  <2>0. RunsOnce(d) /\ AnswerFromWindow(d) /\ ReturnedAnswer(d)
    BY DEF CallInv
  <2> USE <2>0 DEF TypeOK, BegunHasOp, RunsOnce, AnswerFromWindow, ReturnedAnswer, Cell
  <2>1. ASSUME NEW c \in Calls, NEW o \in Values \cup {Absent}, Call(c, o)
        PROVE  RunsOnce(d)' /\ AnswerFromWindow(d)' /\ ReturnedAnswer(d)'
    BY <2>1 DEF Call
  <2>2. ASSUME NEW c \in Calls, Leave(c)
        PROVE  RunsOnce(d)' /\ AnswerFromWindow(d)' /\ ReturnedAnswer(d)'
    BY <2>2 DEF Leave
  <2>3. ASSUME NEW c \in Calls, Receive(c)
        PROVE  RunsOnce(d)' /\ AnswerFromWindow(d)' /\ ReturnedAnswer(d)'
    BY <2>3 DEF Receive
  <2>4. ASSUME NEW c \in Calls, Reset(c)
        PROVE  RunsOnce(d)' /\ AnswerFromWindow(d)' /\ ReturnedAnswer(d)'
    BY <2>4 DEF Reset
  <2>5. ASSUME NEW c \in Calls, Accept(c) \/ ReadRequest(c)
        PROVE  RunsOnce(d)' /\ AnswerFromWindow(d)' /\ ReturnedAnswer(d)'
    BY <2>5 DEF Accept, ReadRequest, clients
  <2>6. ASSUME NEW c \in Calls, BadRequest(c) \/ StoreFails(c)
        PROVE  RunsOnce(d)' /\ AnswerFromWindow(d)' /\ ReturnedAnswer(d)'
    BY <2>6 DEF BadRequest, StoreFails, clients
  <2>7. ASSUME NEW c \in Calls, Execute(c)
        PROVE  RunsOnce(d)' /\ AnswerFromWindow(d)' /\ ReturnedAnswer(d)'
    <3>1. UNCHANGED <<client, op, result>>
      BY <2>7 DEF Execute, clients
    <3>2. client[d] = "waiting" => store' \in window'[d] /\ window[d] \subseteq window'[d]
      BY <2>7 DEF Execute
    <3>3. client[d] # "waiting" => window'[d] = window[d]
      BY <2>7 DEF Execute
    <3>4. CASE d = c
      <4>1. executed'[c] = 1 /\ conn'[c] = "replying" /\ answer'[c] = store'
        BY <2>7, <3>4 DEF Execute
      <4>2. op[c] # Absent => store' = op[c]
        BY <2>7 DEF Execute
      <4>3. client[c] # "ok"
        BY <2>7, <3>4 DEF Execute
      <4> QED BY <3>1, <3>2, <3>4, <4>1, <4>2, <4>3
    <3>5. CASE d # c
      <4>1. executed'[d] = executed[d] /\ conn'[d] = conn[d] /\ answer'[d] = answer[d]
        BY <2>7, <3>5 DEF Execute
      <4> QED BY <3>1, <3>2, <3>3, <4>1
    <3> QED BY <3>4, <3>5
  <2>8. ASSUME NEW c \in Calls, WriteResponse(c)
        PROVE  RunsOnce(d)' /\ AnswerFromWindow(d)' /\ ReturnedAnswer(d)'
    BY <2>8 DEF WriteResponse, clients
  <2>9. ASSUME NEW how \in {"shutting", "dropped"}, Signal(how)
        PROVE  RunsOnce(d)' /\ AnswerFromWindow(d)' /\ ReturnedAnswer(d)'
    BY <2>9 DEF Signal, clients
  <2>10. CASE StopListening
    BY <2>10 DEF StopListening, clients
  <2>11. CASE ShutdownReturns
    BY <2>11 DEF ShutdownReturns, clients
  <2>12. CASE PollSignal \/ AcceptPending \/ AcceptFails \/ Wake
    BY <2>12 DEF PollSignal, AcceptPending, AcceptFails, Wake, clients
  <2>13. CASE UNCHANGED vars
    BY <2>13 DEF vars
  <2> QED BY <2>1, <2>2, <2>3, <2>4, <2>5, <2>6, <2>7, <2>8, <2>9, <2>10, <2>11, <2>12, <2>13 DEF Next, Task
<1>3. CallInv => Linearizable
  BY DEF CallInv, RunsOnce, ReturnedAnswer, Linearizable
<1> QED BY <1>1, <1>2, <1>3, RemoteTypeCorrect, PTL DEF Spec

\* Once shutdown() has returned, the server takes up no connection and a call
\* that begins fails: the requests in flight are the last ones that run.
THEOREM RemoteShutdownIsFinal == Spec => ShutdownIsFinal
<1>1. Init => ServerInv
  BY DEF Init, ServerInv, listening
<1>2. TypeOK /\ ServerInv /\ [Next]_vars => ServerInv'
  <2> SUFFICES ASSUME TypeOK, ServerInv, [Next]_vars PROVE ServerInv'
    OBVIOUS
  <2> USE DEF TypeOK, ServerInv, listening
  <2>1. ASSUME NEW c \in Calls, NEW o \in Values \cup {Absent}, Call(c, o) PROVE ServerInv'
    BY <2>1 DEF Call
  <2>2. ASSUME NEW c \in Calls, Leave(c) \/ Receive(c) \/ Reset(c) PROVE ServerInv'
    BY <2>2 DEF Leave, Receive, Reset
  <2>3. ASSUME NEW c \in Calls, Task(c) PROVE ServerInv'
    BY <2>3 DEF Task, ReadRequest, BadRequest, Execute, StoreFails, WriteResponse, clients
  <2>4. ASSUME NEW how \in {"shutting", "dropped"}, Signal(how) PROVE ServerInv'
    BY <2>4 DEF Signal, clients
  <2>5. CASE StopListening
    BY <2>5 DEF StopListening, MayStop, clients
  <2>6. CASE ShutdownReturns
    BY <2>6 DEF ShutdownReturns, clients
  <2>7. ASSUME NEW c \in Calls, Accept(c) PROVE ServerInv'
    BY <2>7 DEF Accept, clients
  <2>8. CASE PollSignal \/ AcceptPending \/ AcceptFails \/ Wake
    BY <2>8 DEF PollSignal, AcceptPending, AcceptFails, Wake, clients
  <2>9. CASE UNCHANGED vars
    BY <2>9 DEF vars
  <2> QED BY <2>1, <2>2, <2>3, <2>4, <2>5, <2>6, <2>7, <2>8, <2>9 DEF Next
<1> DEFINE Final == handle = "returned" => \A c \in Calls :
                      /\ conn'[c] \in {"reading", "running"} => conn[c] \in {"reading", "running"}
                      /\ client[c] = "idle" => client'[c] # "waiting"
<1>3. TypeOK /\ ServerInv /\ [Next]_vars => [Final]_vars
  <2> SUFFICES ASSUME TypeOK, ServerInv, Next, handle = "returned", NEW d \in Calls
               PROVE  /\ conn'[d] \in {"reading", "running"} => conn[d] \in {"reading", "running"}
                      /\ client[d] = "idle" => client'[d] # "waiting"
    OBVIOUS
  <2> USE DEF TypeOK, ServerInv, listening
  <2>1. ASSUME NEW c \in Calls, NEW o \in Values \cup {Absent}, Call(c, o)
        PROVE  conn'[d] = conn[d] /\ client'[d] \in {client[d], "err"}
    BY <2>1 DEF Call
  <2>2. ASSUME NEW c \in Calls, Leave(c) \/ Receive(c) \/ Reset(c)
        PROVE  conn'[d] \in {conn[d], "closed"} /\ client'[d] \in {client[d], "err", "ok"}
    BY <2>2 DEF Leave, Receive, Reset
  <2>3. ASSUME NEW c \in Calls, Task(c)
        PROVE  /\ client'[d] = client[d]
               /\ conn'[d] \in {"reading", "running"} => conn[d] \in {"reading", "running"}
    BY <2>3 DEF Task, ReadRequest, BadRequest, Execute, StoreFails, WriteResponse, clients
  <2>4. ASSUME NEW how \in {"shutting", "dropped"}, Signal(how) PROVE FALSE
    BY <2>4 DEF Signal
  <2>5. CASE StopListening \/ ShutdownReturns
    BY <2>5 DEF StopListening, MayStop, ShutdownReturns
  <2>6. ASSUME NEW c \in Calls, Accept(c) PROVE FALSE
    BY <2>6 DEF Accept, listening
  <2>7. CASE PollSignal \/ AcceptPending \/ AcceptFails \/ Wake
    BY <2>7 DEF PollSignal, AcceptPending, AcceptFails, Wake, clients
  <2> QED BY <2>1, <2>2, <2>3, <2>4, <2>5, <2>6, <2>7 DEF Next
<1> QED BY <1>1, <1>2, <1>3, RemoteTypeCorrect, PTL DEF Spec, ShutdownIsFinal
=============================================================================
