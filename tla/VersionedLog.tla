---------------------------- MODULE VersionedLog ----------------------------
(***************************************************************************)
(* VersionedStore::log(), the breadth-first walk over both parents, as the *)
(* steps of its loop.  log() and the Vec<&Commit> it returns borrow the    *)
(* store, so no operation changes it until the caller has dropped the      *)
(* result.                                                                 *)
(***************************************************************************)
EXTENDS VersionedStore, Functions

VARIABLE walk   \* the locals of log(), and whether it was called

logVars == <<vars, walk>>

NoWalk == [called |-> FALSE, queue |-> <<>>, seen |-> {}, out |-> <<>>]

\* A branch without commits has an empty log.
Log ==
    LET start == branches[current]
    IN  /\ ~walk.called
        /\ walk' = IF start = NoId THEN [NoWalk EXCEPT !.called = TRUE]
                   ELSE [called |-> TRUE, queue |-> <<start>>, seen |-> {start}, out |-> <<>>]
        /\ UNCHANGED vars

\* Mutant: only the first parent is followed.
UnseenFirstParent(c, seen) == IF c.parent \in seen \cup {NoId} THEN <<>> ELSE <<c.parent>>

\* The parents of a popped commit that were not seen before, first parent
\* first.
Unseen(c, seen) ==
    LET first  == IF c.parent \in seen \cup {NoId} THEN <<>> ELSE <<c.parent>>
        second == IF c.second_parent \in seen \cup {NoId, c.parent} THEN <<>>
                                                               ELSE <<c.second_parent>>
    IN  first \o second

\* An id that is not in the table is passed over.
PopFront ==
    LET id    == Head(walk.queue)
        known == id \in DOMAIN commits
        new   == IF known THEN Unseen(commits[id], walk.seen) ELSE <<>>
    IN  /\ walk.queue # <<>>
        /\ walk' = [walk EXCEPT !.queue = Tail(@) \o new,
                                !.seen = @ \cup Range(new),
                                !.out = IF known THEN Append(@, id) ELSE @]
        /\ UNCHANGED vars

Logged == walk.called /\ walk.queue = <<>>

\* The caller drops the result.
DropLog ==
    /\ Logged
    /\ walk' = NoWalk
    /\ UNCHANGED vars

LogInit == Init /\ walk = NoWalk

LogNext == Log \/ PopFront \/ DropLog \/ (~walk.called /\ Next /\ UNCHANGED walk)

LogSpec == LogInit /\ [][LogNext]_logVars

----------------------------------------------------------------------------
(***************************************************************************)
(* log() lists exactly the ancestors of the current head, each once, and   *)
(* none before a commit that has it as a parent has been listed.           *)
(***************************************************************************)
LogListsAncestorsOnce ==
    Logged =>
        /\ Range(walk.out) = IF branches[current] = NoId THEN {} ELSE Ancestors(branches[current])
        /\ \A i, j \in 1..Len(walk.out) : walk.out[i] = walk.out[j] => i = j
        /\ \A k \in 2..Len(walk.out) : \E j \in 1..(k - 1) :
               walk.out[k] \in Parents(commits[walk.out[j]])
=============================================================================
