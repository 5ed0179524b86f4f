-------------------------- MODULE PersistentStore --------------------------
(***************************************************************************)
(* atomr-ontology-persist: PersistentStore over a Checkpointer.            *)
(*                                                                         *)
(* Reads and plain upserts touch memory only.  commit_with_provenance      *)
(* applies its delta, records its activity, bumps the version and clones   *)
(* a Snapshot under the write lock, releases the lock, and only then       *)
(* awaits Checkpointer::save: the saves of concurrent commits interleave   *)
(* freely, may fail, may be abandoned by a caller that drops the future,   *)
(* and may be cut short by a crash.                                        *)
(*                                                                         *)
(* Data abstraction: an item (node, edge or axiom) holds the identity of   *)
(* its last writer.  A commit's activity id stands for the payload it      *)
(* wrote and is, for an axiom, the provenance pointer the commit stamps.   *)
(***************************************************************************)
EXTENDS Naturals, Sequences

CONSTANTS
    Calls,        \* slots for outstanding commit_with_provenance calls
    Items,        \* node, edge and axiom ids
    Activities,   \* activity ids; Activity::started draws a fresh one
    Checkpointer, \* "mem", "file" or "sqlite"
    Constructors, \* the constructors the application uses
    Restarts,     \* how its stores end: "crash" of the process, "drop" within it
    Absent,       \* no such item
    Plain,        \* item written by a plain upsert, without provenance
    Garbage       \* bytes on disk that do not parse as a Snapshot

ASSUME CheckpointerAssumption == Checkpointer \in {"mem", "file", "sqlite"}
ASSUME ConstructorsAssumption == Constructors \subseteq {"new", "from_memory"}
ASSUME RestartsAssumption == Restarts \subseteq {"crash", "drop"}
ASSUME SentinelAssumption ==
    /\ Absent \notin Activities
    /\ Plain \notin Activities

VARIABLES
    up,      \* is there a live PersistentStore?
    state,   \* its State: ontology, provenance and version
    call,    \* per slot: phase, activity and snapshot of the commit
    disk,    \* what the Checkpointer holds: a slot, or a table of rows
    used,    \* activity ids already drawn
    acked    \* history: commits whose caller was told Ok

vars == <<up, state, call, disk, used, acked>>

Snapshot == [items : [Items -> Activities \cup {Absent, Plain}],
             activities : SUBSET Activities,
             version : Nat]

ASSUME GarbageAssumption == Garbage \notin Snapshot

Phases == {"idle", "saving", "truncated", "saved"}

EmptyState == [items |-> [i \in Items |-> Absent], activities |-> {}, version |-> 0]

IdleCall == [phase |-> "idle", activity |-> Absent, snapshot |-> EmptyState, awaited |-> FALSE]

----------------------------------------------------------------------------
(* Checkpointers. *)

\* Mutant: ORDER BY id DESC, without the version.
LatestById(table, i) ==
    /\ table[i] # Garbage
    /\ \A j \in DOMAIN table : j <= i

\* The row `load` returns: the highest version, the latest of equal ones.
\* A memory slot or a file is a table of at most one row.
Latest(table, i) ==
    /\ table[i] # Garbage
    /\ \A j \in DOMAIN table : \/ table[j].version < table[i].version
                               \/ table[j].version = table[i].version /\ j <= i

\* What the checkpointer's load() answers: None, an error, or a snapshot.
LoadsNone == disk = <<>>
LoadFails == \E i \in DOMAIN disk : disk[i] = Garbage
Load      == IF LoadsNone THEN EmptyState ELSE disk[CHOOSE i \in DOMAIN disk : Latest(disk, i)]

\* The disk after `save` has completed: SQLite inserts a row, the memory
\* slot and the file are overwritten.
Stored(snap) == IF Checkpointer = "sqlite" THEN Append(disk, snap) ELSE <<snap>>

----------------------------------------------------------------------------
(* Construction and restart. *)

Init ==
    /\ up = FALSE
    /\ state = EmptyState
    /\ call = [c \in Calls |-> IdleCall]
    /\ disk = <<>>
    /\ used = {}
    /\ acked = {}

\* Mutant: hydration forgets the version.
NewWithoutVersion ==
    /\ ~up
    /\ "new" \in Constructors
    /\ ~LoadFails
    /\ up' = TRUE
    /\ state' = [Load EXCEPT !.version = 0]
    /\ UNCHANGED <<call, disk, used, acked>>

\* Mutant: hydration restores the ontology but not the provenance.
NewWithoutProvenance ==
    /\ ~up
    /\ "new" \in Constructors
    /\ ~LoadFails
    /\ up' = TRUE
    /\ state' = [Load EXCEPT !.activities = {}]
    /\ UNCHANGED <<call, disk, used, acked>>

\* PersistentStore::new: hydrate from the latest snapshot; a load error is
\* returned and no store exists.
New ==
    /\ ~up
    /\ "new" \in Constructors
    /\ ~LoadFails
    /\ up' = TRUE
    /\ state' = Load
    /\ UNCHANGED <<call, disk, used, acked>>

\* PersistentStore::from_memory: start empty, whatever is stored.  The
\* caller gives up the commits made so far.
FromMemory ==
    /\ ~up
    /\ "from_memory" \in Constructors
    /\ up' = TRUE
    /\ state' = EmptyState
    /\ acked' = {}
    /\ UNCHANGED <<call, disk, used>>

\* The process dies, and outstanding saves with it.  A MemCheckpointer
\* outlives only the store, which cannot be dropped under a running call.
Crash ==
    /\ up /\ "crash" \in Restarts
    /\ Checkpointer = "mem" => \A c \in Calls : call[c].phase = "idle"
    /\ up' = FALSE
    /\ state' = EmptyState
    /\ call' = [c \in Calls |-> IdleCall]
    /\ UNCHANGED <<disk, used, acked>>

\* The store is dropped and may be opened again in the same process: nobody
\* awaits a call any more, but the blocking job that an abandoned one has
\* spawned runs on, beside the next store.
Drop ==
    /\ up /\ "drop" \in Restarts
    /\ Checkpointer # "mem"
    /\ \A c \in Calls : ~call[c].awaited
    /\ up' = FALSE
    /\ state' = EmptyState
    /\ UNCHANGED <<call, disk, used, acked>>

----------------------------------------------------------------------------
(* Writes. *)

\* upsert_node, upsert_edge, upsert_axiom: memory only, no version bump.
Upsert(i) ==
    /\ up
    /\ state' = [state EXCEPT !.items[i] = Plain]
    /\ UNCHANGED <<up, call, disk, used, acked>>

\* Mutant: the activity is not recorded.
CommittedUnrecorded(a, delta) ==
    [items      |-> [i \in Items |-> IF i \in delta THEN a ELSE state.items[i]],
     activities |-> state.activities,
     version    |-> state.version + 1]

\* The state after commit_with_provenance's critical section: every item of
\* the delta is upserted, an axiom without provenance is stamped with the
\* activity, the activity is recorded and the version is bumped.  The items
\* of a delta arrive unstamped; an axiom that already names an activity
\* would keep it.
Committed(a, delta) ==
    [items      |-> [i \in Items |-> IF i \in delta THEN a ELSE state.items[i]],
     activities |-> state.activities \cup {a},
     version    |-> state.version + 1]

\* Mutant: the snapshot is cloned before the delta is applied.
CommitSnapshotsFirst(c, a, delta) ==
    /\ up
    /\ call[c].phase = "idle"
    /\ a \notin used
    /\ used' = used \cup {a}
    /\ state' = Committed(a, delta)
    /\ call' = [call EXCEPT ![c] = [phase |-> "saving", activity |-> a,
                                    snapshot |-> state, awaited |-> TRUE]]
    /\ UNCHANGED <<up, disk, acked>>

\* commit_with_provenance up to the release of the write lock.
Commit(c, a, delta) ==
    /\ up
    /\ call[c].phase = "idle"
    /\ a \notin used
    /\ used' = used \cup {a}
    /\ state' = Committed(a, delta)
    /\ call' = [call EXCEPT ![c] = [phase |-> "saving", activity |-> a,
                                    snapshot |-> Committed(a, delta), awaited |-> TRUE]]
    /\ UNCHANGED <<up, disk, acked>>

\* A save that takes effect at once: the memory slot, or one INSERT.
Save(c) ==
    /\ Checkpointer # "file"
    /\ call[c].phase = "saving"
    /\ disk' = Stored(call[c].snapshot)
    /\ call' = [call EXCEPT ![c].phase = "saved"]
    /\ UNCHANGED <<up, state, used, acked>>

\* fs::write, first half: open with truncation.
FileTruncate(c) ==
    /\ Checkpointer = "file"
    /\ call[c].phase = "saving"
    /\ disk' = <<Garbage>>
    /\ call' = [call EXCEPT ![c].phase = "truncated"]
    /\ UNCHANGED <<up, state, used, acked>>

\* fs::write, second half: the bytes go to offset 0.  If another save wrote
\* since this one truncated, a longer tail of the other may remain.
FileWrite(c) ==
    /\ call[c].phase = "truncated"
    /\ \/ disk' = Stored(call[c].snapshot)
       \/ /\ disk # <<Garbage>>
          /\ disk' = <<Garbage>>
    /\ call' = [call EXCEPT ![c].phase = "saved"]
    /\ UNCHANGED <<up, state, used, acked>>

\* Mutant: the call is reset before its activity id is read.
ReturnAfterReset(c) ==
    /\ call[c].phase = "saved"
    /\ acked' = IF call[c].awaited THEN acked \cup {IdleCall.activity} ELSE acked
    /\ call' = [call EXCEPT ![c] = IdleCall]
    /\ UNCHANGED <<up, state, disk, used>>

\* save() returned Ok: a caller that still waits gets the activity id.
Return(c) ==
    /\ call[c].phase = "saved"
    /\ acked' = IF call[c].awaited THEN acked \cup {call[c].activity} ELSE acked
    /\ call' = [call EXCEPT ![c] = IdleCall]
    /\ UNCHANGED <<up, state, disk, used>>

\* Mutant: the error of save() is swallowed.
SaveFailsSilently(c) ==
    /\ Checkpointer # "mem"
    /\ call[c].phase = "saving"
    /\ acked' = acked \cup {call[c].activity}
    /\ call' = [call EXCEPT ![c] = IdleCall]
    /\ UNCHANGED <<up, state, disk, used>>

\* save() failed: the caller gets an error, the memory keeps the commit.  A
\* write that failed half-way leaves the file unreadable.
SaveFails(c) ==
    /\ Checkpointer # "mem"
    /\ \/ /\ call[c].phase = "saving"
          /\ UNCHANGED disk
       \/ /\ call[c].phase = "truncated"
          /\ disk' = <<Garbage>>
    /\ call' = [call EXCEPT ![c] = IdleCall]
    /\ UNCHANGED <<up, state, used, acked>>

\* The caller drops the commit future (a timeout): the blocking file or
\* database job it spawned runs on and nobody hears of its outcome.
Abandon(c) ==
    /\ Checkpointer # "mem"
    /\ call[c].phase \in {"saving", "truncated"}
    /\ call[c].awaited
    /\ call' = [call EXCEPT ![c].awaited = FALSE]
    /\ UNCHANGED <<up, state, disk, used, acked>>

----------------------------------------------------------------------------
Next ==
    \/ New \/ FromMemory \/ Crash \/ Drop
    \/ \E i \in Items : Upsert(i)
    \/ \E c \in Calls : \/ \E a \in Activities, delta \in SUBSET Items : Commit(c, a, delta)
                        \/ Save(c) \/ FileTruncate(c) \/ FileWrite(c)
                        \/ Return(c) \/ SaveFails(c) \/ Abandon(c)

Spec == Init /\ [][Next]_vars

----------------------------------------------------------------------------
(* Properties. *)

\* Type correctness of the store, its outstanding commits and the disk.
TypeOK ==
    /\ up \in BOOLEAN
    /\ state \in Snapshot
    /\ call \in [Calls -> [phase : Phases, activity : Activities \cup {Absent},
                           snapshot : Snapshot, awaited : BOOLEAN]]
    /\ disk \in Seq(Snapshot \cup {Garbage})
    /\ used \subseteq Activities
    /\ acked \subseteq Activities

\* Every snapshot there is: in memory, on its way to disk, on disk.
Snapshots ==
    (IF up THEN {state} ELSE {})
      \cup {call[c].snapshot : c \in {c \in Calls : call[c].phase # "idle"}}
      \cup {disk[i] : i \in {i \in DOMAIN disk : disk[i] # Garbage}}

(***************************************************************************)
(* "Newer versions supersede older ones" (Snapshot::version): of any two   *)
(* snapshots of the store, the one with the higher version holds every     *)
(* commit of the other, whatever commits failed, were abandoned or were    *)
(* forgotten by a crash in between.                                        *)
(***************************************************************************)
VersionsOrderHistory ==
    \A s, t \in Snapshots : s.version <= t.version => s.activities \subseteq t.activities

(***************************************************************************)
(* A commit acknowledged by commit_with_provenance is found by the next    *)
(* PersistentStore::new: commit-grained durability.                        *)
(***************************************************************************)
AckedDurable == ~LoadFails /\ acked \subseteq Load.activities

(***************************************************************************)
(* The same after a restart of the process, when no save is under way.     *)
(***************************************************************************)
AckedSurviveRestart == ~up /\ acked # {} => AckedDurable

(***************************************************************************)
(* No save of the store, however late it lands, makes load() go back to an *)
(* older version.                                                          *)
(***************************************************************************)
DurableVersionNeverRegresses ==
    [][~LoadFails /\ ~LoadFails' => Load.version <= Load'.version]_disk

(***************************************************************************)
(* A provenance pointer stamped on an item resolves to an activity of the  *)
(* same snapshot: no snapshot holds half of a commit.                      *)
(***************************************************************************)
ProvenanceResolves ==
    \A s \in Snapshots, i \in Items : s.items[i] \in Activities => s.items[i] \in s.activities

\* The store as a durable log of commits: readers see `applied`, a restart
\* would see `durable`.
Log == INSTANCE DurableLog WITH
           applied <- IF up THEN state.activities ELSE Load.activities,
           durable <- Load.activities

(***************************************************************************)
(* The store implements the durable log: nothing but a crash takes a       *)
(* commit from the readers, a flush only adds, and an Ok is only given for *)
(* what is on disk.                                                        *)
(***************************************************************************)
ImplementsDurableLog == Log!Spec
=============================================================================
