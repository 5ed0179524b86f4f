----------------------- MODULE PersistentStoreProofs -----------------------
(***************************************************************************)
(* Proofs about PersistentStore for any number of calls, items and         *)
(* commits.                                                                *)
(***************************************************************************)
EXTENDS PersistentStore, TLAPS

(***************************************************************************)
(* A non-empty disk that parses has a latest row: SQLite's table has a row *)
(* of highest version, a slot has its only one.  This is what makes load() *)
(* well defined, and it is inductive where "Load is a snapshot" is not.    *)
(***************************************************************************)
DiskHasLatest == disk # <<>> /\ ~LoadFails => \E i \in DOMAIN disk : Latest(disk, i)

\* The state a fresh store starts from is a snapshot.
LEMMA EmptyStateType == EmptyState \in Snapshot
BY DEF EmptyState, Snapshot

\* What load() returns, a decoded snapshot or nothing, is well typed.
LEMMA LoadType ==
    ASSUME TypeOK, DiskHasLatest, ~LoadFails
    PROVE  /\ Load \in Snapshot
           /\ disk # <<>> => \E i \in DOMAIN disk : Latest(disk, i) /\ Load = disk[i]
           /\ disk = <<>> => Load = EmptyState
<1>1. CASE disk = <<>>
  BY <1>1, EmptyStateType DEF Load, LoadsNone
<1>2. CASE disk # <<>>
  <2>1. \E i \in DOMAIN disk : Latest(disk, i)
    BY <1>2 DEF DiskHasLatest
  <2> DEFINE k == CHOOSE i \in DOMAIN disk : Latest(disk, i)
  <2>2. k \in DOMAIN disk /\ Latest(disk, k)
    BY <2>1
  <2>3. Load = disk[k]
    BY <1>2 DEF Load, LoadsNone
  <2>4. disk[k] \in Snapshot \cup {Garbage} /\ disk[k] # Garbage
    BY <2>2 DEF TypeOK, Latest
  <2> QED BY <1>2, <2>2, <2>3, <2>4
<1> QED BY <1>1, <1>2

\* A slot's only row is its latest; an appended row, or the old latest one,
\* is the latest of the longer table.
LEMMA StoredHasLatest ==
    ASSUME TypeOK, DiskHasLatest, NEW s \in Snapshot, disk' = Stored(s)
    PROVE  DiskHasLatest'
<1> SUFFICES ASSUME disk' # <<>>, ~LoadFails'
             PROVE  \E i \in DOMAIN disk' : Latest(disk', i)
  BY DEF DiskHasLatest
<1>1. CASE Checkpointer # "sqlite"
  <2>1. disk' = <<s>>
    BY <1>1 DEF Stored
  <2>2. Latest(disk', 1)
    BY <2>1, GarbageAssumption DEF Latest, Snapshot
  <2> QED BY <2>1, <2>2
<1>2. CASE Checkpointer = "sqlite"
  <2>1. disk' = Append(disk, s)
    BY <1>2 DEF Stored
  <2>2. /\ Len(disk') = Len(disk) + 1 /\ Len(disk) \in Nat
        /\ DOMAIN disk' = 1..(Len(disk) + 1) /\ DOMAIN disk = 1..Len(disk)
        /\ disk'[Len(disk) + 1] = s
        /\ \A j \in 1..Len(disk) : disk'[j] = disk[j]
    BY <2>1 DEF TypeOK
  <2>3. ~LoadFails
    BY <2>2 DEF LoadFails
  <2>4. \A j \in DOMAIN disk : disk[j] \in Snapshot /\ disk[j].version \in Nat
    BY <2>3 DEF TypeOK, LoadFails, Snapshot
  <2>5. s.version \in Nat /\ s # Garbage
    BY GarbageAssumption DEF Snapshot
  <2>6. CASE disk = <<>>
    <3>1. Latest(disk', 1)
      BY <2>2, <2>5, <2>6 DEF Latest
    <3> QED BY <2>2, <3>1
  <2>7. CASE disk # <<>>
    <3>1. PICK i \in DOMAIN disk : Latest(disk, i)
      BY <2>3, <2>7 DEF DiskHasLatest
    <3>2. CASE disk[i].version <= s.version
      <4>1. Latest(disk', Len(disk) + 1)
        BY <2>2, <2>4, <2>5, <3>1, <3>2 DEF Latest
      <4> QED BY <2>2, <4>1
    <3>3. CASE ~(disk[i].version <= s.version)
      <4>1. Latest(disk', i)
        BY <2>2, <2>4, <2>5, <3>1, <3>3 DEF Latest
      <4> QED BY <2>2, <3>1, <4>1
    <3> QED BY <3>2, <3>3
  <2> QED BY <2>6, <2>7
<1> QED BY <1>1, <1>2

\* A file that does not parse cannot be loaded and needs no latest row.
LEMMA GarbageHasLatest ==
    ASSUME disk' = <<Garbage>>
    PROVE  DiskHasLatest'
BY DEF DiskHasLatest, LoadFails

----------------------------------------------------------------------------
(***************************************************************************)
(* The base invariant: types, load() well defined, and a call in progress  *)
(* carries the activity it is committing in its snapshot.                  *)
(***************************************************************************)
CallsInv ==
    \A c \in Calls : call[c].phase # "idle" =>
        call[c].activity \in call[c].snapshot.activities

BaseInv == TypeOK /\ DiskHasLatest /\ CallsInv

\* commit_with_provenance turns a snapshot into a snapshot.
LEMMA CommittedType ==
    ASSUME TypeOK, NEW a \in Activities, NEW delta \in SUBSET Items
    PROVE  Committed(a, delta) \in Snapshot /\ a \in Committed(a, delta).activities
BY DEF TypeOK, Committed, Snapshot

\* A log that grows by one snapshot is a log of snapshots.
LEMMA SeqType ==
    ASSUME NEW T, NEW s \in T, NEW d \in Seq(T)
    PROVE  /\ Append(d, s) \in Seq(T)
           /\ <<s>> \in Seq(T)
           /\ <<>> \in Seq(T)
<1>1. <<>> \in Seq(T) /\ Append(<<>>, s) = <<s>>
  OBVIOUS
<1> QED BY <1>1

\* What a checkpointer holds after save() is a log of snapshots.
LEMMA StoredType ==
    ASSUME TypeOK, NEW s \in Snapshot
    PROVE  Stored(s) \in Seq(Snapshot \cup {Garbage}) /\ <<Garbage>> \in Seq(Snapshot \cup {Garbage})
<1> DEFINE T == Snapshot \cup {Garbage}
<1>1. s \in T /\ Garbage \in T /\ disk \in Seq(T)
  BY DEF TypeOK
<1> HIDE DEF T
<1>2. Append(disk, s) \in Seq(T) /\ <<s>> \in Seq(T) /\ <<Garbage>> \in Seq(T)
  BY <1>1, SeqType
<1>3. Stored(s) \in Seq(T)
  BY <1>2 DEF Stored
<1> QED BY <1>2, <1>3 DEF T

\* A store that was never opened satisfies the base invariant.
LEMMA BaseInit == Init => BaseInv
<1> SUFFICES ASSUME Init PROVE BaseInv
  OBVIOUS
<1>1. <<>> \in Seq(Snapshot \cup {Garbage})
  OBVIOUS
<1>2. IdleCall \in [phase : Phases, activity : Activities \cup {Absent},
                   snapshot : Snapshot, awaited : BOOLEAN] /\ IdleCall.phase = "idle"
  BY EmptyStateType DEF IdleCall, Phases
<1>3. TypeOK
  BY <1>1, <1>2, EmptyStateType DEF Init, TypeOK
<1>4. DiskHasLatest /\ CallsInv
  BY <1>2 DEF Init, DiskHasLatest, CallsInv
<1> QED BY <1>3, <1>4 DEF BaseInv

\* What the actions have in common, one disjunct each, over the typed state.
LEMMA BaseStep == BaseInv /\ [Next]_vars => BaseInv'
<1> SUFFICES ASSUME BaseInv, [Next]_vars
             PROVE  BaseInv'
  OBVIOUS
<1> USE DEF BaseInv
<1>0. IdleCall \in [phase : Phases, activity : Activities \cup {Absent},
                   snapshot : Snapshot, awaited : BOOLEAN] /\ IdleCall.phase = "idle"
  BY EmptyStateType DEF IdleCall, Phases
<1>1. CASE New
  BY <1>1, LoadType DEF New, TypeOK, DiskHasLatest, LoadFails, CallsInv
<1>2. CASE FromMemory
  BY <1>2, EmptyStateType DEF FromMemory, TypeOK, DiskHasLatest, LoadFails, CallsInv
<1>3. CASE Crash
  BY <1>3, <1>0, EmptyStateType DEF Crash, TypeOK, DiskHasLatest, LoadFails, CallsInv
<1>4. ASSUME NEW i \in Items, Upsert(i) PROVE BaseInv'
  <2>1. state' \in Snapshot
    BY <1>4 DEF Upsert, TypeOK, Snapshot
  <2> QED BY <1>4, <2>1 DEF Upsert, TypeOK, DiskHasLatest, LoadFails, CallsInv
<1>5. ASSUME NEW c \in Calls, NEW a \in Activities, NEW delta \in SUBSET Items,
             Commit(c, a, delta)
      PROVE  BaseInv'
  <2>1. TypeOK'
    BY <1>5, CommittedType DEF Commit, TypeOK, Phases
  <2>2. CallsInv'
    BY <1>5, CommittedType DEF Commit, TypeOK, CallsInv
  <2>3. DiskHasLatest'
    BY <1>5 DEF Commit, DiskHasLatest, LoadFails
  <2> QED BY <2>1, <2>2, <2>3
<1>6. ASSUME NEW c \in Calls, Save(c) PROVE BaseInv'
  <2>1. call[c].snapshot \in Snapshot
    BY DEF TypeOK
  <2>2. Stored(call[c].snapshot) \in Seq(Snapshot \cup {Garbage})
    BY <2>1, StoredType
  <2>3. TypeOK' /\ CallsInv'
    BY <1>6, <2>2 DEF Save, TypeOK, CallsInv, Phases
  <2>4. DiskHasLatest'
    BY <1>6, <2>1, StoredHasLatest DEF Save
  <2> QED BY <2>3, <2>4
<1>7. ASSUME NEW c \in Calls, FileTruncate(c) PROVE BaseInv'
  <2>0. EmptyState \in Snapshot /\ <<Garbage>> \in Seq(Snapshot \cup {Garbage})
    BY EmptyStateType, StoredType
  <2>1. TypeOK' /\ CallsInv'
    BY <1>7, <2>0 DEF FileTruncate, TypeOK, CallsInv, Phases
  <2> QED BY <1>7, <2>1, GarbageHasLatest DEF FileTruncate
<1>8. ASSUME NEW c \in Calls, FileWrite(c) PROVE BaseInv'
  <2>1. call[c].snapshot \in Snapshot
    BY DEF TypeOK
  <2>2. Stored(call[c].snapshot) \in Seq(Snapshot \cup {Garbage})
    BY <2>1, StoredType
  <2>3. TypeOK' /\ CallsInv'
    BY <1>8, <2>1, <2>2, StoredType DEF FileWrite, TypeOK, CallsInv, Phases
  <2>4. DiskHasLatest'
    BY <1>8, <2>1, StoredHasLatest, GarbageHasLatest DEF FileWrite
  <2> QED BY <2>3, <2>4
<1>9. ASSUME NEW c \in Calls, Return(c) PROVE BaseInv'
  <2>1. TypeOK'
    <3>1. call[c].snapshot.activities \subseteq Activities
      BY DEF TypeOK, Snapshot
    <3>2. call[c].activity \in Activities
      BY <1>9, <3>1 DEF Return, CallsInv
    <3> QED BY <1>9, <1>0, <3>2 DEF Return, TypeOK
  <2>2. CallsInv'
    BY <1>9, <1>0 DEF Return, TypeOK, CallsInv
  <2>3. DiskHasLatest'
    BY <1>9 DEF Return, DiskHasLatest, LoadFails
  <2> QED BY <2>1, <2>2, <2>3
<1>10. ASSUME NEW c \in Calls, SaveFails(c) PROVE BaseInv'
  <2>0. <<Garbage>> \in Seq(Snapshot \cup {Garbage})
    BY EmptyStateType, StoredType
  <2>1. TypeOK'
    BY <1>10, <1>0, <2>0 DEF SaveFails, TypeOK
  <2>3. CallsInv'
    BY <1>10, <1>0 DEF SaveFails, TypeOK, CallsInv
  <2>2. DiskHasLatest'
    BY <1>10, GarbageHasLatest DEF SaveFails, DiskHasLatest, LoadFails
  <2> QED BY <2>1, <2>2, <2>3
<1>11. ASSUME NEW c \in Calls, Abandon(c) PROVE BaseInv'
  BY <1>11 DEF Abandon, TypeOK, CallsInv, DiskHasLatest, LoadFails
<1>12. CASE UNCHANGED vars
  BY <1>12 DEF vars, TypeOK, CallsInv, DiskHasLatest, LoadFails
<1>13. CASE Drop
  BY <1>13, EmptyStateType DEF Drop, TypeOK, DiskHasLatest, LoadFails, CallsInv
<1> QED
  BY <1>1, <1>2, <1>3, <1>4, <1>5, <1>6, <1>7, <1>8, <1>9, <1>10, <1>11, <1>12, <1>13 DEF Next

(***************************************************************************)
(* Type correctness of the store, for every checkpointer and constructor.  *)
(***************************************************************************)
THEOREM TypeCorrect == Spec => []TypeOK
<1>1. BaseInv => TypeOK
  BY DEF BaseInv
<1> QED BY <1>1, BaseInit, BaseStep, PTL DEF Spec

\* The base invariant holds in every reachable state.
LEMMA BaseInvariant == Spec => []BaseInv
BY BaseInit, BaseStep, PTL DEF Spec

----------------------------------------------------------------------------
(***************************************************************************)
(* Snapshots come from memory only: a step makes at most one new one, the  *)
(* state of the live store.                                                *)
(***************************************************************************)
LEMMA InSnapshots ==
    ASSUME NEW s
    PROVE  s \in Snapshots <=>
              \/ up /\ s = state
              \/ \E c \in Calls : call[c].phase # "idle" /\ s = call[c].snapshot
              \/ \E i \in DOMAIN disk : disk[i] # Garbage /\ s = disk[i]
BY DEF Snapshots

\* Membership in the set of snapshots after a step.
LEMMA InSnapshotsPrime ==
    ASSUME NEW s
    PROVE  s \in Snapshots' <=>
              \/ up' /\ s = state'
              \/ \E c \in Calls : call'[c].phase # "idle" /\ s = call'[c].snapshot
              \/ \E i \in DOMAIN disk' : disk'[i] # Garbage /\ s = disk'[i]
BY DEF Snapshots

\* Every row after save() was there before or is the saved snapshot.
LEMMA StoredRows ==
    ASSUME TypeOK, NEW s, disk' = Stored(s), NEW i \in DOMAIN disk'
    PROVE  disk'[i] = s \/ (Checkpointer = "sqlite" /\ i \in DOMAIN disk /\ disk'[i] = disk[i])
<1>1. CASE Checkpointer = "sqlite"
  <2>1. disk \in Seq(Snapshot \cup {Garbage}) /\ disk' = Append(disk, s)
    BY <1>1 DEF TypeOK, Stored
  <2> QED BY <1>1, <2>1
<1>2. CASE Checkpointer # "sqlite"
  BY <1>2 DEF Stored
<1> QED BY <1>1, <1>2

\* Where each snapshot of the next state comes from.
LEMMA SnapshotOrigins ==
    ASSUME BaseInv, [Next]_vars, NEW s \in Snapshots'
    PROVE  s \in Snapshots \/ (up' /\ s = state')
<1> USE DEF BaseInv
<1>0. SUFFICES ASSUME ~(up' /\ s = state')
               PROVE  s \in Snapshots
  OBVIOUS
<1>1. \/ \E c \in Calls : call'[c].phase # "idle" /\ s = call'[c].snapshot
      \/ \E i \in DOMAIN disk' : disk'[i] # Garbage /\ s = disk'[i]
  BY <1>0, InSnapshotsPrime
<1>2. \A c \in Calls : call'[c].phase # "idle" /\ s = call'[c].snapshot =>
         call[c].phase # "idle" /\ s = call[c].snapshot
  <2> SUFFICES ASSUME NEW c \in Calls, call'[c].phase # "idle", s = call'[c].snapshot
               PROVE  call[c].phase # "idle" /\ s = call[c].snapshot
    OBVIOUS
  <2>1. CASE UNCHANGED call
    BY <2>1
  <2>2. CASE Crash
    BY <2>2 DEF Crash, IdleCall
  <2>3. ASSUME NEW d \in Calls, NEW a \in Activities, NEW delta \in SUBSET Items,
               Commit(d, a, delta)
        PROVE  call[c].phase # "idle" /\ s = call[c].snapshot
    <3>1. c # d
      BY <1>0, <2>3 DEF Commit, TypeOK
    <3> QED BY <2>3, <3>1 DEF Commit, TypeOK
  <2>4. ASSUME NEW d \in Calls,
               Save(d) \/ FileTruncate(d) \/ FileWrite(d) \/ Return(d) \/ SaveFails(d) \/ Abandon(d)
        PROVE  call[c].phase # "idle" /\ s = call[c].snapshot
    BY <2>4 DEF Save, FileTruncate, FileWrite, Return, SaveFails, Abandon, TypeOK, IdleCall
  <2> QED BY <2>1, <2>2, <2>3, <2>4 DEF Next, New, FromMemory, Drop, Upsert, vars
<1>3. ASSUME NEW i \in DOMAIN disk', disk'[i] # Garbage, s = disk'[i]
      PROVE  s \in Snapshots
  <2>1. CASE UNCHANGED disk
    BY <1>3, <2>1, InSnapshots
  <2>2. CASE disk' = <<Garbage>>
    BY <1>3, <2>2
  <2>3. ASSUME NEW d \in Calls, call[d].phase # "idle", disk' = Stored(call[d].snapshot)
        PROVE  s \in Snapshots
    <3>1. disk'[i] = call[d].snapshot \/ (i \in DOMAIN disk /\ disk'[i] = disk[i])
      BY <2>3, StoredRows
    <3> QED BY <1>3, <2>3, <3>1, InSnapshots
  <2> QED BY <2>1, <2>2, <2>3 DEF Next, New, FromMemory, Crash, Drop, Upsert, Commit, Save,
             FileTruncate, FileWrite, Return, SaveFails, Abandon, vars
<1> QED BY <1>1, <1>2, <1>3, InSnapshots

\* The state New hydrates is on disk, or nothing is.
LEMMA LoadIsASnapshot ==
    ASSUME BaseInv, ~LoadFails
    PROVE  /\ Load \in Snapshot
           /\ Load = EmptyState \/ Load \in Snapshots
           /\ \A i \in DOMAIN disk : disk[i].version <= Load.version
           /\ disk = <<>> => Load = EmptyState
           /\ disk # <<>> => Load \in Snapshots
<1> USE DEF BaseInv
<1>1. CASE disk = <<>>
  BY <1>1, LoadType
<1>2. CASE disk # <<>>
  <2>1. PICK i \in DOMAIN disk : Latest(disk, i) /\ Load = disk[i]
    BY <1>2, LoadType
  <2>2. Load \in Snapshots
    BY <2>1, InSnapshots DEF Latest
  <2>3. \A j \in DOMAIN disk : disk[j].version \in Nat
    BY DEF TypeOK, LoadFails, Snapshot
  <2>4. \A j \in DOMAIN disk : disk[j].version <= Load.version
    BY <2>1, <2>3 DEF Latest
  <2> QED BY <1>2, <2>2, <2>4, LoadType
<1> QED BY <1>1, <1>2

----------------------------------------------------------------------------
(***************************************************************************)
(* No snapshot, in memory or on disk, holds half of a commit: every        *)
(* provenance pointer it stamps resolves in its own ledger.  For every     *)
(* checkpointer and constructor.                                           *)
(***************************************************************************)
THEOREM ProvenanceAlwaysResolves == Spec => []ProvenanceResolves
<1>1. Init => ProvenanceResolves
  BY InSnapshots, SentinelAssumption DEF Init, ProvenanceResolves, IdleCall
<1>2. BaseInv /\ ProvenanceResolves /\ [Next]_vars => ProvenanceResolves'
  <2> SUFFICES ASSUME BaseInv, ProvenanceResolves, [Next]_vars,
                      NEW s \in Snapshots', NEW i \in Items, s.items[i] \in Activities
               PROVE  s.items[i] \in s.activities
    BY DEF ProvenanceResolves
  <2> USE DEF BaseInv
  <2>1. CASE s \in Snapshots
    BY <2>1 DEF ProvenanceResolves
  <2>2. CASE up' /\ s = state' /\ s \notin Snapshots
    <3>1. up => state \in Snapshots
      BY InSnapshots
    <3>2. CASE New
      BY <2>2, <3>2, LoadIsASnapshot, SentinelAssumption DEF New, EmptyState
    <3>3. CASE FromMemory
      BY <2>2, <3>3, SentinelAssumption DEF FromMemory, EmptyState
    <3>4. ASSUME NEW j \in Items, Upsert(j) PROVE s.items[i] \in s.activities
      BY <2>2, <3>1, <3>4, SentinelAssumption DEF Upsert, TypeOK, Snapshot, ProvenanceResolves
    <3>5. ASSUME NEW c \in Calls, NEW a \in Activities, NEW delta \in SUBSET Items,
                 Commit(c, a, delta)
          PROVE  s.items[i] \in s.activities
      BY <2>2, <3>1, <3>5 DEF Commit, Committed, TypeOK, Snapshot, ProvenanceResolves
    <3>6. CASE UNCHANGED <<up, state>>
      BY <2>2, <3>1, <3>6
    <3> QED BY <2>2, <3>2, <3>3, <3>4, <3>5, <3>6 DEF Next, Crash, Drop, Save, FileTruncate,
               FileWrite, Return, SaveFails, Abandon, vars
  <2> QED BY <2>1, <2>2, SnapshotOrigins
<1> QED BY <1>1, <1>2, BaseInvariant, PTL DEF Spec

----------------------------------------------------------------------------
(***************************************************************************)
(* VersionsOrderHistory is not inductive: a commit only adds to what the   *)
(* memory holds, so nothing elsewhere may be newer than the memory.        *)
(* UsedInv says that a recorded activity is never drawn again.  Where      *)
(* stores end by a crash only, no save outlives its store (CallsLive); one *)
(* that did could bring a version that the next store has given again.     *)
(***************************************************************************)
MemoryIsNewest == up => \A s \in Snapshots : s.version <= state.version

UsedInv == \A s \in Snapshots : s.activities \subseteq used

CallsLive == \A c \in Calls : call[c].phase # "idle" => up

HistoryInv == VersionsOrderHistory /\ MemoryIsNewest /\ UsedInv /\ CallsLive

\* The snapshots of a well-typed state are well typed.
LEMMA SnapshotTypes ==
    ASSUME TypeOK, NEW s \in Snapshots
    PROVE  s \in Snapshot /\ s.version \in Nat
<1>1. s \in Snapshot
  BY InSnapshots DEF TypeOK
<1> QED BY <1>1 DEF Snapshot

\* The history invariant holds of a store that was never opened.
LEMMA HistoryInit == Init => HistoryInv
BY InSnapshots DEF Init, HistoryInv, VersionsOrderHistory, MemoryIsNewest, UsedInv, CallsLive, IdleCall

\* Every step preserves the history invariant.
LEMMA HistoryStep ==
    ASSUME Constructors \subseteq {"new"}, Restarts \subseteq {"crash"}
    PROVE  BaseInv /\ HistoryInv /\ [Next]_vars => HistoryInv'
<1> SUFFICES ASSUME BaseInv, HistoryInv, [Next]_vars
             PROVE  HistoryInv'
  OBVIOUS
<1> USE DEF BaseInv
<1>1. \A s \in Snapshots : s.version \in Nat
  BY SnapshotTypes
<1>2. used \subseteq used'
  BY DEF Next, New, FromMemory, Crash, Drop, Upsert, Commit, Save, FileTruncate, FileWrite,
         Return, SaveFails, Abandon, vars
<1>0. CallsLive'
  BY DEF HistoryInv, CallsLive, TypeOK, IdleCall, Next, New, FromMemory, Crash, Drop, Upsert, Commit,
         Save, FileTruncate, FileWrite, Return, SaveFails, Abandon, vars
\* Steps that leave the live store alone, or end it.
<1>3. CASE UNCHANGED state /\ (up' => up)
  <2>1. \A s \in Snapshots' : s \in Snapshots
    BY <1>3, SnapshotOrigins, InSnapshots
  <2> QED BY <1>0, <1>2, <1>3, <2>1 DEF HistoryInv, VersionsOrderHistory, MemoryIsNewest, UsedInv
<1>4. CASE Crash
  <2>1. \A s \in Snapshots' : s \in Snapshots
    BY <1>4, SnapshotOrigins DEF Crash
  <2> QED BY <1>0, <1>2, <1>4, <2>1 DEF Crash, HistoryInv, VersionsOrderHistory, MemoryIsNewest, UsedInv
<1>5. CASE New
  <2>1. \A s \in Snapshots' : s = Load \/ \E i \in DOMAIN disk : disk[i] # Garbage /\ s = disk[i]
    <3>1. \A c \in Calls : call'[c].phase = "idle"
      BY <1>5 DEF New, HistoryInv, CallsLive
    <3> QED BY <1>5, <3>1, InSnapshotsPrime DEF New
  <2>2. \A s \in Snapshots' : s = Load \/ s \in Snapshots
    BY <2>1, InSnapshots
  <2>3. ~LoadFails /\ state' = Load /\ UNCHANGED used
    BY <1>5 DEF New
  <2>4. \A s \in Snapshots' : s.version <= Load.version /\ s.version \in Nat
    BY <1>1, <2>1, <2>2, <2>3, LoadIsASnapshot DEF Snapshot
  <2>5. CASE disk = <<>>
    <3>1. \A s \in Snapshots' : s = EmptyState
      BY <2>1, <2>3, <2>5, LoadIsASnapshot
    <3> QED BY <1>0, <2>3, <2>4, <3>1 DEF HistoryInv, VersionsOrderHistory, MemoryIsNewest,
               UsedInv, EmptyState
  <2>6. CASE disk # <<>>
    <3>1. \A s \in Snapshots' : s \in Snapshots
      BY <2>2, <2>3, <2>6, LoadIsASnapshot
    <3> QED BY <1>0, <2>3, <2>4, <3>1 DEF HistoryInv, VersionsOrderHistory, MemoryIsNewest, UsedInv
  <2> QED BY <2>5, <2>6
<1>6. ASSUME NEW i \in Items, Upsert(i) PROVE HistoryInv'
  <2>1. /\ up /\ up' /\ state \in Snapshots
        /\ state'.version = state.version /\ state'.activities = state.activities
    BY <1>6, InSnapshots DEF Upsert, TypeOK, Snapshot
  <2>2. \A s \in Snapshots' : \E t \in Snapshots :
           s.version = t.version /\ s.activities = t.activities
    BY <2>1, SnapshotOrigins
  <2> QED BY <1>0, <1>2, <2>1, <2>2 DEF HistoryInv, VersionsOrderHistory, MemoryIsNewest, UsedInv
<1>7. ASSUME NEW c \in Calls, NEW a \in Activities, NEW delta \in SUBSET Items,
             Commit(c, a, delta)
      PROVE  HistoryInv'
  <2>1. /\ up /\ up' /\ state \in Snapshots /\ state.version \in Nat
        /\ state'.version = state.version + 1
        /\ state'.activities = state.activities \cup {a}
        /\ used' = used \cup {a}
    BY <1>7, InSnapshots DEF Commit, Committed, TypeOK, Snapshot
  <2>2. \A s \in Snapshots : s.version <= state.version /\ s.activities \subseteq state.activities
    BY <2>1 DEF HistoryInv, VersionsOrderHistory, MemoryIsNewest
  <2>3. \A s \in Snapshots' : s \in Snapshots \/ s = state'
    BY SnapshotOrigins
  <2>4. MemoryIsNewest'
    BY <1>1, <2>1, <2>2, <2>3 DEF MemoryIsNewest
  <2>5. VersionsOrderHistory'
    BY <1>1, <2>1, <2>2, <2>3 DEF VersionsOrderHistory, HistoryInv
  <2>6. UsedInv'
    BY <2>1, <2>3 DEF UsedInv, HistoryInv
  <2> QED BY <1>0, <2>4, <2>5, <2>6 DEF HistoryInv
<1> QED BY <1>3, <1>4, <1>5, <1>6, <1>7 DEF Next, FromMemory, Drop, Save, FileTruncate, FileWrite,
           Return, SaveFails, Abandon, vars

(***************************************************************************)
(* With PersistentStore::new as the only constructor, versions order the   *)
(* history of commits over all snapshots, for every checkpointer: a failed *)
(* save, an abandoned call or a crash never makes two histories diverge.   *)
(***************************************************************************)
THEOREM VersionsAlwaysOrderHistory ==
    ASSUME Constructors \subseteq {"new"}, Restarts \subseteq {"crash"}
    PROVE  Spec => []VersionsOrderHistory
<1>1. HistoryInv => VersionsOrderHistory
  BY DEF HistoryInv
<1>2. BaseInv /\ HistoryInv /\ [Next]_vars => HistoryInv'
  BY HistoryStep
<1> QED BY <1>1, <1>2, HistoryInit, BaseInvariant, PTL DEF Spec

----------------------------------------------------------------------------
(***************************************************************************)
(* SQLite: the table only grows, so what was once saved stays on disk.     *)
(***************************************************************************)
OnDisk(s) == \E i \in DOMAIN disk : disk[i] = s

DurabilityInv ==
    /\ ~LoadFails
    /\ \A c \in Calls : call[c].phase # "truncated"
    /\ \A c \in Calls : call[c].phase = "saved" => OnDisk(call[c].snapshot)
    /\ \A a \in acked : \E i \in DOMAIN disk : a \in disk[i].activities

\* Before the first commit nothing is owed to the disk.
LEMMA DurabilityInit == Init => DurabilityInv
BY DEF Init, DurabilityInv, LoadFails, IdleCall

\* The table of a SQLite checkpointer only grows, by snapshots of calls.
LEMMA SqliteGrows ==
    ASSUME Checkpointer = "sqlite", BaseInv, DurabilityInv, [Next]_vars
    PROVE  /\ DOMAIN disk \subseteq DOMAIN disk'
           /\ \A i \in DOMAIN disk : disk'[i] = disk[i]
           /\ ~LoadFails'
           /\ UNCHANGED disk \/ \E c \in Calls : Save(c)
<1> USE DEF BaseInv
<1>1. UNCHANGED disk \/ \E c \in Calls : Save(c)
  BY DEF DurabilityInv, Next, New, FromMemory, Crash, Drop, Upsert, Commit, FileTruncate, FileWrite,
         Return, SaveFails, Abandon, vars
<1>2. CASE UNCHANGED disk
  BY <1>1, <1>2 DEF DurabilityInv, LoadFails
<1>3. ASSUME NEW c \in Calls, Save(c)
      PROVE  /\ DOMAIN disk \subseteq DOMAIN disk'
             /\ \A i \in DOMAIN disk : disk'[i] = disk[i]
             /\ ~LoadFails'
  <2>1. disk' = Append(disk, call[c].snapshot) /\ disk \in Seq(Snapshot \cup {Garbage})
    BY <1>3 DEF Save, Stored, TypeOK
  <2>2. call[c].snapshot # Garbage
    BY GarbageAssumption DEF TypeOK
  <2>3. /\ DOMAIN disk \subseteq DOMAIN disk'
        /\ \A i \in DOMAIN disk : disk'[i] = disk[i]
        /\ \A i \in DOMAIN disk' : i \in DOMAIN disk \/ disk'[i] = call[c].snapshot
    BY <2>1
  <2> QED BY <2>2, <2>3 DEF DurabilityInv, LoadFails
<1> QED BY <1>1, <1>2, <1>3

\* Every step of a SQLite store preserves the durability invariant.
LEMMA DurabilityStep ==
    ASSUME Checkpointer = "sqlite"
    PROVE  BaseInv /\ DurabilityInv /\ [Next]_vars => DurabilityInv'
<1> SUFFICES ASSUME BaseInv, DurabilityInv, [Next]_vars
             PROVE  DurabilityInv'
  OBVIOUS
<1> USE DEF BaseInv
<1>1. /\ \A s : OnDisk(s) => OnDisk(s)'
      /\ \A a : (\E i \in DOMAIN disk : a \in disk[i].activities)
                 => (\E i \in DOMAIN disk' : a \in disk'[i].activities)
      /\ ~LoadFails'
  BY SqliteGrows DEF OnDisk
<1>2. \A c \in Calls : call'[c].phase # "truncated"
  BY DEF DurabilityInv, TypeOK, IdleCall, Next, New, FromMemory, Crash, Drop, Upsert, Commit, Save,
         FileTruncate, FileWrite, Return, SaveFails, Abandon, vars
<1>3. (\A c \in Calls : call[c].phase = "saved" => OnDisk(call[c].snapshot))'
  <2> SUFFICES ASSUME NEW c \in Calls, call'[c].phase = "saved"
               PROVE  \E i \in DOMAIN disk' : disk'[i] = call'[c].snapshot
    BY DEF OnDisk
  <2>1. CASE call'[c] = call[c]
    BY <1>1, <2>1 DEF DurabilityInv, OnDisk
  <2>2. CASE Save(c)
    <3>1. /\ disk' = Append(disk, call[c].snapshot) /\ disk \in Seq(Snapshot \cup {Garbage})
          /\ call'[c].snapshot = call[c].snapshot
      BY <2>2 DEF Save, Stored, TypeOK
    <3>2. Len(disk) + 1 \in DOMAIN disk' /\ disk'[Len(disk) + 1] = call[c].snapshot
      BY <3>1
    <3> QED BY <3>1, <3>2
  <2>3. CASE call'[c] # call[c] /\ ~Save(c)
    BY <2>3 DEF DurabilityInv, TypeOK, IdleCall, Next, New, FromMemory, Crash, Drop, Upsert, Commit, Save,
           FileTruncate, FileWrite, Return, SaveFails, Abandon, vars
  <2> QED BY <2>1, <2>2, <2>3
<1>4. \A a \in acked' : \E i \in DOMAIN disk' : a \in disk'[i].activities
  <2>1. CASE acked' \subseteq acked
    BY <1>1, <2>1 DEF DurabilityInv
  <2>2. ASSUME NEW c \in Calls, Return(c)
        PROVE  \A a \in acked' : \E i \in DOMAIN disk' : a \in disk'[i].activities
    <3>1. \E i \in DOMAIN disk : call[c].activity \in disk[i].activities
      BY <2>2 DEF Return, DurabilityInv, CallsInv, OnDisk
    <3>2. acked' \subseteq acked \cup {call[c].activity}
      BY <2>2 DEF Return
    <3> QED BY <1>1, <3>1, <3>2 DEF DurabilityInv
  <2> QED BY <2>1, <2>2 DEF Next, New, FromMemory, Crash, Drop, Upsert, Commit, Save,
             FileTruncate, FileWrite, SaveFails, Abandon, vars
<1> QED BY <1>1, <1>2, <1>3, <1>4 DEF DurabilityInv

\* Every commit on disk is in the snapshot load() returns.
LEMMA LoadHasAll ==
    ASSUME BaseInv, HistoryInv, ~LoadFails, NEW i \in DOMAIN disk
    PROVE  disk[i].activities \subseteq Load.activities
<1>1. disk[i] \in Snapshots /\ disk # <<>>
  BY InSnapshots DEF LoadFails, BaseInv, TypeOK
<1> QED BY <1>1, LoadIsASnapshot DEF HistoryInv, VersionsOrderHistory

(***************************************************************************)
(* An acknowledged commit survives any crash when the checkpointer is      *)
(* SQLite and stores are opened with PersistentStore::new, whatever the    *)
(* order in which concurrent saves land and however many of them fail.     *)
(***************************************************************************)
THEOREM SqliteAckedDurable ==
    ASSUME Checkpointer = "sqlite", Constructors \subseteq {"new"}, Restarts \subseteq {"crash"}
    PROVE  Spec => []AckedDurable
<1>1. BaseInv /\ HistoryInv /\ DurabilityInv => AckedDurable
  BY LoadHasAll DEF AckedDurable, DurabilityInv
<1>2. BaseInv /\ HistoryInv /\ [Next]_vars => HistoryInv'
  BY HistoryStep
<1>3. BaseInv /\ DurabilityInv /\ [Next]_vars => DurabilityInv'
  BY DurabilityStep
<1> QED BY <1>1, <1>2, <1>3, HistoryInit, DurabilityInit, BaseInvariant, PTL DEF Spec

----------------------------------------------------------------------------
(***************************************************************************)
(* Refinement: the SQLite store implements DurableLog.                     *)
(***************************************************************************)
FullInv == BaseInv /\ HistoryInv /\ DurabilityInv

\* load() returns a snapshot that is newest and has all that is on disk.
LoadCoversDisk ==
    /\ Load \in Snapshot
    /\ \A i \in DOMAIN disk : /\ disk[i].activities \subseteq Load.activities
                             /\ disk[i].version <= Load.version
    /\ disk # <<>> => \E i \in DOMAIN disk : Load = disk[i]

\* The snapshot load() returns covers every commit on disk.
LEMMA FullInvLoad == FullInv => LoadCoversDisk
BY LoadHasAll, LoadIsASnapshot, LoadType DEF BaseInv, FullInv, DurabilityInv, LoadCoversDisk

\* A step that moves load() moves it forward.
LEMMA LoadGrows ==
    ASSUME Checkpointer = "sqlite", FullInv, FullInv', [Next]_vars
    PROVE  /\ Load.activities \subseteq Load'.activities
           /\ Load.version <= Load'.version
           /\ UNCHANGED disk => Load' = Load
<1> USE DEF FullInv
<1>1. UNCHANGED disk => Load' = Load
  BY DEF Load, LoadsNone
<1>2. LoadCoversDisk'
  BY FullInvLoad, PTL
<1>3. CASE disk = <<>>
  <2>1. Load = EmptyState
    BY <1>3, LoadIsASnapshot DEF DurabilityInv
  <2>2. Load' \in Snapshot
    BY <1>2 DEF LoadCoversDisk
  <2> QED BY <1>1, <2>1, <2>2 DEF EmptyState, Snapshot
<1>4. CASE disk # <<>>
  <2>1. PICK i \in DOMAIN disk : Load = disk[i]
    BY <1>4, LoadType DEF BaseInv, DurabilityInv
  <2>2. i \in DOMAIN disk' /\ disk'[i] = disk[i]
    BY <2>1, SqliteGrows
  <2> QED BY <1>1, <1>2, <2>1, <2>2 DEF LoadCoversDisk
<1> QED BY <1>3, <1>4

\* The invariants of a SQLite store hold together in every reachable state.
LEMMA FullInvariant ==
    ASSUME Checkpointer = "sqlite", Constructors \subseteq {"new"}, Restarts \subseteq {"crash"}
    PROVE  Spec => []FullInv
<1>1. BaseInv /\ HistoryInv /\ [Next]_vars => HistoryInv'
  BY HistoryStep
<1>2. BaseInv /\ DurabilityInv /\ [Next]_vars => DurabilityInv'
  BY DurabilityStep
<1> QED BY <1>1, <1>2, HistoryInit, DurabilityInit, BaseInvariant, PTL DEF Spec, FullInv

\* Whatever load() returns, nothing on disk is newer.
LoadIsNewest ==
    ~LoadFails => /\ Load \in Snapshot
                  /\ \A i \in DOMAIN disk : disk[i].version <= Load.version

LEMMA LoadNewest == BaseInv => LoadIsNewest
BY LoadIsASnapshot DEF LoadIsNewest

(***************************************************************************)
(* With SQLite, no save takes load() back to an older version: whatever    *)
(* the constructors, and also one that outlives the store it belongs to.   *)
(***************************************************************************)
THEOREM SqliteVersionNeverRegresses ==
    ASSUME Checkpointer = "sqlite"
    PROVE  Spec => DurableVersionNeverRegresses
<1>1. BaseInv /\ BaseInv' /\ DurabilityInv /\ [Next]_vars
        => [~LoadFails /\ ~LoadFails' => Load.version <= Load'.version]_disk
  <2> SUFFICES ASSUME BaseInv, BaseInv', DurabilityInv, [Next]_vars, ~LoadFails'
               PROVE  Load.version <= Load'.version
    OBVIOUS
  <2>1. ~LoadFails
    BY DEF DurabilityInv
  <2>0. LoadIsNewest'
    BY LoadNewest, PTL
  <2>2. Load' \in Snapshot /\ \A i \in DOMAIN disk' : disk'[i].version <= Load'.version
    BY <2>0 DEF LoadIsNewest
  <2>3. CASE disk = <<>>
    BY <2>1, <2>2, <2>3, LoadIsASnapshot DEF EmptyState, Snapshot
  <2>4. CASE disk # <<>>
    <3>1. PICK i \in DOMAIN disk : Load = disk[i]
      BY <2>1, <2>4, LoadType DEF BaseInv
    <3>2. i \in DOMAIN disk' /\ disk'[i] = disk[i]
      BY <3>1, SqliteGrows
    <3> QED BY <2>2, <3>1, <3>2
  <2> QED BY <2>3, <2>4
<1>2. BaseInv /\ DurabilityInv /\ [Next]_vars => DurabilityInv'
  BY DurabilityStep
<1> QED BY <1>1, <1>2, DurabilityInit, BaseInvariant, PTL DEF Spec, DurableVersionNeverRegresses

\* Every step of the store is a step of the durable log or leaves it alone.
LEMMA LogStep ==
    ASSUME Checkpointer = "sqlite", Constructors \subseteq {"new"}, Restarts \subseteq {"crash"},
           FullInv, FullInv', [Next]_vars
    PROVE  [Log!Next]_(Log!vars)
<1> USE DEF FullInv, BaseInv, Log!vars
<1>0. LoadCoversDisk /\ LoadCoversDisk'
  BY FullInvLoad, PTL
<1>1. CASE New
  <2>1. UNCHANGED disk /\ state' = Load /\ up' /\ ~up /\ UNCHANGED acked
    BY <1>1 DEF New
  <2>2. Load' = Load
    BY <2>1, LoadGrows
  <2> QED BY <2>1, <2>2
<1>2. CASE Crash
  <2>1. UNCHANGED disk /\ ~up' /\ up /\ UNCHANGED acked
    BY <1>2 DEF Crash
  <2>2. Load' = Load
    BY <2>1, LoadGrows
  <2>3. Log!Restart
    BY <2>1, <2>2 DEF Log!Restart
  <2> QED BY <2>3 DEF Log!Next
<1>3. ASSUME NEW i \in Items, Upsert(i) PROVE UNCHANGED Log!vars
  <2>1. UNCHANGED <<up, disk, acked>> /\ up /\ state'.activities = state.activities
    BY <1>3 DEF Upsert, TypeOK, Snapshot
  <2> QED BY <2>1, LoadGrows
<1>4. ASSUME NEW c \in Calls, NEW a \in Activities, NEW delta \in SUBSET Items,
             Commit(c, a, delta)
      PROVE  Log!Next
  <2>1. /\ UNCHANGED <<up, disk, acked>> /\ up /\ a \notin used
        /\ state'.activities = state.activities \cup {a}
    BY <1>4 DEF Commit, Committed
  <2>2. a \notin state.activities
    BY <2>1, InSnapshots DEF HistoryInv, UsedInv
  <2>3. Log!Apply(a)
    BY <2>1, <2>2, LoadGrows DEF Log!Apply
  <2> QED BY <2>3 DEF Log!Next
<1>5. ASSUME NEW c \in Calls, Save(c) PROVE Log!Next
  <2>1. UNCHANGED <<up, state, acked>> /\ up /\ Load.activities \subseteq Load'.activities
    BY <1>5, LoadGrows DEF Save, HistoryInv, CallsLive
  <2>2. Load'.activities \subseteq state.activities
    <3>1. \A s \in Snapshots' : s \in Snapshots
      BY <2>1, SnapshotOrigins, InSnapshots
    <3>2. \A s \in Snapshots' : s.activities \subseteq state.activities
      BY <2>1, <3>1, InSnapshots DEF HistoryInv, VersionsOrderHistory, MemoryIsNewest
    <3>3. disk' # <<>>
      <4>1. disk' = Append(disk, call[c].snapshot) /\ disk \in Seq(Snapshot \cup {Garbage})
        BY <1>5 DEF Save, Stored, TypeOK
      <4> QED BY <4>1
    <3>4. PICK i \in DOMAIN disk' : Load' = disk'[i]
      BY <1>0, <3>3 DEF LoadCoversDisk
    <3>5. disk'[i] # Garbage
      BY <3>4 DEF DurabilityInv, LoadFails
    <3> QED BY <3>2, <3>4, <3>5, InSnapshotsPrime
  <2>3. Log!Flush
    BY <2>1, <2>2 DEF Log!Flush
  <2> QED BY <2>3 DEF Log!Next
<1>6. ASSUME NEW c \in Calls, Return(c) PROVE [Log!Next]_(Log!vars)
  <2>1. UNCHANGED <<up, state, disk>> /\ Load' = Load
    BY <1>6, LoadGrows DEF Return
  <2>2. CASE ~call[c].awaited
    BY <1>6, <2>1, <2>2 DEF Return
  <2>3. CASE call[c].awaited
    <3>1. call[c].activity \in call[c].snapshot.activities
      BY <1>6 DEF Return, CallsInv
    <3>2. PICK i \in DOMAIN disk : disk[i] = call[c].snapshot
      BY <1>6 DEF Return, DurabilityInv, OnDisk
    <3>3. call[c].activity \in Load.activities
      BY <1>0, <3>1, <3>2 DEF LoadCoversDisk
    <3>4. Log!Ack(call[c].activity)
      BY <1>6, <2>1, <2>3, <3>3 DEF Return, Log!Ack
    <3>5. call[c].activity \in Activities
      BY <1>0, <3>3 DEF LoadCoversDisk, Snapshot
    <3> QED BY <3>4, <3>5 DEF Log!Next
  <2> QED BY <2>2, <2>3
<1>7. CASE UNCHANGED <<up, state, disk, acked>>
  BY <1>7, LoadGrows
<1> QED BY <1>1, <1>2, <1>3, <1>4, <1>5, <1>6, <1>7 DEF Next, FromMemory, FileTruncate,
           FileWrite, SaveFails, Abandon, Drop, vars, DurabilityInv

(***************************************************************************)
(* The SQLite store opened with PersistentStore::new implements the        *)
(* durable log, for any number of concurrent commits, failures and crashes.*)
(***************************************************************************)
THEOREM SqliteImplementsDurableLog ==
    ASSUME Checkpointer = "sqlite", Constructors \subseteq {"new"}, Restarts \subseteq {"crash"}
    PROVE  Spec => ImplementsDurableLog
<1>1. Init => Log!Init
  BY DEF Init, Log!Init, Load, LoadsNone, EmptyState
<1>2. FullInv /\ FullInv' /\ [Next]_vars => [Log!Next]_(Log!vars)
  BY LogStep
<1> QED BY <1>1, <1>2, FullInvariant, PTL DEF Spec, ImplementsDurableLog, Log!Spec
=============================================================================
