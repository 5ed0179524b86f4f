--------------------------- MODULE VersionedStore ---------------------------
(***************************************************************************)
(* atomr-ontology-version: branchable history over ontology snapshots.     *)
(*                                                                         *)
(* `commits` maps commit ids to commits.  An id is a Blake3 digest; the    *)
(* hash is collision free, so an id is modelled by the position at which   *)
(* its preimage was first committed, and two commits share an id exactly   *)
(* when they share a preimage.  BTreeMap::insert on a known id replaces    *)
(* the commit that is there.                                               *)
(***************************************************************************)
EXTENDS Naturals, Sequences

CONSTANTS
    Branches,      \* branch names
    Main,          \* DEFAULT_BRANCH
    Messages,      \* user commit messages
    Keys,          \* ids of nodes, edges and axioms
    Vals,          \* their contents
    Types,         \* schema type names
    Absent,        \* no value at a key
    Unserializable,\* the sentinel hashed for a snapshot JSON cannot express
    MaxCommits     \* bound on distinct commits

ASSUME MainAssumption == Main \in Branches
ASSUME MaxCommitsAssumption == MaxCommits \in Nat

VARIABLES commits,   \* commit table, indexed by commit id
          branches,  \* branch name -> id of its head, 0 for no such branch
          current,   \* name of the checked-out branch
          promised   \* history: <<id, snapshot>> of every commit made

vars == <<commits, branches, current, promised>>

Ontology == [graph : [Keys -> Vals \cup {Absent}], schema : SUBSET Types]

\* The sentinel is no JSON text.
ASSUME UnserializableAssumption == Unserializable \notin Ontology

Strategies == {"Ours", "Theirs", "Union"}

NoId == 0

----------------------------------------------------------------------------
(* Commit ids. *)

\* serde_json refuses a map whose keys are 32-byte ids, so only a snapshot
\* without nodes, edges and axioms serializes; the others hash a sentinel.
Serializable(snapshot) == \A k \in Keys : snapshot.graph[k] = Absent

Body(snapshot) == IF Serializable(snapshot) THEN snapshot ELSE Unserializable

\* Mutants: a preimage without the parent, or without the snapshot.
PreimageNoParent(c) == <<c.message, c.second_parent, Body(c.snapshot)>>
PreimageNoSnapshot(c) == <<c.parent, c.message, c.second_parent>>

\* What is hashed: (parent, message, snapshot); for a merge the second
\* parent is embedded in the message.
Preimage(c) == <<c.parent, c.message, c.second_parent, Body(c.snapshot)>>

\* The id of a commit: a known one if the preimage is known.
compute_id(c) ==
    IF \E i \in DOMAIN commits : Preimage(commits[i]) = Preimage(c)
    THEN CHOOSE i \in DOMAIN commits : Preimage(commits[i]) = Preimage(c)
    ELSE Len(commits) + 1

\* commits.insert(id, commit); branches.insert(current, id).
Record(c) ==
    LET id == compute_id(c)
    IN  /\ id <= MaxCommits
        /\ commits' = IF id \in DOMAIN commits THEN [commits EXCEPT ![id] = c]
                                               ELSE Append(commits, c)
        /\ branches' = [branches EXCEPT ![current] = id]
        /\ promised' = promised \cup {<<id, c.snapshot>>}
        /\ UNCHANGED current

----------------------------------------------------------------------------
(* Operations.  An operation whose guard fails returns an error and        *)
(* changes nothing.                                                        *)

Init ==
    /\ commits = <<>>
    /\ branches = [b \in Branches |-> NoId]
    /\ current = Main
    /\ promised = {}

\* Mutant: the commit is not linked to the head it replaces.
CommitOrphan(message, snapshot) ==
    Record([parent |-> NoId, second_parent |-> NoId,
            message |-> message, snapshot |-> snapshot])

Commit(message, snapshot) ==
    Record([parent |-> branches[current], second_parent |-> NoId,
            message |-> message, snapshot |-> snapshot])

\* BranchExists, EmptyCurrentBranch.
Branch(name) ==
    /\ branches[name] = NoId
    /\ branches[current] # NoId
    /\ branches' = [branches EXCEPT ![name] = branches[current]]
    /\ UNCHANGED <<commits, current, promised>>

\* UnknownBranch.
Checkout(name) ==
    /\ branches[name] # NoId
    /\ current' = name
    /\ UNCHANGED <<commits, branches, promised>>

\* Mutant: Union builds a snapshot without a schema.
merge_graphs_only(ours, theirs, strategy) ==
    CASE strategy = "Ours"   -> ours
      [] strategy = "Theirs" -> theirs
      [] strategy = "Union"  ->
           [graph |-> [k \in Keys |-> IF ours.graph[k] = Absent THEN theirs.graph[k]
                                                               ELSE ours.graph[k]]]

\* Union keeps what ours has and takes the rest from theirs, key by key.
merge_snapshots(ours, theirs, strategy) ==
    CASE strategy = "Ours"   -> ours
      [] strategy = "Theirs" -> theirs
      [] strategy = "Union"  ->
           [graph  |-> [k \in Keys |-> IF ours.graph[k] = Absent THEN theirs.graph[k]
                                                                ELSE ours.graph[k]],
            schema |-> ours.schema \cup theirs.schema]

\* SelfMerge, UnknownBranch, EmptyCurrentBranch, UnknownCommit,
\* NothingToMerge.
CanMerge(other) ==
    /\ other # current
    /\ branches[other] # NoId
    /\ branches[current] # NoId
    /\ {branches[other], branches[current]} \subseteq DOMAIN commits
    /\ branches[other] # branches[current]

Merge(other, strategy) ==
    /\ CanMerge(other)
    /\ Record([parent |-> branches[current], second_parent |-> branches[other],
               message |-> <<other, current>>,
               snapshot |-> merge_snapshots(commits[branches[current]].snapshot,
                                            commits[branches[other]].snapshot, strategy)])

Next ==
    \/ \E m \in Messages, s \in Ontology : Commit(m, s)
    \/ \E b \in Branches : Branch(b) \/ Checkout(b)
    \/ \E b \in Branches, st \in Strategies : Merge(b, st)

Spec == Init /\ [][Next]_vars

----------------------------------------------------------------------------
(* Properties. *)

\* Type correctness of the commit table and the branches (VersionedStore);
\* a merged snapshot is an ontology again.
TypeOK ==
    /\ commits \in Seq([parent : Nat, second_parent : Nat,
                        message : Messages \cup (Branches \X Branches), snapshot : Ontology])
    /\ branches \in [Branches -> Nat]
    /\ current \in Branches
    /\ promised \subseteq (Nat \X Ontology)

Parents(c) == {c.parent, c.second_parent} \ {NoId}

(***************************************************************************)
(* Every head and every parent names a known commit, so merge never        *)
(* returns UnknownCommit and log() never meets a gap; and a commit's       *)
(* parents were committed before it, so the history has no cycle, even     *)
(* when a commit is made again under an id that already has descendants.   *)
(***************************************************************************)
HistoryIsADag ==
    /\ \A b \in Branches : branches[b] # NoId => branches[b] \in DOMAIN commits
    /\ \A i \in DOMAIN commits : \A p \in Parents(commits[i]) : p \in DOMAIN commits /\ p < i

(***************************************************************************)
(* No operation rewrites the parents of a commit: an id that is committed  *)
(* again keeps its place in the history.                                   *)
(***************************************************************************)
LineageNeverRewritten ==
    [][\A i \in DOMAIN commits : /\ i \in DOMAIN commits'
                                 /\ commits'[i].parent = commits[i].parent
                                 /\ commits'[i].second_parent = commits[i].second_parent]_vars

\* The history of a commit: the least set of commits that holds it and the
\* parents of all its members.
Lineage(id) == {S \in SUBSET DOMAIN commits : id \in S /\ \A i \in S : Parents(commits[i]) \subseteq S}

Ancestors(id) == {i \in DOMAIN commits : \A S \in Lineage(id) : i \in S}

(***************************************************************************)
(* No operation takes a commit out of the history of a branch.             *)
(***************************************************************************)
HistoryNeverLost ==
    [][\A b \in Branches :
          branches[b] # NoId => Ancestors(branches[b]) \subseteq Ancestors(branches[b])']_vars

(***************************************************************************)
(* as_of(id) answers with the snapshot that was committed under id, at     *)
(* whatever later time it is asked and whatever was committed since, if    *)
(* that snapshot could be serialized into the hash.                        *)
(***************************************************************************)
SerializableAsOfIsStable ==
    \A p \in promised : /\ p[1] \in DOMAIN commits
                        /\ Serializable(p[2]) => commits[p[1]].snapshot = p[2]

(***************************************************************************)
(* "`as_of` returns the snapshot at any past commit": the same for every   *)
(* snapshot.                                                               *)
(***************************************************************************)
AsOfIsStable == \A p \in promised : p[1] \in DOMAIN commits /\ commits[p[1]].snapshot = p[2]
=============================================================================
