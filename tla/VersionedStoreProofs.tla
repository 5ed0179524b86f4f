------------------------ MODULE VersionedStoreProofs ------------------------
(***************************************************************************)
(* Proofs about VersionedStore for any branches, messages, snapshots and   *)
(* number of commits, and about log(): on every history the store can      *)
(* build, of any size, the walk lists exactly the ancestors of the head.   *)
(***************************************************************************)
EXTENDS VersionedLog, TLAPS

CommitType == [parent : Nat, second_parent : Nat,
               message : Messages \cup (Branches \X Branches), snapshot : Ontology]

\* An id is known and has the same preimage, or is the next free one.
LEMMA ComputeId ==
    ASSUME TypeOK, NEW c
    PROVE  \/ /\ compute_id(c) \in DOMAIN commits
              /\ Preimage(commits[compute_id(c)]) = Preimage(c)
           \/ compute_id(c) = Len(commits) + 1
BY DEF compute_id

\* Commits with equal preimages have equal parents and equal recorded hashes.
LEMMA PreimageLineage ==
    ASSUME NEW c, NEW d, Preimage(c) = Preimage(d)
    PROVE  /\ c.parent = d.parent /\ c.second_parent = d.second_parent
           /\ Body(c.snapshot) = Body(d.snapshot)
BY DEF Preimage

(***************************************************************************)
(* What recording a commit does to the table: the new commit is under its  *)
(* id, every other commit is where it was, and the new one takes over the  *)
(* lineage of the one it replaces.                                         *)
(***************************************************************************)
LEMMA RecordStep ==
    ASSUME TypeOK, NEW c \in CommitType, Record(c)
    PROVE  \E id \in Nat \ {0} :
              /\ commits' \in Seq(CommitType)
              /\ id \in DOMAIN commits' /\ commits'[id] = c
              /\ DOMAIN commits \subseteq DOMAIN commits'
              /\ \A i \in DOMAIN commits' : i # id => i \in DOMAIN commits /\ commits'[i] = commits[i]
              /\ id \in DOMAIN commits => Preimage(commits[id]) = Preimage(c)
              /\ id \notin DOMAIN commits => \A i \in DOMAIN commits : i < id
              /\ branches' = [branches EXCEPT ![current] = id]
              /\ promised' = promised \cup {<<id, c.snapshot>>}
              /\ current' = current
<1> DEFINE id == compute_id(c)
<1>1. commits \in Seq(CommitType)
  BY DEF TypeOK, CommitType
<1>2. /\ commits' = IF id \in DOMAIN commits THEN [commits EXCEPT ![id] = c] ELSE Append(commits, c)
      /\ branches' = [branches EXCEPT ![current] = id]
      /\ promised' = promised \cup {<<id, c.snapshot>>}
      /\ current' = current
  BY DEF Record
<1>3. CASE id \in DOMAIN commits
  <2>1. Preimage(commits[id]) = Preimage(c)
    <3>1. id # Len(commits) + 1
      BY <1>1, <1>3
    <3> QED BY <1>3, <3>1, ComputeId
  <2> HIDE DEF id
  <2>2. commits' = [commits EXCEPT ![id] = c]
    BY <1>2, <1>3
  <2>3. commits' \in Seq(CommitType) /\ DOMAIN commits' = DOMAIN commits
    BY <1>1, <1>3, <2>2
  <2>4. id \in Nat \ {0}
    BY <1>1, <1>3
  <2>5. commits'[id] = c /\ \A i \in DOMAIN commits' : i # id => commits'[i] = commits[i]
    BY <1>1, <1>3, <2>2
  <2> QED BY <1>2, <1>3, <2>1, <2>3, <2>4, <2>5
<1>4. CASE id \notin DOMAIN commits
  <2>1. id = Len(commits) + 1
    BY <1>4, ComputeId
  <2> HIDE DEF id
  <2>2. commits' = Append(commits, c)
    BY <1>2, <1>4
  <2>3. /\ commits' \in Seq(CommitType)
        /\ DOMAIN commits = 1 .. Len(commits) /\ DOMAIN commits' = 1 .. (Len(commits) + 1)
        /\ Len(commits) \in Nat
    BY <1>1, <2>2
  <2>4. id \in Nat \ {0} /\ id \in DOMAIN commits' /\ DOMAIN commits \subseteq DOMAIN commits'
    BY <2>1, <2>3
  <2>5. commits'[id] = c /\ \A i \in DOMAIN commits : commits'[i] = commits[i]
    BY <1>1, <2>1, <2>2
  <2>6. /\ \A i \in DOMAIN commits' : i # id => i \in DOMAIN commits
        /\ \A i \in DOMAIN commits : i < id
    BY <2>1, <2>3
  <2> QED BY <1>2, <1>4, <2>3, <2>4, <2>5, <2>6
<1> QED BY <1>3, <1>4

\* The two kinds of commit the store records.
LEMMA MergedType ==
    ASSUME NEW ours \in Ontology, NEW theirs \in Ontology, NEW st \in Strategies
    PROVE  merge_snapshots(ours, theirs, st) \in Ontology
<1>1. CASE st = "Ours"
  BY <1>1 DEF merge_snapshots
<1>2. CASE st = "Theirs"
  BY <1>2 DEF merge_snapshots
<1>3. CASE st = "Union"
  BY <1>3 DEF merge_snapshots, Ontology
<1> QED BY <1>1, <1>2, <1>3 DEF Strategies

\* A step other than branch() and checkout() records a commit on the current head.
LEMMA RecordedCommits ==
    ASSUME TypeOK, Next, ~ \E b \in Branches : Branch(b) \/ Checkout(b)
    PROVE  \E c \in CommitType :
              /\ Record(c)
              /\ c.parent = branches[current]
              /\ c.second_parent = NoId \/ \E b \in Branches : c.second_parent = branches[b]
<1>1. ASSUME NEW m \in Messages, NEW s \in Ontology, Commit(m, s)
      PROVE  \E c \in CommitType :
                /\ Record(c) /\ c.parent = branches[current] /\ c.second_parent = NoId
  <2> DEFINE c == [parent |-> branches[current], second_parent |-> NoId,
                   message |-> m, snapshot |-> s]
  <2>1. c \in CommitType /\ c.parent = branches[current] /\ c.second_parent = NoId
    BY DEF CommitType, TypeOK, NoId
  <2>2. Record(c)
    BY <1>1 DEF Commit
  <2> HIDE DEF c
  <2> QED BY <2>1, <2>2
<1>2. ASSUME NEW b \in Branches, NEW st \in Strategies, Merge(b, st)
      PROVE  \E c \in CommitType :
                /\ Record(c) /\ c.parent = branches[current] /\ c.second_parent = branches[b]
  <2> DEFINE merged == merge_snapshots(commits[branches[current]].snapshot,
                                       commits[branches[b]].snapshot, st)
             c == [parent |-> branches[current], second_parent |-> branches[b],
                   message |-> <<b, current>>, snapshot |-> merged]
  <2>1. /\ commits[branches[current]].snapshot \in Ontology
        /\ commits[branches[b]].snapshot \in Ontology
    <3>1. branches[current] \in DOMAIN commits /\ branches[b] \in DOMAIN commits
      BY <1>2 DEF Merge, CanMerge
    <3>2. commits \in Seq(CommitType)
      BY DEF TypeOK, CommitType
    <3>3. \A i \in DOMAIN commits : commits[i] \in CommitType
      BY <3>2
    <3> QED BY <3>1, <3>3 DEF CommitType
  <2>2. merged \in Ontology
    BY <2>1, MergedType
  <2> HIDE DEF merged
  <2>3. c \in CommitType /\ c.parent = branches[current] /\ c.second_parent = branches[b]
    BY <2>2 DEF CommitType, TypeOK
  <2>4. Record(c)
    BY <1>2 DEF Merge, merged
  <2> HIDE DEF c
  <2> QED BY <2>3, <2>4
<1> QED BY <1>1, <1>2 DEF Next

----------------------------------------------------------------------------
(***************************************************************************)
(* The type invariant.                                                     *)
(***************************************************************************)
THEOREM VersionTypeCorrect == Spec => []TypeOK
<1>1. Init => TypeOK
  BY MainAssumption DEF Init, TypeOK, NoId
<1>2. TypeOK /\ [Next]_vars => TypeOK'
  <2> SUFFICES ASSUME TypeOK, [Next]_vars PROVE TypeOK'
    OBVIOUS
  <2>1. ASSUME NEW b \in Branches, Branch(b) \/ Checkout(b) PROVE TypeOK'
    BY <2>1 DEF Branch, Checkout, TypeOK
  <2>2. ASSUME NEW c \in CommitType, Record(c) PROVE TypeOK'
    <3>1. PICK id \in Nat \ {0} :
             /\ commits' \in Seq(CommitType)
             /\ branches' = [branches EXCEPT ![current] = id]
             /\ promised' = promised \cup {<<id, c.snapshot>>}
             /\ current' = current
      BY <2>2, RecordStep
    <3>2. <<id, c.snapshot>> \in Nat \X Ontology
      BY DEF CommitType
    <3> QED BY <3>1, <3>2 DEF TypeOK, CommitType
  <2>3. CASE UNCHANGED vars
    BY <2>3 DEF vars, TypeOK
  <2> QED BY <2>1, <2>2, <2>3, RecordedCommits
<1> QED BY <1>1, <1>2, PTL DEF Spec

(***************************************************************************)
(* The history is a DAG whose edges lead to known, older commits.          *)
(***************************************************************************)
THEOREM HistoryAlwaysADag == Spec => []HistoryIsADag
<1>1. Init => HistoryIsADag
  BY DEF Init, HistoryIsADag, NoId
<1>2. TypeOK /\ HistoryIsADag /\ [Next]_vars => HistoryIsADag'
  <2> SUFFICES ASSUME TypeOK, HistoryIsADag, [Next]_vars PROVE HistoryIsADag'
    OBVIOUS
  <2>1. ASSUME NEW b \in Branches, Branch(b) \/ Checkout(b) PROVE HistoryIsADag'
    BY <2>1 DEF Branch, Checkout, TypeOK, HistoryIsADag
  <2>2. ASSUME NEW c \in CommitType, Record(c), c.parent = branches[current],
               c.second_parent = NoId \/ \E b \in Branches : c.second_parent = branches[b]
        PROVE  HistoryIsADag'
    <3>1. PICK id \in Nat \ {0} :
              /\ id \in DOMAIN commits' /\ commits'[id] = c
              /\ DOMAIN commits \subseteq DOMAIN commits'
              /\ \A i \in DOMAIN commits' : i # id => i \in DOMAIN commits /\ commits'[i] = commits[i]
              /\ id \in DOMAIN commits => Preimage(commits[id]) = Preimage(c)
              /\ id \notin DOMAIN commits => \A i \in DOMAIN commits : i < id
              /\ branches' = [branches EXCEPT ![current] = id]
      BY <2>2, RecordStep
    <3>2. \A p \in Parents(c) : p \in DOMAIN commits
      BY <2>2 DEF HistoryIsADag, Parents, TypeOK
    <3>3. \A p \in Parents(c) : p < id
      <4>1. CASE id \in DOMAIN commits
        <5>1. Parents(c) = Parents(commits[id])
          BY <3>1, <4>1, PreimageLineage DEF Parents
        <5> QED BY <4>1, <5>1 DEF HistoryIsADag
      <4>2. CASE id \notin DOMAIN commits
        BY <3>1, <3>2, <4>2
      <4> QED BY <4>1, <4>2
    <3>4. \A i \in DOMAIN commits' : \A p \in Parents(commits'[i]) : p \in DOMAIN commits' /\ p < i
      BY <3>1, <3>2, <3>3 DEF HistoryIsADag
    <3>5. \A b \in Branches : branches'[b] # NoId => branches'[b] \in DOMAIN commits'
      BY <3>1 DEF HistoryIsADag, TypeOK
    <3> QED BY <3>4, <3>5 DEF HistoryIsADag
  <2>3. CASE UNCHANGED vars
    BY <2>3 DEF vars, HistoryIsADag
  <2> QED BY <2>1, <2>2, <2>3, RecordedCommits
<1> QED BY <1>1, <1>2, VersionTypeCorrect, PTL DEF Spec

\* A commit that is known stays known, under the same parents.
LEMMA LineageKept ==
    ASSUME TypeOK, [Next]_vars, NEW i \in DOMAIN commits
    PROVE  /\ i \in DOMAIN commits'
           /\ commits'[i].parent = commits[i].parent
           /\ commits'[i].second_parent = commits[i].second_parent
<1>1. CASE UNCHANGED commits
  BY <1>1
<1>2. ASSUME NEW c \in CommitType, Record(c)
      PROVE  /\ i \in DOMAIN commits'
             /\ commits'[i].parent = commits[i].parent
             /\ commits'[i].second_parent = commits[i].second_parent
  BY <1>2, RecordStep, PreimageLineage
<1> QED BY <1>1, <1>2, RecordedCommits DEF Branch, Checkout, vars

(***************************************************************************)
(* No step rewrites the parents of a commit.                               *)
(***************************************************************************)
THEOREM LineageIsImmutable == Spec => LineageNeverRewritten
<1>1. TypeOK /\ [Next]_vars =>
        [\A i \in DOMAIN commits : /\ i \in DOMAIN commits'
                                   /\ commits'[i].parent = commits[i].parent
                                   /\ commits'[i].second_parent = commits[i].second_parent]_vars
  BY LineageKept
<1> QED BY <1>1, VersionTypeCorrect, PTL DEF Spec, LineageNeverRewritten

\* The history of a commit is part of the later history of the same commit
\* and of its children: a later lineage, cut down to the commits that were
\* known, was a lineage.
LEMMA AncestorsGrow ==
    ASSUME TypeOK, HistoryIsADag, [Next]_vars,
           NEW i \in DOMAIN commits, NEW id,
           id = i \/ (id \in DOMAIN commits' /\ i \in Parents(commits'[id]))
    PROVE  Ancestors(i) \subseteq Ancestors(id)'
<1>1. \A j \in DOMAIN commits : j \in DOMAIN commits' /\ Parents(commits'[j]) = Parents(commits[j])
  BY LineageKept DEF Parents
<1> SUFFICES ASSUME NEW x \in Ancestors(i), NEW S \in Lineage(id)' PROVE x \in S
  BY <1>1 DEF Ancestors
<1>2. /\ S \subseteq DOMAIN commits' /\ id \in S
      /\ \A j \in S : Parents(commits'[j]) \subseteq S
  BY DEF Lineage, Parents
<1>3. S \cap DOMAIN commits \in Lineage(i)
  <2>1. i \in S
    BY <1>2
  <2>2. \A j \in S \cap DOMAIN commits : Parents(commits[j]) \subseteq S \cap DOMAIN commits
    BY <1>1, <1>2 DEF HistoryIsADag
  <2> QED BY <2>1, <2>2 DEF Lineage
<1> QED BY <1>1, <1>3 DEF Ancestors

(***************************************************************************)
(* No commit, merge, branch or checkout takes a commit out of the history  *)
(* of a branch: the head it moves to has the old head among its parents.   *)
(***************************************************************************)
THEOREM HistoryIsKept == Spec => HistoryNeverLost
<1> DEFINE Kept == \A b \in Branches :
                      branches[b] # NoId => Ancestors(branches[b]) \subseteq Ancestors(branches[b])'
<1>1. TypeOK /\ HistoryIsADag /\ [Next]_vars => [Kept]_vars
  <2> SUFFICES ASSUME TypeOK, HistoryIsADag, Next, NEW b \in Branches, branches[b] # NoId
               PROVE  Ancestors(branches[b]) \subseteq Ancestors(branches[b])'
    OBVIOUS
  <2>0. branches[b] \in DOMAIN commits
    BY DEF HistoryIsADag
  <2>1. CASE branches'[b] = branches[b]
    <3>1. PICK h : h = branches[b] /\ h = branches'[b]
      BY <2>1
    <3>2. Ancestors(h) \subseteq Ancestors(h)'
      BY <2>0, <3>1, AncestorsGrow
    <3>3. Ancestors(branches[b]) = Ancestors(h) /\ Ancestors(branches[b])' = Ancestors(h)'
      BY <3>1 DEF Ancestors, Lineage
    <3> QED BY <3>2, <3>3
  <2>2. ASSUME NEW c \in CommitType, Record(c), c.parent = branches[current],
               branches'[b] # branches[b]
        PROVE  Ancestors(branches[b]) \subseteq Ancestors(branches[b])'
    <3>1. PICK id \in Nat \ {0} : /\ id \in DOMAIN commits' /\ commits'[id] = c
                                  /\ branches' = [branches EXCEPT ![current] = id]
      BY <2>2, RecordStep
    <3>2. b = current /\ branches'[b] = id
      BY <2>2, <3>1 DEF TypeOK
    <3>3. PICK h : h = branches[b] /\ h \in DOMAIN commits /\ h \in Parents(commits'[id])
      BY <2>0, <2>2, <3>1, <3>2 DEF Parents
    <3>4. Ancestors(h) \subseteq Ancestors(id)'
      BY <3>1, <3>3, AncestorsGrow
    <3>5. Ancestors(branches[b]) = Ancestors(h) /\ Ancestors(branches[b])' = Ancestors(id)'
      BY <3>2, <3>3 DEF Ancestors, Lineage
    <3> QED BY <3>4, <3>5
  <2>3. ASSUME NEW d \in Branches, Branch(d) \/ Checkout(d) PROVE branches'[b] = branches[b]
    BY <2>3 DEF Branch, Checkout, TypeOK
  <2> QED BY <2>1, <2>2, <2>3, RecordedCommits
<1> QED BY <1>1, VersionTypeCorrect, HistoryAlwaysADag, PTL DEF Spec, HistoryNeverLost

(***************************************************************************)
(* as_of is stable for every snapshot that serializes, among whatever      *)
(* other snapshots: only a commit with the same snapshot can take its id.  *)
(***************************************************************************)
THEOREM AsOfStableWhenSerializable == Spec => []SerializableAsOfIsStable
<1>1. Init => SerializableAsOfIsStable
  BY DEF Init, SerializableAsOfIsStable
<1>2. TypeOK /\ SerializableAsOfIsStable /\ [Next]_vars => SerializableAsOfIsStable'
  <2> SUFFICES ASSUME TypeOK, SerializableAsOfIsStable, [Next]_vars
               PROVE  SerializableAsOfIsStable'
    OBVIOUS
  <2>1. CASE UNCHANGED <<commits, promised>>
    BY <2>1 DEF SerializableAsOfIsStable, Serializable
  <2>2. ASSUME NEW c \in CommitType, Record(c) PROVE SerializableAsOfIsStable'
    <3>1. PICK id \in Nat \ {0} :
              /\ id \in DOMAIN commits' /\ commits'[id] = c
              /\ DOMAIN commits \subseteq DOMAIN commits'
              /\ \A i \in DOMAIN commits' : i # id => i \in DOMAIN commits /\ commits'[i] = commits[i]
              /\ id \in DOMAIN commits => Preimage(commits[id]) = Preimage(c)
              /\ promised' = promised \cup {<<id, c.snapshot>>}
      BY <2>2, RecordStep
    <3>2. ASSUME NEW p \in promised
          PROVE  /\ p[1] \in DOMAIN commits'
                 /\ Serializable(p[2]) => commits'[p[1]].snapshot = p[2]
      <4>1. p[1] \in DOMAIN commits /\ (Serializable(p[2]) => commits[p[1]].snapshot = p[2])
        BY DEF SerializableAsOfIsStable
      <4>2. CASE p[1] # id
        BY <3>1, <4>1, <4>2
      <4>3. CASE p[1] = id
        <5> SUFFICES ASSUME Serializable(p[2]) PROVE c.snapshot = p[2]
          BY <3>1, <4>1, <4>3
        <5>1. Body(c.snapshot) = p[2]
          BY <3>1, <4>1, <4>3, PreimageLineage DEF Body
        <5>2. p[2] # Unserializable
          BY UnserializableAssumption DEF TypeOK
        <5> QED BY <5>1, <5>2 DEF Body
      <4> QED BY <4>2, <4>3
    <3>3. \A p \in promised' : p \in promised \/ p = <<id, c.snapshot>>
      BY <3>1
    <3>4. ASSUME NEW p \in promised'
          PROVE  /\ p[1] \in DOMAIN commits'
                 /\ (\A k \in Keys : p[2].graph[k] = Absent) => commits'[p[1]].snapshot = p[2]
      <4>1. CASE p \in promised
        BY <3>2, <4>1 DEF Serializable
      <4>2. CASE p = <<id, c.snapshot>>
        BY <3>1, <4>2
      <4> QED BY <3>3, <4>1, <4>2
    <3> QED BY <3>4 DEF SerializableAsOfIsStable, Serializable
  <2> QED BY <2>1, <2>2, RecordedCommits DEF vars, Branch, Checkout
<1> QED BY <1>1, <1>2, VersionTypeCorrect, PTL DEF Spec

----------------------------------------------------------------------------
(* log(). *)

head == branches[current]

WalkType == walk \in [called : BOOLEAN, queue : Seq(Nat), seen : SUBSET Nat, out : Seq(Nat)]

Injective(s) == \A i, j \in 1..Len(s) : s[i] = s[j] => i = j

\* n is a parent of one of the first k commits listed.
ListedChild(n, k) == \E j \in 1..k : n \in Parents(commits[walk.out[j]])

----------------------------------------------------------------------------
(***************************************************************************)
(* The inductive invariant.                                                *)
(***************************************************************************)

\* What has been seen waits in the queue or is listed, and only once.
SeenOnce ==
    /\ walk.seen = Range(walk.queue) \cup Range(walk.out)
    /\ Range(walk.queue) \cap Range(walk.out) = {}
    /\ Injective(walk.queue) /\ Injective(walk.out)

\* The walk stays within the history of the head, and what is listed has all
\* its parents seen.
SeenIsHistory ==
    /\ head \in walk.seen
    /\ walk.seen \subseteq Ancestors(head)
    /\ \A n \in Range(walk.out) : Parents(commits[n]) \subseteq walk.seen

\* After the head, whatever is listed or waits has a child listed before it.
ChildrenFirst ==
    /\ walk.out = <<>> => Len(walk.queue) = 1
    /\ \A k \in 2..Len(walk.out) : ListedChild(walk.out[k], k - 1)
    /\ walk.out # <<>> => \A n \in Range(walk.queue) : ListedChild(n, Len(walk.out))

WalkInv ==
    /\ walk.called => IF head = NoId THEN walk.queue = <<>> /\ walk.out = <<>>
                      ELSE SeenOnce /\ SeenIsHistory /\ ChildrenFirst
    /\ ~walk.called => walk.queue = <<>>

----------------------------------------------------------------------------
(***************************************************************************)
(* Sequences without repetitions, and histories.                           *)
(***************************************************************************)

\* What a sequence holds, from what its pieces hold.
LEMMA RangeOfPieces ==
    ASSUME NEW s \in Seq(Nat)
    PROVE  /\ Range(s) \subseteq Nat
           /\ s # <<>> => Range(s) = {Head(s)} \cup Range(Tail(s))
           /\ \A n \in Nat : Range(Append(s, n)) = Range(s) \cup {n}
           /\ \A t \in Seq(Nat) : Range(s \o t) = Range(s) \cup Range(t)
<1>1. Range(s) \subseteq Nat
  BY DEF Range
<1>2. ASSUME s # <<>> PROVE Range(s) = {Head(s)} \cup Range(Tail(s))
  <2>1. /\ Len(s) \in Nat /\ Len(s) # 0 /\ DOMAIN s = 1..Len(s) /\ Head(s) = s[1]
        /\ DOMAIN Tail(s) = 1..(Len(s) - 1)
        /\ \A i \in 1..(Len(s) - 1) : Tail(s)[i] = s[i + 1]
    BY <1>2
  <2>2. \A i \in 1..Len(s) : i = 1 \/ (i - 1 \in 1..(Len(s) - 1) /\ s[i] = Tail(s)[i - 1])
    BY <2>1
  <2>3. \A i \in 1..(Len(s) - 1) : i + 1 \in 1..Len(s)
    BY <2>1
  <2>4. ASSUME NEW i \in DOMAIN s PROVE s[i] \in {Head(s)} \cup Range(Tail(s))
    <3>1. i = 1 \/ (i - 1 \in DOMAIN Tail(s) /\ s[i] = Tail(s)[i - 1])
      BY <2>1, <2>2
    <3> QED BY <2>1, <3>1 DEF Range
  <2>5. Head(s) \in Range(s)
    <3>1. 1 \in DOMAIN s
      BY <2>1
    <3> QED BY <2>1, <3>1 DEF Range
  <2>6. Range(Tail(s)) \subseteq Range(s)
    BY <2>1, <2>3 DEF Range
  <2> QED BY <2>4, <2>5, <2>6 DEF Range
<1>3. ASSUME NEW n \in Nat PROVE Range(Append(s, n)) = Range(s) \cup {n}
  <2>1. /\ Len(s) \in Nat /\ DOMAIN s = 1..Len(s)
        /\ DOMAIN Append(s, n) = 1..(Len(s) + 1) /\ Append(s, n)[Len(s) + 1] = n
        /\ \A i \in 1..Len(s) : Append(s, n)[i] = s[i]
    OBVIOUS
  <2>2. \A i \in 1..(Len(s) + 1) : i \in 1..Len(s) \/ i = Len(s) + 1
    BY <2>1
  <2>3. 1..Len(s) \subseteq 1..(Len(s) + 1) /\ Len(s) + 1 \in 1..(Len(s) + 1)
    BY <2>1
  <2> QED BY <2>1, <2>2, <2>3 DEF Range
<1>4. ASSUME NEW t \in Seq(Nat) PROVE Range(s \o t) = Range(s) \cup Range(t)
  <2>1. /\ Len(s) \in Nat /\ Len(t) \in Nat /\ DOMAIN s = 1..Len(s) /\ DOMAIN t = 1..Len(t)
        /\ DOMAIN (s \o t) = 1..(Len(s) + Len(t))
        /\ \A i \in 1..Len(s) : (s \o t)[i] = s[i]
        /\ \A i \in 1..Len(t) : (s \o t)[Len(s) + i] = t[i]
    OBVIOUS
  <2>2. \A i \in 1..(Len(s) + Len(t)) :
           i \in 1..Len(s) \/ (i - Len(s) \in 1..Len(t) /\ (s \o t)[i] = t[i - Len(s)])
    BY <2>1
  <2>3. 1..Len(s) \subseteq 1..(Len(s) + Len(t)) /\ \A i \in 1..Len(t) : Len(s) + i \in 1..(Len(s) + Len(t))
    BY <2>1
  <2>4. Range(s \o t) \subseteq Range(s) \cup Range(t)
    BY <2>1, <2>2 DEF Range
  <2>5. Range(s) \cup Range(t) \subseteq Range(s \o t)
    BY <2>1, <2>3 DEF Range
  <2> QED BY <2>4, <2>5
<1> QED BY <1>1, <1>2, <1>3, <1>4

\* Popping the front, and appending what is not there, keeps a sequence free
\* of repetitions.
LEMMA InjectivePieces ==
    ASSUME NEW s \in Seq(Nat), Injective(s)
    PROVE  /\ s # <<>> => Injective(Tail(s)) /\ Head(s) \notin Range(Tail(s))
           /\ \A n \in Nat : n \notin Range(s) => Injective(Append(s, n))
           /\ \A t \in Seq(Nat) : Injective(t) /\ Range(s) \cap Range(t) = {} => Injective(s \o t)
<1>0. Len(s) \in Nat /\ DOMAIN s = 1..Len(s)
  OBVIOUS
<1>1. ASSUME s # <<>> PROVE Injective(Tail(s)) /\ Head(s) \notin Range(Tail(s))
  <2>1. /\ Len(Tail(s)) = Len(s) - 1 /\ DOMAIN Tail(s) = 1..(Len(s) - 1) /\ Head(s) = s[1]
        /\ \A i \in 1..(Len(s) - 1) : Tail(s)[i] = s[i + 1] /\ i + 1 \in 1..Len(s) /\ i + 1 # 1
        /\ 1 \in 1..Len(s)
    BY <1>1
  <2>2. ASSUME NEW i \in 1..Len(Tail(s)), NEW j \in 1..Len(Tail(s)), Tail(s)[i] = Tail(s)[j] PROVE i = j
    <3>1. i + 1 = j + 1
      BY <2>1, <2>2 DEF Injective
    <3> QED BY <3>1, <2>1, <1>0
  <2>3. \A i \in 1..(Len(s) - 1) : Tail(s)[i] # s[1]
    BY <2>1 DEF Injective
  <2> QED BY <2>1, <2>2, <2>3 DEF Injective, Range
<1>2. ASSUME NEW n \in Nat, n \notin Range(s) PROVE Injective(Append(s, n))
  <2>1. /\ Len(Append(s, n)) = Len(s) + 1 /\ Append(s, n)[Len(s) + 1] = n
        /\ \A i \in 1..Len(s) : Append(s, n)[i] = s[i]
    OBVIOUS
  <2>2. \A i \in 1..(Len(s) + 1) : i \in 1..Len(s) \/ i = Len(s) + 1
    BY <1>0
  <2>3. \A i \in 1..Len(s) : s[i] # n
    BY <1>0, <1>2 DEF Range
  <2> QED BY <2>1, <2>2, <2>3 DEF Injective
<1>3. ASSUME NEW t \in Seq(Nat), Injective(t), Range(s) \cap Range(t) = {} PROVE Injective(s \o t)
  <2>1. /\ Len(t) \in Nat /\ DOMAIN t = 1..Len(t) /\ Len(s \o t) = Len(s) + Len(t)
        /\ \A i \in 1..Len(s) : (s \o t)[i] = s[i]
        /\ \A i \in 1..(Len(s) + Len(t)) : i \in 1..Len(s) \/ (i - Len(s) \in 1..Len(t) /\ (s \o t)[i] = t[i - Len(s)])
    BY <1>0
  <2>2. \A i \in 1..Len(s), j \in 1..Len(t) : s[i] # t[j]
    BY <1>0, <1>3, <2>1 DEF Range
  <2>3. ASSUME NEW i \in 1..Len(s \o t), NEW j \in 1..Len(s \o t), (s \o t)[i] = (s \o t)[j] PROVE i = j
    <3>1. CASE i \in 1..Len(s) /\ j \in 1..Len(s)
      BY <2>1, <2>3, <3>1 DEF Injective
    <3>2. CASE i \notin 1..Len(s) /\ j \notin 1..Len(s)
      <4>1. i - Len(s) = j - Len(s)
        BY <1>3, <2>1, <2>3, <3>2 DEF Injective
      <4> QED BY <1>0, <2>1, <4>1
    <3> QED BY <2>1, <2>2, <2>3, <3>1, <3>2
  <2> QED BY <2>3 DEF Injective
<1> QED BY <1>1, <1>2, <1>3

\* The parents that log() puts into its queue: those not seen before, each
\* once, also when both parents are the same commit.
LEMMA UnseenParents ==
    ASSUME NEW c \in CommitType, NEW seen
    PROVE  /\ Unseen(c, seen) \in Seq(Nat)
           /\ Range(Unseen(c, seen)) = Parents(c) \ seen
           /\ Injective(Unseen(c, seen))
<1> DEFINE p == c.parent
           q == c.second_parent
           first  == IF p \in seen \cup {NoId} THEN <<>> ELSE <<p>>
           second == IF q \in seen \cup {NoId, p} THEN <<>> ELSE <<q>>
<1>1. p \in Nat /\ q \in Nat
  BY DEF CommitType
<1>2. Unseen(c, seen) = first \o second
  BY DEF Unseen
<1>3. Parents(c) = {p, q} \ {NoId}
  BY DEF Parents
<1> HIDE DEF p, q
<1>4. /\ first \in Seq(Nat) /\ Injective(first)
      /\ Range(first) = IF p \in seen \cup {NoId} THEN {} ELSE {p}
  BY <1>1 DEF Range, Injective
<1>5. /\ second \in Seq(Nat) /\ Injective(second)
      /\ Range(second) = IF q \in seen \cup {NoId, p} THEN {} ELSE {q}
  BY <1>1 DEF Range, Injective
<1> HIDE DEF first, second
<1>6. first \o second \in Seq(Nat) /\ Range(first \o second) = Range(first) \cup Range(second)
  BY <1>4, <1>5, RangeOfPieces
<1>7. Injective(first \o second)
  BY <1>4, <1>5, InjectivePieces
<1> QED BY <1>2, <1>3, <1>4, <1>5, <1>6, <1>7

\* The history of a commit holds it and the parents of its members, and is
\* part of every set that does.
LEMMA AncestorsAreLeast ==
    ASSUME HistoryIsADag, NEW h \in DOMAIN commits
    PROVE  /\ h \in Ancestors(h)
           /\ \A n \in Ancestors(h) : n \in DOMAIN commits /\ Parents(commits[n]) \subseteq Ancestors(h)
           /\ \A S \in Lineage(h) : Ancestors(h) \subseteq S
<1>1. h \in Ancestors(h) /\ \A S \in Lineage(h) : Ancestors(h) \subseteq S
  BY DEF Ancestors, Lineage
<1>2. ASSUME NEW n \in Ancestors(h), NEW m \in Parents(commits[n]) PROVE m \in Ancestors(h)
  <2>1. n \in DOMAIN commits /\ m \in DOMAIN commits
    BY DEF Ancestors, HistoryIsADag
  <2>2. \A S \in Lineage(h) : m \in S
    BY DEF Ancestors, Lineage
  <2> QED BY <2>1, <2>2 DEF Ancestors
<1> QED BY <1>1, <1>2 DEF Ancestors

\* The steps of log() leave the head and its history alone.
LEMMA HistoryFixed ==
    ASSUME UNCHANGED vars
    PROVE  /\ head' = head /\ Ancestors(head)' = Ancestors(head)
           /\ \A n : Parents(commits[n])' = Parents(commits[n])
<1>1. UNCHANGED <<commits, branches, current>>
  BY DEF vars
<1> QED BY <1>1 DEF head, Ancestors, Lineage, Parents

----------------------------------------------------------------------------
(***************************************************************************)
(* log() changes nothing in the store, so what is proved of the store      *)
(* holds when log() is called between its operations.                      *)
(***************************************************************************)
THEOREM LogKeepsStoreSpec == LogSpec => Spec
<1>1. [LogNext]_logVars => [Next]_vars
  BY DEF LogNext, logVars, vars, Log, PopFront, DropLog
<1> QED BY <1>1, PTL DEF LogSpec, LogInit, Spec

\* What a step of the loop of log() does, when every id in the queue is known.
LEMMA PopFrontStep ==
    ASSUME TypeOK, WalkType, PopFront
    PROVE  LET id == Head(walk.queue)
           IN  /\ WalkType' /\ UNCHANGED vars
               /\ walk.queue # <<>> /\ walk'.called = walk.called
               /\ id \in DOMAIN commits =>
                    /\ walk'.out = Append(walk.out, id)
                    /\ \E new \in Seq(Nat) :
                          /\ walk'.queue = Tail(walk.queue) \o new
                          /\ walk'.seen = walk.seen \cup Range(new)
                          /\ Range(new) = Parents(commits[id]) \ walk.seen
                          /\ Injective(new)
<1> DEFINE id  == Head(walk.queue)
           new == IF id \in DOMAIN commits THEN Unseen(commits[id], walk.seen) ELSE <<>>
<1>1. /\ walk.queue \in Seq(Nat) /\ walk.out \in Seq(Nat) /\ walk.seen \in SUBSET Nat
      /\ walk.called \in BOOLEAN
      /\ walk = [called |-> walk.called, queue |-> walk.queue, seen |-> walk.seen, out |-> walk.out]
  BY DEF WalkType
<1>2. walk.queue # <<>> /\ UNCHANGED vars
  BY DEF PopFront
<1>3. id \in Nat /\ Tail(walk.queue) \in Seq(Nat)
  BY <1>1, <1>2
<1>4. id \in DOMAIN commits => commits[id] \in CommitType
  <2>1. commits \in Seq(CommitType)
    BY DEF TypeOK, CommitType
  <2> QED BY <2>1
<1>5. new \in Seq(Nat)
  BY <1>4, UnseenParents
<1>6. Range(new) \subseteq Nat
  BY <1>5, RangeOfPieces
<1>7. walk' = [walk EXCEPT !.queue = Tail(@) \o new, !.seen = @ \cup Range(new),
                           !.out = IF id \in DOMAIN commits THEN Append(@, id) ELSE @]
  BY DEF PopFront
<1>8. id \in DOMAIN commits => Range(new) = Parents(commits[id]) \ walk.seen /\ Injective(new)
  BY <1>4, UnseenParents
<1> HIDE DEF new, id
<1>9. /\ walk'.called = walk.called /\ walk'.queue = Tail(walk.queue) \o new
      /\ walk'.seen = walk.seen \cup Range(new)
      /\ walk'.out = IF id \in DOMAIN commits THEN Append(walk.out, id) ELSE walk.out
      /\ walk' = [called |-> walk'.called, queue |-> walk'.queue, seen |-> walk'.seen, out |-> walk'.out]
  BY <1>1, <1>7
<1>10. walk'.queue \in Seq(Nat) /\ walk'.out \in Seq(Nat) /\ walk'.seen \in SUBSET Nat
  BY <1>1, <1>3, <1>5, <1>6, <1>9
<1>11. WalkType'
  BY <1>1, <1>9, <1>10 DEF WalkType
<1> QED BY <1>2, <1>5, <1>8, <1>9, <1>11 DEF id

\* Type correctness of the locals of log().
THEOREM LogTypeCorrect == LogSpec => []WalkType
<1>1. walk = NoWalk => WalkType
  BY DEF NoWalk, WalkType
<1>2. TypeOK /\ WalkType /\ [LogNext]_logVars => WalkType'
  <2> SUFFICES ASSUME TypeOK, WalkType, [LogNext]_logVars PROVE WalkType'
    OBVIOUS
  <2>1. CASE Log
    <3>1. branches[current] \in Nat
      BY DEF TypeOK
    <3>2. <<branches[current]>> \in Seq(Nat) /\ <<>> \in Seq(Nat) /\ {branches[current]} \in SUBSET Nat
      BY <3>1
    <3>3. \A q \in Seq(Nat), t \in SUBSET Nat, o \in Seq(Nat) :
             walk' = [called |-> TRUE, queue |-> q, seen |-> t, out |-> o] => WalkType'
      BY DEF WalkType
    <3>4. \/ walk' = [called |-> TRUE, queue |-> <<>>, seen |-> {}, out |-> <<>>]
          \/ walk' = [called |-> TRUE, queue |-> <<branches[current]>>, seen |-> {branches[current]},
                      out |-> <<>>]
      BY <2>1 DEF Log, NoWalk
    <3>5. CASE walk' = [called |-> TRUE, queue |-> <<>>, seen |-> {}, out |-> <<>>]
      BY <3>2, <3>3, <3>5, Zenon
    <3>6. CASE walk' = [called |-> TRUE, queue |-> <<branches[current]>>, seen |-> {branches[current]},
                        out |-> <<>>]
      BY <3>2, <3>3, <3>6, Zenon
    <3> QED BY <3>4, <3>5, <3>6
  <2>2. CASE PopFront
    BY <2>2, PopFrontStep
  <2>3. CASE DropLog
    BY <2>3 DEF DropLog, NoWalk, WalkType
  <2>4. CASE UNCHANGED walk
    BY <2>4 DEF WalkType
  <2> QED BY <2>1, <2>2, <2>3, <2>4 DEF LogNext, logVars
<1> QED BY <1>1, <1>2, LogKeepsStoreSpec, VersionTypeCorrect, PTL DEF LogSpec, LogInit

\* The walk starts with the head alone.
LEMMA WalkBegins ==
    ASSUME TypeOK, HistoryIsADag, Log PROVE WalkInv'
<1>1. head' = head /\ Ancestors(head)' = Ancestors(head)
  BY HistoryFixed DEF Log
<1>2. CASE head = NoId
  BY <1>1, <1>2 DEF Log, NoWalk, WalkInv, head
<1>3. CASE head # NoId
  <2>1. walk' = [called |-> TRUE, queue |-> <<head>>, seen |-> {head}, out |-> <<>>]
    BY <1>3 DEF Log, head
  <2>2. walk'.called /\ walk'.queue = <<head>> /\ walk'.seen = {head} /\ walk'.out = <<>>
    BY <2>1
  <2>3. head \in DOMAIN commits
    BY <1>3 DEF HistoryIsADag, TypeOK, head
  <2>4. SeenOnce'
    <3>1. Range(<<head>>) = {head} /\ Range(<<>>) = {} /\ Injective(<<head>>) /\ Injective(<<>>)
      BY DEF Range, Injective
    <3> QED BY <2>2, <3>1 DEF SeenOnce
  <2>5. SeenIsHistory'
    <3>1. head \in Ancestors(head)
      BY <2>3, AncestorsAreLeast
    <3>2. Range(<<>>) = {}
      BY DEF Range
    <3> QED BY <1>1, <2>2, <3>1, <3>2 DEF SeenIsHistory
  <2>6. ChildrenFirst'
    <3>1. Len(<<head>>) = 1 /\ 2..Len(<<>>) = {}
      OBVIOUS
    <3> QED BY <2>2, <3>1 DEF ChildrenFirst
  <2> QED BY <1>1, <1>3, <2>2, <2>4, <2>5, <2>6 DEF WalkInv
<1> QED BY <1>2, <1>3

\* A commit is listed, and its unseen parents take their place in the queue.
LEMMA WalkGoesOn ==
    ASSUME TypeOK, HistoryIsADag, WalkType, WalkInv, PopFront PROVE WalkInv'
<1> DEFINE id == Head(walk.queue)
           rest == Tail(walk.queue)
           n == Len(walk.out)
<1>1. /\ walk.queue \in Seq(Nat) /\ walk.queue # <<>> /\ walk.out \in Seq(Nat)
      /\ walk.seen \subseteq Nat /\ walk.called \in BOOLEAN
  BY PopFrontStep DEF WalkType
<1>2. walk.called /\ head # NoId /\ SeenOnce /\ SeenIsHistory /\ ChildrenFirst
  BY <1>1 DEF WalkInv
<1>3. id \in Nat /\ rest \in Seq(Nat) /\ n \in Nat
  BY <1>1
<1>4. Range(walk.queue) = {id} \cup Range(rest)
  BY <1>1, RangeOfPieces
<1>5. head \in DOMAIN commits
  BY <1>2 DEF HistoryIsADag, TypeOK, head
<1>6. id \in walk.seen /\ id \in DOMAIN commits /\ Parents(commits[id]) \subseteq Ancestors(head)
  BY <1>2, <1>4, <1>5, AncestorsAreLeast DEF SeenOnce, SeenIsHistory
<1>7. PICK new \in Seq(Nat) :
         /\ walk'.queue = rest \o new
         /\ walk'.seen = walk.seen \cup Range(new)
         /\ Range(new) = Parents(commits[id]) \ walk.seen
         /\ Injective(new)
  BY <1>6, PopFrontStep
<1>8. walk'.out = Append(walk.out, id) /\ walk'.called /\ UNCHANGED vars
  BY <1>2, <1>6, PopFrontStep
<1>9. /\ head' = head /\ Ancestors(head)' = Ancestors(head)
      /\ \A m : Parents(commits[m])' = Parents(commits[m])
  BY <1>8, HistoryFixed
<1>10. Injective(rest) /\ id \notin Range(rest)
  BY <1>1, <1>2, InjectivePieces DEF SeenOnce
<1>11. Range(walk'.out) = Range(walk.out) \cup {id} /\ Range(walk'.queue) = Range(rest) \cup Range(new)
  <2>1. Range(Append(walk.out, id)) = Range(walk.out) \cup {id}
    BY <1>1, <1>3, RangeOfPieces
  <2>2. Range(rest \o new) = Range(rest) \cup Range(new)
    BY <1>3, <1>7, RangeOfPieces
  <2> QED BY <1>7, <1>8, <2>1, <2>2
<1> HIDE DEF id, rest, n
<1>12. SeenOnce'
  <2>1. walk'.seen = Range(walk'.queue) \cup Range(walk'.out)
    BY <1>2, <1>4, <1>7, <1>11 DEF SeenOnce
  <2>2. Range(walk'.queue) \cap Range(walk'.out) = {}
    BY <1>2, <1>4, <1>6, <1>7, <1>10, <1>11 DEF SeenOnce
  <2>3. Range(rest) \cap Range(new) = {} /\ id \notin Range(walk.out)
    BY <1>2, <1>4, <1>7 DEF SeenOnce
  <2>4. Injective(rest \o new)
    BY <1>3, <1>7, <1>10, <2>3, InjectivePieces
  <2>5. Injective(Append(walk.out, id))
    BY <1>1, <1>2, <1>3, <2>3, InjectivePieces DEF SeenOnce
  <2> QED BY <1>7, <1>8, <2>1, <2>2, <2>4, <2>5 DEF SeenOnce
<1>13. SeenIsHistory'
  BY <1>2, <1>6, <1>7, <1>9, <1>11 DEF SeenIsHistory
<1>14. ChildrenFirst'
  <2>1. /\ Len(walk'.out) = n + 1 /\ walk'.out[n + 1] = id /\ walk'.out # <<>>
        /\ \A j \in 1..n : walk'.out[j] = walk.out[j]
    <3>1. \A s \in Seq(Nat), m \in Nat :
            /\ Len(Append(s, m)) = Len(s) + 1 /\ Append(s, m)[Len(s) + 1] = m
            /\ \A j \in 1..Len(s) : Append(s, m)[j] = s[j]
      OBVIOUS
    <3>2. Len(<<>>) = 0
      OBVIOUS
    <3>3. /\ Len(walk'.out) = n + 1 /\ walk'.out[n + 1] = id
          /\ \A j \in 1..n : walk'.out[j] = walk.out[j]
      BY <1>1, <1>3, <1>8, <3>1 DEF n
    <3> QED BY <1>3, <3>2, <3>3
  <2>2. ASSUME NEW m, NEW k \in 0..n, NEW l \in Nat, k <= l, ListedChild(m, k) PROVE ListedChild(m, l)'
    <3>1. PICK j \in 1..k : m \in Parents(commits[walk.out[j]])
      BY <2>2 DEF ListedChild
    <3>2. j \in 1..l /\ j \in 1..n
      BY <1>3, <2>2, <3>1
    <3>3. m \in Parents(commits[walk.out[j]])'
      BY <1>9, <2>1, <3>1, <3>2
    <3> QED BY <3>2, <3>3 DEF ListedChild
  <2>3. ASSUME NEW k \in 2..Len(walk'.out) PROVE ListedChild(walk.out[k], k - 1)'
    <3>1. CASE k = n + 1
      <4>1. walk.out # <<>> /\ n \in 0..n /\ n <= k - 1 /\ k - 1 \in Nat
        BY <1>1, <1>3, <3>1 DEF n
      <4>2. ListedChild(id, n)
        BY <1>2, <1>4, <4>1 DEF ChildrenFirst, n
      <4> QED BY <2>1, <2>2, <3>1, <4>1, <4>2
    <3>2. CASE k # n + 1
      <4>1. k \in 2..n /\ k \in 1..n /\ k - 1 \in 0..n /\ k - 1 \in Nat /\ k - 1 <= k - 1
        BY <1>3, <2>1, <3>2
      <4>2. ListedChild(walk.out[k], k - 1)
        BY <1>2, <4>1 DEF ChildrenFirst, n
      <4> QED BY <2>1, <2>2, <4>1, <4>2
    <3> QED BY <3>1, <3>2
  <2>4. ASSUME NEW m \in Range(walk'.queue) PROVE ListedChild(m, Len(walk.out))'
    <3>1. CASE m \in Range(rest)
      <4>1. walk.out # <<>>
        <5>1. ASSUME Len(walk.queue) = 1 PROVE Range(rest) = {}
          BY <1>1, <5>1 DEF rest, Range
        <5> QED BY <1>2, <3>1, <5>1 DEF ChildrenFirst
      <4>2. ListedChild(m, n)
        BY <1>2, <1>4, <3>1, <4>1 DEF ChildrenFirst, n
      <4>3. n \in 0..n /\ n <= n + 1 /\ n + 1 \in Nat
        BY <1>3
      <4> QED BY <2>1, <2>2, <4>2, <4>3
    <3>2. CASE m \in Range(new)
      <4>1. PICK j \in 1..Len(walk'.out) : walk'.out[j] = id
        <5>1. n + 1 \in 1..(n + 1)
          BY <1>3
        <5> QED BY <2>1, <5>1
      <4>2. m \in Parents(commits[walk.out[j]])'
        BY <1>7, <1>9, <3>2, <4>1
      <4> QED BY <4>1, <4>2 DEF ListedChild
    <3> QED BY <1>11, <3>1, <3>2
  <2> QED BY <2>1, <2>3, <2>4 DEF ChildrenFirst
<1> QED BY <1>2, <1>8, <1>9, <1>12, <1>13, <1>14 DEF WalkInv

(***************************************************************************)
(* log() lists exactly the ancestors of the current head, each once, and   *)
(* none before a commit that has it as a parent: on any history that       *)
(* commits, branches and merges build, with either parent reached first.   *)
(***************************************************************************)
THEOREM LogListsAncestors == LogSpec => []LogListsAncestorsOnce
<1>1. walk = NoWalk => WalkInv
  BY DEF NoWalk, WalkInv
<1>2. TypeOK /\ HistoryIsADag /\ WalkType /\ WalkInv /\ [LogNext]_logVars => WalkInv'
  <2> SUFFICES ASSUME TypeOK, HistoryIsADag, WalkType, WalkInv, [LogNext]_logVars PROVE WalkInv'
    OBVIOUS
  <2>1. CASE Log
    BY <2>1, WalkBegins
  <2>2. CASE PopFront
    BY <2>2, WalkGoesOn
  <2>3. CASE DropLog
    BY <2>3 DEF DropLog, NoWalk, WalkInv
  <2>4. CASE ~walk.called /\ UNCHANGED walk
    BY <2>4 DEF WalkInv
  <2>5. CASE UNCHANGED logVars
    <3>1. UNCHANGED <<commits, branches, current, walk>>
      BY <2>5 DEF logVars, vars
    <3> QED BY <3>1 DEF WalkInv, head, SeenOnce, SeenIsHistory, ChildrenFirst, ListedChild, Ancestors,
                        Lineage, Parents
  <2> QED BY <2>1, <2>2, <2>3, <2>4, <2>5 DEF LogNext
<1>3. TypeOK /\ HistoryIsADag /\ WalkType /\ WalkInv => LogListsAncestorsOnce
  <2> SUFFICES ASSUME TypeOK, HistoryIsADag, WalkType, WalkInv, Logged
               PROVE  /\ Range(walk.out) = IF head = NoId THEN {} ELSE Ancestors(head)
                      /\ \A i, j \in 1..Len(walk.out) : walk.out[i] = walk.out[j] => i = j
                      /\ \A k \in 2..Len(walk.out) : \E j \in 1..(k - 1) :
                             walk.out[k] \in Parents(commits[walk.out[j]])
    BY DEF LogListsAncestorsOnce, head
  <2>0. walk.called /\ walk.queue = <<>> /\ Range(<<>>) = {}
    BY DEF Logged, Range
  <2>1. CASE head = NoId
    <3>1. walk.out = <<>> /\ Len(<<>>) = 0
      BY <2>0, <2>1 DEF WalkInv
    <3> QED BY <2>0, <2>1, <3>1
  <2>2. CASE head # NoId
    <3>1. SeenOnce /\ SeenIsHistory /\ ChildrenFirst
      BY <2>0, <2>2 DEF WalkInv
    <3>2. Range(walk.out) = walk.seen
      BY <2>0, <3>1 DEF SeenOnce
    <3>3. head \in DOMAIN commits
      BY <2>2 DEF HistoryIsADag, TypeOK, head
    <3>4. Ancestors(head) \subseteq DOMAIN commits
      BY DEF Ancestors
    <3>5. walk.seen \in Lineage(head)
      BY <3>1, <3>2, <3>4 DEF Lineage, SeenIsHistory
    <3>6. walk.seen = Ancestors(head)
      BY <3>1, <3>3, <3>5, AncestorsAreLeast DEF SeenIsHistory
    <3> QED BY <2>2, <3>1, <3>2, <3>6 DEF SeenOnce, Injective, ChildrenFirst, ListedChild
  <2> QED BY <2>1, <2>2
<1> QED BY <1>1, <1>2, <1>3, LogKeepsStoreSpec, VersionTypeCorrect, HistoryAlwaysADag, LogTypeCorrect,
           PTL DEF LogSpec, LogInit
=============================================================================
