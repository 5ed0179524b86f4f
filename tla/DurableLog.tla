----------------------------- MODULE DurableLog -----------------------------
(***************************************************************************)
(* What a persistent ontology store promises about commits, with no        *)
(* version counters, snapshots or save operations: a commit is first       *)
(* applied (readers see it), becomes durable at some later moment, and is  *)
(* acknowledged to its caller only once it is durable.  A restart forgets  *)
(* what was applied and not yet durable, and nothing else.                 *)
(***************************************************************************)
CONSTANT Activities      \* provenance ids of the commits

VARIABLES applied,       \* commits visible to readers (or durable, when down)
          durable,       \* commits a restart would find
          acked          \* commits whose caller was told "Ok"

vars == <<applied, durable, acked>>

TypeOK ==
    /\ applied \subseteq Activities
    /\ durable \subseteq Activities
    /\ acked \subseteq Activities

Init ==
    /\ applied = {}
    /\ durable = {}
    /\ acked = {}

\* A commit changes what readers see.
Apply(a) ==
    /\ a \notin applied
    /\ applied' = applied \cup {a}
    /\ UNCHANGED <<durable, acked>>

\* Some of the applied commits become durable; none stops being durable.
Flush ==
    /\ durable \subseteq durable'
    /\ durable' \subseteq applied
    /\ UNCHANGED <<applied, acked>>

\* Only a durable commit is acknowledged.
Ack(a) ==
    /\ a \in durable
    /\ acked' = acked \cup {a}
    /\ UNCHANGED <<applied, durable>>

\* A restart falls back to the durable commits.
Restart ==
    /\ applied' = durable
    /\ UNCHANGED <<durable, acked>>

Next ==
    \/ \E a \in Activities : Apply(a) \/ Ack(a)
    \/ Flush
    \/ Restart

Spec == Init /\ [][Next]_vars

(***************************************************************************)
(* An acknowledged commit is durable, and a durable commit was applied.    *)
(***************************************************************************)
NoAckedLoss == acked \subseteq durable /\ durable \subseteq applied
=============================================================================
