----------------------------- MODULE MCIngestion -----------------------------
(* Projectors for TLC: every projection, minting, conflict policy and      *)
(* source, in combinations that differ in what can go wrong.               *)
EXTENDS Ingestion

Built(from, projection, minting, conflict, fixed) ==
    [source |-> from, projection |-> projection, minting |-> minting, conflict |-> conflict, fixed |-> fixed]

MCSetups ==
    {Built(s, "snapshot_diff", "content_addressed", "last_write_wins", None) : s \in {"memory", "snapshot"}}
    \cup {Built("memory", "hierarchical", "path_based", "skip_existing", None),
          Built("memory", "snapshot_diff", "path_based", "skip_existing", None),
          Built("memory", "hierarchical", "content_addressed", "merge", Some(ActorSchema)),
          Built("snapshot", "hierarchical", "content_addressed", "last_write_wins", Some(ActorSchema)),
          Built("snapshot", "event_stream", "content_addressed", "merge", None),
          Built("memory", "event_stream", "uuid", "last_write_wins", Some(EmptySchema)),
          Built("snapshot", "hierarchical", "uuid", "last_write_wins", None),
          Built("memory", "flat", "path_based", "merge", None), Built("memory", "flat", "uuid", "skip_existing", None)}

Path(segments) == [segments |-> segments, attributes |-> EmptyMap]

MCEvents == ("e1" :> [actor |-> "w", path |-> Some(Path(<<"workflow", "w">>)), kind |-> "created"])
            @@ ("e2" :> [actor |-> "w", path |-> Some(Path(<<"workflow", "w", "run">>)), kind |-> "created"])
            @@ ("e3" :> [actor |-> "a b", path |-> None, kind |-> "completed"])
            @@ ("e4" :> [actor |-> "w", path |-> Some(Path(<<"run">>)), kind |-> "none"])
MCHashOrder == <<"e2", "e3", "e4", "e1">>
MCKnownPaths == {[segments |-> <<"workflow", "w", "run">>, attributes |-> "role" :> "leader"]}
\* Nothing that others write has to survive the last writer.
MCMaxNotes == [last_write_wins |-> 0, merge |-> 1, skip_existing |-> 1]
=============================================================================
