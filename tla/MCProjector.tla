----------------------------- MODULE MCProjector -----------------------------
(* Projectors for TLC: one that reads its source twice over until it is    *)
(* shut down, one that is told of events until it times out, and one that  *)
(* only polls.                                                             *)
EXTENDS Projector

Polled == [modes |-> {"replay", "polling"}, entry |-> "run_until_shutdown",
           projection |-> "snapshot_diff", paths |-> TRUE]
Told   == [modes |-> {"push_hook", "event_stream"}, entry |-> "run_with_timeout",
           projection |-> "hierarchical", paths |-> FALSE]
Single == [modes |-> {"polling"}, entry |-> "run_until_shutdown",
           projection |-> "hierarchical", paths |-> FALSE]

MCSetups   == {Polled, Told}
PollSetups == {Single}
=============================================================================
