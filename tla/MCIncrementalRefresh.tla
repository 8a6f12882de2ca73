------------------------ MODULE MCIncrementalRefresh ------------------------
(* A small instance of IncrementalRefresh for TLC. *)
EXTENDS IncrementalRefresh

\* A later version of the files takes more room.
MCSize == [v \in 0..MaxChanges |-> v + 1]
=============================================================================
