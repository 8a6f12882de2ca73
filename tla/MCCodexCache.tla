---------------------------- MODULE MCCodexCache ----------------------------
(* Small instances of CodexCache for TLC. *)
EXTENDS CodexCache, TLC

Bounds(fault, crash) == [i \in Incidents |-> IF i = "fault" THEN fault ELSE crash]
MCFaultAndCrash == Bounds(1, 1)
Symmetry == Permutations(Procs) \cup Permutations(Sessions)
=============================================================================
