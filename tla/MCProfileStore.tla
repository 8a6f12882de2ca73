--------------------------- MODULE MCProfileStore ---------------------------
(* Small instances of ProfileStore for TLC. *)
EXTENDS ProfileStore, TLC

Empty == [g \in Generations |-> "none"]
Only(kind) == [Empty EXCEPT ![0] = kind]
MCAnyStore == {Empty, Only("legacy"), Only("unsupported"), Only("foreign"),
               [Empty EXCEPT ![MaxGeneration] = "legacy"]}
MCLegacy == {Only("legacy")}
MCCurrent == {Only("current")}
MCLegacyOrEmpty == {Empty, Only("legacy")}

\* Requests name the next generation after the one they observed; one of them
\* skips a generation that a corrupt document may occupy.
MCSuccessive == {<<None, 0>>} \cup {<<g, g + 1>> : g \in 0..(MaxGeneration - 1)}
MCSkipping == MCSuccessive \cup {<<0, 2>>}

Bounds(fault, crash, harm) ==
    [i \in Incidents |-> CASE i = "fault" -> fault [] i = "crash" -> crash [] OTHER -> harm]
MCFaultAndCrash == Bounds(1, 1, 0)
MCThreeFaults == Bounds(3, 0, 0)
MCOneFault == Bounds(1, 0, 0)
MCOneDamage == Bounds(0, 0, 1)
Symmetry == Permutations(Procs)
=============================================================================
