------------------------- MODULE MCCommunityRuntime -------------------------
(* Small instances of CommunityRuntime for TLC. *)
EXTENDS CommunityRuntime

MCRuntimes == {"owner", "other"}
MCDuties == [owner |-> {"refresh", "correct", "import", "view", "admit"},
             other |-> {"refresh", "delete", "provider"}]

\* Exports of other stores: an observed capability that the owner corrected, and one
\* that the owner declared; and one whose sources show nobody's attributable work.
MCObserved(version) ==
    Derived(Empty, [content |-> [c \in Capabilities |-> version], observed |-> 0,
                    derivedAt |-> 0, stale |-> FALSE])
MCArtifacts ==
    {Declared(Corrected(MCObserved(0), t, 0, 1), c, 0, 2) :
        t \in MCObserved(0).claims, c \in Capabilities}
    \cup {MCObserved(version) : version \in Insufficient}
=============================================================================
