------------------------ MODULE ProfileStoreRegister ------------------------
(***************************************************************************)
(* The file protocol of ProfileStore implements the register of            *)
(* ProfileRegister.  The register's value is the newest intact document    *)
(* while no deletion barrier stands; a mutation has taken effect once its  *)
(* exclusive link succeeded.                                               *)
(***************************************************************************)
EXTENDS ProfileStore

Mutating(p) == call[p].op \in {"write", "migrate"}

\* The candidate of p was activated.  After the link the result stays pending
\* until it is commit-outcome-unknown or a success; only a migration to the
\* last generation fails later still.
Activated(p) ==
    \/ call[p].pc \in {"sync", "verifyFinal", "cleanup", "syncCleanup"}
    \/ At(p, "unstage") /\ call[p].result \in {"pending", "commit-outcome-unknown"}
    \/ /\ At(p, "release") /\ call[p].nonce # None
       /\ call[p].result \in {"committed", "migrated", "commit-outcome-unknown", "limit-exceeded"}

ClientOf(p) ==
    IF Mutating(p) THEN IF Activated(p) THEN "changed" ELSE "asked"
    ELSE IF call[p].result \in {"committed", "migrated"} THEN "confirmed"
    ELSE IF call[p].result \in {"commit-outcome-unknown", "limit-exceeded", "crashed"} THEN "unknown"
    ELSE "nothing"

Register == INSTANCE ProfileRegister WITH
    value <- IF Barred THEN None ELSE Newest(Intact),
    closed <- Barred,
    client <- [p \in Procs |-> ClientOf(p)],
    expects <- [p \in Procs |-> IF call[p].op = "migrate" THEN -2
                                ELSE IF call[p].op = "write" THEN call[p].expected ELSE None]

\* Every step of the store is a step of the register or changes nothing of it:
\* commits are linearizable compare-and-sets, every failure other than
\* commit-outcome-unknown (and the limit) means that nothing was activated.
RegisterSpec == Register!Spec
=============================================================================
