------------------------ MODULE ProfileStoreDurable ------------------------
(***************************************************************************)
(* ProfileStore on a file system that loses power.  File contents are      *)
(* synced before a name is created; names become durable when the          *)
(* directory is synced.  At a power failure every name that changed since  *)
(* the last sync survives in its old or its new state, independently.      *)
(***************************************************************************)
EXTENDS ProfileStore

VARIABLES
    disk,           \* the directory as of its last sync
    acknowledged,   \* newest generation reported as committed or migrated
    deleted         \* a deletion was reported complete
durableVars == <<vars, disk, acknowledged, deleted>>

MutantSyncsWithoutActivation(p) ==
    /\ call[p].pc \in {"syncBarrier", "syncRemoved"}
    /\ call'[p].pc # call[p].pc /\ UNCHANGED spent
\* The directory operation p is executing is a sync, and it succeeds.
Syncs(p) ==
    /\ call[p].pc \in {"sync", "syncCleanup", "syncBarrier", "syncRemoved"}
    /\ call'[p].pc # call[p].pc /\ UNCHANGED spent

\* What a step reports to a caller.
Reports(p, results) == At(p, "release") /\ call'[p].pc = "idle" /\ call'[p].result \in results

Volatile ==
    /\ Next
    /\ disk' = IF \E p \in Procs : Syncs(p) THEN dir ELSE disk
    /\ acknowledged' = Newest({acknowledged} \cup
           {call'[p].target : p \in {q \in Procs : Reports(q, {"committed", "migrated"})}})
    /\ deleted' = (deleted \/ \E p \in Procs : Reports(p, {"deleted"}))

\* All names in old and new state, and every choice between them.
Survivors ==
    [finals : {[g \in Generations |-> IF g \in S THEN dir.finals[g] ELSE disk.finals[g]]
               : S \in SUBSET Generations},
     temps : {T \cup (dir.temps \cap disk.temps) : T \in SUBSET (dir.temps \cup disk.temps)},
     marks : {M \cup (dir.marks \cap disk.marks) : M \in SUBSET (dir.marks \cup disk.marks)}]

PowerFailure ==
    /\ Incident("crash")
    /\ dir' \in Survivors /\ disk' = dir'
    /\ call' = [p \in Procs |-> IF At(p, "idle") THEN call[p]
                                ELSE Outcome("idle", "crashed", None, FALSE)]
    /\ UNCHANGED <<acknowledged, deleted>>

DurableInit == Init /\ disk = dir /\ acknowledged = None /\ deleted = FALSE
DurableSpec == DurableInit /\ [][Volatile \/ PowerFailure]_durableVars

\* A commit that was reported stays loadable, or is superseded by a newer intact
\* document, across every power failure; only a deletion whose barrier survived
\* takes it away.
AcknowledgedSurvives ==
    acknowledged # None => Barred \/ \E g \in Intact : g >= acknowledged

\* A deletion that was reported complete survives every power failure.
DeletionSurvives == deleted => Barred /\ Present = {} /\ dir.temps = {}

\* What was reported to a caller survives every power failure.
ReportsSurvive == AcknowledgedSurvives /\ DeletionSurvives
=============================================================================
