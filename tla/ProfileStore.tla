---------------------------- MODULE ProfileStore ----------------------------
(***************************************************************************)
(* The local profile store of the Community provider                       *)
(* (packages/community-provider/src/local-profile-store.ts).               *)
(*                                                                         *)
(* Several processes of one owner share one private directory.  It holds   *)
(* immutable generation-addressed documents, staging files, a mutation     *)
(* gate (an exclusively created lock file) and a deletion barrier.  A call *)
(* is a sequence of file-port operations; every await of the code that     *)
(* reaches the file system is one step, so calls of different processes    *)
(* interleave at each of them.                                             *)
(*                                                                         *)
(* A document is abstracted to what a scan tells apart: current, legacy    *)
(* (migratable schema), unsupported (another schema), foreign (valid, of   *)
(* another owner), corrupt.  A staging file is its generation and nonce:   *)
(* nobody but the call that wrote it ever uses its bytes.                  *)
(***************************************************************************)
EXTENDS Integers, FiniteSetsExt

CONSTANTS
    Procs,            \* calling processes (each runs one call at a time)
    MaxGeneration,    \* Number.MAX_SAFE_INTEGER in the code
    MaxCandidates,    \* maximumRecognizedCandidates (16 in the code)
    Nonces,           \* staging nonces: randomUUID or supplied by the caller
    InitialStores,    \* documents found at the start
    Requests,         \* pairs <<expectedGeneration, generation>> of write calls
    ReadFaults,       \* may a scan meet a raw read error on a sound file?
    Budget            \* bounds on faults, crashes and damage

None == -1            \* a null generation
Generations == 0..MaxGeneration
DocumentKinds == {"none", "current", "legacy", "unsupported", "foreign", "corrupt"}
Stores == [Generations -> DocumentKinds]
TempNames == Generations \X Nonces
Incidents == {"fault", "crash", "damage"}

ASSUME ConstantsAssumption ==
    /\ MaxGeneration \in Nat
    /\ MaxCandidates \in Nat
    /\ Budget \in [Incidents -> Nat]
    /\ ReadFaults \in BOOLEAN
    /\ InitialStores \subseteq Stores
    /\ Requests \subseteq (Generations \cup {None}) \X Generations
    /\ None \notin Nonces

VARIABLES
    dir,      \* the directory: documents, staging files, marker files
    call,     \* the call each process runs, or the outcome of its last one
    spent     \* incidents so far
vars == <<dir, call, spent>>

Operations == {"idle", "load", "migrate", "write", "delete"}
Reauthorizations == {"authorize", "authorizeHeld", "authorizeScan", "authorizeResult"}
ActivationLabels == {"verifyStaged", "link", "sync", "verifyFinal"}
CommitLabels == {"check", "stage", "unstage", "cleanup", "syncCleanup"} \cup ActivationLabels
DeletionLabels == {"syncBarrier", "remove", "syncRemoved", "relist"}
Labels == {"idle", "acquire", "release", "list", "stat", "read",
           "inventory", "raiseBarrier", "verifyBarrier"}
          \cup Reauthorizations \cup CommitLabels \cup DeletionLabels
Successes == {"active", "recovered", "absent", "migrated", "committed", "deleted"}
Failures == {"conflict", "profile-deleted", "corrupt-store", "migration-required",
             "unsupported-version", "limit-exceeded", "invalid-input", "not-authorized",
             "persistence-failed", "path-unavailable", "commit-outcome-unknown",
             "deletion-incomplete", "crashed"}
Marks == {"unlisted", "listed", "current", "legacy", "unsupported", "invalid"}

Directories == [finals : Stores, temps : SUBSET TempNames, marks : SUBSET {"gate", "barrier"}]
Calls == [pc : Labels, op : Operations,
          expected : Generations \cup {None},   \* options.expectedGeneration
          target : Generations \cup {None},     \* the candidate, or the document returned
          nonce : Nonces \cup {None},
          scan : [Generations -> Marks],        \* what the scan knows of each generation
          temps : SUBSET TempNames,             \* staging files the scan listed
          floor : Generations \cup {None},      \* newest document when a load was called
          result : Successes \cup Failures \cup {"pending"},
          debt : BOOLEAN]                       \* maintenanceRequired

TypeOK ==
    /\ dir \in Directories
    /\ call \in [Procs -> Calls]
    /\ spent \in [Incidents -> Nat]
    /\ \A i \in Incidents : spent[i] <= Budget[i]

-----------------------------------------------------------------------------
(* The directory and the running call *)

Newest(S) == IF S = {} THEN None ELSE Max(S)
Present == {g \in Generations : dir.finals[g] # "none"}
Intact  == {g \in Generations : dir.finals[g] \in {"current", "legacy"}}
Barred  == "barrier" \in dir.marks
Gated   == "gate" \in dir.marks

Marked(p, kinds) == {g \in Generations : call[p].scan[g] \in kinds}
Seen(p)     == {g \in Generations : call[p].scan[g] # "unlisted"}
Unread(p)   == Marked(p, {"listed"})
Valid(p)    == Marked(p, {"current", "legacy"})
Invalid(p)  == Marked(p, {"unsupported", "invalid"})
Selected(p) == Newest(Valid(p))
Cursor(p)   == Min(Unread(p))   \* name order, numeric below generation ten
\* Faulty variants (named Mutant...) are defined before the operator they vary.
MutantNextGenerationOfValid(p) == Newest(Valid(p)) + 1
NextGeneration(p) == Newest(Seen(p)) + 1
Exhausted(p) == NextGeneration(p) > MaxGeneration   \* incrementGeneration throws

Nothing == [g \in Generations |-> "unlisted"]
Listing == [g \in Generations |-> IF dir.finals[g] = "none" THEN "unlisted" ELSE "listed"]
HoldsGate(p) == call[p].pc \notin {"idle", "authorize", "acquire"} /\ call[p].op # "load"

At(p, label) == call[p].pc = label
Goto(p, label) == call' = [call EXCEPT ![p].pc = label]

\* The outcome of a call; its local variables are gone.
Outcome(op, result, generation, debt) ==
    [pc |-> "idle", op |-> op, expected |-> None, target |-> generation, nonce |-> None,
     scan |-> Nothing, temps |-> {}, floor |-> None, result |-> result, debt |-> debt]
Return(p, result, generation, debt) ==
    call' = [call EXCEPT ![p] = Outcome("idle", result, generation, debt)]

\* A call ends; a mutation first releases its gate.
Succeed(p, result, generation, debt) ==
    IF HoldsGate(p)
    THEN call' = [call EXCEPT ![p].pc = "release", ![p].result = result,
                              ![p].target = generation, ![p].debt = debt]
    ELSE Return(p, result, generation, debt)

MutantFailKeepsGate(p, failure) == Return(p, failure, None, FALSE)
\* A failure does the same, and removes the staging file first if there is one.
Fail(p, failure) ==
    IF HoldsGate(p)
    THEN call' = [call EXCEPT ![p].pc = IF @ \in ActivationLabels THEN "unstage" ELSE "release",
                              ![p].result = failure]
    ELSE Return(p, failure, None, FALSE)

Incident(kind) == spent[kind] < Budget[kind] /\ spent' = [spent EXCEPT ![kind] = @ + 1]
Calm == UNCHANGED spent
Local == UNCHANGED dir /\ Calm

-----------------------------------------------------------------------------
(* Calls *)

Start(p, op, label, e, g) ==
    /\ At(p, "idle")
    /\ call' = [call EXCEPT ![p] =
                   [Outcome(op, "pending", g, FALSE) EXCEPT
                       !.pc = label, !.expected = e,
                       !.floor = IF op = "load" THEN Newest(Intact) ELSE None]]
    /\ Local

\* A load without migrationValidatedAt takes no gate.
CallLoad(p) == Start(p, "load", "authorizeScan", None, None)
CallMigrate(p) == Start(p, "migrate", "authorize", None, None)
CallWrite(p) == \E r \in Requests : Start(p, "write", "authorize", r[1], r[2])
CallDelete(p) == Start(p, "delete", "authorize", None, None)

-----------------------------------------------------------------------------
(* reauthorize, guardedMutation *)

MutantAdmittedAlways(p) == TRUE
\* Only a deletion may work behind the barrier.
Admitted(p) == call[p].op = "delete" \/ ~Barred
AfterAuthorize(p) ==
    CASE At(p, "authorize") -> "acquire"
      [] At(p, "authorizeHeld") -> IF call[p].op = "delete" THEN "inventory" ELSE "authorizeScan"
      [] OTHER -> "list"

Authorize(p) ==
    /\ call[p].pc \in Reauthorizations \ {"authorizeResult"}
    /\ IF Admitted(p) THEN Goto(p, AfterAuthorize(p)) ELSE Fail(p, "profile-deleted")
    /\ Local

MutantAcquireShared(p) ==
    /\ At(p, "acquire") /\ Calm
    /\ dir' = [dir EXCEPT !.marks = @ \cup {"gate"}] /\ Goto(p, "authorizeHeld")

\* Exclusive creation of the gate.
Acquire(p) ==
    /\ At(p, "acquire") /\ Calm
    /\ IF Gated THEN UNCHANGED dir /\ Fail(p, "conflict")
       ELSE dir' = [dir EXCEPT !.marks = @ \cup {"gate"}] /\ Goto(p, "authorizeHeld")

\* A gate that cannot be removed is maintenance debt of a commit and makes a
\* deletion incomplete; a failure keeps its category.
Release(p) ==
    /\ At(p, "release")
    /\ \/ /\ dir' = [dir EXCEPT !.marks = @ \ {"gate"}] /\ Calm
          /\ IF call[p].result \in Successes
             THEN Return(p, call[p].result, call[p].target, call[p].debt)
             ELSE Return(p, call[p].result, None, FALSE)
       \/ /\ UNCHANGED dir /\ Incident("fault")
          /\ CASE call[p].result = "deleted" -> Return(p, "deletion-incomplete", None, FALSE)
               [] call[p].result \in Successes \ {"deleted"} ->
                     Return(p, call[p].result, call[p].target, TRUE)
               [] OTHER -> Return(p, call[p].result, None, FALSE)

-----------------------------------------------------------------------------
(* scanStore *)

AfterScan(p) == IF call[p].op = "write" THEN "check" ELSE "authorizeResult"
ScanFits == Cardinality(Present) + Cardinality(dir.temps) <= MaxCandidates

List(p) ==
    /\ At(p, "list") /\ Local
    /\ IF ScanFits
       THEN call' = [call EXCEPT ![p].scan = Listing, ![p].temps = dir.temps,
                                 ![p].pc = IF Present = {} THEN AfterScan(p) ELSE "stat"]
       ELSE Fail(p, "limit-exceeded")


\* readEntry takes the metadata of an entry first; only here is an entry that
\* has vanished since the listing recognized as missing.
Stat(p) ==
    /\ At(p, "stat") /\ Local
    /\ IF dir.finals[Cursor(p)] = "none" THEN Fail(p, "persistence-failed") ELSE Goto(p, "read")

\* Any other error of the read, the removal of the entry after its metadata was
\* taken included, classifies the entry as invalid.
MarkOf(kind) == IF kind \in {"current", "legacy", "unsupported"} THEN kind ELSE "invalid"
Classify(p, mark) ==
    call' = [call EXCEPT ![p].scan[Cursor(p)] = mark,
                         ![p].pc = IF Unread(p) = {Cursor(p)} THEN AfterScan(p) ELSE "stat"]
Read(p) ==
    /\ At(p, "read") /\ UNCHANGED dir
    /\ \/ Classify(p, MarkOf(dir.finals[Cursor(p)])) /\ Calm
       \/ Classify(p, "invalid") /\ ReadFaults /\ Incident("fault")

-----------------------------------------------------------------------------
(* What loadStoreUnlocked and writeStoreUnlocked make of a scan *)

Prepare(p, generation) ==
    call' = [call EXCEPT ![p].pc = "stage", ![p].target = generation]

SelectNothing(p) ==
    /\ Selected(p) = None
    /\ IF Invalid(p) = {} THEN Succeed(p, "absent", None, call[p].temps # {})
       ELSE Fail(p, IF Marked(p, {"unsupported"}) # {} THEN "unsupported-version"
                    ELSE "corrupt-store")

\* A migration is refused when its validation time precedes the document.
SelectLegacy(p) ==
    /\ Selected(p) \in Marked(p, {"legacy"})
    /\ IF call[p].op = "load" THEN Fail(p, "migration-required")
       ELSE IF Exhausted(p) THEN Fail(p, "limit-exceeded")
       ELSE Prepare(p, NextGeneration(p)) \/ Fail(p, "invalid-input")

MutantSelectCurrentUnlabelled(p) ==
    /\ Selected(p) \in Marked(p, {"current"})
    /\ IF Exhausted(p) THEN Fail(p, "limit-exceeded")
       ELSE Succeed(p, "active", Selected(p), Invalid(p) # {})

SelectCurrent(p) ==
    /\ Selected(p) \in Marked(p, {"current"})
    /\ IF Exhausted(p) THEN Fail(p, "limit-exceeded")
       ELSE Succeed(p, IF \E g \in Invalid(p) : g > Selected(p) THEN "recovered" ELSE "active",
                    Selected(p),
                    Invalid(p) # {} \/ call[p].temps # {} \/ Cardinality(Valid(p)) > 2)

\* The second reauthorize of a load, and what the scan selects.
Select(p) ==
    /\ At(p, "authorizeResult") /\ Local
    /\ IF Barred THEN Fail(p, "profile-deleted")
       ELSE SelectNothing(p) \/ SelectLegacy(p) \/ SelectCurrent(p)

MutantWriteVerdictsUnconditional(p) ==
    IF call[p].target # NextGeneration(p) THEN {"invalid-input"} ELSE {"accepted"}

\* The early returns of a write in their order.  Creation and update times are
\* left open: against an active document they may refuse the candidate.
WriteVerdicts(p) ==
    IF Selected(p) \in Marked(p, {"legacy"}) THEN {"migration-required"}
    ELSE IF Selected(p) # call[p].expected THEN {"conflict"}
    ELSE IF Selected(p) = None
         THEN IF Invalid(p) # {} THEN {"corrupt-store"}
              ELSE IF call[p].target # 0 THEN {"invalid-input"} ELSE {"accepted"}
    ELSE IF Exhausted(p) THEN {"limit-exceeded"}
    ELSE IF call[p].target # NextGeneration(p) THEN {"invalid-input"}
    ELSE {"accepted", "invalid-input"}

CheckWrite(p) ==
    /\ At(p, "check") /\ Local
    /\ \E verdict \in WriteVerdicts(p) :
          IF verdict = "accepted" THEN Goto(p, "stage") ELSE Fail(p, verdict)

-----------------------------------------------------------------------------
(* commitCandidate and cleanupAfterCommit *)

Staged(p) == <<call[p].target, call[p].nonce>>

\* Exclusive creation of the staging file, outside the try block that removes it.
Stage(p) ==
    /\ At(p, "stage") /\ Calm
    /\ \E n \in Nonces :
          IF <<call[p].target, n>> \in dir.temps THEN UNCHANGED dir /\ Fail(p, "conflict")
          ELSE /\ dir' = [dir EXCEPT !.temps = @ \cup {<<call[p].target, n>>}]
               /\ call' = [call EXCEPT ![p].nonce = n, ![p].pc = "verifyStaged"]

VerifyStaged(p) ==
    /\ At(p, "verifyStaged") /\ Local
    /\ IF Staged(p) \in dir.temps THEN Goto(p, "link") ELSE Fail(p, "persistence-failed")

\* The exclusive hard link activates the candidate.
Link(p) ==
    /\ At(p, "link") /\ Calm
    /\ IF dir.finals[call[p].target] # "none" THEN UNCHANGED dir /\ Fail(p, "conflict")
       ELSE dir' = [dir EXCEPT !.finals[call[p].target] = "current"] /\ Goto(p, "sync")

Sync(p) == At(p, "sync") /\ Local /\ Goto(p, "verifyFinal")

VerifyFinal(p) ==
    /\ At(p, "verifyFinal") /\ Local
    /\ IF dir.finals[call[p].target] = "current" THEN Goto(p, "unstage")
       ELSE Fail(p, "commit-outcome-unknown")

MutantRemoveTempSilently(p, t, c) ==
    \/ dir' = [dir EXCEPT !.temps = @ \ {t}] /\ Calm /\ call' = [call EXCEPT ![p] = c]
    \/ UNCHANGED dir /\ Incident("fault") /\ call' = [call EXCEPT ![p] = c]

\* Removing one entry: a missing entry or an error is maintenance debt.
RemoveTemp(p, t, c) ==
    \/ /\ dir' = [dir EXCEPT !.temps = @ \ {t}] /\ Calm
       /\ call' = [call EXCEPT ![p] = [c EXCEPT !.debt = @ \/ t \notin dir.temps]]
    \/ UNCHANGED dir /\ Incident("fault") /\ call' = [call EXCEPT ![p] = [c EXCEPT !.debt = TRUE]]
RemoveFinal(p, g, c) ==
    \/ /\ dir' = [dir EXCEPT !.finals[g] = "none"] /\ Calm
       /\ call' = [call EXCEPT ![p] = [c EXCEPT !.debt = @ \/ dir.finals[g] = "none"]]
    \/ UNCHANGED dir /\ Incident("fault") /\ call' = [call EXCEPT ![p] = [c EXCEPT !.debt = TRUE]]

Unstage(p) ==
    /\ At(p, "unstage")
    /\ RemoveTemp(p, Staged(p),
          [call[p] EXCEPT !.pc = IF call[p].result = "pending" THEN "cleanup" ELSE "release"])

MutantRemovableAll(p) == Seen(p)
\* The new document and the newest valid one of the scan are kept.
Removable(p) == Seen(p) \ {Selected(p)}

\* One removal per step, staging files first, then the final sync.
Cleanup(p) ==
    /\ At(p, "cleanup")
    /\ \/ \E t \in call[p].temps : RemoveTemp(p, t, [call[p] EXCEPT !.temps = @ \ {t}])
       \/ /\ call[p].temps = {} /\ Removable(p) # {}
          /\ LET g == Min(Removable(p))
             IN RemoveFinal(p, g, [call[p] EXCEPT !.scan[g] = "unlisted"])
       \/ call[p].temps = {} /\ Removable(p) = {} /\ Goto(p, "syncCleanup") /\ Local

\* A migration also computes the generation that follows the one it committed.
Committed(p, debt) ==
    IF call[p].op = "migrate" /\ call[p].target = MaxGeneration THEN Fail(p, "limit-exceeded")
    ELSE Succeed(p, IF call[p].op = "migrate" THEN "migrated" ELSE "committed",
                 call[p].target, debt)

SyncCleanup(p) ==
    /\ At(p, "syncCleanup") /\ UNCHANGED dir
    /\ \/ Committed(p, call[p].debt) /\ Calm
       \/ Committed(p, TRUE) /\ Incident("fault")

-----------------------------------------------------------------------------
(* deleteLocalProfileStore *)

\* The reads of the inventory only look for a document of another owner.
Inventory(p) ==
    /\ At(p, "inventory") /\ Local
    /\ IF \E g \in Generations : dir.finals[g] = "foreign" THEN Fail(p, "not-authorized")
       ELSE call' = [call EXCEPT ![p].scan = Listing, ![p].temps = dir.temps,
                                 ![p].pc = "raiseBarrier"]

RaiseBarrier(p) ==
    /\ At(p, "raiseBarrier") /\ Calm
    /\ dir' = [dir EXCEPT !.marks = @ \cup {"barrier"}]
    /\ Goto(p, "verifyBarrier")

VerifyBarrier(p) ==
    /\ At(p, "verifyBarrier") /\ Local
    /\ IF Barred THEN Goto(p, "syncBarrier") ELSE Fail(p, "deletion-incomplete")

SyncBarrier(p) == At(p, "syncBarrier") /\ Local /\ Goto(p, "remove")

Remove(p) ==
    /\ At(p, "remove") /\ Calm
    /\ \/ \E t \in call[p].temps :
             /\ dir' = [dir EXCEPT !.temps = @ \ {t}]
             /\ call' = [call EXCEPT ![p].temps = @ \ {t}]
       \/ /\ call[p].temps = {} /\ Seen(p) # {}
          /\ dir' = [dir EXCEPT !.finals[Min(Seen(p))] = "none"]
          /\ call' = [call EXCEPT ![p].scan[Min(Seen(p))] = "unlisted"]
       \/ call[p].temps = {} /\ Seen(p) = {} /\ UNCHANGED dir /\ Goto(p, "syncRemoved")

SyncRemoved(p) == At(p, "syncRemoved") /\ Local /\ Goto(p, "relist")

Relist(p) ==
    /\ At(p, "relist") /\ Local
    /\ IF Present = {} /\ dir.temps = {} THEN Succeed(p, "deleted", None, FALSE)
       ELSE Fail(p, "deletion-incomplete")

-----------------------------------------------------------------------------
(* Failing file-port operations *)

FailureAt(label) ==
    CASE label \in Reauthorizations -> "path-unavailable"
      [] label \in {"sync", "verifyFinal"} -> "commit-outcome-unknown"
      [] label \in DeletionLabels -> "deletion-incomplete"
      [] OTHER -> "persistence-failed"

\* The operation throws and has no effect.
OperationFails(p) ==
    /\ call[p].pc \notin {"idle", "check", "stat", "read", "unstage", "cleanup",
                          "syncCleanup", "release"}
    /\ Incident("fault") /\ UNCHANGED dir
    /\ Fail(p, FailureAt(call[p].pc))

\* writeEntryExclusive creates its file and then throws: the file stays.
CreationFails(p) ==
    /\ Incident("fault")
    /\ \/ /\ At(p, "acquire")
          /\ dir' = [dir EXCEPT !.marks = @ \cup {"gate"}]
       \/ /\ At(p, "raiseBarrier")
          /\ dir' = [dir EXCEPT !.marks = @ \cup {"barrier"}]
       \/ /\ At(p, "stage")
          /\ \E n \in Nonces : dir' = [dir EXCEPT !.temps = @ \cup {<<call[p].target, n>>}]
    /\ dir' # dir
    /\ Fail(p, "persistence-failed")

-----------------------------------------------------------------------------
(* The environment *)

\* A process dies; its files stay, the gate it holds included.
Crash(p) ==
    /\ ~At(p, "idle") /\ Incident("crash") /\ UNCHANGED dir
    /\ Return(p, "crashed", None, FALSE)

\* The documented recovery: once every process has stopped the owner removes an
\* abandoned gate.
OwnerClearsGate ==
    /\ Gated /\ \A p \in Procs : At(p, "idle")
    /\ dir' = [dir EXCEPT !.marks = @ \ {"gate"}]
    /\ UNCHANGED call /\ Calm

\* A stored document becomes unreadable.
Damage(g) ==
    /\ g \in Intact /\ Incident("damage")
    /\ dir' = [dir EXCEPT !.finals[g] = "corrupt"]
    /\ UNCHANGED call

-----------------------------------------------------------------------------
Init ==
    /\ dir \in [finals : InitialStores, temps : {{}}, marks : {{}}]
    /\ call = [p \in Procs |-> Outcome("idle", "absent", None, FALSE)]
    /\ spent = [i \in Incidents |-> 0]

Call(p) == CallLoad(p) \/ CallMigrate(p) \/ CallWrite(p) \/ CallDelete(p)
Scan(p) == Authorize(p) \/ List(p) \/ Stat(p) \/ Read(p) \/ Select(p) \/ CheckWrite(p)
Gate(p) == Acquire(p) \/ Release(p)
Commit(p) == \/ Stage(p) \/ VerifyStaged(p) \/ Link(p) \/ Sync(p) \/ VerifyFinal(p)
             \/ Unstage(p) \/ Cleanup(p) \/ SyncCleanup(p)
Deletion(p) == \/ Inventory(p) \/ RaiseBarrier(p) \/ VerifyBarrier(p) \/ SyncBarrier(p)
               \/ Remove(p) \/ SyncRemoved(p) \/ Relist(p)
Step(p) == Gate(p) \/ Scan(p) \/ Commit(p) \/ Deletion(p)
                   \/ OperationFails(p) \/ CreationFails(p)

Next ==
    \/ \E p \in Procs : Call(p) \/ Step(p) \/ Crash(p)
    \/ OwnerClearsGate
    \/ \E g \in Generations : Damage(g)

Spec == Init /\ [][Next]_vars

\* A running process keeps executing its call; nothing obliges it to crash, the
\* owner to clear a gate, or anybody to call.
FairSpec == Spec /\ \A p \in Procs : WF_vars(Step(p))

-----------------------------------------------------------------------------
(* Properties *)

\* At most one call is past the exclusive creation of the gate, and while it is
\* the gate file exists (guardedMutation).
GateExclusive ==
    /\ \A p \in Procs : HoldsGate(p) => Gated
    /\ \A p, q \in Procs : HoldsGate(p) /\ HoldsGate(q) => p = q

\* No lost update: while a write or a migration prepares its candidate, no intact
\* document newer than the one it builds on exists, and when it reaches the exclusive
\* link the generation its scan computed is still free, damaged documents included.
BuildsOnNewest ==
    \A p \in Procs :
        /\ call[p].pc \in {"check", "stage", "verifyStaged", "link"}
              => Newest(Intact) <= Selected(p)
        /\ At(p, "link") => dir.finals[call[p].target] = "none"

\* Behind the deletion barrier the barrier stays and no document and no staging
\* file appears: a call that was running cannot resurrect the profile.
NoResurrection ==
    [][Barred => /\ Barred'
                 /\ dir'.temps \subseteq dir.temps
                 /\ Present' \subseteq Present]_vars

\* A deletion that was reported complete is complete, and stays so.
DeletedIsEmpty ==
    (\E p \in Procs : call[p].result = "deleted") => Barred /\ Present = {} /\ dir.temps = {}

\* Deletion is final: nothing resurrects the profile behind the barrier, and what was
\* reported deleted stays empty.
DeletionIsFinal == NoResurrection /\ []DeletedIsEmpty

\* Pruning removes an intact document only when two newer intact ones remain
\* (the rollback generation of ADR-0023).
PrunesBehindRollback ==
    [][\A g \in Intact : dir'.finals[g] = "none" /\ ~Barred
                         => \E h, k \in Intact' : g < h /\ h < k]_vars

\* The load p returns in this step.
LoadReturns(p, results) == call[p].op = "load" /\ call'[p].op = "idle" /\ call'[p].result \in results

\* A load that reports an active document returns one at least as new as every
\* intact document at the time of the call; one that reports an absent store was
\* called on a store without intact documents.
ActiveLoadIsFresh ==
    [][\A p \in Procs : LoadReturns(p, {"active", "absent"})
                        => call'[p].target >= call[p].floor]_vars

\* A commit that reports no maintenance debt leaves the new document, the one it
\* was built on, and nothing else: no staging file, no gate.
CleanCommitLeavesNoDebris ==
    [][\A p \in Procs :
          At(p, "release") /\ call'[p].result \in {"committed", "migrated"}
          /\ call'[p].pc = "idle" /\ ~call'[p].debt
          => dir'.temps = {} /\ ~Gated' /\ Present' \subseteq {call[p].target, Selected(p)}]_vars

\* A write that is refused because staging failed leaves the store loadable: a
\* later scan still fits its bound.
RejectedWriteLeavesLoadable ==
    [][\A p \in Procs :
          At(p, "stage") /\ call'[p].result = "persistence-failed" => ScanFits']_vars

\* Without faults and crashes every gate is eventually released.
GateReleased == Gated ~> ~Gated

\* Every call returns.
CallsReturn == \A p \in Procs : ~At(p, "idle") ~> At(p, "idle")

\* Calls complete: without faults every gate is released and every call returns.
CallsComplete == GateReleased /\ CallsReturn
=============================================================================
