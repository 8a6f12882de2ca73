----------------------------- MODULE CodexCache -----------------------------
(***************************************************************************)
(* The Codex adapter: lifecycle hooks (codex-hook-adapter.ts) over the     *)
(* guidance cache of one directory (file-session-state.ts).                *)
(*                                                                         *)
(* Every hook, deletion and inspection is a process of its own.  A hook    *)
(* makes up to two cache operations, each under the exclusive mutation     *)
(* lock; between them the lock is free.  The inspection takes no lock and  *)
(* relies on the change stamps of the directory.  Guidance is the number   *)
(* of the task it answers and the time it expires.                         *)
(***************************************************************************)
EXTENDS Integers, FiniteSetsExt

CONSTANTS
    Procs,          \* processes of the host and of the owner
    Sessions,       \* Codex sessions
    MaxTask,        \* bound on the tasks of a session
    MaxTime,        \* bound on the clock
    Lifetime,       \* validity of a packet
    MaxEntries,     \* maximumDirectoryEntries (256 in the code)
    Overlap,        \* may two hooks of one session run at once?
    Budget          \* bounds on faults and crashes

Incidents == {"fault", "crash"}

ASSUME CacheAssumption ==
    /\ MaxTask \in Nat /\ MaxTime \in Nat /\ Lifetime \in Nat /\ MaxEntries \in Nat
    /\ Overlap \in BOOLEAN
    /\ Budget \in [Incidents -> Nat]

VARIABLES
    root,     \* the cache directory: entries, staging files, marker files
    job,      \* what each process does, or the outcome of its last run
    now,      \* the clock
    tasks,    \* tasks submitted so far in each session
    told,     \* newest task of each session whose guidance a hook has emitted
    spent     \* incidents so far
vars == <<root, job, now, tasks, told, spent>>

Guidance == [task : 0..MaxTask, expires : 0..(MaxTime + Lifetime)]
NoGuidance == [task |-> 0, expires |-> 0]
Roots == [entries : [Sessions -> Guidance],
          temps : SUBSET (Sessions \X (1..MaxTask)),
          marks : SUBSET {"lock", "deleted"}]
Events == {"none", "start", "resume", "task", "delete", "inspect"}
Operations == {"none", "clear", "load", "save", "delete"}
Locked == {"body", "rename", "barrier", "list", "sweep", "verify", "release"}
Inspecting == {"stamp", "control", "names", "entries", "recontrol", "restamp"}
Labels == {"idle", "lock", "invoke"} \cup Locked \cup Inspecting
Results == {"none", "fallback", "context", "deleted", "incomplete", "conflict",
            "ready", "busy", "invalid", "limit", "unavailable", "crashed"}
NoSession == "none"
Jobs == [pc : Labels, event : Events, op : Operations, session : Sessions \cup {NoSession},
         guidance : Guidance,           \* of this task, or restored
         names : SUBSET Sessions,       \* entries still to sweep or to inspect
         seen : SUBSET Sessions,        \* entries an inspection has counted
         barred : BOOLEAN,              \* the barrier, as an inspection found it
         changed : BOOLEAN,             \* the directory changed under an inspection
         result : Results]

TypeOK ==
    /\ root \in Roots
    /\ job \in [Procs -> Jobs]
    /\ now \in 0..MaxTime
    /\ tasks \in [Sessions -> 0..MaxTask]
    /\ told \in [Sessions -> 0..MaxTask]
    /\ spent \in [Incidents -> Nat]

-----------------------------------------------------------------------------
(* The directory and the running process *)

Entries == {s \in Sessions : root.entries[s] # NoGuidance}
Deleted == "deleted" \in root.marks
LockHeld == "lock" \in root.marks
ScanFits == Cardinality(Entries) + Cardinality(root.temps)
            + Cardinality(root.marks) <= MaxEntries
\* isCodexCachedGuidance and isFuture.
Future(g) == g # NoGuidance /\ g.expires > now

At(p, label) == job[p].pc = label
HoldsLock(p) == job[p].pc \in Locked
Staged(p) == <<job[p].session, job[p].guidance.task>>

\* The step of p leaves the directory alone, or changes it; a change moves the
\* stamps every running inspection compares.
Becomes(p, j) == root' = root /\ job' = [job EXCEPT ![p] = j]
Changes(p, j, r) ==
    /\ root' = r
    /\ job' = [q \in Procs |-> IF q = p THEN j
                               ELSE IF job[q].pc \in Inspecting THEN [job[q] EXCEPT !.changed = TRUE]
                               ELSE job[q]]
Goto(p, label) == Becomes(p, [job[p] EXCEPT !.pc = label])

Idle == [pc |-> "idle", event |-> "none", op |-> "none", session |-> NoSession,
         guidance |-> NoGuidance, names |-> {}, seen |-> {}, barred |-> FALSE,
         changed |-> FALSE, result |-> "none"]
Done(result) == [Idle EXCEPT !.result = result]
EmitsContext(p) == [Idle EXCEPT !.result = "context", !.session = job[p].session,
                                !.guidance = job[p].guidance]
Return(p, result) == Becomes(p, Done(result))

Incident(kind) == spent[kind] < Budget[kind] /\ spent' = [spent EXCEPT ![kind] = @ + 1]
Quiet == UNCHANGED <<now, tasks, told>>
Calm == UNCHANGED spent
Plain == Quiet /\ Calm

-----------------------------------------------------------------------------
(* Calls *)

Started(p, event, op, label, s, g) ==
    [Idle EXCEPT !.pc = label, !.event = event, !.op = op, !.session = s, !.guidance = g]
Hooks(s) == {q \in Procs : job[q].event \in {"start", "resume", "task"} /\ job[q].session = s}
Deliverable(s) == Overlap \/ Hooks(s) = {}

\* SessionStart with source startup or clear.
SessionStart(p, s) ==
    /\ At(p, "idle") /\ Deliverable(s) /\ Plain
    /\ Becomes(p, Started(p, "start", "clear", "lock", s, NoGuidance))

\* SessionStart with source resume or compact.
SessionResume(p, s) ==
    /\ At(p, "idle") /\ Deliverable(s) /\ Plain
    /\ Becomes(p, Started(p, "resume", "load", "lock", s, NoGuidance))

MutantUserPromptSubmitUncleared(p, s) ==
    /\ At(p, "idle") /\ Deliverable(s) /\ tasks[s] < MaxTask
    /\ tasks' = [tasks EXCEPT ![s] = @ + 1]
    /\ Becomes(p, Started(p, "task", "none", "invoke", s,
                          [task |-> tasks[s] + 1, expires |-> 0]))
    /\ UNCHANGED <<now, told>> /\ Calm

\* UserPromptSubmit: handleTask clears before anything else.
UserPromptSubmit(p, s) ==
    /\ At(p, "idle") /\ Deliverable(s) /\ tasks[s] < MaxTask
    /\ tasks' = [tasks EXCEPT ![s] = @ + 1]
    /\ Becomes(p, Started(p, "task", "clear", "lock", s,
                          [task |-> tasks[s] + 1, expires |-> 0]))
    /\ UNCHANGED <<now, told>> /\ Calm

ClearAll(p) ==
    /\ At(p, "idle") /\ Plain
    /\ Becomes(p, Started(p, "delete", "delete", "lock", NoSession, NoGuidance))

Inspect(p) ==
    /\ At(p, "idle") /\ Plain
    /\ Becomes(p, Started(p, "inspect", "none", "stamp", NoSession, NoGuidance))

-----------------------------------------------------------------------------
(* What a hook makes of a finished cache operation *)

\* An operation throws: every hook falls back, except a task whose guidance
\* could not be saved; a deletion reports the reason.
Thrown(p, reason) ==
    CASE job[p].event = "delete" -> Done(reason)
      [] job[p].op = "save" -> EmitsContext(p)
      [] OTHER -> Done("fallback")

\* It succeeds.
Continued(p) ==
    CASE job[p].event = "delete" -> Done("deleted")
      [] job[p].op = "save" -> EmitsContext(p)
      [] job[p].op = "load" /\ Future(job[p].guidance) -> EmitsContext(p)
      [] job[p].op = "load" /\ ~Future(job[p].guidance) ->
            [job[p] EXCEPT !.pc = "lock", !.op = "clear", !.guidance = NoGuidance]
      [] job[p].event = "task" /\ job[p].op = "clear" -> [job[p] EXCEPT !.pc = "invoke"]
      [] OTHER -> Done("fallback")

\* The context is emitted when the process of the hook ends.
Emits(p, j) ==
    told' = IF j.result = "context"
            THEN [told EXCEPT ![job[p].session] = Max({@, j.guidance.task})] ELSE told

\* A task without usable answer falls back; a packet that is still valid is
\* mapped to guidance and saved.
Invoke(p) ==
    /\ At(p, "invoke") /\ Plain
    /\ \/ Return(p, "fallback")
       \/ /\ Lifetime > 0
          /\ Becomes(p, [job[p] EXCEPT !.pc = "lock", !.op = "save",
                                       !.guidance.expires = now + Lifetime])

-----------------------------------------------------------------------------
(* withGate *)

\* Faulty variants (named Mutant...) are defined before the operator they vary.
MutantLockShared(p) ==
    /\ At(p, "lock") /\ Plain
    /\ Changes(p, [job[p] EXCEPT !.pc = "body"], [root EXCEPT !.marks = @ \cup {"lock"}])

MutantLockWaits(p) ==
    /\ At(p, "lock") /\ Plain
    /\ IF LockHeld THEN UNCHANGED <<root, job>>
       ELSE Changes(p, [job[p] EXCEPT !.pc = "body"], [root EXCEPT !.marks = @ \cup {"lock"}])

\* ensureStateRoot sets the mode of the directory, which moves its stamp, before
\* the lock is exclusively created.
Lock(p) ==
    /\ At(p, "lock") /\ UNCHANGED <<now, tasks>> /\ Calm
    /\ IF LockHeld
       THEN Changes(p, Thrown(p, "conflict"), root) /\ Emits(p, Thrown(p, "conflict"))
       ELSE /\ Changes(p, [job[p] EXCEPT !.pc = "body"], [root EXCEPT !.marks = @ \cup {"lock"}])
            /\ UNCHANGED told


\* The lock is removed; result "incomplete" carries a failure through the finally.
Release(p) ==
    /\ At(p, "release") /\ UNCHANGED <<now, tasks>>
    /\ LET failed == job[p].result = "incomplete"
           after == IF failed THEN Thrown(p, "incomplete") ELSE Continued(p)
       IN \/ /\ Changes(p, after, [root EXCEPT !.marks = @ \ {"lock"}])
             /\ Emits(p, after) /\ Calm
          \/ /\ Becomes(p, Thrown(p, "incomplete")) /\ Emits(p, Thrown(p, "incomplete"))
             /\ Incident("fault")

Fails(j) == [j EXCEPT !.pc = "release", !.result = "incomplete"]

-----------------------------------------------------------------------------
(* load, save and clear of createFileCodexSessionState *)

Load(p) ==
    /\ At(p, "body") /\ job[p].op = "load" /\ Plain
    /\ Becomes(p, [job[p] EXCEPT !.pc = "release",
                      !.guidance = IF Deleted THEN NoGuidance ELSE root.entries[job[p].session]])

Clear(p) ==
    /\ At(p, "body") /\ job[p].op = "clear" /\ Plain
    /\ IF Deleted \/ root.entries[job[p].session] = NoGuidance THEN Goto(p, "release")
       ELSE Changes(p, [job[p] EXCEPT !.pc = "release"],
                    [root EXCEPT !.entries[job[p].session] = NoGuidance])

MutantStageBehindBarrier(p) ==
    /\ At(p, "body") /\ job[p].op = "save" /\ Plain
    /\ Changes(p, [job[p] EXCEPT !.pc = "rename"], [root EXCEPT !.temps = @ \cup {Staged(p)}])

\* save writes the staging file, unless the barrier stands.
Stage(p) ==
    /\ At(p, "body") /\ job[p].op = "save" /\ Plain
    /\ IF Deleted THEN Becomes(p, Fails(job[p]))
       ELSE Changes(p, [job[p] EXCEPT !.pc = "rename"], [root EXCEPT !.temps = @ \cup {Staged(p)}])

Renamed(p) == [root EXCEPT !.temps = @ \ {Staged(p)},
                           !.entries[job[p].session] = job[p].guidance]
Rename(p) ==
    /\ At(p, "rename") /\ Plain
    /\ Changes(p, [job[p] EXCEPT !.pc = "release"], Renamed(p))

-----------------------------------------------------------------------------
(* clearFileCodexSessionState *)

\* The marker is created and synced, or found from an earlier attempt.
RaiseBarrier(p) ==
    /\ At(p, "body") /\ job[p].op = "delete" /\ Plain
    /\ IF Deleted THEN Goto(p, "list")
       ELSE Changes(p, [job[p] EXCEPT !.pc = "list"], [root EXCEPT !.marks = @ \cup {"deleted"}])

List(p) ==
    /\ At(p, "list") /\ Plain
    /\ IF ScanFits THEN Becomes(p, [job[p] EXCEPT !.pc = "sweep", !.names = Entries])
       ELSE Becomes(p, Fails(job[p]))

\* One removal per step: staging files, then the listed entries.
Sweep(p) ==
    /\ At(p, "sweep") /\ Plain
    /\ \/ \E t \in root.temps : Changes(p, job[p], [root EXCEPT !.temps = @ \ {t}])
       \/ /\ root.temps = {}
          /\ \E s \in job[p].names :
                Changes(p, [job[p] EXCEPT !.names = @ \ {s}],
                        [root EXCEPT !.entries[s] = NoGuidance])
       \/ root.temps = {} /\ job[p].names = {} /\ Goto(p, "verify")

Verify(p) ==
    /\ At(p, "verify") /\ Plain
    /\ IF ScanFits /\ Entries = {} /\ root.temps = {} /\ Deleted THEN Goto(p, "release")
       ELSE Becomes(p, Fails(job[p]))

-----------------------------------------------------------------------------
(* inspectFileCodexSessionState *)

InspectRoot(p) ==
    /\ At(p, "stamp") /\ Plain
    /\ Becomes(p, [job[p] EXCEPT !.pc = "control", !.changed = FALSE])

InspectControl(p) ==
    /\ At(p, "control") /\ Plain
    /\ IF LockHeld THEN Return(p, "busy")
       ELSE Becomes(p, [job[p] EXCEPT !.pc = "names", !.barred = Deleted])

InspectNames(p) ==
    /\ At(p, "names") /\ Plain
    /\ IF ~ScanFits THEN Return(p, "limit")
       ELSE IF root.temps # {} \/ (job[p].barred /\ Entries # {}) THEN Return(p, "invalid")
       ELSE Becomes(p, [job[p] EXCEPT !.pc = IF Entries = {} THEN "recontrol" ELSE "entries",
                                      !.names = Entries])

\* readInspectionEntry: an entry that has vanished makes the inspection
\* unavailable; another one in its place is read like the first.
InspectEntry(p) ==
    /\ At(p, "entries") /\ Plain
    /\ \E s \in job[p].names :
          IF s \notin Entries THEN Return(p, "unavailable")
          ELSE Becomes(p, [job[p] EXCEPT !.names = @ \ {s}, !.seen = @ \cup {s},
                              !.pc = IF job[p].names = {s} THEN "recontrol" ELSE "entries"])

InspectControlAgain(p) ==
    /\ At(p, "recontrol") /\ Plain
    /\ IF LockHeld \/ job[p].barred # Deleted THEN Return(p, "busy") ELSE Goto(p, "restamp")

Reported(p) == [Done(IF job[p].barred THEN "deleted" ELSE "ready") EXCEPT !.seen = job[p].seen]
MutantInspectRootAgainUnstamped(p) ==
    /\ At(p, "restamp") /\ Plain
    /\ Becomes(p, Reported(p))
InspectRootAgain(p) ==
    /\ At(p, "restamp") /\ Plain
    /\ IF job[p].changed THEN Return(p, "busy") ELSE Becomes(p, Reported(p))

-----------------------------------------------------------------------------
(* Failing file operations and the environment *)

\* A file operation under the lock throws and has no effect.
OperationFails(p) ==
    /\ job[p].pc \in {"body", "list", "sweep", "verify"}
    /\ Quiet /\ Incident("fault") /\ Becomes(p, Fails(job[p]))

\* save fails after it has created its staging file: its catch block removes the
\* file, or fails as well; or the mode of the renamed entry cannot be set.
SaveFails(p) ==
    /\ At(p, "rename") /\ Quiet /\ Incident("fault")
    /\ \E r \in {root, [root EXCEPT !.temps = @ \ {Staged(p)}], Renamed(p)} :
          Changes(p, Fails(job[p]), r)

Crash(p) == ~At(p, "idle") /\ Quiet /\ Incident("crash") /\ Return(p, "crashed")

\* The documented recovery of an abandoned lock: every process has stopped.
OwnerClearsLock ==
    /\ LockHeld /\ \A p \in Procs : At(p, "idle")
    /\ root' = [root EXCEPT !.marks = @ \ {"lock"}]
    /\ UNCHANGED job /\ Plain

Tick == now < MaxTime /\ now' = now + 1 /\ UNCHANGED <<root, job, tasks, told, spent>>

-----------------------------------------------------------------------------
Init ==
    /\ root = [entries |-> [s \in Sessions |-> NoGuidance], temps |-> {}, marks |-> {}]
    /\ job = [p \in Procs |-> Idle]
    /\ now = 0
    /\ tasks = [s \in Sessions |-> 0]
    /\ told = [s \in Sessions |-> 0]
    /\ spent = [i \in Incidents |-> 0]

Call(p) == \/ \E s \in Sessions : SessionStart(p, s) \/ SessionResume(p, s) \/ UserPromptSubmit(p, s)
           \/ ClearAll(p) \/ Inspect(p)
Operation(p) == Load(p) \/ Clear(p) \/ Stage(p) \/ Rename(p)
Deletion(p) == RaiseBarrier(p) \/ List(p) \/ Sweep(p) \/ Verify(p)
Inspection(p) == \/ InspectRoot(p) \/ InspectControl(p) \/ InspectNames(p) \/ InspectEntry(p)
                 \/ InspectControlAgain(p) \/ InspectRootAgain(p)
Step(p) == \/ Lock(p) \/ Release(p) \/ Invoke(p) \/ Operation(p) \/ Deletion(p) \/ Inspection(p)
           \/ OperationFails(p) \/ SaveFails(p)

Next == Tick \/ OwnerClearsLock \/ \E p \in Procs : Call(p) \/ Step(p) \/ Crash(p)
Spec == Init /\ [][Next]_vars
\* A process that runs keeps running; nobody has to call, crash or recover.
CacheFairness == \A p \in Procs : WF_vars(Step(p))
FairSpec == Spec /\ CacheFairness

-----------------------------------------------------------------------------
(* Properties *)

\* Cache operations exclude each other: at most one process is past the exclusive
\* creation of the lock, and the lock file exists while it is (withGate).
LockExclusive ==
    /\ \A p \in Procs : HoldsLock(p) => LockHeld
    /\ \A p, q \in Procs : HoldsLock(p) /\ HoldsLock(q) => p = q

\* The cache is orderly: its state is well-formed, and operations exclude each other.
CacheIsOrderly == TypeOK /\ LockExclusive

\* Behind the barrier of a deletion, complete or not, the barrier stays and no
\* guidance appears: a hook that was waiting for its provider cannot save any.
NoGuidanceAfterDeletion ==
    [][Deleted => /\ Deleted'
                  /\ Entries' \subseteq Entries
                  /\ root'.temps \subseteq root.temps]_vars

\* A cache that a deletion or an inspection reported as deleted holds no entry and
\* no staging file of any session, then and later.
DeletedCacheIsEmpty ==
    (\E p \in Procs : job[p].result = "deleted")
    => Deleted /\ Entries = {} /\ root.temps = {}

\* An inspection that takes no lock and reports a healthy cache reports one state
\* of it: the entries it counted one by one are the entries of that moment.
InspectionIsSnapshot ==
    [][\A p \in Procs :
          At(p, "restamp") /\ job'[p].result \in {"ready", "deleted"}
          => /\ job'[p].seen = Entries /\ root.temps = {} /\ ~LockHeld
             /\ Deleted <=> job'[p].result = "deleted"]_vars

\* Once a hook has emitted the guidance of a task, no guidance of an earlier task
\* of the session is left to be restored, although the save may have failed, the
\* lock may have been taken and processes may have died.  (Behind the barrier of
\* an unfinished deletion entries may be older, but load refuses them.)
DeliveredSupersedes ==
    ~Deleted => \A s \in Entries : root.entries[s].task >= told[s]

\* Without faults and crashes the lock is released again.
LockReleased == LockHeld ~> ~LockHeld

\* Every hook, deletion and inspection ends.
JobsEnd == \A p \in Procs : ~At(p, "idle") ~> At(p, "idle")

\* A deletion is final for every session: nothing is saved behind its barrier, and what
\* was reported deleted stays empty.
GuidanceStaysDeleted == NoGuidanceAfterDeletion /\ []DeletedCacheIsEmpty

\* Hooks end and leave the cache usable: the lock comes free and every job ends.
HooksEnd == LockReleased /\ JobsEnd
=============================================================================
