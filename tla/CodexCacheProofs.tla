-------------------------- MODULE CodexCacheProofs --------------------------
(***************************************************************************)
(* Proofs about CodexCache, for every number of processes, sessions,       *)
(* tasks, entries, faults and crashes: cache operations exclude each       *)
(* other, a deletion is final, an inspection reports one state, and what   *)
(* was delivered supersedes what is cached.                                *)
(***************************************************************************)
EXTENDS CodexCache, OrderLemmas

Hooking == {"start", "resume", "task"}

-----------------------------------------------------------------------------
(* Well-formed jobs, and the lock *)

\* What a job is made of while it runs: who has a session, which event makes
\* which operation, and which operation is at which label.
JobOK(j) ==
    /\ j \in Jobs
    /\ j.event \in Hooking => j.session \in Sessions
    /\ j.op \in {"clear", "load", "save"} => j.event \in Hooking
    /\ j.op = "save" \/ j.pc = "invoke" => j.event = "task"
    /\ j.op = "load" => j.event = "resume"
    /\ j.op = "delete" <=> j.event = "delete"
    /\ j.event = "task" => j.guidance.task \in 1..MaxTask
    /\ j.pc = "rename" => j.op = "save"
    /\ j.pc \in {"list", "sweep", "verify"} => j.op = "delete"
    /\ j.pc = "lock" \/ j.pc \in Locked => j.op # "none"
    /\ j.pc \in Inspecting => j.event = "inspect"
    /\ j.result = "context" => j.session \in Sessions
    /\ j.result \in {"context", "deleted", "ready"} => j.pc = "idle"

CacheInv == TypeOK /\ LockExclusive /\ \A p \in Procs : JobOK(job[p])

\* Every other job stays as it is, but for an inspection that notices a change.
Frame(p, j) ==
    /\ job' \in [Procs -> Jobs] /\ job'[p] = j
    /\ \A q \in Procs \ {p} :
          /\ job'[q].pc = job[q].pc /\ job'[q].event = job[q].event /\ job'[q].op = job[q].op
          /\ job'[q].session = job[q].session /\ job'[q].guidance = job[q].guidance
          /\ job'[q].names = job[q].names /\ job'[q].seen = job[q].seen
          /\ job'[q].barred = job[q].barred /\ job'[q].result = job[q].result
          /\ ~job'[q].changed => ~job[q].changed /\ (job[q].pc \in Inspecting => UNCHANGED root)

\* The run of p goes on at a label, or it ends; nothing else happens to the other jobs.
Same(j, k) ==
    j.event = k.event /\ j.op = k.op /\ j.session = k.session /\ j.guidance = k.guidance
Runs(p, label) ==
    Frame(p, job'[p]) /\ job'[p].pc = label /\ Same(job'[p], job[p])
Ends(p) ==
    Frame(p, job'[p]) /\ job'[p].pc = "idle" /\ job'[p].event = "none"

\* A step of one process leaves the jobs of the others, but for their stamps.
LEMMA BecomesFrame ==
    ASSUME TypeOK, NEW p \in Procs, NEW j \in Jobs, Becomes(p, j)
    PROVE  Frame(p, j) /\ UNCHANGED root
BY DEF TypeOK, Becomes, Frame

LEMMA ChangesFrame ==
    ASSUME TypeOK, NEW p \in Procs, NEW j \in Jobs, NEW r, Changes(p, j, r)
    PROVE  Frame(p, j) /\ root' = r
<1>1. job' = [q \in Procs |-> IF q = p THEN j
                             ELSE IF job[q].pc \in Inspecting THEN [job[q] EXCEPT !.changed = TRUE]
                             ELSE job[q]]
    BY DEF Changes
<1>2. \A q \in Procs : job[q] \in Jobs /\ [job[q] EXCEPT !.changed = TRUE] \in Jobs
    BY DEF TypeOK, Jobs
<1>3. job' \in [Procs -> Jobs] /\ job'[p] = j
    BY <1>1, <1>2
<1>4. ASSUME NEW q \in Procs \ {p}
      PROVE  /\ job'[q].pc = job[q].pc /\ job'[q].event = job[q].event /\ job'[q].op = job[q].op
             /\ job'[q].session = job[q].session /\ job'[q].guidance = job[q].guidance
             /\ job'[q].names = job[q].names /\ job'[q].seen = job[q].seen
             /\ job'[q].barred = job[q].barred /\ job'[q].result = job[q].result
             /\ ~job'[q].changed => ~job[q].changed /\ (job[q].pc \in Inspecting => UNCHANGED root)
    <2>1. CASE job[q].pc \in Inspecting
        <3>1. job'[q] = [job[q] EXCEPT !.changed = TRUE]
            BY <1>1, <2>1
        <3> QED BY <1>2, <3>1 DEF Jobs
    <2>2. CASE job[q].pc \notin Inspecting
        <3>1. job'[q] = job[q]
            BY <1>1, <2>2
        <3> QED BY <2>2, <3>1
    <2> QED BY <2>1, <2>2
<1> QED BY <1>3, <1>4 DEF Changes, Frame

\* It is enough to look at the job that takes a step and at the lock.
LEMMA CacheStep ==
    ASSUME CacheInv, NEW p \in Procs, NEW j, Frame(p, j), JobOK(j), root' \in Roots,
           now' \in 0..MaxTime, tasks' \in [Sessions -> 0..MaxTask],
           told' \in [Sessions -> 0..MaxTask], spent' \in [Incidents -> Nat],
           j.pc \in Locked => "lock" \in root'.marks /\ (LockHeld => HoldsLock(p)),
           HoldsLock(p) \/ (LockHeld => "lock" \in root'.marks)
    PROVE  CacheInv'
<1>1. ASSUME NEW q \in Procs, q # p
      PROVE  JobOK(job'[q])
    <2>1. job'[q] \in Jobs /\ JobOK(job[q])
        BY DEF Frame, CacheInv
    <2> QED BY <1>1, <2>1 DEF Frame, JobOK
<1>2. \A q \in Procs : JobOK(job'[q])
    BY <1>1 DEF Frame
<1>3. TypeOK'
    BY DEF Frame, TypeOK
<1>4. \A q \in Procs : q # p => HoldsLock(q)' = HoldsLock(q)
    BY DEF Frame, HoldsLock
<1>5. HoldsLock(p)' <=> j.pc \in Locked
    BY DEF Frame, HoldsLock
<1>6. LockHeld' <=> "lock" \in root'.marks
    BY DEF LockHeld
<1>7. LockExclusive'
    BY <1>4, <1>5, <1>6 DEF CacheInv, LockExclusive
<1> QED BY <1>2, <1>3, <1>7 DEF CacheInv

\* What ends a run, with or without context.
LEMMA IdleOK ==
    Idle \in Jobs
BY CacheAssumption DEF Idle, Jobs, Labels, Events, Operations, Results, NoGuidance, Guidance

\* A run that ends with an outcome, or with the context it emits.
LEMMA DoneOK ==
    ASSUME NEW result \in Results \ {"context"}
    PROVE  /\ JobOK(Done(result)) /\ Done(result).pc = "idle" /\ Done(result).event = "none"
           /\ Done(result).result = result
BY IdleOK DEF Done, JobOK, Idle, Jobs, Hooking, Locked, Inspecting

LEMMA EmitsOK ==
    ASSUME CacheInv, NEW p \in Procs, job[p].event \in Hooking
    PROVE  /\ JobOK(EmitsContext(p)) /\ EmitsContext(p).pc = "idle"
           /\ EmitsContext(p).event = "none"
           /\ EmitsContext(p).result = "context"
           /\ EmitsContext(p).guidance = job[p].guidance
<1> DEFINE s == job[p].session
           g == job[p].guidance
           j == [Idle EXCEPT !.result = "context", !.session = s, !.guidance = g]
<1>1. s \in Sessions /\ g \in Guidance
    BY DEF CacheInv, JobOK, Jobs
<1> HIDE DEF s, g
<1>2. j \in Jobs /\ j.pc = "idle" /\ j.event = "none" /\ j.op = "none" /\ j.session = s
      /\ j.guidance = g /\ j.result = "context"
    BY <1>1, IdleOK DEF Jobs, Idle, Results
<1>3. JobOK(j)
    BY <1>1, <1>2 DEF JobOK, Hooking, Locked, Inspecting
<1> QED BY <1>2, <1>3 DEF EmitsContext, s, g

\* What a hook makes of an operation that throws.
LEMMA ThrownOK ==
    ASSUME CacheInv, NEW p \in Procs, NEW reason \in {"conflict", "incomplete"}
    PROVE  /\ JobOK(Thrown(p, reason)) /\ Thrown(p, reason).pc = "idle"
           /\ Thrown(p, reason).event = "none"
           /\ Thrown(p, reason).result # "deleted"
           /\ Thrown(p, reason).result = "context" =>
                 job[p].op = "save" /\ Thrown(p, reason) = EmitsContext(p)
<1>1. JobOK(job[p])
    BY DEF CacheInv
<1>2. CASE job[p].event = "delete"
    <2>1. job[p].op # "save"
        BY <1>1, <1>2 DEF JobOK
    <2>2. Thrown(p, reason) = Done(reason)
        BY <1>2, <2>1 DEF Thrown
    <2> QED BY <2>2, DoneOK DEF Results
<1>3. CASE job[p].op = "save"
    <2>1. job[p].event = "task"
        BY <1>1, <1>3 DEF JobOK
    <2>2. Thrown(p, reason) = EmitsContext(p)
        BY <1>3, <2>1 DEF Thrown
    <2> QED BY <1>3, <2>1, <2>2, EmitsOK DEF Hooking
<1>4. CASE job[p].event # "delete" /\ job[p].op # "save"
    BY <1>4, DoneOK DEF Thrown, Results
<1> QED BY <1>2, <1>3, <1>4

\* What it makes of one that succeeds.
LEMMA ContinuedOK ==
    ASSUME CacheInv, NEW p \in Procs, At(p, "release")
    PROVE  /\ JobOK(Continued(p)) /\ Continued(p).pc \notin Locked
           /\ Continued(p).result = "deleted" => job[p].op = "delete"
           /\ Continued(p).result = "context" =>
                 /\ Continued(p) = EmitsContext(p)
                 /\ job[p].op = "save" \/ (job[p].op = "load" /\ Future(job[p].guidance))
           /\ \/ Continued(p).pc = "idle" /\ Continued(p).event = "none"
              \/ /\ Continued(p).pc = "invoke" /\ Same(Continued(p), job[p])
                 /\ job[p].event = "task" /\ job[p].op = "clear"
              \/ /\ Continued(p).pc = "lock" /\ Continued(p).op = "clear"
                 /\ job[p].event = "resume" /\ Continued(p).event = "resume"
                 /\ Continued(p).session = job[p].session
                 /\ Continued(p).guidance = NoGuidance
<1> DEFINE j == job[p]
<1>1. j \in Jobs /\ JobOK(j) /\ j.pc = "release"
    BY DEF CacheInv, JobOK, At
<1>2. j.result \notin {"context", "deleted", "ready"}
    BY <1>1 DEF JobOK
<1>3. CASE j.event = "delete"
    <2>1. j.op = "delete"
        BY <1>1, <1>3 DEF JobOK
    <2>2. Continued(p) = Done("deleted")
        BY <1>3, <2>1 DEF Continued
    <2> QED BY <2>1, <2>2, DoneOK DEF Results, Locked
<1>4. CASE j.op = "save"
    <2>1. j.event = "task"
        BY <1>1, <1>4 DEF JobOK
    <2>2. Continued(p) = EmitsContext(p)
        BY <1>4, <2>1 DEF Continued
    <2> QED BY <1>4, <2>1, <2>2, EmitsOK DEF Hooking, Locked
<1>5. CASE j.op = "load" /\ Future(j.guidance)
    <2>1. j.event = "resume"
        BY <1>1, <1>5 DEF JobOK
    <2>2. Continued(p) = EmitsContext(p)
        BY <1>5, <2>1 DEF Continued
    <2> QED BY <1>5, <2>1, <2>2, EmitsOK DEF Hooking, Locked
<1>6. CASE j.op = "load" /\ ~Future(j.guidance)
    <2> DEFINE k == [j EXCEPT !.pc = "lock", !.op = "clear", !.guidance = NoGuidance]
    <2>1. j.event = "resume"
        BY <1>1, <1>6 DEF JobOK
    <2>2. Continued(p) = k
        BY <1>6, <2>1 DEF Continued
    <2>3. /\ k \in Jobs /\ k.pc = "lock" /\ k.op = "clear" /\ k.event = "resume"
          /\ k.session = j.session /\ k.result = j.result /\ k.guidance = NoGuidance
        BY <1>1, <2>1, IdleOK DEF Jobs, Labels, Operations, Idle
    <2>4. JobOK(k)
        BY <1>1, <1>2, <2>1, <2>3 DEF JobOK, Hooking, Locked, Inspecting
    <2> QED BY <1>2, <1>6, <2>1, <2>2, <2>3, <2>4 DEF Locked
<1>7. CASE j.event = "task" /\ j.op = "clear"
    <2> DEFINE k == [j EXCEPT !.pc = "invoke"]
    <2>1. Continued(p) = k
        BY <1>7 DEF Continued
    <2>2. /\ k \in Jobs /\ k.pc = "invoke" /\ k.op = "clear" /\ k.event = "task"
          /\ k.session = j.session /\ k.result = j.result /\ k.guidance = j.guidance
        BY <1>1, <1>7 DEF Jobs, Labels
    <2>3. JobOK(k)
        BY <1>1, <1>2, <1>7, <2>2 DEF JobOK, Hooking, Locked, Inspecting
    <2> QED BY <1>2, <1>7, <2>1, <2>2, <2>3 DEF Locked, Same
<1>8. CASE /\ j.event # "delete" /\ j.op \notin {"save", "load"}
           /\ ~(j.event = "task" /\ j.op = "clear")
    <2>1. Continued(p) = Done("fallback")
        BY <1>8 DEF Continued
    <2> QED BY <2>1, DoneOK DEF Results, Locked
<1> QED BY <1>3, <1>4, <1>5, <1>6, <1>7, <1>8

-----------------------------------------------------------------------------
(* What each action does, and that jobs stay well-formed and operations exclude each other *)

\* A step that leaves the directory alone, or takes no part in the lock.
LEMMA BecomesKeeps ==
    ASSUME CacheInv, NEW p \in Procs, NEW j, Becomes(p, j), JobOK(j),
           now' \in 0..MaxTime, tasks' \in [Sessions -> 0..MaxTask],
           told' \in [Sessions -> 0..MaxTask], spent' \in [Incidents -> Nat],
           j.pc \in Locked => HoldsLock(p)
    PROVE  CacheInv' /\ Frame(p, j) /\ UNCHANGED root
<1>1. j \in Jobs /\ TypeOK
    BY DEF JobOK, CacheInv
<1>2. Frame(p, j) /\ UNCHANGED root
    BY <1>1, BecomesFrame
<1>3. root' \in Roots /\ (j.pc \in Locked => LockHeld)
    BY <1>1, <1>2 DEF TypeOK, CacheInv, LockExclusive
<1>4. (j.pc \in Locked => "lock" \in root'.marks) /\ (LockHeld => "lock" \in root'.marks)
    BY <1>2, <1>3 DEF LockHeld
<1> QED BY <1>2, <1>3, <1>4, CacheStep

\* A step of the holder of the lock.
LEMMA ChangesKeeps ==
    ASSUME CacheInv, NEW p \in Procs, NEW j, NEW r \in Roots, Changes(p, j, r), JobOK(j),
           now' \in 0..MaxTime, tasks' \in [Sessions -> 0..MaxTask],
           told' \in [Sessions -> 0..MaxTask], spent' \in [Incidents -> Nat],
           HoldsLock(p), j.pc \in Locked => "lock" \in r.marks
    PROVE  CacheInv' /\ Frame(p, j) /\ root' = r
<1>1. j \in Jobs /\ TypeOK
    BY DEF JobOK, CacheInv
<1>2. Frame(p, j) /\ root' = r
    BY <1>1, ChangesFrame
<1> QED BY <1>2, CacheStep

\* The types, as the leaves of the proofs need them.
LEMMA Typed ==
    ASSUME CacheInv
    PROVE  /\ now \in 0..MaxTime /\ tasks \in [Sessions -> 0..MaxTask]
           /\ told \in [Sessions -> 0..MaxTask] /\ spent \in [Incidents -> Nat]
           /\ root \in Roots /\ job \in [Procs -> Jobs]
           /\ MaxTask \in Nat /\ MaxTime \in Nat /\ Lifetime \in Nat /\ NoGuidance \in Guidance
BY CacheAssumption DEF CacheInv, TypeOK, NoGuidance, Guidance

\* A call starts a run.
Starts(p) ==
    /\ At(p, "idle") /\ Frame(p, job'[p]) /\ UNCHANGED <<root, now, told>>
    /\ job'[p].result = "none" /\ job'[p].seen = {}

\* A hook of a session starts with its first cache operation.
StartsHook(p, event, op, s) ==
    /\ Starts(p) /\ Deliverable(s)
    /\ job'[p].pc = "lock" /\ job'[p].event = event /\ job'[p].op = op /\ job'[p].session = s

\* A started hook is well-formed, and holds nothing of an earlier run.
LEMMA HookSuffices ==
    ASSUME CacheInv, NEW p \in Procs, NEW event \in Hooking, NEW op \in {"clear", "load"},
           NEW s \in Sessions, NEW g \in Guidance, op = "load" => event = "resume",
           event = "task" => g.task \in 1..MaxTask,
           Becomes(p, Started(p, event, op, "lock", s, g)), At(p, "idle"), Deliverable(s),
           UNCHANGED <<now, told, spent>>, tasks' \in [Sessions -> 0..MaxTask]
    PROVE  CacheInv' /\ StartsHook(p, event, op, s) /\ job'[p].guidance = g
<1> DEFINE j == Started(p, event, op, "lock", s, g)
<1>0. event \in Events /\ op \in Operations /\ "lock" \in Labels
    BY DEF Events, Operations, Labels, Hooking
<1>1. /\ j \in Jobs /\ j.pc = "lock" /\ j.event = event /\ j.op = op /\ j.session = s
      /\ j.guidance = g /\ j.result = "none" /\ j.seen = {}
    BY <1>0, IdleOK DEF Started, Jobs, Idle
<1> HIDE DEF j
<1>2. JobOK(j)
    BY <1>1 DEF JobOK, Hooking, Locked, Inspecting
<1>3. Becomes(p, j)
    BY DEF j
<1>4. CacheInv' /\ Frame(p, j) /\ UNCHANGED root
    BY <1>1, <1>2, <1>3, Typed, BecomesKeeps DEF Locked
<1>5. job'[p] = j
    BY <1>4 DEF Frame
<1> QED BY <1>1, <1>4, <1>5 DEF StartsHook, Starts

LEMMA SessionStartStep ==
    ASSUME CacheInv, NEW p \in Procs, NEW s \in Sessions, SessionStart(p, s)
    PROVE  /\ CacheInv' /\ StartsHook(p, "start", "clear", s) /\ UNCHANGED tasks
           /\ job'[p].guidance = NoGuidance
<1>1. /\ At(p, "idle") /\ Deliverable(s) /\ UNCHANGED <<now, tasks, told, spent>>
      /\ Becomes(p, Started(p, "start", "clear", "lock", s, NoGuidance))
    BY DEF SessionStart, Plain, Quiet, Calm
<1>2. NoGuidance \in Guidance /\ tasks' \in [Sessions -> 0..MaxTask]
    BY <1>1, Typed
<1> QED BY <1>1, <1>2, HookSuffices DEF Hooking

LEMMA SessionResumeStep ==
    ASSUME CacheInv, NEW p \in Procs, NEW s \in Sessions, SessionResume(p, s)
    PROVE  /\ CacheInv' /\ StartsHook(p, "resume", "load", s) /\ UNCHANGED tasks
           /\ job'[p].guidance = NoGuidance
<1>1. /\ At(p, "idle") /\ Deliverable(s) /\ UNCHANGED <<now, tasks, told, spent>>
      /\ Becomes(p, Started(p, "resume", "load", "lock", s, NoGuidance))
    BY DEF SessionResume, Plain, Quiet, Calm
<1>2. NoGuidance \in Guidance /\ tasks' \in [Sessions -> 0..MaxTask]
    BY <1>1, Typed
<1> QED BY <1>1, <1>2, HookSuffices DEF Hooking

LEMMA UserPromptSubmitStep ==
    ASSUME CacheInv, NEW p \in Procs, NEW s \in Sessions, UserPromptSubmit(p, s)
    PROVE  /\ CacheInv' /\ StartsHook(p, "task", "clear", s)
           /\ tasks' = [tasks EXCEPT ![s] = @ + 1] /\ job'[p].guidance.task = tasks'[s]
<1> DEFINE g == [task |-> tasks[s] + 1, expires |-> 0]
<1>1. /\ tasks[s] + 1 \in 1..MaxTask /\ tasks' \in [Sessions -> 0..MaxTask]
      /\ tasks' = [tasks EXCEPT ![s] = @ + 1] /\ tasks'[s] = tasks[s] + 1
    BY Typed DEF UserPromptSubmit
<1>2. g \in Guidance /\ g.task = tasks[s] + 1
    BY <1>1, Typed DEF Guidance
<1> HIDE DEF g
<1>3. /\ Becomes(p, Started(p, "task", "clear", "lock", s, g)) /\ UNCHANGED <<now, told, spent>>
      /\ At(p, "idle") /\ Deliverable(s)
    BY DEF UserPromptSubmit, Calm, g
<1>4. CacheInv' /\ StartsHook(p, "task", "clear", s) /\ job'[p].guidance = g
    BY <1>1, <1>2, <1>3, HookSuffices DEF Hooking
<1> QED BY <1>1, <1>2, <1>4

LEMMA ClearAllStep ==
    ASSUME CacheInv, NEW p \in Procs, ClearAll(p)
    PROVE  /\ CacheInv' /\ Starts(p) /\ UNCHANGED tasks
           /\ job'[p].pc = "lock" /\ job'[p].event = "delete"
<1> DEFINE j == Started(p, "delete", "delete", "lock", NoSession, NoGuidance)
<1>1. /\ j \in Jobs /\ j.pc = "lock" /\ j.event = "delete" /\ j.op = "delete" /\ j.result = "none"
      /\ j.seen = {}
    <2>1. "delete" \in Events /\ "delete" \in Operations /\ "lock" \in Labels
        BY DEF Events, Operations, Labels
    <2> QED BY <2>1, Typed, IdleOK DEF Started, Jobs, Idle
<1>2. At(p, "idle") /\ Becomes(p, j) /\ UNCHANGED <<now, tasks, told, spent>>
    BY DEF ClearAll, Plain, Quiet, Calm
<1> HIDE DEF j
<1>3. JobOK(j)
    BY <1>1 DEF JobOK, Hooking, Locked, Inspecting
<1>4. CacheInv' /\ Frame(p, j) /\ UNCHANGED root
    BY <1>1, <1>2, <1>3, Typed, BecomesKeeps DEF Locked
<1> QED BY <1>1, <1>2, <1>4 DEF Starts, Frame

LEMMA InspectStep ==
    ASSUME CacheInv, NEW p \in Procs, Inspect(p)
    PROVE  /\ CacheInv' /\ Starts(p) /\ UNCHANGED tasks
           /\ job'[p].pc = "stamp" /\ job'[p].event = "inspect"
<1> DEFINE j == Started(p, "inspect", "none", "stamp", NoSession, NoGuidance)
<1>1. /\ j \in Jobs /\ j.pc = "stamp" /\ j.event = "inspect" /\ j.op = "none" /\ j.result = "none"
      /\ j.seen = {}
    <2>1. "inspect" \in Events /\ "none" \in Operations /\ "stamp" \in Labels
        BY DEF Events, Operations, Labels, Inspecting
    <2> QED BY <2>1, Typed, IdleOK DEF Started, Jobs, Idle
<1>2. At(p, "idle") /\ Becomes(p, j) /\ UNCHANGED <<now, tasks, told, spent>>
    BY DEF Inspect, Plain, Quiet, Calm
<1> HIDE DEF j
<1>3. JobOK(j)
    BY <1>1 DEF JobOK, Hooking, Locked, Inspecting
<1>4. CacheInv' /\ Frame(p, j) /\ UNCHANGED root
    BY <1>1, <1>2, <1>3, Typed, BecomesKeeps DEF Locked
<1> QED BY <1>1, <1>2, <1>4 DEF Starts, Frame

\* What is told of a session stays within the bound on its tasks.
LEMMA EmitsTyped ==
    ASSUME CacheInv, NEW p \in Procs, NEW j, JobOK(j), Emits(p, j),
           j.result = "context" => job[p].session \in Sessions
    PROVE  /\ told' \in [Sessions -> 0..MaxTask]
           /\ j.result # "context" => UNCHANGED told
           /\ j.result = "context" =>
                 \A s \in Sessions : told'[s] = IF s # job[p].session THEN told[s]
                     ELSE IF told[s] <= j.guidance.task THEN j.guidance.task ELSE told[s]
<1>1. CASE j.result # "context"
    BY <1>1, Typed DEF Emits
<1>2. CASE j.result = "context"
    <2> DEFINE s == job[p].session
               pair == {told[s], j.guidance.task}
    <2>1. s \in Sessions /\ told[s] \in 0..MaxTask /\ j.guidance.task \in 0..MaxTask
        BY <1>2, Typed DEF JobOK, Jobs, Guidance
    <2>2. pair \subseteq 0..MaxTask /\ pair # {}
        BY <2>1
    <2>3. Max(pair) \in pair /\ \A n \in pair : n <= Max(pair)
        BY <2>2, Typed, MaxFacts
    <2>4. told' = [told EXCEPT ![s] = Max(pair)]
        BY <1>2 DEF Emits
    <2> DEFINE m == Max(pair)
    <2>5. m = IF told[s] <= j.guidance.task THEN j.guidance.task ELSE told[s]
        BY <2>1, <2>3
    <2>6. m \in 0..MaxTask
        BY <2>2, <2>3
    <2> HIDE DEF m
    <2> QED BY <1>2, <2>1, <2>4, <2>5, <2>6, Typed DEF m
<1> QED BY <1>1, <1>2

\* What a run that ends may tell of its session.
Tells(p) ==
    /\ UNCHANGED <<now, tasks>>
    /\ \A s \in Sessions :
          \/ told'[s] = told[s]
          \/ /\ s = job[p].session /\ told'[s] = job[p].guidance.task
             /\ job'[p].result = "context"

\* Only a run that emits its context tells of its session.
LEMMA TellsSuffices ==
    ASSUME CacheInv, NEW p \in Procs, NEW j, JobOK(j), Frame(p, j), Emits(p, j),
           UNCHANGED <<now, tasks>>,
           j.result = "context" => j = EmitsContext(p) /\ job[p].event \in Hooking
    PROVE  Tells(p) /\ told' \in [Sessions -> 0..MaxTask]
<1>1. j.result = "context" => job[p].session \in Sessions /\ j.guidance = job[p].guidance
    BY EmitsOK DEF CacheInv, JobOK
<1>2. /\ told' \in [Sessions -> 0..MaxTask]
      /\ j.result # "context" => UNCHANGED told
      /\ j.result = "context" =>
            \A s \in Sessions : told'[s] = IF s # job[p].session THEN told[s]
                ELSE IF told[s] <= j.guidance.task THEN j.guidance.task ELSE told[s]
    BY <1>1, EmitsTyped
<1> QED BY <1>1, <1>2 DEF Tells, Frame

\* Lock finds the lock held and ends its run, or takes it.
LEMMA LockStep ==
    ASSUME CacheInv, NEW p \in Procs, Lock(p)
    PROVE  /\ CacheInv' /\ At(p, "lock") /\ Tells(p)
           /\ \/ /\ Ends(p) /\ UNCHANGED root /\ job'[p].result # "deleted"
                 /\ job'[p].result = "context" => job[p].op = "save"
              \/ /\ Runs(p, "body") /\ ~LockHeld /\ UNCHANGED told
                 /\ root' = [root EXCEPT !.marks = @ \cup {"lock"}]
                 /\ job'[p].result = job[p].result
<1>0. At(p, "lock") /\ UNCHANGED <<now, tasks, spent>> /\ JobOK(job[p]) /\ job[p] \in Jobs
    BY DEF Lock, Calm, CacheInv, JobOK
<1>1. CASE LockHeld
    <2> DEFINE j == Thrown(p, "conflict")
    <2>1. /\ JobOK(j) /\ j.pc = "idle" /\ j.event = "none" /\ j.result # "deleted"
          /\ j.result = "context" => job[p].op = "save" /\ j = EmitsContext(p)
        BY ThrownOK
    <2> HIDE DEF j
    <2>3. Changes(p, j, root) /\ Emits(p, j)
        BY <1>1 DEF Lock, j
    <2>4. Frame(p, j) /\ UNCHANGED root
        BY <2>1, <2>3, ChangesFrame DEF CacheInv, JobOK
    <2>5. Tells(p) /\ told' \in [Sessions -> 0..MaxTask]
        BY <1>0, <2>1, <2>3, <2>4, TellsSuffices DEF JobOK, Hooking
    <2>6. CacheInv'
        BY <1>0, <2>1, <2>4, <2>5, Typed, CacheStep DEF Locked, LockHeld
    <2> QED BY <1>0, <2>1, <2>4, <2>5, <2>6 DEF Ends, Frame
<1>2. CASE ~LockHeld
    <2> DEFINE j == [job[p] EXCEPT !.pc = "body"]
               r == [root EXCEPT !.marks = @ \cup {"lock"}]
    <2>1. j \in Jobs /\ j.pc = "body" /\ Same(j, job[p]) /\ j.result = job[p].result
        BY <1>0 DEF Jobs, Labels, Locked, Same
    <2>2. JobOK(j)
        BY <1>0, <2>1 DEF JobOK, Same, At, Locked, Inspecting
    <2>3. r \in Roots /\ "lock" \in r.marks
        BY Typed DEF Roots
    <2>4. Changes(p, j, r) /\ UNCHANGED told
        BY <1>2 DEF Lock
    <2>5. root' = r
        BY <2>4 DEF Changes
    <2> HIDE DEF j, r
    <2>6. Frame(p, j)
        BY <2>1, <2>4, ChangesFrame DEF CacheInv
    <2>7. CacheInv'
        BY <1>0, <1>2, <2>2, <2>3, <2>4, <2>5, <2>6, Typed, CacheStep
    <2>8. Tells(p)
        BY <1>0, <2>4 DEF Tells
    <2> QED BY <1>0, <1>2, <2>1, <2>4, <2>5, <2>6, <2>7, <2>8 DEF Runs, Frame, r
<1> QED BY <1>1, <1>2

\* Release ends the run, or goes on with the next operation of its hook.
LEMMA ReleaseStep ==
    ASSUME CacheInv, NEW p \in Procs, Release(p)
    PROVE  /\ CacheInv' /\ At(p, "release") /\ Tells(p)
           /\ \/ /\ Ends(p) /\ UNCHANGED root /\ job'[p].result # "deleted"
                 /\ job'[p].result = "context" => job[p].op = "save"
              \/ /\ root' = [root EXCEPT !.marks = @ \ {"lock"}]
                 /\ \/ /\ Ends(p)
                       /\ job'[p].result = "deleted" =>
                             job[p].op = "delete" /\ job[p].result # "incomplete"
                       /\ job'[p].result = "context" =>
                             \/ job[p].op = "save"
                             \/ /\ job[p].op = "load" /\ job[p].result # "incomplete"
                                /\ job[p].guidance # NoGuidance
                    \/ /\ Runs(p, "invoke") /\ job[p].event = "task" /\ job[p].op = "clear"
                       /\ job[p].result # "incomplete"
                    \/ /\ Frame(p, job'[p]) /\ job'[p].pc = "lock" /\ job'[p].op = "clear"
                       /\ job'[p].event = "resume" /\ job[p].event = "resume"
                       /\ job'[p].session = job[p].session /\ job'[p].guidance = NoGuidance
<1>0. /\ At(p, "release") /\ UNCHANGED <<now, tasks>> /\ JobOK(job[p]) /\ job[p] \in Jobs
      /\ HoldsLock(p)
    BY DEF Release, CacheInv, JobOK, At, HoldsLock, Locked
<1>1. job[p].op \in {"load", "save"} => job[p].event \in Hooking
    BY <1>0 DEF JobOK
<1> DEFINE thrown == Thrown(p, "incomplete")
           continued == Continued(p)
           freed == [root EXCEPT !.marks = @ \ {"lock"}]
<1>2. /\ JobOK(thrown) /\ thrown.pc = "idle" /\ thrown.event = "none" /\ thrown.result # "deleted"
      /\ thrown.result = "context" => job[p].op = "save" /\ thrown = EmitsContext(p)
    BY ThrownOK
<1>3. freed \in Roots
    BY Typed DEF Roots
<1>4. CASE Becomes(p, thrown) /\ Emits(p, thrown) /\ Incident("fault")
    <2> HIDE DEF thrown
    <2>1. Frame(p, thrown) /\ UNCHANGED root
        BY <1>2, <1>4, BecomesFrame DEF CacheInv, JobOK
    <2>2. Tells(p) /\ told' \in [Sessions -> 0..MaxTask]
        BY <1>0, <1>1, <1>2, <1>4, <2>1, TellsSuffices
    <2>3. spent' \in [Incidents -> Nat]
        BY <1>4, Typed DEF Incident, Incidents
    <2>4. CacheInv'
        BY <1>0, <1>2, <1>4, <2>2, <2>3, Typed, BecomesKeeps DEF Locked
    <2> QED BY <1>0, <1>2, <2>1, <2>2, <2>4 DEF Ends, Frame
<1>5. CASE /\ job[p].result = "incomplete" /\ Changes(p, thrown, freed)
           /\ Emits(p, thrown) /\ Calm
    <2> HIDE DEF thrown
    <2>1. Frame(p, thrown) /\ root' = freed
        BY <1>2, <1>5, ChangesFrame DEF CacheInv, JobOK
    <2>2. Tells(p) /\ told' \in [Sessions -> 0..MaxTask]
        BY <1>0, <1>1, <1>2, <1>5, <2>1, TellsSuffices
    <2> HIDE DEF freed
    <2>3. CacheInv'
        BY <1>0, <1>2, <1>3, <1>5, <2>2, Typed, ChangesKeeps DEF Locked, Calm
    <2> QED BY <1>0, <1>2, <2>1, <2>2, <2>3 DEF Ends, Frame, freed
<1>6. CASE /\ job[p].result # "incomplete" /\ Changes(p, continued, freed)
           /\ Emits(p, continued) /\ Calm
    <2>1. /\ JobOK(continued) /\ continued.pc \notin Locked
          /\ continued.result = "deleted" => job[p].op = "delete"
          /\ continued.result = "context" =>
                /\ continued = EmitsContext(p)
                /\ job[p].op = "save" \/ (job[p].op = "load" /\ job[p].guidance # NoGuidance)
          /\ \/ continued.pc = "idle" /\ continued.event = "none"
             \/ /\ continued.pc = "invoke" /\ Same(continued, job[p])
                /\ job[p].event = "task" /\ job[p].op = "clear"
             \/ /\ continued.pc = "lock" /\ continued.op = "clear" /\ job[p].event = "resume"
                /\ continued.event = "resume" /\ continued.session = job[p].session
                /\ continued.guidance = NoGuidance
        BY <1>0, ContinuedOK DEF Future
    <2> HIDE DEF continued
    <2>2. Frame(p, continued) /\ root' = freed
        BY <1>6, <2>1, ChangesFrame DEF CacheInv, JobOK
    <2>3. Tells(p) /\ told' \in [Sessions -> 0..MaxTask]
        BY <1>0, <1>1, <1>6, <2>1, <2>2, TellsSuffices
    <2> HIDE DEF freed
    <2>4. CacheInv'
        BY <1>0, <1>3, <1>6, <2>1, <2>3, Typed, ChangesKeeps DEF Calm
    <2>5. Frame(p, job'[p]) /\ job'[p] = continued
        BY <2>2 DEF Frame
    <2> QED BY <1>0, <1>6, <2>1, <2>2, <2>3, <2>4, <2>5 DEF Ends, Runs, freed
<1> QED BY <1>4, <1>5, <1>6 DEF Release

\* A step of a cache operation under the lock.
Operates(p) ==
    /\ HoldsLock(p) /\ Frame(p, job'[p]) /\ UNCHANGED <<now, tasks, told>>
    /\ job'[p].event = job[p].event /\ job'[p].op = job[p].op
    /\ job'[p].session = job[p].session

\* A step of the holder that keeps its event, its operation and its session.
LEMMA OperatesSuffices ==
    ASSUME CacheInv, NEW p \in Procs, NEW j \in Jobs, NEW r \in Roots,
           (Becomes(p, j) /\ r = root) \/ Changes(p, j, r), Quiet, spent' \in [Incidents -> Nat],
           HoldsLock(p), j.pc \in Locked, root.marks \subseteq r.marks,
           j.event = job[p].event, j.op = job[p].op, j.session = job[p].session,
           j.op # "load" => j.guidance = job[p].guidance,
           j.pc = "rename" => j.op = "save", j.pc \in {"list", "sweep", "verify"} => j.op = "delete",
           j.result = job[p].result \/ j.result = "incomplete"
    PROVE  CacheInv' /\ Operates(p) /\ job'[p] = j /\ root' = r
<1>1. job[p] \in Jobs /\ JobOK(job[p]) /\ job[p].pc \in Locked /\ LockHeld
    BY DEF CacheInv, JobOK, HoldsLock, LockExclusive
<1>2. job[p].result \notin {"context", "deleted", "ready"} /\ job[p].op # "none"
    BY <1>1 DEF JobOK, Locked
<1>3. JobOK(j)
    <2>1. j.event = "task" => j.op # "load"
        BY <1>1 DEF JobOK
    <2>2. j.pc \notin {"idle", "lock", "invoke"} /\ j.pc \notin Inspecting
        BY DEF Locked, Inspecting
    <2> QED BY <1>1, <1>2, <2>1, <2>2 DEF JobOK
<1>4. Frame(p, j) /\ root' = r
    BY BecomesFrame, ChangesFrame DEF CacheInv
<1>5. now' \in 0..MaxTime /\ tasks' \in [Sessions -> 0..MaxTask] /\ told' \in [Sessions -> 0..MaxTask]
    BY Typed DEF Quiet
<1>6. "lock" \in r.marks
    BY <1>1 DEF LockHeld
<1>7. CacheInv'
    BY <1>3, <1>4, <1>5, <1>6, CacheStep
<1> QED BY <1>4, <1>7 DEF Operates, Frame, Quiet

LEMMA FaultCounted ==
    ASSUME CacheInv, NEW kind \in Incidents, Incident(kind)
    PROVE  spent' \in [Incidents -> Nat]
BY Typed DEF Incident

LEMMA LoadStep ==
    ASSUME CacheInv, NEW p \in Procs, Load(p)
    PROVE  /\ CacheInv' /\ At(p, "body") /\ job[p].op = "load"
           /\ Operates(p) /\ UNCHANGED root /\ job'[p].pc = "release"
           /\ job'[p].guidance = IF Deleted THEN NoGuidance ELSE root.entries[job[p].session]
<1> DEFINE g == IF Deleted THEN NoGuidance ELSE root.entries[job[p].session]
           j == [job[p] EXCEPT !.pc = "release", !.guidance = g]
<1>1. job[p] \in Jobs /\ JobOK(job[p]) /\ HoldsLock(p) /\ root \in Roots
    BY Typed DEF Load, At, HoldsLock, Locked, CacheInv, JobOK
<1>2. At(p, "body") /\ job[p].op = "load" /\ Becomes(p, j) /\ Quiet /\ UNCHANGED spent
    BY DEF Load, Plain, Calm
<1>3. job[p].session \in Sessions
    BY <1>1, <1>2 DEF JobOK
<1>4. g \in Guidance
    BY <1>3, Typed DEF Roots
<1> HIDE DEF g
<1>5. /\ j \in Jobs /\ j.pc = "release" /\ j.event = job[p].event /\ j.op = job[p].op
      /\ j.session = job[p].session /\ j.guidance = g /\ j.result = job[p].result
    BY <1>1, <1>4 DEF Jobs, Labels, Locked
<1>6. j.pc \in Locked
    BY <1>5 DEF Locked
<1> HIDE DEF j
<1>7. CacheInv' /\ Operates(p) /\ job'[p] = j /\ root' = root
    BY <1>1, <1>2, <1>5, <1>6, Typed, OperatesSuffices
<1> QED BY <1>2, <1>5, <1>7 DEF g

\* Steps that only go to another label, or fail.
LEMMA GoesOn ==
    ASSUME CacheInv, NEW p \in Procs, HoldsLock(p), NEW label \in Locked, NEW r \in Roots,
           NEW j \in {[job[p] EXCEPT !.pc = label], Fails(job[p])},
           (Becomes(p, j) /\ r = root) \/ Changes(p, j, r), Quiet, spent' \in [Incidents -> Nat],
           root.marks \subseteq r.marks,
           label = "rename" => job[p].op = "save",
           label \in {"list", "sweep", "verify"} => job[p].op = "delete"
    PROVE  /\ CacheInv' /\ Operates(p) /\ root' = r /\ job'[p].guidance = job[p].guidance
           /\ j = [job[p] EXCEPT !.pc = label] =>
                 job'[p].pc = label /\ job'[p].result = job[p].result
           /\ j = Fails(job[p]) => job'[p].pc = "release" /\ job'[p].result = "incomplete"
<1>1. job[p] \in Jobs
    BY DEF CacheInv, JobOK
<1>2. CASE j = [job[p] EXCEPT !.pc = label]
    <2>1. /\ j \in Jobs /\ j.pc = label /\ j.event = job[p].event /\ j.op = job[p].op
          /\ j.session = job[p].session /\ j.guidance = job[p].guidance
          /\ j.result = job[p].result
        BY <1>1, <1>2 DEF Jobs, Labels
    <2>2. j # Fails(job[p]) \/ (label = "release" /\ j.result = "incomplete")
        BY <1>1, <2>1 DEF Fails, Jobs, Results
    <2>3. CacheInv' /\ Operates(p) /\ job'[p] = j /\ root' = r
        BY <2>1, OperatesSuffices
    <2> QED BY <2>1, <2>2, <2>3
<1>3. CASE j = Fails(job[p])
    <2>1. /\ j \in Jobs /\ j.pc = "release" /\ j.event = job[p].event /\ j.op = job[p].op
          /\ j.session = job[p].session /\ j.guidance = job[p].guidance
          /\ j.result = "incomplete"
        BY <1>1, <1>3 DEF Jobs, Labels, Fails, Locked, Results
    <2>2. j # [job[p] EXCEPT !.pc = label] \/ (label = "release" /\ j.result = job[p].result)
        BY <1>1, <2>1 DEF Jobs, Labels
    <2>3. j.pc \in Locked
        BY <2>1 DEF Locked
    <2>4. CacheInv' /\ Operates(p) /\ job'[p] = j /\ root' = r
        BY <2>1, <2>3, OperatesSuffices
    <2> QED BY <2>1, <2>2, <2>4
<1> QED BY <1>2, <1>3

LEMMA ClearStep ==
    ASSUME CacheInv, NEW p \in Procs, Clear(p)
    PROVE  /\ CacheInv' /\ At(p, "body") /\ job[p].op = "clear"
           /\ Operates(p) /\ job'[p].pc = "release" /\ job'[p].guidance = job[p].guidance
           /\ \/ /\ UNCHANGED root
                 /\ Deleted \/ root.entries[job[p].session] = NoGuidance
              \/ root' = [root EXCEPT !.entries[job[p].session] = NoGuidance]
<1> DEFINE j == [job[p] EXCEPT !.pc = "release"]
           r == [root EXCEPT !.entries[job[p].session] = NoGuidance]
<1>1. /\ At(p, "body") /\ job[p].op = "clear" /\ HoldsLock(p) /\ Quiet /\ UNCHANGED spent
      /\ root \in Roots /\ "release" \in Locked
    BY Typed DEF Clear, At, HoldsLock, Locked, Plain, Calm
<1>2. r \in Roots /\ root.marks \subseteq r.marks /\ root.marks \subseteq root.marks
    BY Typed DEF Roots
<1>3. spent' \in [Incidents -> Nat]
    BY <1>1, Typed
<1>4. CASE Deleted \/ root.entries[job[p].session] = NoGuidance
    <2>1. Becomes(p, j)
        BY <1>4 DEF Clear, Goto
    <2> HIDE DEF r
    <2> QED BY <1>1, <1>2, <1>3, <1>4, <2>1, GoesOn
<1>5. CASE ~(Deleted \/ root.entries[job[p].session] = NoGuidance)
    <2>1. Changes(p, j, r)
        BY <1>5 DEF Clear
    <2>2. root' = r
        BY <2>1 DEF Changes
    <2> HIDE DEF r
    <2>3. CacheInv' /\ Operates(p) /\ job'[p].pc = "release" /\ job'[p].guidance = job[p].guidance
        BY <1>1, <1>2, <1>3, <2>1, GoesOn
    <2> QED BY <1>1, <2>2, <2>3 DEF r
<1> QED BY <1>4, <1>5

LEMMA StageStep ==
    ASSUME CacheInv, NEW p \in Procs, Stage(p)
    PROVE  /\ CacheInv' /\ At(p, "body") /\ job[p].op = "save"
           /\ Operates(p) /\ job'[p].guidance = job[p].guidance
           /\ \/ Deleted /\ UNCHANGED root /\ job'[p].pc = "release"
              \/ /\ ~Deleted /\ job'[p].pc = "rename"
                 /\ root' = [root EXCEPT !.temps = @ \cup {Staged(p)}]
<1> DEFINE j == [job[p] EXCEPT !.pc = "rename"]
           r == [root EXCEPT !.temps = @ \cup {Staged(p)}]
<1>1. /\ At(p, "body") /\ job[p].op = "save" /\ HoldsLock(p) /\ Quiet /\ UNCHANGED spent
      /\ root \in Roots /\ "rename" \in Locked
    BY Typed DEF Stage, At, HoldsLock, Locked, Plain, Calm
<1>2. Staged(p) \in Sessions \X (1..MaxTask)
    BY <1>1 DEF Staged, CacheInv, JobOK, Hooking
<1>3. r \in Roots /\ root.marks \subseteq r.marks /\ root.marks \subseteq root.marks
    BY <1>2, Typed DEF Roots
<1>4. spent' \in [Incidents -> Nat]
    BY <1>1, Typed
<1>5. CASE Deleted
    <2>1. Becomes(p, Fails(job[p]))
        BY <1>5 DEF Stage
    <2> HIDE DEF r
    <2> QED BY <1>1, <1>3, <1>4, <1>5, <2>1, GoesOn
<1>6. CASE ~Deleted
    <2>1. Changes(p, j, r)
        BY <1>6 DEF Stage
    <2>2. root' = r
        BY <2>1 DEF Changes
    <2> HIDE DEF r
    <2>3. CacheInv' /\ Operates(p) /\ job'[p].pc = "rename" /\ job'[p].guidance = job[p].guidance
        BY <1>1, <1>3, <1>4, <2>1, GoesOn
    <2> QED BY <1>1, <1>6, <2>2, <2>3 DEF r
<1> QED BY <1>5, <1>6

\* What is renamed is guidance of the session's task.
LEMMA RenamedOK ==
    ASSUME CacheInv, NEW p \in Procs, At(p, "rename")
    PROVE  /\ Renamed(p) \in Roots /\ job[p].op = "save" /\ job[p].session \in Sessions
           /\ Renamed(p).marks = root.marks /\ Renamed(p).temps \subseteq root.temps
           /\ Renamed(p).entries = [root.entries EXCEPT ![job[p].session] = job[p].guidance]
<1>1. job[p] \in Jobs /\ JobOK(job[p]) /\ root \in Roots
    BY Typed DEF CacheInv, JobOK
<1>2. job[p].op = "save" /\ job[p].session \in Sessions /\ job[p].guidance \in Guidance
    BY <1>1 DEF JobOK, At, Hooking, Jobs
<1> QED BY <1>1, <1>2 DEF Renamed, Roots

LEMMA RenameStep ==
    ASSUME CacheInv, NEW p \in Procs, Rename(p)
    PROVE  /\ CacheInv' /\ At(p, "rename") /\ job[p].op = "save"
           /\ Operates(p) /\ job'[p].pc = "release" /\ job'[p].guidance = job[p].guidance
           /\ root' = Renamed(p)
<1>1. /\ At(p, "rename") /\ HoldsLock(p) /\ Quiet /\ UNCHANGED spent /\ "release" \in Locked
      /\ Changes(p, [job[p] EXCEPT !.pc = "release"], Renamed(p))
    BY DEF Rename, At, HoldsLock, Locked, Plain, Calm
<1>2. Renamed(p) \in Roots /\ root.marks \subseteq Renamed(p).marks /\ job[p].op = "save"
    BY <1>1, RenamedOK
<1>3. spent' \in [Incidents -> Nat]
    BY <1>1, Typed
<1> QED BY <1>1, <1>2, <1>3, GoesOn

LEMMA RaiseBarrierStep ==
    ASSUME CacheInv, NEW p \in Procs, RaiseBarrier(p)
    PROVE  /\ CacheInv' /\ At(p, "body") /\ job[p].op = "delete"
           /\ Operates(p) /\ job'[p].pc = "list"
           /\ \/ Deleted /\ UNCHANGED root
              \/ root' = [root EXCEPT !.marks = @ \cup {"deleted"}]
<1> DEFINE j == [job[p] EXCEPT !.pc = "list"]
           r == [root EXCEPT !.marks = @ \cup {"deleted"}]
<1>1. /\ At(p, "body") /\ job[p].op = "delete" /\ HoldsLock(p) /\ Quiet /\ UNCHANGED spent
      /\ root \in Roots /\ "list" \in Locked
    BY Typed DEF RaiseBarrier, At, HoldsLock, Locked, Plain, Calm
<1>2. r \in Roots /\ root.marks \subseteq r.marks /\ root.marks \subseteq root.marks
    BY Typed DEF Roots
<1>3. spent' \in [Incidents -> Nat]
    BY <1>1, Typed
<1>4. CASE Deleted
    <2>1. Becomes(p, j)
        BY <1>4 DEF RaiseBarrier, Goto
    <2> HIDE DEF r
    <2> QED BY <1>1, <1>2, <1>3, <1>4, <2>1, GoesOn
<1>5. CASE ~Deleted
    <2>1. Changes(p, j, r)
        BY <1>5 DEF RaiseBarrier
    <2>2. root' = r
        BY <2>1 DEF Changes
    <2> HIDE DEF r
    <2>3. CacheInv' /\ Operates(p) /\ job'[p].pc = "list"
        BY <1>1, <1>2, <1>3, <2>1, GoesOn
    <2> QED BY <1>1, <2>2, <2>3 DEF r
<1> QED BY <1>4, <1>5

\* A removal of a staging file or of an entry, or nothing.
Removes ==
    /\ root'.marks = root.marks /\ root'.temps \subseteq root.temps
    /\ \A s \in Sessions : root'.entries[s] \in {root.entries[s], NoGuidance}

LEMMA ListStep ==
    ASSUME CacheInv, NEW p \in Procs, List(p)
    PROVE  /\ CacheInv' /\ At(p, "list") /\ job[p].op = "delete" /\ Operates(p) /\ UNCHANGED root
           /\ \/ job'[p].pc = "sweep"
              \/ job'[p].pc = "release" /\ job'[p].result = "incomplete"
<1> DEFINE j == [job[p] EXCEPT !.pc = "sweep", !.names = Entries]
<1>1. /\ At(p, "list") /\ HoldsLock(p) /\ Quiet /\ UNCHANGED spent /\ job[p].op = "delete"
      /\ root \in Roots /\ job[p] \in Jobs /\ "release" \in Locked
    BY Typed DEF List, At, HoldsLock, Locked, Plain, Calm, CacheInv, JobOK
<1>2. spent' \in [Incidents -> Nat]
    BY <1>1, Typed
<1>3. CASE ScanFits
    <2>1. /\ j \in Jobs /\ j.pc = "sweep" /\ j.event = job[p].event /\ j.op = job[p].op
          /\ j.session = job[p].session /\ j.guidance = job[p].guidance
          /\ j.result = job[p].result
        BY <1>1 DEF Jobs, Labels, Locked, Entries
    <2>2. j.pc \in Locked /\ Becomes(p, j)
        BY <1>3, <2>1 DEF Locked, List
    <2> HIDE DEF j
    <2>3. CacheInv' /\ Operates(p) /\ job'[p] = j /\ root' = root
        BY <1>1, <1>2, <2>1, <2>2, OperatesSuffices
    <2> QED BY <1>1, <2>1, <2>3
<1>4. CASE ~ScanFits
    <2>1. Becomes(p, Fails(job[p]))
        BY <1>4 DEF List
    <2>2. CacheInv' /\ Operates(p) /\ root' = root /\ job'[p].pc = "release"
          /\ job'[p].result = "incomplete"
        BY <1>1, <1>2, <2>1, GoesOn
    <2> QED BY <1>1, <2>2
<1> QED BY <1>3, <1>4

LEMMA SweepStep ==
    ASSUME CacheInv, NEW p \in Procs, Sweep(p)
    PROVE  /\ CacheInv' /\ At(p, "sweep") /\ job[p].op = "delete" /\ Operates(p) /\ Removes
           /\ job'[p].pc \in {"sweep", "verify"}
<1>1. /\ At(p, "sweep") /\ HoldsLock(p) /\ Quiet /\ UNCHANGED spent /\ job[p].op = "delete"
      /\ root \in Roots /\ job[p] \in Jobs /\ "verify" \in Locked /\ "sweep" \in Locked
    BY Typed DEF Sweep, At, HoldsLock, Locked, Plain, Calm, CacheInv, JobOK
<1>2. spent' \in [Incidents -> Nat]
    BY <1>1, Typed
<1>3. ASSUME NEW t \in root.temps, Changes(p, job[p], [root EXCEPT !.temps = @ \ {t}])
      PROVE  CacheInv' /\ Operates(p) /\ Removes /\ job'[p].pc = "sweep"
    <2> DEFINE r == [root EXCEPT !.temps = @ \ {t}]
    <2>1. r \in Roots /\ r.marks = root.marks /\ r.temps \subseteq root.temps
          /\ r.entries = root.entries
        BY Typed DEF Roots
    <2>2. Changes(p, job[p], r)
        BY <1>3
    <2> HIDE DEF r
    <2>3. job[p].pc = "sweep"
        BY <1>1 DEF At
    <2>4. CacheInv' /\ Operates(p) /\ job'[p] = job[p] /\ root' = r
        BY <1>1, <1>2, <2>1, <2>2, <2>3, OperatesSuffices
    <2> QED BY <2>1, <2>3, <2>4 DEF Removes
<1>4. ASSUME NEW s \in job[p].names,
             Changes(p, [job[p] EXCEPT !.names = @ \ {s}], [root EXCEPT !.entries[s] = NoGuidance])
      PROVE  CacheInv' /\ Operates(p) /\ Removes /\ job'[p].pc = "sweep"
    <2> DEFINE r == [root EXCEPT !.entries[s] = NoGuidance]
               j == [job[p] EXCEPT !.names = @ \ {s}]
    <2>1. /\ r \in Roots /\ r.marks = root.marks /\ r.temps = root.temps
          /\ \A q \in Sessions : r.entries[q] \in {root.entries[q], NoGuidance}
        BY Typed DEF Roots
    <2>2. /\ j \in Jobs /\ j.pc = "sweep" /\ j.event = job[p].event /\ j.op = job[p].op
          /\ j.session = job[p].session /\ j.guidance = job[p].guidance
          /\ j.result = job[p].result
        BY <1>1 DEF Jobs, At
    <2>3. Changes(p, j, r)
        BY <1>4
    <2> HIDE DEF r, j
    <2>4. CacheInv' /\ Operates(p) /\ job'[p] = j /\ root' = r
        BY <1>1, <1>2, <2>1, <2>2, <2>3, OperatesSuffices
    <2> QED BY <2>1, <2>2, <2>4 DEF Removes
<1>5. ASSUME Goto(p, "verify")
      PROVE  CacheInv' /\ Operates(p) /\ Removes /\ job'[p].pc = "verify"
    <2>1. CacheInv' /\ Operates(p) /\ job'[p].pc = "verify" /\ root' = root
        BY <1>1, <1>2, <1>5, GoesOn DEF Goto
    <2> QED BY <2>1 DEF Removes
<1> QED BY <1>1, <1>3, <1>4, <1>5 DEF Sweep

LEMMA VerifyStep ==
    ASSUME CacheInv, NEW p \in Procs, Verify(p)
    PROVE  /\ CacheInv' /\ At(p, "verify") /\ job[p].op = "delete" /\ Operates(p) /\ UNCHANGED root
           /\ job'[p].pc = "release"
           /\ job'[p].result = "incomplete" \/ (Deleted /\ Entries = {} /\ root.temps = {})
<1>1. /\ At(p, "verify") /\ HoldsLock(p) /\ Quiet /\ UNCHANGED spent /\ job[p].op = "delete"
      /\ root \in Roots /\ "release" \in Locked
    BY Typed DEF Verify, At, HoldsLock, Locked, Plain, Calm, CacheInv, JobOK
<1>2. spent' \in [Incidents -> Nat]
    BY <1>1, Typed
<1>3. CASE ScanFits /\ Entries = {} /\ root.temps = {} /\ Deleted
    <2>1. Becomes(p, [job[p] EXCEPT !.pc = "release"])
        BY <1>3 DEF Verify, Goto
    <2> QED BY <1>1, <1>2, <1>3, <2>1, GoesOn
<1>4. CASE ~(ScanFits /\ Entries = {} /\ root.temps = {} /\ Deleted)
    <2>1. Becomes(p, Fails(job[p]))
        BY <1>4 DEF Verify
    <2> QED BY <1>1, <1>2, <2>1, GoesOn
<1> QED BY <1>3, <1>4

LEMMA OperationFailsStep ==
    ASSUME CacheInv, NEW p \in Procs, OperationFails(p)
    PROVE  /\ CacheInv' /\ Operates(p) /\ UNCHANGED root /\ job'[p].guidance = job[p].guidance
           /\ job'[p].pc = "release" /\ job'[p].result = "incomplete"
<1>1. /\ HoldsLock(p) /\ Quiet /\ Incident("fault") /\ Becomes(p, Fails(job[p]))
      /\ root \in Roots /\ "release" \in Locked
    BY Typed DEF OperationFails, HoldsLock, Locked
<1>2. spent' \in [Incidents -> Nat]
    BY <1>1, FaultCounted DEF Incidents
<1> QED BY <1>1, <1>2, GoesOn

LEMMA SaveFailsStep ==
    ASSUME CacheInv, NEW p \in Procs, SaveFails(p)
    PROVE  /\ CacheInv' /\ At(p, "rename") /\ job[p].op = "save" /\ Operates(p)
           /\ job'[p].guidance = job[p].guidance
           /\ job'[p].pc = "release" /\ job'[p].result = "incomplete"
           /\ Removes \/ root' = Renamed(p)
<1>1. /\ At(p, "rename") /\ HoldsLock(p) /\ Quiet /\ Incident("fault") /\ root \in Roots
      /\ "release" \in Locked
    BY Typed DEF SaveFails, HoldsLock, Locked, At
<1>2. spent' \in [Incidents -> Nat]
    BY <1>1, FaultCounted DEF Incidents
<1> DEFINE kept == [root EXCEPT !.temps = @ \ {Staged(p)}]
<1>3. /\ kept \in Roots /\ kept.marks = root.marks /\ kept.temps \subseteq root.temps
      /\ kept.entries = root.entries
    BY <1>1 DEF Roots
<1> HIDE DEF kept
<1>4. job[p].op = "save" /\ Renamed(p) \in Roots /\ Renamed(p).marks = root.marks
    BY <1>1, RenamedOK
<1>5. PICK r \in {root, kept, Renamed(p)} : Changes(p, Fails(job[p]), r)
    BY DEF SaveFails, kept
<1>6. r \in Roots /\ r.marks = root.marks
    BY <1>1, <1>3, <1>4, <1>5
<1>7. CacheInv' /\ Operates(p) /\ root' = r /\ job'[p].guidance = job[p].guidance
      /\ job'[p].pc = "release" /\ job'[p].result = "incomplete"
    <2>1. root.marks \subseteq r.marks
        BY <1>6
    <2> HIDE DEF kept
    <2> QED BY <1>1, <1>2, <1>5, <1>6, <2>1, GoesOn
<1> QED BY <1>1, <1>3, <1>4, <1>5, <1>7 DEF Removes

\* The provider has answered, or has not.
LEMMA InvokeStep ==
    ASSUME CacheInv, NEW p \in Procs, Invoke(p)
    PROVE  /\ CacheInv' /\ At(p, "invoke") /\ job[p].event = "task" /\ UNCHANGED <<root, now, tasks, told>>
           /\ \/ Ends(p) /\ job'[p].result = "fallback"
              \/ /\ Frame(p, job'[p]) /\ job'[p].pc = "lock" /\ job'[p].op = "save"
                 /\ job'[p].event = "task" /\ job'[p].session = job[p].session
                 /\ job'[p].guidance.task = job[p].guidance.task
<1>1. /\ At(p, "invoke") /\ UNCHANGED <<now, tasks, told, spent>> /\ JobOK(job[p]) /\ job[p] \in Jobs
    BY DEF Invoke, Plain, Quiet, Calm, CacheInv, JobOK
<1>2. job[p].event = "task" /\ job[p].guidance.task \in 1..MaxTask /\ job[p].result \notin {"context", "deleted", "ready"}
      /\ job[p].session \in Sessions
    BY <1>1 DEF JobOK, At, Hooking
<1>3. CASE Return(p, "fallback")
    <2> DEFINE j == Done("fallback")
    <2>1. JobOK(j) /\ j.pc = "idle" /\ j.event = "none" /\ j.result = "fallback"
        BY DoneOK DEF Results
    <2>2. Becomes(p, j)
        BY <1>3 DEF Return
    <2> HIDE DEF j
    <2>3. CacheInv' /\ Frame(p, j) /\ UNCHANGED root
        BY <1>1, <2>1, <2>2, Typed, BecomesKeeps DEF Locked
    <2> QED BY <1>1, <1>2, <2>1, <2>3 DEF Ends, Frame
<1>4. ASSUME Becomes(p, [job[p] EXCEPT !.pc = "lock", !.op = "save", !.guidance.expires = now + Lifetime])
      PROVE  /\ CacheInv' /\ UNCHANGED root
             /\ Frame(p, job'[p]) /\ job'[p].pc = "lock" /\ job'[p].op = "save"
             /\ job'[p].event = "task" /\ job'[p].session = job[p].session
             /\ job'[p].guidance.task = job[p].guidance.task
    <2> DEFINE g == [job[p].guidance EXCEPT !.expires = now + Lifetime]
               j == [job[p] EXCEPT !.pc = "lock", !.op = "save", !.guidance = g]
    <2>1. job[p].guidance \in Guidance
        BY <1>1 DEF Jobs
    <2>2. now + Lifetime \in 0..(MaxTime + Lifetime)
        BY Typed
    <2>3. g \in Guidance /\ g.task = job[p].guidance.task
        BY <2>1, <2>2 DEF Guidance
    <2>4. [job[p] EXCEPT !.pc = "lock", !.op = "save", !.guidance.expires = now + Lifetime] = j
        OBVIOUS
    <2> HIDE DEF g
    <2>5. /\ j \in Jobs /\ j.pc = "lock" /\ j.op = "save" /\ j.event = "task" /\ j.guidance = g
          /\ j.session = job[p].session /\ j.result = job[p].result
        BY <1>1, <1>2, <2>3 DEF Jobs, Labels, Operations
    <2>6. Becomes(p, j)
        BY <1>4, <2>4
    <2> HIDE DEF j
    <2>7. JobOK(j)
        BY <1>2, <2>3, <2>5 DEF JobOK, Hooking, Locked, Inspecting
    <2>8. CacheInv' /\ Frame(p, j) /\ UNCHANGED root
        BY <1>1, <2>5, <2>6, <2>7, Typed, BecomesKeeps DEF Locked
    <2> QED BY <2>3, <2>5, <2>8 DEF Frame
<1> QED BY <1>1, <1>2, <1>3, <1>4 DEF Invoke

\* A step of an inspection: it changes nothing, and may end its run without a report.
Looks(p) ==
    /\ job[p].pc \in Inspecting /\ Frame(p, job'[p]) /\ UNCHANGED <<root, now, tasks, told>>
    /\ job'[p].pc = "idle" => job'[p].event = "none"
Reports(p) == job'[p].result \in {"ready", "deleted"}
Proceeds(p, label) ==
    /\ job'[p].pc = label /\ ~Reports(p) /\ job'[p].event = "inspect"
    /\ job'[p].barred = job[p].barred /\ job'[p].seen = job[p].seen
    /\ job'[p].changed = job[p].changed

\* A step of an inspection, which takes no lock and leaves the directory alone.
LEMMA LooksSuffices ==
    ASSUME CacheInv, NEW p \in Procs, job[p].pc \in Inspecting, NEW j, Becomes(p, j), Plain,
           JobOK(j), j.pc \notin Locked, j.pc = "idle" => j.event = "none"
    PROVE  CacheInv' /\ Looks(p) /\ job'[p] = j
<1>1. UNCHANGED <<now, tasks, told, spent>>
    BY DEF Plain, Quiet, Calm
<1>2. CacheInv' /\ Frame(p, j) /\ UNCHANGED root
    BY <1>1, Typed, BecomesKeeps
<1> QED BY <1>1, <1>2 DEF Looks, Frame

\* An inspection that gives up.
LEMMA GivesUp ==
    ASSUME CacheInv, NEW p \in Procs, job[p].pc \in Inspecting, Plain,
           NEW reason \in {"busy", "limit", "invalid", "unavailable"}, Return(p, reason)
    PROVE  CacheInv' /\ Looks(p) /\ job'[p].pc = "idle" /\ ~Reports(p)
<1> DEFINE j == Done(reason)
<1>1. JobOK(j) /\ j.pc = "idle" /\ j.event = "none" /\ j.result = reason
    BY DoneOK DEF Results
<1>2. Becomes(p, j)
    BY DEF Return
<1> HIDE DEF j
<1>3. CacheInv' /\ Looks(p) /\ job'[p] = j
    BY <1>1, <1>2, LooksSuffices DEF Locked
<1> QED BY <1>1, <1>3 DEF Reports

\* An inspection that goes on, with what it has noted.
LEMMA LooksOn ==
    ASSUME CacheInv, NEW p \in Procs, job[p].pc \in Inspecting, Plain, NEW j \in Jobs, Becomes(p, j),
           j.pc \in Inspecting, j.event = job[p].event, j.op = job[p].op,
           j.result = job[p].result
    PROVE  CacheInv' /\ Looks(p) /\ job'[p] = j /\ ~Reports(p) /\ job'[p].event = "inspect"
<1>1. JobOK(job[p]) /\ job[p].event = "inspect"
    BY DEF CacheInv, JobOK
<1>2. job[p].op \notin {"clear", "load", "save", "delete"}
    BY <1>1 DEF JobOK, Hooking
<1>3. job[p].result \notin {"context", "deleted", "ready"}
    BY <1>1 DEF JobOK, Inspecting
<1>4. JobOK(j) /\ j.pc \notin Locked /\ j.pc # "idle"
    BY <1>1, <1>2, <1>3 DEF JobOK, Hooking, Inspecting, Locked
<1>5. CacheInv' /\ Looks(p) /\ job'[p] = j
    BY <1>4, LooksSuffices
<1> QED BY <1>1, <1>3, <1>5 DEF Reports

LEMMA InspectRootStep ==
    ASSUME CacheInv, NEW p \in Procs, InspectRoot(p)
    PROVE  /\ CacheInv' /\ At(p, "stamp") /\ Looks(p)
           /\ job'[p].pc = "control" /\ ~Reports(p) /\ job'[p].seen = job[p].seen
<1> DEFINE j == [job[p] EXCEPT !.pc = "control", !.changed = FALSE]
<1>1. At(p, "stamp") /\ job[p].pc \in Inspecting /\ Plain /\ Becomes(p, j) /\ job[p] \in Jobs
    BY DEF InspectRoot, At, Inspecting, CacheInv, JobOK
<1>2. /\ j \in Jobs /\ j.pc = "control" /\ j.event = job[p].event /\ j.op = job[p].op
      /\ j.result = job[p].result /\ j.seen = job[p].seen
    BY <1>1 DEF Jobs, Labels, Inspecting
<1>3. j.pc \in Inspecting
    BY <1>2 DEF Inspecting
<1> HIDE DEF j
<1> QED BY <1>1, <1>2, <1>3, LooksOn

LEMMA InspectControlStep ==
    ASSUME CacheInv, NEW p \in Procs, InspectControl(p)
    PROVE  /\ CacheInv' /\ At(p, "control") /\ Looks(p) /\ ~Reports(p)
           /\ \/ job'[p].pc = "idle"
              \/ /\ job'[p].pc = "names" /\ ~LockHeld /\ job'[p].barred = Deleted
                 /\ job'[p].seen = job[p].seen
<1> DEFINE j == [job[p] EXCEPT !.pc = "names", !.barred = Deleted]
<1>1. At(p, "control") /\ job[p].pc \in Inspecting /\ Plain /\ job[p] \in Jobs
    BY DEF InspectControl, At, Inspecting, CacheInv, JobOK
<1>2. CASE LockHeld
    BY <1>1, <1>2, GivesUp DEF InspectControl
<1>3. CASE ~LockHeld
    <2> DEFINE b == Deleted
    <2>1. b \in BOOLEAN
        BY DEF Deleted
    <2> HIDE DEF b
    <2>2. /\ j \in Jobs /\ j.pc = "names" /\ j.event = job[p].event /\ j.op = job[p].op
          /\ j.result = job[p].result /\ j.seen = job[p].seen /\ j.barred = b
        BY <1>1, <2>1 DEF Jobs, Labels, Inspecting, b
    <2>3. j.pc \in Inspecting
        BY <2>2 DEF Inspecting
    <2>4. Becomes(p, j)
        BY <1>3 DEF InspectControl
    <2> HIDE DEF j
    <2> QED BY <1>1, <1>3, <2>2, <2>3, <2>4, LooksOn DEF b
<1> QED BY <1>2, <1>3

LEMMA InspectNamesStep ==
    ASSUME CacheInv, NEW p \in Procs, InspectNames(p)
    PROVE  /\ CacheInv' /\ At(p, "names") /\ Looks(p) /\ ~Reports(p)
           /\ \/ job'[p].pc = "idle"
              \/ /\ root.temps = {} /\ Proceeds(p, IF Entries = {} THEN "recontrol" ELSE "entries")
                 /\ job'[p].names = Entries /\ (job[p].barred => Entries = {})
<1> DEFINE label == IF Entries = {} THEN "recontrol" ELSE "entries"
           e == Entries
           j == [job[p] EXCEPT !.pc = label, !.names = e]
<1>1. At(p, "names") /\ job[p].pc \in Inspecting /\ Plain /\ job[p] \in Jobs
    BY DEF InspectNames, At, Inspecting, CacheInv, JobOK
<1>2. CASE ~ScanFits
    BY <1>1, <1>2, GivesUp DEF InspectNames
<1>3. CASE ScanFits /\ (root.temps # {} \/ (job[p].barred /\ Entries # {}))
    BY <1>1, <1>3, GivesUp DEF InspectNames
<1>4. CASE ScanFits /\ ~(root.temps # {} \/ (job[p].barred /\ Entries # {}))
    <2>1. e \in SUBSET Sessions
        BY DEF Entries
    <2>2. label \in Inspecting /\ label \in Labels
        BY DEF Inspecting, Labels
    <2>3. Becomes(p, j)
        BY <1>4 DEF InspectNames
    <2> HIDE DEF label, e
    <2>4. /\ j \in Jobs /\ j.pc = label /\ j.event = job[p].event /\ j.op = job[p].op
          /\ j.result = job[p].result /\ j.names = e /\ j.seen = job[p].seen
          /\ j.barred = job[p].barred /\ j.changed = job[p].changed
        BY <1>1, <2>1, <2>2 DEF Jobs
    <2> HIDE DEF j
    <2>5. CacheInv' /\ Looks(p) /\ job'[p] = j /\ ~Reports(p) /\ job'[p].event = "inspect"
        BY <1>1, <2>2, <2>3, <2>4, LooksOn
    <2> QED BY <1>1, <1>4, <2>4, <2>5 DEF Proceeds, label, e
<1> QED BY <1>2, <1>3, <1>4

LEMMA InspectEntryStep ==
    ASSUME CacheInv, NEW p \in Procs, InspectEntry(p)
    PROVE  /\ CacheInv' /\ At(p, "entries") /\ Looks(p) /\ ~Reports(p)
           /\ \/ job'[p].pc = "idle"
              \/ \E s \in job[p].names \cap Entries :
                    /\ job'[p].pc = IF job[p].names = {s} THEN "recontrol" ELSE "entries"
                    /\ job'[p].names = job[p].names \ {s} /\ job'[p].seen = job[p].seen \cup {s}
                    /\ job'[p].barred = job[p].barred /\ job'[p].changed = job[p].changed
<1>1. At(p, "entries") /\ job[p].pc \in Inspecting /\ Plain /\ job[p] \in Jobs
    BY DEF InspectEntry, At, Inspecting, CacheInv, JobOK
<1>2. PICK s \in job[p].names :
          IF s \notin Entries THEN Return(p, "unavailable")
          ELSE Becomes(p, [job[p] EXCEPT !.names = @ \ {s}, !.seen = @ \cup {s},
                              !.pc = IF job[p].names = {s} THEN "recontrol" ELSE "entries"])
    BY DEF InspectEntry
<1>3. CASE s \notin Entries
    BY <1>1, <1>2, <1>3, GivesUp
<1>4. CASE s \in Entries
    <2> DEFINE label == IF job[p].names = {s} THEN "recontrol" ELSE "entries"
               j == [job[p] EXCEPT !.names = @ \ {s}, !.seen = @ \cup {s}, !.pc = label]
    <2>1. s \in Sessions
        BY <1>1 DEF Jobs
    <2>2. label \in Inspecting /\ label \in Labels
        BY DEF Inspecting, Labels
    <2>3. Becomes(p, j)
        BY <1>2, <1>4
    <2> HIDE DEF label
    <2>4. /\ j \in Jobs /\ j.pc = label /\ j.event = job[p].event /\ j.op = job[p].op
          /\ j.result = job[p].result /\ j.names = job[p].names \ {s}
          /\ j.seen = job[p].seen \cup {s}
          /\ j.barred = job[p].barred /\ j.changed = job[p].changed
        BY <1>1, <2>1, <2>2 DEF Jobs
    <2> HIDE DEF j
    <2>5. CacheInv' /\ Looks(p) /\ job'[p] = j /\ ~Reports(p)
        BY <1>1, <2>2, <2>3, <2>4, LooksOn
    <2> QED BY <1>1, <1>4, <2>4, <2>5 DEF label
<1> QED BY <1>3, <1>4

LEMMA InspectControlAgainStep ==
    ASSUME CacheInv, NEW p \in Procs, InspectControlAgain(p)
    PROVE  /\ CacheInv' /\ At(p, "recontrol") /\ Looks(p) /\ ~Reports(p)
           /\ job'[p].pc = "idle" \/ Proceeds(p, "restamp")
<1> DEFINE j == [job[p] EXCEPT !.pc = "restamp"]
<1>1. At(p, "recontrol") /\ job[p].pc \in Inspecting /\ Plain /\ job[p] \in Jobs
    BY DEF InspectControlAgain, At, Inspecting, CacheInv, JobOK
<1>2. CASE LockHeld \/ job[p].barred # Deleted
    BY <1>1, <1>2, GivesUp DEF InspectControlAgain
<1>3. CASE ~(LockHeld \/ job[p].barred # Deleted)
    <2>1. /\ j \in Jobs /\ j.pc = "restamp" /\ j.event = job[p].event /\ j.op = job[p].op
          /\ j.result = job[p].result /\ j.seen = job[p].seen
          /\ j.barred = job[p].barred /\ j.changed = job[p].changed
        BY <1>1 DEF Jobs, Labels, Inspecting
    <2>2. Becomes(p, j) /\ j.pc \in Inspecting
        BY <1>3, <2>1 DEF InspectControlAgain, Goto, Inspecting
    <2> HIDE DEF j
    <2>3. CacheInv' /\ Looks(p) /\ job'[p] = j /\ ~Reports(p) /\ job'[p].event = "inspect"
        BY <1>1, <2>1, <2>2, LooksOn
    <2> QED BY <1>1, <2>1, <2>3 DEF Proceeds
<1> QED BY <1>2, <1>3

LEMMA InspectRootAgainStep ==
    ASSUME CacheInv, NEW p \in Procs, InspectRootAgain(p)
    PROVE  /\ CacheInv' /\ At(p, "restamp") /\ Looks(p) /\ job'[p].pc = "idle"
           /\ \/ ~Reports(p)
              \/ /\ ~job[p].changed /\ job'[p].seen = job[p].seen
                 /\ job'[p].result = IF job[p].barred THEN "deleted" ELSE "ready"
<1>1. At(p, "restamp") /\ job[p].pc \in Inspecting /\ Plain /\ job[p] \in Jobs
    BY DEF InspectRootAgain, At, Inspecting, CacheInv, JobOK
<1>2. CASE job[p].changed
    BY <1>1, <1>2, GivesUp DEF InspectRootAgain
<1>3. CASE ~job[p].changed
    <2> DEFINE result == IF job[p].barred THEN "deleted" ELSE "ready"
               j == [Done(result) EXCEPT !.seen = job[p].seen]
    <2>1. result \in {"deleted", "ready"}
        OBVIOUS
    <2>2. j = Reported(p)
        BY DEF Reported
    <2>3. Becomes(p, j)
        BY <1>3, <2>2 DEF InspectRootAgain
    <2> HIDE DEF result
    <2>4. /\ JobOK(Done(result)) /\ Done(result).pc = "idle" /\ Done(result).event = "none"
          /\ Done(result).result = result
        BY <2>1, DoneOK DEF Results
    <2>5. /\ j \in Jobs /\ j.pc = "idle" /\ j.event = "none" /\ j.op = Done(result).op
          /\ j.result = result /\ j.seen = job[p].seen
        BY <1>1, <2>4 DEF JobOK, Jobs
    <2>6. JobOK(j)
        BY <2>1, <2>4, <2>5 DEF JobOK, Hooking, Locked, Inspecting
    <2> HIDE DEF j
    <2>7. CacheInv' /\ Looks(p) /\ job'[p] = j
        BY <1>1, <2>3, <2>5, <2>6, LooksSuffices DEF Locked
    <2> QED BY <1>1, <1>3, <2>5, <2>7 DEF result
<1> QED BY <1>2, <1>3

LEMMA CrashStep ==
    ASSUME CacheInv, NEW p \in Procs, Crash(p)
    PROVE  /\ CacheInv' /\ Ends(p) /\ UNCHANGED <<root, now, tasks, told>>
           /\ job'[p].result = "crashed"
<1> DEFINE j == Done("crashed")
<1>1. JobOK(j) /\ j.pc = "idle" /\ j.event = "none" /\ j.result = "crashed"
    BY DoneOK DEF Results
<1>2. Becomes(p, j) /\ UNCHANGED <<now, tasks, told>> /\ Incident("crash")
    BY DEF Crash, Return, Quiet
<1> HIDE DEF j
<1>3. spent' \in [Incidents -> Nat]
    BY <1>2, FaultCounted DEF Incidents
<1>4. CacheInv' /\ Frame(p, j) /\ UNCHANGED root
    BY <1>1, <1>2, <1>3, Typed, BecomesKeeps DEF Locked
<1> QED BY <1>1, <1>2, <1>4 DEF Ends, Frame

LEMMA OwnerClearsLockStep ==
    ASSUME CacheInv, OwnerClearsLock
    PROVE  /\ CacheInv' /\ UNCHANGED <<job, now, tasks, told>>
           /\ root' = [root EXCEPT !.marks = @ \ {"lock"}] /\ \A p \in Procs : At(p, "idle")
<1>1. /\ UNCHANGED <<job, now, tasks, told, spent>> /\ \A p \in Procs : At(p, "idle")
      /\ root' = [root EXCEPT !.marks = @ \ {"lock"}]
    BY DEF OwnerClearsLock, Plain, Quiet, Calm
<1>2. TypeOK'
    BY <1>1 DEF CacheInv, TypeOK, Roots
<1>3. LockExclusive'
    BY <1>1 DEF LockExclusive, HoldsLock, At, Locked
<1> QED BY <1>1, <1>2, <1>3 DEF CacheInv

LEMMA TickStep ==
    ASSUME CacheInv, Tick
    PROVE  CacheInv' /\ UNCHANGED <<root, job, tasks, told>>
<1>1. UNCHANGED <<root, job, tasks, told, spent>> /\ now' \in 0..MaxTime
    BY Typed DEF Tick
<1>2. TypeOK' /\ LockExclusive'
    BY <1>1 DEF CacheInv, TypeOK, LockExclusive, HoldsLock, LockHeld
<1> QED BY <1>1, <1>2 DEF CacheInv

-----------------------------------------------------------------------------
(* Operations exclude each other *)

\* The invariant holds at first, and each action keeps it by its lemma above.
LEMMA CacheInvInit == Init => CacheInv
<1> SUFFICES ASSUME Init PROVE CacheInv
    OBVIOUS
<1>1. Idle \in Jobs /\ NoGuidance \in Guidance
    BY IdleOK, CacheAssumption DEF NoGuidance, Guidance
<1>2. TypeOK
    BY <1>1, CacheAssumption DEF Init, TypeOK, Roots
<1>3. LockExclusive
    BY DEF Init, LockExclusive, HoldsLock, Idle, Locked
<1>4. JobOK(Idle)
    BY <1>1 DEF JobOK, Idle, Hooking, Locked, Inspecting
<1> QED BY <1>2, <1>3, <1>4 DEF Init, CacheInv

LEMMA CacheInvNext == CacheInv /\ [Next]_vars => CacheInv'
<1> SUFFICES ASSUME CacheInv, [Next]_vars PROVE CacheInv'
    OBVIOUS
<1>1. CASE Tick \/ OwnerClearsLock
    BY <1>1, TickStep, OwnerClearsLockStep
<1>2. ASSUME NEW p \in Procs, Call(p) PROVE CacheInv'
    BY <1>2, SessionStartStep, SessionResumeStep, UserPromptSubmitStep, ClearAllStep, InspectStep
       DEF Call
<1>3. ASSUME NEW p \in Procs, Lock(p) \/ Release(p) \/ Invoke(p) \/ OperationFails(p) \/ SaveFails(p)
      PROVE  CacheInv'
    BY <1>3, LockStep, ReleaseStep, InvokeStep, OperationFailsStep, SaveFailsStep
<1>4. ASSUME NEW p \in Procs, Operation(p) PROVE CacheInv'
    BY <1>4, LoadStep, ClearStep, StageStep, RenameStep DEF Operation
<1>5. ASSUME NEW p \in Procs, Deletion(p) PROVE CacheInv'
    BY <1>5, RaiseBarrierStep, ListStep, SweepStep, VerifyStep DEF Deletion
<1>6. ASSUME NEW p \in Procs, Inspection(p) PROVE CacheInv'
    BY <1>6, InspectRootStep, InspectControlStep, InspectNamesStep, InspectEntryStep,
       InspectControlAgainStep, InspectRootAgainStep DEF Inspection
<1>7. ASSUME NEW p \in Procs, Crash(p) PROVE CacheInv'
    BY <1>7, CrashStep
<1>8. CASE UNCHANGED vars
    BY <1>8 DEF vars, CacheInv, TypeOK, LockExclusive, HoldsLock, LockHeld
<1> QED BY <1>1, <1>2, <1>3, <1>4, <1>5, <1>6, <1>7, <1>8 DEF Next, Step

\* Jobs are well-formed and operations exclude each other in every reachable state.
THEOREM CacheInvHolds == Spec => []CacheInv
BY CacheInvInit, CacheInvNext, PTL DEF Spec

\* The cache stays well-formed, and at most one process is past the exclusive
\* creation of the lock, whatever fails, crashes and is recovered (withGate).
THEOREM CacheOrderly == Spec => []CacheIsOrderly
<1>1. CacheInv => CacheIsOrderly
    BY DEF CacheInv, CacheIsOrderly
<1> QED BY <1>1, CacheInvHolds, PTL

-----------------------------------------------------------------------------
(* An inspection reports one state *)

\* While no stamp has moved, what an inspection has noted is still so: the lock was
\* free, the barrier as found, and every entry is counted or left to count.
Snap(p) ==
    /\ job[p].pc \in {"stamp", "control", "names"} => job[p].seen = {}
    /\ ~job[p].changed /\ job[p].pc \in {"names", "entries", "recontrol", "restamp"}
       => ~LockHeld /\ (job[p].barred <=> Deleted)
    /\ ~job[p].changed /\ job[p].pc \in {"entries", "recontrol", "restamp"}
       => root.temps = {} /\ job[p].seen \subseteq Entries /\ (job[p].barred => Entries = {})
    /\ ~job[p].changed /\ job[p].pc = "entries" => Entries \subseteq job[p].seen \cup job[p].names
    /\ ~job[p].changed /\ job[p].pc \in {"recontrol", "restamp"} => Entries \subseteq job[p].seen
SnapInv == \A p \in Procs : Snap(p)

\* It is enough to look at the job that takes a step: the stamps of the others
\* move with the directory.
LEMMA SnapSuffices ==
    ASSUME SnapInv, NEW p \in Procs, Frame(p, job'[p]), Snap(p)'
    PROVE  SnapInv'
<1>1. ASSUME NEW q \in Procs, q # p
      PROVE  Snap(q)'
    <2>1. /\ Snap(q) /\ job'[q].pc = job[q].pc /\ job'[q].seen = job[q].seen
          /\ job'[q].names = job[q].names /\ job'[q].barred = job[q].barred
          /\ ~job'[q].changed => ~job[q].changed /\ (job[q].pc \in Inspecting => UNCHANGED root)
        BY <1>1 DEF SnapInv, Frame
    <2>2. CASE UNCHANGED root
        <3>1. LockHeld' = LockHeld /\ Deleted' = Deleted /\ Entries' = Entries
            BY <2>2 DEF LockHeld, Deleted, Entries
        <3> QED BY <2>1, <2>2, <3>1 DEF Snap
    <2>3. CASE job'[q].changed \/ job[q].pc \notin Inspecting
        BY <2>1, <2>3 DEF Snap, Inspecting
    <2> QED BY <2>1, <2>2, <2>3
<1> QED BY <1>1 DEF SnapInv

\* A step that does not leave its process inspecting.
LEMMA AwayKeepsSnap ==
    ASSUME SnapInv, NEW p \in Procs, Frame(p, job'[p]), job'[p].pc \notin Inspecting
    PROVE  SnapInv'
<1>1. Snap(p)'
    BY DEF Snap, Inspecting
<1> QED BY <1>1, SnapSuffices

LEMMA CallKeepsSnap ==
    ASSUME CacheInv, SnapInv, NEW p \in Procs, Call(p)
    PROVE  SnapInv'
<1>1. Starts(p) /\ job'[p].pc \in {"lock", "stamp"}
    BY SessionStartStep, SessionResumeStep, UserPromptSubmitStep, ClearAllStep, InspectStep
       DEF Call, StartsHook
<1>2. Snap(p)'
    BY <1>1 DEF Starts, Snap
<1> QED BY <1>1, <1>2, SnapSuffices DEF Starts

\* What an inspection that reports has found.
Found(p) ==
    /\ job'[p].seen = Entries /\ root.temps = {} /\ ~LockHeld
    /\ Deleted <=> job'[p].result = "deleted"
    /\ Deleted => Entries = {}

\* Each reading of an inspection notes what is so; the report is what it noted.
LEMMA InspectionKeepsSnap ==
    ASSUME CacheInv, SnapInv, NEW p \in Procs, Inspection(p)
    PROVE  /\ SnapInv' /\ Frame(p, job'[p]) /\ UNCHANGED root
           /\ Reports(p) => Found(p)
<1>1. Looks(p) /\ Frame(p, job'[p]) /\ UNCHANGED root /\ Snap(p)
    BY InspectRootStep, InspectControlStep, InspectNamesStep, InspectEntryStep,
       InspectControlAgainStep, InspectRootAgainStep DEF Inspection, Looks, SnapInv
<1>2. LockHeld' = LockHeld /\ Deleted' = Deleted /\ Entries' = Entries
    BY <1>1 DEF LockHeld, Deleted, Entries
<1>3. CASE job'[p].pc = "idle" /\ ~Reports(p)
    BY <1>1, <1>3, AwayKeepsSnap DEF Inspecting
<1>4. CASE InspectRoot(p)
    <2>1. Snap(p)' /\ ~Reports(p)
        BY <1>1, <1>4, InspectRootStep DEF Snap, At
    <2> QED BY <1>1, <2>1, SnapSuffices
<1>5. CASE InspectControl(p) /\ job'[p].pc # "idle"
    <2>1. Snap(p)' /\ ~Reports(p)
        BY <1>1, <1>2, <1>5, InspectControlStep DEF Snap, At
    <2> QED BY <1>1, <2>1, SnapSuffices
<1>6. CASE InspectNames(p) /\ job'[p].pc # "idle"
    <2>1. /\ At(p, "names") /\ root.temps = {} /\ ~Reports(p)
          /\ Proceeds(p, IF Entries = {} THEN "recontrol" ELSE "entries") /\ job'[p].names = Entries
          /\ job[p].barred => Entries = {}
        BY <1>6, InspectNamesStep
    <2>2. Snap(p)'
        BY <1>1, <1>2, <2>1 DEF Snap, At, Proceeds
    <2> QED BY <1>1, <2>1, <2>2, SnapSuffices
<1>7. CASE InspectEntry(p) /\ job'[p].pc # "idle"
    <2>1. /\ At(p, "entries") /\ ~Reports(p)
          /\ \E s \in job[p].names \cap Entries :
                /\ job'[p].pc = IF job[p].names = {s} THEN "recontrol" ELSE "entries"
                /\ job'[p].names = job[p].names \ {s} /\ job'[p].seen = job[p].seen \cup {s}
                /\ job'[p].barred = job[p].barred /\ job'[p].changed = job[p].changed
        BY <1>7, InspectEntryStep
    <2>2. Snap(p)'
        BY <1>1, <1>2, <2>1 DEF Snap, At
    <2> QED BY <1>1, <2>1, <2>2, SnapSuffices
<1>8. CASE InspectControlAgain(p) /\ job'[p].pc # "idle"
    <2>1. At(p, "recontrol") /\ ~Reports(p) /\ Proceeds(p, "restamp")
        BY <1>8, InspectControlAgainStep
    <2>2. Snap(p)'
        BY <1>1, <1>2, <2>1 DEF Snap, At, Proceeds
    <2> QED BY <1>1, <2>1, <2>2, SnapSuffices
<1>9. CASE InspectRootAgain(p)
    <2>1. /\ At(p, "restamp") /\ job'[p].pc = "idle"
          /\ Reports(p) => /\ ~job[p].changed /\ job'[p].seen = job[p].seen
                           /\ job'[p].result = IF job[p].barred THEN "deleted" ELSE "ready"
        BY <1>9, InspectRootAgainStep
    <2>2. Reports(p) => Found(p)
        BY <1>1, <2>1 DEF Snap, At, Found
    <2> QED BY <1>1, <2>1, <2>2, AwayKeepsSnap DEF Inspecting
<1> QED BY <1>1, <1>3, <1>4, <1>5, <1>6, <1>7, <1>8, <1>9, InspectControlStep, InspectNamesStep,
       InspectEntryStep, InspectControlAgainStep DEF Inspection

LEMMA SnapInit == Init => SnapInv
BY DEF Init, SnapInv, Snap, Idle

LEMMA StepKeepsSnap ==
    ASSUME CacheInv, SnapInv, NEW p \in Procs, Step(p) \/ Crash(p), ~Inspection(p)
    PROVE  SnapInv' /\ Frame(p, job'[p]) /\ (At(p, "restamp") => ~Reports(p))
<1>1. CASE Lock(p) \/ Release(p) \/ Invoke(p)
    BY <1>1, LockStep, ReleaseStep, InvokeStep, AwayKeepsSnap DEF Ends, Runs, At, Inspecting
<1>2. CASE Crash(p)
    BY <1>2, CrashStep, AwayKeepsSnap DEF Ends, Reports, Inspecting
<1>3. CASE Operation(p) \/ Deletion(p) \/ OperationFails(p) \/ SaveFails(p)
    <2>1. Operates(p) /\ CacheInv'
        BY <1>3, LoadStep, ClearStep, StageStep, RenameStep, RaiseBarrierStep, ListStep, SweepStep,
           VerifyStep, OperationFailsStep, SaveFailsStep DEF Operation, Deletion
    <2>2. job'[p].pc \notin Inspecting
        BY <1>3, LoadStep, ClearStep, StageStep, RenameStep, RaiseBarrierStep, ListStep, SweepStep,
           VerifyStep, OperationFailsStep, SaveFailsStep DEF Operation, Deletion, Inspecting
    <2> QED BY <2>1, <2>2, AwayKeepsSnap DEF Operates, HoldsLock, At, Locked
<1> QED BY <1>1, <1>2, <1>3 DEF Step

\* The other processes report nothing meanwhile.
LEMMA OthersReportNothing ==
    ASSUME CacheInv, NEW p \in Procs, Frame(p, job'[p]), NEW q \in Procs \ {p}, At(q, "restamp")
    PROVE  ~Reports(q)
<1>1. JobOK(job[q]) /\ job[q].pc = "restamp" /\ job'[q].result = job[q].result
    BY DEF CacheInv, At, Frame
<1> QED BY <1>1 DEF JobOK, Reports

LEMMA SnapInvNext ==
    ASSUME CacheInv, SnapInv, [Next]_vars
    PROVE  SnapInv' /\ \A q \in Procs : At(q, "restamp") /\ Reports(q) => Found(q)
<1>1. ASSUME NEW p \in Procs, Inspection(p) \/ Call(p) \/ Step(p) \/ Crash(p)
      PROVE  /\ SnapInv' /\ Frame(p, job'[p])
             /\ At(p, "restamp") /\ Reports(p) => Found(p)
    <2>1. CASE Inspection(p)
        BY <2>1, InspectionKeepsSnap
    <2>2. CASE Call(p)
        BY <2>2, CallKeepsSnap, SessionStartStep, SessionResumeStep, UserPromptSubmitStep,
           ClearAllStep, InspectStep DEF Call, StartsHook, Starts, At
    <2> QED BY <1>1, <2>1, <2>2, StepKeepsSnap
<1>2. ASSUME NEW p \in Procs, Call(p) \/ Step(p) \/ Crash(p)
      PROVE  SnapInv' /\ \A q \in Procs : At(q, "restamp") /\ Reports(q) => Found(q)
    BY <1>1, <1>2, OthersReportNothing
<1>3. ASSUME UNCHANGED job
      PROVE  \A q \in Procs : At(q, "restamp") => ~Reports(q)
    BY <1>3 DEF CacheInv, JobOK, At, Reports
<1>4. CASE Tick \/ UNCHANGED vars
    <2>1. UNCHANGED <<root, job>>
        BY <1>4, TickStep DEF vars
    <2> QED BY <1>3, <2>1 DEF SnapInv, Snap, LockHeld, Deleted, Entries
<1>5. CASE OwnerClearsLock
    BY <1>3, <1>5, OwnerClearsLockStep DEF SnapInv, Snap, At
<1> QED BY <1>2, <1>4, <1>5 DEF Next

\* What a running inspection has noted is so while no stamp has moved.
THEOREM SnapInvHolds == Spec => []SnapInv
BY SnapInit, SnapInvNext, CacheInvHolds, PTL DEF Spec

\* An inspection that reports a healthy cache reports one state of it: the entries
\* it counted one by one, without the lock, are those of the moment it reports
\* (inspectFileCodexSessionState).
THEOREM InspectionReportsOneState == Spec => InspectionIsSnapshot
<1>1. /\ CacheInv /\ SnapInv /\ [Next]_vars
      => [\A p \in Procs :
             At(p, "restamp") /\ job'[p].result \in {"ready", "deleted"}
             => /\ job'[p].seen = Entries /\ root.temps = {} /\ ~LockHeld
                /\ Deleted <=> job'[p].result = "deleted"]_vars
    BY SnapInvNext DEF Reports, Found
<1> QED BY <1>1, CacheInvHolds, SnapInvHolds, PTL DEF Spec, InspectionIsSnapshot

-----------------------------------------------------------------------------
(* A deletion is final *)

Clean == Deleted /\ Entries = {} /\ root.temps = {}
\* A deletion that has verified the directory, or has reported.
Verified(j) ==
    \/ j.result = "deleted"
    \/ j.pc = "release" /\ j.op = "delete" /\ j.result # "incomplete"

\* Behind the barrier no save is between its staging file and its entry, and what
\* was verified to be empty still is.
BarrierInv ==
    /\ Deleted => \A p \in Procs : ~At(p, "rename")
    /\ \A p \in Procs : Verified(job[p]) => Clean

\* What a step may do to the directory behind the barrier.
Settles ==
    Deleted => Deleted' /\ Entries' \subseteq Entries /\ root'.temps \subseteq root.temps

\* Steps that leave the directory alone, and removals, settle it.
LEMMA SameSettles == ASSUME UNCHANGED root PROVE Settles /\ (Clean => Clean')
BY DEF Settles, Clean, Deleted, Entries

LEMMA RemovesSettles == ASSUME Removes PROVE Settles /\ (Deleted' <=> Deleted)
BY DEF Settles, Deleted, Entries, Removes

LEMMA SettlesClean == ASSUME Settles, Clean PROVE Clean'
BY DEF Settles, Clean

\* It is enough to look at the job that takes a step.
LEMMA BarrierSuffices ==
    ASSUME CacheInv, BarrierInv, NEW p \in Procs, Frame(p, job'[p]), Settles,
           Deleted' => job'[p].pc # "rename", Deleted' => Deleted \/ HoldsLock(p),
           Verified(job'[p]) => Clean'
    PROVE  BarrierInv' /\ Settles
<1>1. ASSUME Deleted', NEW q \in Procs, q # p
      PROVE  ~At(q, "rename")'
    <2>1. ~At(q, "rename")
        BY <1>1 DEF BarrierInv, CacheInv, LockExclusive, HoldsLock, At, Locked
    <2> QED BY <1>1, <2>1 DEF Frame, At
<1>2. ASSUME NEW q \in Procs, q # p, Verified(job'[q])
      PROVE  Clean'
    <2>1. Verified(job[q])
        BY <1>2 DEF Frame, Verified
    <2> QED BY <2>1, SettlesClean DEF BarrierInv
<1> QED BY <1>1, <1>2 DEF BarrierInv, At

\* A step that leaves the directory alone and verifies nothing.
LEMMA AloneKeepsBarrier ==
    ASSUME CacheInv, BarrierInv, NEW p \in Procs, Frame(p, job'[p]), UNCHANGED root,
           job'[p].pc # "rename", Verified(job'[p]) => Verified(job[p]) \/ Clean
    PROVE  BarrierInv' /\ Settles
<1>1. Settles /\ (Clean => Clean') /\ (Deleted' <=> Deleted)
    BY SameSettles DEF Deleted
<1>2. Verified(job'[p]) => Clean'
    BY <1>1 DEF BarrierInv
<1> QED BY <1>1, <1>2, BarrierSuffices

\* A run that does not end has reported nothing.
LEMMA RunningVerifies ==
    ASSUME CacheInv', NEW p \in Procs, Verified(job'[p]), job'[p].pc # "idle"
    PROVE  job'[p].pc = "release" /\ job'[p].op = "delete" /\ job'[p].result # "incomplete"
BY DEF CacheInv, JobOK, Verified

\* Each group of actions keeps the barrier and settles the directory behind it.
LEMMA CallKeepsBarrier ==
    ASSUME CacheInv, BarrierInv, NEW p \in Procs, Call(p)
    PROVE  BarrierInv' /\ Settles
<1>1. CacheInv' /\ Starts(p) /\ job'[p].pc \in {"lock", "stamp"}
    BY SessionStartStep, SessionResumeStep, UserPromptSubmitStep, ClearAllStep, InspectStep
       DEF Call, StartsHook
<1>2. ~Verified(job'[p])
    BY <1>1, RunningVerifies
<1> QED BY <1>1, <1>2, AloneKeepsBarrier DEF Starts

LEMMA LockKeepsBarrier ==
    ASSUME CacheInv, BarrierInv, NEW p \in Procs, Lock(p)
    PROVE  BarrierInv' /\ Settles
<1>1. CASE Ends(p) /\ UNCHANGED root /\ job'[p].result # "deleted"
    <2>1. job'[p].pc = "idle" /\ ~Verified(job'[p])
        BY <1>1 DEF Ends, Verified
    <2> QED BY <1>1, <2>1, AloneKeepsBarrier DEF Ends
<1>2. CASE /\ Runs(p, "body") /\ root' = [root EXCEPT !.marks = @ \cup {"lock"}]
           /\ CacheInv'
    <2>1. /\ root'.entries = root.entries /\ root'.temps = root.temps
          /\ root'.marks = root.marks \cup {"lock"}
        BY <1>2, Typed DEF Roots
    <2>2. Settles /\ (Deleted' <=> Deleted)
        BY <2>1 DEF Settles, Deleted, Entries
    <2>3. ~Verified(job'[p])
        BY <1>2, RunningVerifies DEF Runs
    <2> QED BY <1>2, <2>2, <2>3, BarrierSuffices DEF Runs
<1> QED BY <1>1, <1>2, LockStep

LEMMA ReleaseKeepsBarrier ==
    ASSUME CacheInv, BarrierInv, NEW p \in Procs, Release(p)
    PROVE  BarrierInv' /\ Settles
<1>1. CacheInv' /\ At(p, "release") /\ Frame(p, job'[p]) /\ job'[p].pc \in {"idle", "invoke", "lock"}
    BY ReleaseStep DEF Ends, Runs
<1>2. Verified(job'[p]) => Verified(job[p])
    <2>1. job'[p].result = "deleted" => job[p].op = "delete" /\ job[p].result # "incomplete"
        BY ReleaseStep, <1>1, RunningVerifies DEF Verified, Runs, Ends
    <2> QED BY <1>1, <2>1 DEF Verified, At
<1>3. CASE UNCHANGED root
    BY <1>1, <1>2, <1>3, AloneKeepsBarrier
<1>4. CASE root' = [root EXCEPT !.marks = @ \ {"lock"}]
    <2>1. /\ root'.entries = root.entries /\ root'.temps = root.temps
          /\ root'.marks = root.marks \ {"lock"}
        BY <1>4, Typed DEF Roots
    <2>2. Settles /\ (Deleted' <=> Deleted)
        BY <2>1 DEF Settles, Deleted, Entries
    <2>3. Verified(job'[p]) => Clean'
        BY <1>2, <2>2, SettlesClean DEF BarrierInv
    <2> QED BY <1>1, <2>2, <2>3, BarrierSuffices
<1> QED BY <1>3, <1>4, ReleaseStep

LEMMA InvokeKeepsBarrier ==
    ASSUME CacheInv, BarrierInv, NEW p \in Procs, Invoke(p)
    PROVE  BarrierInv' /\ Settles
<1>1. /\ CacheInv' /\ UNCHANGED root /\ Frame(p, job'[p])
      /\ \/ job'[p].pc = "idle" /\ job'[p].result = "fallback"
         \/ job'[p].pc = "lock"
    BY InvokeStep DEF Ends
<1>2. ~Verified(job'[p])
    BY <1>1, RunningVerifies DEF Verified
<1> QED BY <1>1, <1>2, AloneKeepsBarrier

\* A hook's operation, and a save or a deletion that fails.
LEMMA OperationKeepsBarrier ==
    ASSUME CacheInv, BarrierInv, NEW p \in Procs,
           Operation(p) \/ OperationFails(p) \/ SaveFails(p)
    PROVE  BarrierInv' /\ Settles
<1>1. /\ CacheInv' /\ Operates(p) /\ Frame(p, job'[p]) /\ HoldsLock(p)
      /\ job'[p].pc \in {"release", "rename"}
      /\ job'[p].op # "delete" \/ job'[p].result = "incomplete"
    BY LoadStep, ClearStep, StageStep, RenameStep, OperationFailsStep, SaveFailsStep
       DEF Operation, Operates
<1>2. ~Verified(job'[p])
    BY <1>1, RunningVerifies
<1>3. CASE UNCHANGED root /\ job'[p].pc = "release"
    BY <1>1, <1>2, <1>3, AloneKeepsBarrier
<1>4. CASE Removes /\ job'[p].pc = "release"
    BY <1>1, <1>2, <1>4, RemovesSettles, BarrierSuffices
<1>5. CASE /\ ~Deleted /\ job'[p].pc = "rename"
           /\ root' = [root EXCEPT !.temps = @ \cup {Staged(p)}]
    <2>1. ~Deleted' /\ Settles
        BY <1>5, Typed DEF Roots, Deleted, Settles
    <2> QED BY <1>1, <1>2, <2>1, BarrierSuffices
<1>6. CASE At(p, "rename") /\ root' = Renamed(p) /\ job'[p].pc = "release"
    <2>1. ~Deleted
        BY <1>6 DEF BarrierInv
    <2>2. ~Deleted' /\ Settles
        BY <1>6, <2>1, RenamedOK DEF Deleted, Settles
    <2> QED BY <1>1, <1>2, <1>6, <2>2, BarrierSuffices
<1>7. CASE Clear(p) /\ root' = [root EXCEPT !.entries[job[p].session] = NoGuidance]
    <2>1. Removes
        BY <1>7, Typed DEF Removes, Roots
    <2> QED BY <1>4, <1>7, <2>1, ClearStep
<1> QED BY <1>3, <1>4, <1>5, <1>6, <1>7, LoadStep, ClearStep, StageStep, RenameStep,
           OperationFailsStep, SaveFailsStep DEF Operation

LEMMA DeletionKeepsBarrier ==
    ASSUME CacheInv, BarrierInv, NEW p \in Procs, Deletion(p)
    PROVE  BarrierInv' /\ Settles
<1>1. /\ CacheInv' /\ Operates(p) /\ Frame(p, job'[p]) /\ HoldsLock(p)
      /\ job'[p].pc \notin {"idle", "rename"}
    BY RaiseBarrierStep, ListStep, SweepStep, VerifyStep DEF Deletion, Operates
<1>2. CASE RaiseBarrier(p)
    <2>1. ~Verified(job'[p])
        BY <1>1, <1>2, RaiseBarrierStep, RunningVerifies
    <2>2. CASE UNCHANGED root
        BY <1>1, <2>1, <2>2, AloneKeepsBarrier
    <2>3. CASE root' = [root EXCEPT !.marks = @ \cup {"deleted"}]
        <3>1. Settles
            BY <2>3, Typed DEF Roots, Deleted, Settles, Entries
        <3> QED BY <1>1, <2>1, <3>1, BarrierSuffices
    <2> QED BY <1>2, <2>2, <2>3, RaiseBarrierStep
<1>3. CASE List(p)
    <2>1. ~Verified(job'[p]) /\ UNCHANGED root
        BY <1>1, <1>3, ListStep, RunningVerifies
    <2> QED BY <1>1, <2>1, AloneKeepsBarrier
<1>4. CASE Sweep(p)
    <2>1. ~Verified(job'[p]) /\ Removes
        BY <1>1, <1>4, SweepStep, RunningVerifies
    <2> QED BY <1>1, <2>1, RemovesSettles, BarrierSuffices
<1>5. CASE Verify(p)
    <2>1. (Verified(job'[p]) => Clean) /\ UNCHANGED root
        BY <1>1, <1>5, VerifyStep, RunningVerifies DEF Clean
    <2> QED BY <1>1, <2>1, AloneKeepsBarrier
<1> QED BY <1>2, <1>3, <1>4, <1>5 DEF Deletion

\* An inspection that reports a deleted cache has found it empty: behind the barrier
\* it does not accept entries.
LEMMA InspectionKeepsBarrier ==
    ASSUME CacheInv, BarrierInv, SnapInv, NEW p \in Procs, Inspection(p)
    PROVE  BarrierInv' /\ Settles
<1>1. /\ CacheInv' /\ Frame(p, job'[p]) /\ UNCHANGED root
      /\ Reports(p) => Found(p)
    BY InspectionKeepsSnap, CacheInvNext DEF Next, Step
<1>2. job'[p].pc \notin {"rename", "release"}
    <2>1. job'[p].pc \in Inspecting \cup {"idle"}
        BY InspectRootStep, InspectControlStep, InspectNamesStep, InspectEntryStep,
           InspectControlAgainStep, InspectRootAgainStep DEF Inspection, Proceeds, Inspecting
    <2> QED BY <2>1 DEF Inspecting
<1>3. Verified(job'[p]) => Clean
    BY <1>1, <1>2 DEF Verified, Reports, Found, Clean
<1> QED BY <1>1, <1>2, <1>3, AloneKeepsBarrier

LEMMA CrashKeepsBarrier ==
    ASSUME CacheInv, BarrierInv, NEW p \in Procs, Crash(p)
    PROVE  BarrierInv' /\ Settles
BY CrashStep, AloneKeepsBarrier DEF Ends, Verified

LEMMA BarrierInvNext ==
    ASSUME CacheInv, BarrierInv, SnapInv, [Next]_vars
    PROVE  BarrierInv' /\ Settles
<1>1. ASSUME NEW p \in Procs, Call(p) \/ Step(p) \/ Crash(p)
      PROVE  BarrierInv' /\ Settles
    BY <1>1, CallKeepsBarrier, LockKeepsBarrier, ReleaseKeepsBarrier, InvokeKeepsBarrier,
       OperationKeepsBarrier, DeletionKeepsBarrier, InspectionKeepsBarrier, CrashKeepsBarrier DEF Step
<1>2. CASE Tick \/ UNCHANGED vars
    <2>1. UNCHANGED <<root, job>>
        BY <1>2, TickStep DEF vars
    <2> QED BY <2>1, SameSettles DEF BarrierInv, At, Clean, Deleted, Entries
<1>3. CASE OwnerClearsLock
    <2>1. UNCHANGED job /\ root' = [root EXCEPT !.marks = @ \ {"lock"}]
        BY <1>3, OwnerClearsLockStep
    <2>2. Settles /\ (Deleted' <=> Deleted)
        BY <2>1, Typed DEF Roots, Settles, Deleted, Entries
    <2> QED BY <2>1, <2>2, SettlesClean DEF BarrierInv, At
<1> QED BY <1>1, <1>2, <1>3 DEF Next

LEMMA BarrierInit == Init => BarrierInv
BY DEF Init, BarrierInv, Idle, At, Verified, Deleted

\* No save is under way behind the barrier, and what was verified empty is empty.
THEOREM BarrierInvHolds == Spec => []BarrierInv
BY BarrierInit, BarrierInvNext, CacheInvHolds, SnapInvHolds, PTL DEF Spec

\* A deletion is final: behind its barrier nothing is saved, restored or staged by
\* any hook still under way, and what a deletion or an inspection reported as
\* deleted is empty, then and later (clearFileCodexSessionState, save).
THEOREM DeletionIsFinal == Spec => GuidanceStaysDeleted
<1>1. BarrierInv => DeletedCacheIsEmpty
    BY DEF BarrierInv, Verified, Clean, DeletedCacheIsEmpty
<1>2. /\ CacheInv /\ BarrierInv /\ SnapInv /\ [Next]_vars
      => [Deleted => /\ Deleted'
                     /\ Entries' \subseteq Entries
                     /\ root'.temps \subseteq root.temps]_vars
    BY BarrierInvNext DEF Settles
<1> QED BY <1>1, <1>2, CacheInvHolds, SnapInvHolds, BarrierInvHolds, PTL
    DEF Spec, GuidanceStaysDeleted, NoGuidanceAfterDeletion

-----------------------------------------------------------------------------
(* What was delivered supersedes what is cached *)

\* One hook of a session runs at a time.
OneHook == \A p, q \in Procs :
    /\ job[p].event \in Hooking /\ job[q].event \in Hooking
    /\ job[p].session = job[q].session
    => p = q

\* Nothing is told, cached or carried that is newer than the session's last task,
\* and the hook of a task answers that task.
Dated ==
    /\ \A s \in Sessions : told[s] <= tasks[s] /\ root.entries[s].task <= tasks[s]
    /\ \A p \in Procs : job[p].event \in Hooking =>
          /\ job[p].guidance.task <= tasks[job[p].session]
          /\ job[p].event = "task" => job[p].guidance.task = tasks[job[p].session]

\* An entry is no older than what the hook of its session is about to deliver; where
\* that hook has just cleared, there is none.
Backed(p) ==
    ~Deleted /\ job[p].session \in Entries =>
        /\ \/ job[p].op = "save" \/ At(p, "invoke")
           \/ At(p, "release") /\ job[p].op = "load" /\ job[p].result # "incomplete"
           => root.entries[job[p].session].task >= job[p].guidance.task
        /\ ~(At(p, "release") /\ job[p].op = "clear" /\ job[p].result # "incomplete")

DeliveryInv == OneHook /\ Dated /\ DeliveredSupersedes /\ \A p \in Procs : Backed(p)

\* It is enough to look at the job that takes a step, at what it tells and at what
\* it writes: entries go, or are replaced by the hook of a task.
Writes(p) ==
    /\ Deleted => Deleted'
    /\ \A s \in Sessions :
          \/ root'.entries[s] \in {root.entries[s], NoGuidance}
          \/ /\ s = job[p].session /\ job[p].event = "task"
             /\ root'.entries[s] = job[p].guidance
Carries(p) ==
    job'[p].event \in Hooking =>
        /\ job'[p].event = job[p].event /\ job'[p].session = job[p].session
        /\ job'[p].guidance.task <= tasks[job[p].session]
        /\ job'[p].event = "task" => job'[p].guidance.task = job[p].guidance.task
TellsBacked(p) ==
    \/ UNCHANGED told
    \/ /\ root'.entries = root.entries
       /\ \A s \in Sessions :
             \/ told'[s] = told[s]
             \/ /\ s = job[p].session /\ job[p].event \in Hooking
                /\ told'[s] = job[p].guidance.task
                /\ ~Deleted /\ s \in Entries => root.entries[s].task >= job[p].guidance.task

LEMMA DeliverySuffices ==
    ASSUME CacheInv, CacheInv', DeliveryInv, NEW p \in Procs, Frame(p, job'[p]), UNCHANGED tasks,
           Writes(p), Carries(p), TellsBacked(p), Backed(p)'
    PROVE  DeliveryInv'
<1>1. ASSUME NEW q \in Procs, job'[q].event \in Hooking
      PROVE  job[q].event \in Hooking /\ job'[q].session = job[q].session /\ job[q].session \in Sessions
    <2>1. CASE q = p
        BY <1>1, <2>1 DEF Carries, CacheInv, JobOK
    <2>2. CASE q # p
        BY <1>1, <2>2 DEF Frame, CacheInv, JobOK
    <2> QED BY <2>1, <2>2
<1>2. OneHook'
    BY <1>1 DEF DeliveryInv, OneHook
<1>3. \A s \in Sessions :
         /\ tasks[s] \in Nat /\ told[s] \in Nat /\ told'[s] \in Nat
         /\ root.entries[s].task \in Nat /\ root'.entries[s].task \in Nat
    BY Typed DEF CacheInv, TypeOK, Roots, Guidance
<1>4. NoGuidance.task = 0
    BY DEF NoGuidance
<1>5. job[p].event \in Hooking => job[p].session \in Sessions /\ job[p].guidance.task \in Nat
    BY Typed DEF CacheInv, JobOK, Jobs, Guidance
<1>6. ASSUME NEW s \in Sessions
      PROVE  told'[s] <= tasks'[s] /\ root'.entries[s].task <= tasks'[s]
    BY <1>3, <1>4, <1>5 DEF DeliveryInv, Dated, TellsBacked, Writes, Hooking
<1>7. ASSUME NEW q \in Procs, job'[q].event \in Hooking
      PROVE  /\ job'[q].guidance.task <= tasks'[job'[q].session]
             /\ job'[q].event = "task" => job'[q].guidance.task = tasks'[job'[q].session]
    <2>1. CASE q = p
        BY <1>1, <1>7, <2>1 DEF Carries, DeliveryInv, Dated
    <2>2. CASE q # p
        BY <1>7, <2>2 DEF Frame, DeliveryInv, Dated
    <2> QED BY <2>1, <2>2
<1>8. Dated'
    BY <1>6, <1>7 DEF Dated
<1>9. DeliveredSupersedes'
    <2> SUFFICES ASSUME ~Deleted', NEW s \in Sessions, root'.entries[s] # NoGuidance
                 PROVE  root'.entries[s].task >= told'[s]
        BY DEF DeliveredSupersedes, Entries
    <2>1. ~Deleted
        BY DEF Writes
    <2>2. CASE root'.entries[s] = root.entries[s]
        <3>1. s \in Entries /\ root.entries[s].task >= told[s]
            BY <2>1, <2>2 DEF Entries, DeliveryInv, DeliveredSupersedes
        <3> QED BY <2>1, <2>2, <3>1, <1>3, <1>5 DEF TellsBacked
    <2>3. CASE /\ s = job[p].session /\ job[p].event = "task"
               /\ root'.entries[s] = job[p].guidance
        <3>1. job[p].guidance.task = tasks[s]
            BY <2>3 DEF DeliveryInv, Dated, Hooking
        <3>2. told'[s] <= tasks[s]
            BY <1>6
        <3> QED BY <2>3, <3>1, <3>2, <1>3
    <2> QED BY <2>2, <2>3 DEF Writes
<1>10. ASSUME NEW q \in Procs, q # p
       PROVE  Backed(q)'
    <2>1. /\ job'[q].pc = job[q].pc /\ job'[q].event = job[q].event /\ job'[q].op = job[q].op
          /\ job'[q].session = job[q].session /\ job'[q].guidance = job[q].guidance
          /\ job'[q].result = job[q].result /\ Backed(q) /\ JobOK(job[q])
        BY <1>10 DEF Frame, DeliveryInv, CacheInv
    <2> DEFINE s == job[q].session
    <2>2. CASE job[q].event \in Hooking /\ ~Deleted' /\ s \in Entries'
        <3>1. s \in Sessions /\ root'.entries[s] # NoGuidance /\ ~Deleted
            BY <2>1, <2>2 DEF JobOK, Entries, Writes
        <3>2. ~(s = job[p].session /\ job[p].event = "task")
            BY <1>10, <2>2 DEF DeliveryInv, OneHook, Hooking
        <3>3. root'.entries[s] = root.entries[s] /\ s \in Entries
            BY <3>1, <3>2 DEF Writes, Entries
        <3> QED BY <2>1, <3>1, <3>3 DEF Backed, At
    <2>3. CASE job[q].event \notin Hooking
        BY <2>1, <2>3 DEF Backed, JobOK, Hooking, At
    <2>4. CASE Deleted' \/ s \notin Entries'
        BY <2>1, <2>4 DEF Backed
    <2> QED BY <2>2, <2>3, <2>4
<1> QED BY <1>2, <1>8, <1>9, <1>10 DEF DeliveryInv

\* A step that leaves the entries alone.
LEMMA SameWrites ==
    ASSUME NEW p \in Procs, root'.entries = root.entries, Deleted => Deleted'
    PROVE  Writes(p) /\ Entries' = Entries
BY DEF Writes, Entries

LEMMA RemovesWrites ==
    ASSUME NEW p \in Procs, Removes
    PROVE  Writes(p) /\ (Deleted' <=> Deleted) /\ Entries' \subseteq Entries
BY DEF Writes, Removes, Deleted, Entries

\* A run that ends carries nothing; it tells what its session's entry backs.
LEMMA EndBacked ==
    ASSUME CacheInv', NEW p \in Procs, Ends(p)
    PROVE  Carries(p) /\ Backed(p)'
<1>1. job'[p].event = "none" /\ job'[p].pc = "idle" /\ JobOK(job'[p])
    BY DEF Ends, CacheInv
<1>2. job'[p].op # "save"
    BY <1>1 DEF JobOK
<1> QED BY <1>1, <1>2 DEF Carries, Backed, At, Hooking

\* What is told is what a save or an accepted load carried.
LEMMA TellSuffices ==
    ASSUME CacheInv, DeliveryInv, NEW p \in Procs, Tells(p), root'.entries = root.entries,
           job'[p].result = "context" =>
              \/ job[p].op = "save"
              \/ At(p, "release") /\ job[p].op = "load" /\ job[p].result # "incomplete"
    PROVE  TellsBacked(p)
<1>1. Backed(p) /\ JobOK(job[p])
    BY DEF DeliveryInv, CacheInv
<1>2. job'[p].result = "context" =>
         /\ job[p].event \in Hooking
         /\ ~Deleted /\ job[p].session \in Entries
               => root.entries[job[p].session].task >= job[p].guidance.task
    BY <1>1 DEF Backed, JobOK
<1> QED BY <1>2 DEF Tells, TellsBacked

\* A hook starts when no other hook of its session runs; a task hook is its newest.
LEMMA StartKeepsDelivery ==
    ASSUME CacheInv, CacheInv', DeliveryInv, NEW p \in Procs, NEW s \in Sessions, ~Overlap,
           NEW event \in Hooking, NEW op \in {"clear", "load"}, StartsHook(p, event, op, s),
           NEW n \in Nat, tasks' = [tasks EXCEPT ![s] = n], tasks[s] <= n,
           job'[p].guidance.task <= n, event = "task" => job'[p].guidance.task = n
    PROVE  DeliveryInv'
<1>1. /\ Frame(p, job'[p]) /\ UNCHANGED <<root, told>> /\ Hooks(s) = {}
      /\ job'[p].event = event /\ job'[p].session = s /\ job'[p].op = op /\ job'[p].pc = "lock"
      /\ At(p, "idle")
    BY DEF StartsHook, Starts, Deliverable
<1>2. UNCHANGED <<Entries, Deleted>>
    BY <1>1 DEF Entries, Deleted
<1>3. \A q \in Procs : job[q].event \in Hooking => job[q].session # s
    BY <1>1 DEF Hooks, Hooking
<1>4. OneHook'
    BY <1>1, <1>3 DEF OneHook, DeliveryInv, Frame
<1>5. \A t \in Sessions : tasks[t] <= tasks'[t] /\ told[t] \in Nat /\ root.entries[t].task \in Nat
                          /\ tasks[t] \in Nat /\ tasks'[t] \in Nat
    BY Typed DEF CacheInv, TypeOK, Roots, Guidance
<1>6. \A t \in Sessions : told'[t] <= tasks'[t] /\ root'.entries[t].task <= tasks'[t]
    BY <1>1, <1>5 DEF DeliveryInv, Dated
<1>7. ASSUME NEW q \in Procs, job'[q].event \in Hooking
      PROVE  /\ job'[q].guidance.task <= tasks'[job'[q].session]
             /\ job'[q].event = "task" => job'[q].guidance.task = tasks'[job'[q].session]
    <2>1. CASE q = p
        BY <1>1, <2>1, Typed
    <2>2. CASE q # p
        <3>1. job[q].session # s /\ job[q].session \in Sessions
            BY <1>1, <1>3, <1>7, <2>2 DEF Frame, CacheInv, JobOK
        <3>2. tasks'[job[q].session] = tasks[job[q].session]
            BY <3>1, Typed
        <3> QED BY <1>1, <1>7, <2>2, <3>2 DEF Frame, DeliveryInv, Dated
    <2> QED BY <2>1, <2>2
<1>8. DeliveredSupersedes'
    BY <1>1, <1>2 DEF DeliveryInv, DeliveredSupersedes
<1>9. ASSUME NEW q \in Procs PROVE Backed(q)'
    <2>1. CASE q = p
        BY <1>1, <2>1 DEF Backed, At
    <2>2. CASE q # p
        BY <1>1, <1>2, <2>2 DEF Frame, Backed, At, DeliveryInv
    <2> QED BY <2>1, <2>2
<1> QED BY <1>4, <1>6, <1>7, <1>8, <1>9 DEF DeliveryInv, Dated

LEMMA CallKeepsDelivery ==
    ASSUME CacheInv, DeliveryInv, ~Overlap, NEW p \in Procs, Call(p)
    PROVE  DeliveryInv'
<1>0. NoGuidance.task = 0
    BY DEF NoGuidance
<1>1. {"start", "resume", "task"} \subseteq Hooking /\ tasks \in [Sessions -> Nat]
    BY Typed DEF Hooking
<1>2. ASSUME NEW s \in Sessions, NEW event \in Hooking, NEW op \in {"clear", "load"},
             StartsHook(p, event, op, s), UNCHANGED tasks, job'[p].guidance = NoGuidance,
             event # "task", CacheInv'
      PROVE  DeliveryInv'
    <2> DEFINE n == tasks[s]
    <2>1. /\ n \in Nat /\ tasks' = [tasks EXCEPT ![s] = n] /\ tasks[s] <= n
          /\ job'[p].guidance.task <= n
        BY <1>0, <1>1, <1>2
    <2> HIDE DEF n
    <2> QED BY <1>2, <2>1, StartKeepsDelivery
<1>3. ASSUME NEW s \in Sessions, SessionStart(p, s) PROVE DeliveryInv'
    BY <1>1, <1>2, <1>3, SessionStartStep
<1>4. ASSUME NEW s \in Sessions, SessionResume(p, s) PROVE DeliveryInv'
    BY <1>1, <1>2, <1>4, SessionResumeStep
<1>5. ASSUME NEW s \in Sessions, UserPromptSubmit(p, s) PROVE DeliveryInv'
    <2> DEFINE n == tasks[s] + 1
               event == "task"
               op == "clear"
    <2>1. /\ CacheInv' /\ StartsHook(p, event, op, s) /\ tasks' = [tasks EXCEPT ![s] = n]
          /\ job'[p].guidance.task = tasks'[s]
        BY <1>5, UserPromptSubmitStep
    <2>2. /\ n \in Nat /\ tasks[s] <= n /\ job'[p].guidance.task = n /\ job'[p].guidance.task <= n
        BY <1>1, <2>1
    <2>3. event \in Hooking /\ op \in {"clear", "load"}
        BY <1>1
    <2> HIDE DEF n, event, op
    <2> QED BY <2>1, <2>2, <2>3, StartKeepsDelivery
<1>6. ASSUME ClearAll(p) \/ Inspect(p) PROVE DeliveryInv'
    <2>1. /\ CacheInv' /\ Starts(p) /\ UNCHANGED tasks /\ job'[p].event \in {"delete", "inspect"}
          /\ job'[p].pc \in {"lock", "stamp"}
        BY <1>6, ClearAllStep, InspectStep
    <2>2. Carries(p) /\ TellsBacked(p) /\ Frame(p, job'[p]) /\ Writes(p)
        BY <2>1, SameWrites DEF Starts, Carries, TellsBacked, Hooking, Deleted
    <2>3. Backed(p)'
        BY <2>1 DEF Backed, At, CacheInv, JobOK
    <2> QED BY <2>1, <2>2, <2>3, DeliverySuffices
<1> QED BY <1>3, <1>4, <1>5, <1>6 DEF Call

\* Each group of actions tells only what the entry of its session backs.
LEMMA LockKeepsDelivery ==
    ASSUME CacheInv, DeliveryInv, NEW p \in Procs, Lock(p)
    PROVE  DeliveryInv'
<1>1. CacheInv' /\ Tells(p) /\ UNCHANGED tasks /\ Backed(p) /\ JobOK(job[p])
    BY LockStep DEF Tells, DeliveryInv, CacheInv
<1>2. CASE Ends(p) /\ UNCHANGED root /\ (job'[p].result = "context" => job[p].op = "save")
    <2>1. Carries(p) /\ Backed(p)' /\ Frame(p, job'[p])
        BY <1>1, <1>2, EndBacked DEF Ends
    <2>2. Writes(p) /\ TellsBacked(p)
        BY <1>1, <1>2, SameWrites, TellSuffices DEF Deleted
    <2> QED BY <1>1, <2>1, <2>2, DeliverySuffices
<1>3. CASE Runs(p, "body") /\ UNCHANGED told /\ root' = [root EXCEPT !.marks = @ \cup {"lock"}]
    <2>1. root'.entries = root.entries /\ (Deleted' <=> Deleted)
        BY <1>3, Typed DEF Roots, Deleted
    <2>2. Writes(p) /\ Entries' = Entries /\ TellsBacked(p)
        BY <1>3, <2>1, SameWrites DEF TellsBacked
    <2>3. Carries(p)
        BY <1>3 DEF Runs, Same, Carries, DeliveryInv, Dated
    <2>4. Backed(p)'
        BY <1>1, <1>3, <2>1, <2>2 DEF Runs, Same, Backed, At
    <2> QED BY <1>1, <1>3, <2>2, <2>3, <2>4, DeliverySuffices DEF Runs
<1> QED BY <1>2, <1>3, LockStep

LEMMA ReleaseKeepsDelivery ==
    ASSUME CacheInv, DeliveryInv, NEW p \in Procs, Release(p)
    PROVE  DeliveryInv'
<1>1. /\ CacheInv' /\ At(p, "release") /\ Tells(p) /\ UNCHANGED tasks /\ Backed(p) /\ JobOK(job[p])
      /\ Frame(p, job'[p])
    BY ReleaseStep DEF Tells, DeliveryInv, CacheInv, Ends, Runs
<1>2. root'.entries = root.entries /\ (Deleted' <=> Deleted)
    <2>1. UNCHANGED root \/ root' = [root EXCEPT !.marks = @ \ {"lock"}]
        BY ReleaseStep
    <2> QED BY <2>1, Typed DEF Roots, Deleted
<1>3. Writes(p) /\ Entries' = Entries
    BY <1>2, SameWrites
<1>4. job'[p].result = "context" =>
          \/ job[p].op = "save"
          \/ At(p, "release") /\ job[p].op = "load" /\ job[p].result # "incomplete"
    <2>1. job'[p].result = "context" => job'[p].pc = "idle"
        BY <1>1 DEF CacheInv, JobOK
    <2> QED BY <1>1, <2>1, ReleaseStep DEF Runs
<1>5. TellsBacked(p)
    BY <1>1, <1>2, <1>4, TellSuffices
<1>6. CASE Ends(p)
    BY <1>1, <1>3, <1>5, <1>6, EndBacked, DeliverySuffices
<1>7. CASE Runs(p, "invoke") /\ job[p].op = "clear" /\ job[p].result # "incomplete"
    <2>1. Carries(p)
        BY <1>7 DEF Runs, Same, Carries, DeliveryInv, Dated
    <2>2. Deleted \/ job[p].session \notin Entries
        BY <1>1, <1>7 DEF Backed
    <2>3. Backed(p)'
        BY <1>2, <1>3, <1>7, <2>2 DEF Runs, Same, Backed
    <2> QED BY <1>1, <1>3, <1>5, <2>1, <2>3, DeliverySuffices
<1>8. CASE /\ job'[p].pc = "lock" /\ job'[p].op = "clear" /\ job'[p].event = "resume"
           /\ job[p].event = "resume" /\ job'[p].session = job[p].session
           /\ job'[p].guidance = NoGuidance
    <2>1. job[p].session \in Sessions /\ tasks[job[p].session] \in Nat
        BY <1>1, <1>8, Typed DEF JobOK, Hooking
    <2>2. Carries(p)
        BY <1>8, <2>1 DEF Carries, NoGuidance
    <2>3. Backed(p)'
        BY <1>8 DEF Backed, At
    <2> QED BY <1>1, <1>3, <1>5, <2>2, <2>3, DeliverySuffices
<1> QED BY <1>6, <1>7, <1>8, ReleaseStep

LEMMA InvokeKeepsDelivery ==
    ASSUME CacheInv, DeliveryInv, NEW p \in Procs, Invoke(p)
    PROVE  DeliveryInv'
<1>1. /\ CacheInv' /\ At(p, "invoke") /\ job[p].event = "task" /\ UNCHANGED <<root, tasks, told>>
      /\ Backed(p) /\ Frame(p, job'[p])
    BY InvokeStep DEF Ends, DeliveryInv
<1>2. Writes(p) /\ Entries' = Entries /\ (Deleted' <=> Deleted) /\ TellsBacked(p)
    BY <1>1, SameWrites DEF TellsBacked, Deleted
<1>3. CASE Ends(p)
    BY <1>1, <1>2, <1>3, EndBacked, DeliverySuffices
<1>4. CASE /\ job'[p].pc = "lock" /\ job'[p].op = "save" /\ job'[p].event = "task"
           /\ job'[p].session = job[p].session /\ job'[p].guidance.task = job[p].guidance.task
    <2>1. Carries(p)
        BY <1>1, <1>4 DEF Carries, DeliveryInv, Dated
    <2>2. Backed(p)'
        BY <1>1, <1>2, <1>4 DEF Backed, At
    <2> QED BY <1>1, <1>2, <2>1, <2>2, DeliverySuffices
<1> QED BY <1>3, <1>4, InvokeStep

\* A step under the lock tells nothing; unless it loads, it carries what it carried.
LEMMA OperatesCarries ==
    ASSUME CacheInv, DeliveryInv, NEW p \in Procs, Operates(p),
           job'[p].guidance = job[p].guidance
    PROVE  Carries(p) /\ TellsBacked(p) /\ Frame(p, job'[p]) /\ UNCHANGED tasks
BY DEF Operates, Carries, TellsBacked, DeliveryInv, Dated

LEMMA OperationKeepsDelivery ==
    ASSUME CacheInv, DeliveryInv, NEW p \in Procs,
           Operation(p) \/ OperationFails(p) \/ SaveFails(p)
    PROVE  DeliveryInv'
<1>1. Backed(p) /\ JobOK(job[p]) /\ job[p] \in Jobs
    BY DEF DeliveryInv, CacheInv, JobOK
<1> DEFINE s == job[p].session
<1>2. CASE Load(p)
    <2>1. /\ CacheInv' /\ Operates(p) /\ UNCHANGED root /\ job'[p].pc = "release"
          /\ job[p].op = "load" /\ job'[p].op = "load"
          /\ job'[p].guidance = IF Deleted THEN NoGuidance ELSE root.entries[s]
        BY <1>2, LoadStep DEF Operates
    <2>2. job[p].event = "resume" /\ job'[p].event = "resume" /\ job'[p].session = s /\ s \in Sessions
        BY <1>1, <2>1 DEF JobOK, Operates, Hooking
    <2>3. Writes(p) /\ Entries' = Entries /\ (Deleted' <=> Deleted)
        BY <2>1, SameWrites DEF Deleted
    <2>4. root.entries[s].task <= tasks[s] /\ tasks[s] \in Nat /\ root.entries[s].task \in Nat
        BY <2>2, Typed DEF DeliveryInv, Dated, Roots, Guidance
    <2>5. Carries(p)
        BY <2>1, <2>2, <2>4 DEF Carries, NoGuidance
    <2>6. Backed(p)'
        BY <2>1, <2>2, <2>3, <2>4 DEF Backed, At
    <2> QED BY <2>1, <2>3, <2>5, <2>6, DeliverySuffices DEF Operates, TellsBacked
<1>3. CASE Clear(p)
    <2>1. /\ CacheInv' /\ Operates(p) /\ job'[p].pc = "release" /\ job'[p].guidance = job[p].guidance
          /\ job[p].op = "clear" /\ job'[p].op = "clear" /\ job'[p].session = s
        BY <1>3, ClearStep DEF Operates
    <2>2. s \in Sessions
        BY <1>1, <2>1 DEF JobOK
    <2>3. Writes(p) /\ (Deleted' \/ s \notin Entries')
        <3>1. CASE UNCHANGED root /\ (Deleted \/ root.entries[s] = NoGuidance)
            BY <3>1, SameWrites DEF Deleted, Entries
        <3>2. CASE root' = [root EXCEPT !.entries[s] = NoGuidance]
            <4>1. Removes /\ root'.entries[s] = NoGuidance
                BY <2>2, <3>2, Typed DEF Removes, Roots
            <4> QED BY <4>1, RemovesWrites DEF Entries
        <3> QED BY <1>3, <3>1, <3>2, ClearStep
    <2>4. Backed(p)'
        BY <2>1, <2>3 DEF Backed
    <2> QED BY <2>1, <2>3, <2>4, OperatesCarries, DeliverySuffices
<1>4. ASSUME job[p].op = "save", CacheInv', Operates(p), job'[p].guidance = job[p].guidance,
             Writes(p), Deleted' <=> Deleted,
             root'.entries[s] \in {root.entries[s], NoGuidance, job[p].guidance}
      PROVE  DeliveryInv'
    <2>1. s \in Sessions /\ job'[p].session = s /\ job'[p].op = "save" /\ job[p].guidance.task \in Nat
        BY <1>1, <1>4, Typed DEF JobOK, Hooking, Operates, Jobs, Guidance
    <2>2. Backed(p)'
        BY <1>1, <1>4, <2>1 DEF Backed, At, Entries
    <2> QED BY <1>4, <2>2, OperatesCarries, DeliverySuffices
<1>5. CASE Stage(p)
    <2>1. root'.entries = root.entries /\ (Deleted' <=> Deleted)
        BY <1>5, StageStep, Typed DEF Roots, Deleted
    <2> QED BY <1>4, <1>5, <2>1, StageStep, SameWrites
<1>6. ASSUME At(p, "rename"), root' = Renamed(p)
      PROVE  /\ Writes(p) /\ (Deleted' <=> Deleted)
             /\ root'.entries[s] = job[p].guidance
    <2>1. /\ job[p].event = "task" /\ s \in Sessions /\ root'.marks = root.marks
          /\ root'.entries = [root.entries EXCEPT ![s] = job[p].guidance]
          /\ root.entries \in [Sessions -> Guidance]
        BY <1>1, <1>6, RenamedOK, Typed DEF JobOK, Roots
    <2> QED BY <2>1 DEF Writes, Deleted
<1>7. CASE Rename(p)
    BY <1>4, <1>6, <1>7, RenameStep
<1>8. CASE SaveFails(p)
    <2>1. CASE Removes
        <3>1. s \in Sessions
            BY <1>1, <1>8, SaveFailsStep DEF JobOK
        <3> QED BY <1>4, <1>8, <2>1, <3>1, SaveFailsStep, RemovesWrites DEF Removes
    <2>2. CASE root' = Renamed(p)
        BY <1>4, <1>6, <1>8, <2>2, SaveFailsStep
    <2> QED BY <1>8, <2>1, <2>2, SaveFailsStep
<1>9. CASE OperationFails(p)
    <2>1. /\ CacheInv' /\ Operates(p) /\ UNCHANGED root /\ job'[p].guidance = job[p].guidance
          /\ job'[p].pc = "release" /\ job'[p].result = "incomplete"
        BY <1>9, OperationFailsStep
    <2>2. Writes(p) /\ Entries' = Entries /\ (Deleted' <=> Deleted)
        BY <2>1, SameWrites DEF Deleted
    <2>3. Backed(p)'
        BY <1>1, <2>1, <2>2 DEF Backed, At, Operates
    <2> QED BY <2>1, <2>2, <2>3, OperatesCarries, DeliverySuffices
<1> QED BY <1>2, <1>3, <1>5, <1>7, <1>8, <1>9 DEF Operation

LEMMA DeletionKeepsDelivery ==
    ASSUME CacheInv, DeliveryInv, NEW p \in Procs, Deletion(p)
    PROVE  DeliveryInv'
<1>1. CacheInv' /\ Operates(p) /\ JobOK(job[p]) /\ job[p].op = "delete"
    BY RaiseBarrierStep, ListStep, SweepStep, VerifyStep DEF Deletion, CacheInv
<1>2. job'[p].op = "delete" /\ JobOK(job'[p]) /\ job'[p].event = "delete"
    BY <1>1 DEF CacheInv, Operates, JobOK
<1>3. Carries(p) /\ TellsBacked(p) /\ Backed(p)'
    BY <1>1, <1>2 DEF Operates, Carries, TellsBacked, Backed, Hooking, JobOK, At
<1>4. Writes(p)
    <2>1. CASE UNCHANGED root
        BY <2>1, SameWrites DEF Deleted
    <2>2. CASE root' = [root EXCEPT !.marks = @ \cup {"deleted"}]
        BY <2>2, Typed, SameWrites DEF Roots, Deleted
    <2>3. CASE Removes
        BY <2>3, RemovesWrites
    <2> QED BY <2>1, <2>2, <2>3, RaiseBarrierStep, ListStep, SweepStep, VerifyStep DEF Deletion
<1> QED BY <1>1, <1>3, <1>4, DeliverySuffices DEF Operates

LEMMA InspectionKeepsDelivery ==
    ASSUME CacheInv, DeliveryInv, NEW p \in Procs, Inspection(p)
    PROVE  DeliveryInv'
<1>1. CacheInv' /\ Looks(p) /\ job'[p].pc \in Inspecting \cup {"idle"}
    BY InspectRootStep, InspectControlStep, InspectNamesStep, InspectEntryStep,
       InspectControlAgainStep, InspectRootAgainStep DEF Inspection, Proceeds, Inspecting
<1>2. job'[p].event \notin Hooking
    BY <1>1 DEF Looks, CacheInv, JobOK, Hooking, Inspecting
<1>3. Carries(p) /\ TellsBacked(p) /\ Frame(p, job'[p]) /\ Writes(p)
    BY <1>1, <1>2, SameWrites DEF Looks, Carries, TellsBacked, Deleted
<1>4. Backed(p)'
    BY <1>1, <1>2 DEF CacheInv, JobOK, Backed, At, Hooking
<1> QED BY <1>1, <1>3, <1>4, DeliverySuffices DEF Looks

LEMMA CrashKeepsDelivery ==
    ASSUME CacheInv, DeliveryInv, NEW p \in Procs, Crash(p)
    PROVE  DeliveryInv'
<1>1. CacheInv' /\ Ends(p) /\ UNCHANGED <<root, tasks, told>>
    BY CrashStep
<1>2. Writes(p) /\ TellsBacked(p)
    BY <1>1, SameWrites DEF TellsBacked, Deleted
<1> QED BY <1>1, <1>2, EndBacked, DeliverySuffices DEF Ends

LEMMA DeliveryInvNext ==
    ASSUME CacheInv, DeliveryInv, ~Overlap, [Next]_vars
    PROVE  DeliveryInv'
<1>1. ASSUME NEW p \in Procs, Call(p) \/ Step(p) \/ Crash(p)
      PROVE  DeliveryInv'
    BY <1>1, CallKeepsDelivery, LockKeepsDelivery, ReleaseKeepsDelivery, InvokeKeepsDelivery,
       OperationKeepsDelivery, DeletionKeepsDelivery, InspectionKeepsDelivery, CrashKeepsDelivery
       DEF Step
<1>2. ASSUME UNCHANGED <<job, tasks, told>>, root'.entries = root.entries, Deleted' <=> Deleted
      PROVE  DeliveryInv'
    BY <1>2 DEF DeliveryInv, OneHook, Dated, DeliveredSupersedes, Backed, Entries, At
<1>3. CASE Tick \/ UNCHANGED vars
    <2>1. UNCHANGED <<root, job, tasks, told>>
        BY <1>3, TickStep DEF vars
    <2> QED BY <1>2, <2>1 DEF Deleted
<1>4. CASE OwnerClearsLock
    <2>1. root'.entries = root.entries /\ (Deleted' <=> Deleted)
        BY <1>4, OwnerClearsLockStep, Typed DEF Roots, Deleted
    <2> QED BY <1>2, <1>4, <2>1, OwnerClearsLockStep
<1> QED BY <1>1, <1>3, <1>4 DEF Next

LEMMA DeliveryInit == Init => DeliveryInv
BY DEF Init, DeliveryInv, OneHook, Dated, DeliveredSupersedes, Backed, Entries, Idle, NoGuidance,
   Hooking, At

\* Where the host delivers the events of a session one after the other, no guidance
\* older than what a hook has emitted is left to be restored, although saves fail,
\* locks are taken and processes die (handleTask clears before it asks).
THEOREM DeliverySupersedes == ASSUME ~Overlap PROVE Spec => []DeliveredSupersedes
<1>1. CacheInv /\ DeliveryInv /\ [Next]_vars => DeliveryInv'
    BY DeliveryInvNext
<1>2. DeliveryInv => DeliveredSupersedes
    BY DEF DeliveryInv
<1> QED BY <1>1, <1>2, DeliveryInit, CacheInvHolds, PTL DEF Spec
=============================================================================
