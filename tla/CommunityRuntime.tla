-------------------------- MODULE CommunityRuntime --------------------------
(***************************************************************************)
(* Runtimes of several processes over one store (local-community-runtime), *)
(* their provider calls (local-stored-profile-provider.ts), and the owner  *)
(* operations they dispatch to: workflow, portability, interpretation.     *)
(*                                                                         *)
(* The store is the register that ProfileRegister specifies: a load reads  *)
(* it at one moment, a write is a compare-and-set at one moment, deletion  *)
(* closes it.  What a runtime does between two awaits is one step.         *)
(***************************************************************************)
EXTENDS OwnerProfile

CONSTANTS
    Runtimes,     \* processes with a runtime
    MaxAge,       \* limits.maxCacheAgeMs, the age of observations
    MaxSkew,      \* how far in the future the time of a request may lie
    Delays,       \* how long before its request a caller's observation may lie
    Lags,         \* how many generations behind a caller may be
    Artifacts,    \* profiles of other stores, exported earlier
    MaxIncidents, \* bound on faults and crashes
    MaxRequests,  \* bound on accepted requests
    Duties        \* the requests each process is given

Mutations == {"correct", "declare", "import"}
Operations == Mutations \cup {"view", "admit"}
Requests == Operations \cup {"refresh", "delete", "provider"}

ASSUME RuntimeAssumption ==
    /\ MaxAge \in Nat /\ MaxSkew \in Nat /\ MaxIncidents \in Nat /\ MaxRequests \in Nat
    /\ Delays \subseteq Nat /\ Lags \subseteq Nat
    /\ Duties \in [Runtimes -> SUBSET Requests]

VARIABLES
    store,      \* the register: generation, profile, lastValidatedAt, barrier
    runtime,    \* per process: complete, snapshots and the request it runs
    call,       \* per process: its provider call
    world,      \* what the sources show, the clock, the adapter's cache
    agent,      \* the interpretation view shown last
    awaiting,   \* processes whose accepted refresh or deletion is not verified
    spent       \* incidents and requests so far
runtimeVars == <<store, runtime, call, world, agent, awaiting, spent>>

NoSource == [c \in Capabilities |-> Gone]
NoStore == [generation |-> None, profile |-> Empty, at |-> 0, barred |-> FALSE]
NoDerivation == [content |-> NoSource, observed |-> 0, derivedAt |-> 0, stale |-> FALSE]
NoView == [generation |-> None, claims |-> {}, expires |-> 0, stored |-> Empty]
NoCall(result) == [pc |-> "idle", at |-> 0, usable |-> FALSE, result |-> result]

Ready(complete, snapshots, session, result) ==
    [pc |-> "idle", op |-> "none", expected |-> None, at |-> 0, derivation |-> NoDerivation,
     view |-> NoView, base |-> None, candidate |-> Empty, complete |-> complete,
     snapshots |-> snapshots, session |-> session, result |-> result]
Started == Ready(TRUE, FALSE, "live", "none")

At(r, label) == runtime[r].pc = label
Running(r, ops) == At(r, "loaded") /\ runtime[r].op \in ops
Incident == spent.incidents < MaxIncidents /\ spent' = [spent EXCEPT !.incidents = @ + 1]
Accepted == spent.requests < MaxRequests /\ spent' = [spent EXCEPT !.requests = @ + 1]
Calm == UNCHANGED spent
Local == UNCHANGED <<store, call, world, agent>>

\* The finally block: whatever the result, the runtime is free again.  Of the
\* results only those that a property speaks about are remembered.
Finish(r, complete, snapshots, result) ==
    runtime' = [runtime EXCEPT ![r] = Ready(complete, snapshots, @.session,
                   IF result \in {"deleted", "admitted"} THEN result ELSE "none")]
Return(r, result) == Finish(r, runtime[r].complete, runtime[r].snapshots, result)

-----------------------------------------------------------------------------
(* Requests *)

\* A caller names the generation of a profile it has seen, and it may be an old one.
SeenGenerations == {g \in Generations \cup {None} : store.generation - g \in Lags}

\* An accepted refresh withholds the provider until it is saved.  The time of the
\* observation is the caller's, not later than the time of the request.
Refresh(r, expected, observedAt, at) ==
    /\ At(r, "idle") /\ Local /\ Accepted /\ at - observedAt \in Delays
    /\ runtime' = [runtime EXCEPT ![r] = [@ EXCEPT
          !.pc = "collect", !.op = "refresh", !.expected = expected, !.at = at,
          !.complete = FALSE, !.snapshots = FALSE, !.result = "none",
          !.derivation = [NoDerivation EXCEPT !.derivedAt = observedAt]]]
    /\ awaiting' = awaiting \cup {r}

\* refreshLocalRepositories: a fresh derivation shows the sources as they were at
\* a moment of the refresh; some collections may be older than the refresh.
Collect(r) ==
    LET started == runtime[r].derivation.derivedAt
    IN  /\ At(r, "collect") /\ Local /\ Calm /\ UNCHANGED awaiting
        /\ \/ /\ runtime[r].session = "live"
              /\ \E observed \in {t \in 0..started : started - t <= MaxAge}, stale \in BOOLEAN :
                    /\ stale => observed < started
                    /\ runtime' = [runtime EXCEPT ![r] = [@ EXCEPT
                          !.pc = "load",
                          !.derivation = [content |-> world.content, observed |-> observed,
                                          derivedAt |-> started, stale |-> stale]]]
           \/ Return(r, "refresh-incomplete")

\* Any other operation on the store.  An admission returns the view the agent was
\* shown, whatever was saved since.
Ask(r, op, expected, at) ==
    /\ At(r, "idle") /\ Local /\ Accepted /\ UNCHANGED awaiting
    /\ op = "admit" => agent # NoView
    /\ runtime' = [runtime EXCEPT ![r] = [@ EXCEPT
          !.pc = "load", !.op = op, !.expected = expected, !.at = at, !.result = "none",
          !.view = IF op = "admit" THEN agent ELSE NoView]]

\* An accepted deletion withholds the provider and disposes the process's sessions.
MutantDelete(r) ==
    /\ At(r, "idle") /\ Local /\ Accepted
    /\ runtime' = [runtime EXCEPT ![r] = [@ EXCEPT
          !.pc = "delete", !.op = "delete", !.session = "disposed", !.result = "none"]]
    /\ awaiting' = awaiting \cup {r}
Delete(r) ==
    /\ At(r, "idle") /\ Local /\ Accepted
    /\ runtime' = [runtime EXCEPT ![r] = [@ EXCEPT
          !.pc = "delete", !.op = "delete", !.complete = FALSE, !.snapshots = FALSE,
          !.session = "disposed", !.result = "none"]]
    /\ awaiting' = awaiting \cup {r}

-----------------------------------------------------------------------------
(* Owner operations: load, decide, write *)

\* checkMutation: the caller has seen the newest profile and comes after it.
MayMutate(r) ==
    /\ store.generation = runtime[r].expected
    /\ store.generation < MaxGeneration
    /\ store.at <= runtime[r].at
    /\ \A e \in store.profile.corrections \cup store.profile.declarations :
          e.at <= runtime[r].at

\* What an operation that loads the store now would write; nothing when it refuses.
Derivations(r) ==
    {Derived(store.profile, d) : d \in {d \in {runtime[r].derivation} :
        MayMutate(r) /\ (store.generation # None => store.at <= d.derivedAt)}}
Corrections(r) ==
    {Corrected(store.profile, target, runtime[r].at, store.generation + 1) :
        target \in {t \in store.profile.claims :
            MayMutate(r) /\ Correctable(store.profile, t, runtime[r].at)}}
Declarations(r) ==
    {Declared(store.profile, c, runtime[r].at, store.generation + 1) :
        c \in {c \in Capabilities : MayMutate(r)}}

\* An import only fills an empty store, with an artifact that is not from the future.
Imports(r) ==
    {Projected(artifact) : artifact \in {p \in Artifacts :
        store.generation = None /\ Youngest(p, runtime[r].at)}}

Candidates(r) ==
    CASE runtime[r].op = "refresh" -> Derivations(r)
      [] runtime[r].op = "correct" -> Corrections(r)
      [] runtime[r].op = "declare" -> Declarations(r)
      [] runtime[r].op = "import" -> Imports(r)
      [] OTHER -> {store.profile}

\* The load of the store and the decision that follows it.
Load(r) ==
    /\ At(r, "load") /\ Local /\ Calm /\ UNCHANGED awaiting
    /\ \/ /\ ~store.barred
          /\ \E candidate \in Candidates(r) :
                runtime' = [runtime EXCEPT ![r] = [@ EXCEPT
                   !.pc = "loaded", !.base = store.generation, !.candidate = candidate,
                   !.expected = None, !.derivation = NoDerivation]]
       \/ /\ store.barred \/ Candidates(r) = {}
          /\ Return(r, "rejected")

MutantCurrent(r) == ~store.barred
Current(r) == ~store.barred /\ store.generation = runtime[r].base

\* run, told that the candidate was saved.
Saved(r) ==
    CASE runtime[r].op = "refresh" -> Finish(r, TRUE, TRUE, "refreshed")
      [] runtime[r].op = "import" -> Finish(r, TRUE, FALSE, "imported")
      [] OTHER -> Return(r, "saved")

\* The compare-and-set of the store; an activated candidate may still be reported
\* as commit-outcome-unknown.
Commit(r) ==
    /\ Running(r, {"refresh"} \cup Mutations)
    /\ UNCHANGED <<call, world, agent>>
    /\ \/ /\ Current(r)
          /\ store' = [generation |-> runtime[r].base + 1, profile |-> runtime[r].candidate,
                       at |-> runtime[r].at, barred |-> FALSE]
          /\ \/ /\ Calm /\ Saved(r)
                /\ awaiting' = awaiting \ IF runtime[r].op \in {"refresh", "import"} THEN {r} ELSE {}
             \/ Incident /\ UNCHANGED awaiting /\ Return(r, "commit-outcome-unknown")
       \/ ~Current(r) /\ Calm /\ UNCHANGED <<store, awaiting>> /\ Return(r, "conflict")
       \/ Incident /\ UNCHANGED <<store, awaiting>> /\ Return(r, "persistence-failed")

-----------------------------------------------------------------------------
(* Deletion *)

\* deleteLocalProfileStore, complete or failing before or behind its barrier.
DeleteStore(r) ==
    /\ At(r, "delete") /\ UNCHANGED <<call, world, agent, awaiting>>
    /\ \/ /\ Calm /\ store' = [NoStore EXCEPT !.barred = TRUE]
          /\ runtime' = [runtime EXCEPT ![r].pc = "clear"]
       \/ /\ Incident /\ store' \in {store, [store EXCEPT !.barred = TRUE]}
          /\ Return(r, "deletion-incomplete")

\* The adapter clears its cache, which its own barrier keeps closed.
MutantClearCache(r) ==
    /\ At(r, "clear") /\ UNCHANGED <<store, call, agent, awaiting>>
    /\ \/ Calm /\ world' = [world EXCEPT !.cache = "closed"] /\ Return(r, "deleted")
       \/ Incident /\ UNCHANGED world /\ Return(r, "deleted")
ClearCache(r) ==
    /\ At(r, "clear") /\ UNCHANGED <<store, call, agent, awaiting>>
    /\ \/ Calm /\ world' = [world EXCEPT !.cache = "closed"] /\ Return(r, "deleted")
       \/ Incident /\ UNCHANGED world /\ Return(r, "deletion-incomplete")

-----------------------------------------------------------------------------
(* Interpretation: a view for an agent, and the admission of what it proposes *)

\* A view tells the claims that stand; it does not tell the contents that their
\* evidence was found in.  What the store held when it was returned is remembered for
\* the properties only.
ViewOf(generation, profile, expires) ==
    [generation |-> generation, claims |-> Selected(profile), expires |-> expires,
     stored |-> store.profile]

\* The owner discloses until a moment that has not come when the view returns.
View(r) ==
    /\ Running(r, {"view"}) /\ UNCHANGED <<store, call, world, awaiting>> /\ Calm
    /\ \/ /\ runtime[r].base # None
          /\ \E expires \in Times :
                /\ world.now < expires
                /\ agent' = ViewOf(runtime[r].base, runtime[r].candidate, expires)
          /\ Return(r, "viewed")
       \/ UNCHANGED agent /\ Return(r, "rejected")

\* The identifier of a view is a hash of its generation and of all it tells; the
\* view is made again from a fresh load and compared.
MutantSameView(r) == runtime[r].view.claims = Selected(runtime[r].candidate)
SameView(r) ==
    /\ runtime[r].view.generation = runtime[r].base
    /\ runtime[r].view.claims = Selected(runtime[r].candidate)

\* The admission of an assessment of one claim.
Admit(r) ==
    /\ Running(r, {"admit"}) /\ Local /\ Calm /\ UNCHANGED awaiting
    /\ \/ /\ SameView(r) /\ world.now < runtime[r].view.expires
          /\ \E claim \in runtime[r].candidate.claims :
                Admissible(runtime[r].candidate, claim, world.now, MaxAge)
          /\ Return(r, "admitted")
       \/ Return(r, "rejected")

-----------------------------------------------------------------------------
(* Provider calls *)

Alone(r) == UNCHANGED <<store, runtime, world, agent, awaiting>>

Available(r) == runtime[r].complete /\ At(r, "idle")

Invoke(r) ==
    /\ call[r].pc = "idle" /\ Available(r) /\ Alone(r) /\ Accepted
    /\ call' = [call EXCEPT ![r] = [NoCall("none") EXCEPT !.pc = "loading", !.at = world.now]]

\* The profile is refused when there is none or when it is from the future.
CallLoads(r) ==
    /\ call[r].pc = "loading" /\ Alone(r) /\ Calm
    /\ call' = [call EXCEPT ![r] = [@ EXCEPT
          !.pc = "loaded",
          !.usable = /\ ~store.barred /\ store.generation # None /\ store.at <= call[r].at
                     /\ Youngest(store.profile, call[r].at)]]

\* The load resumes the call, which asks again whether the provider is available.
Answer(r) ==
    /\ call[r].pc = "loaded" /\ Alone(r) /\ Calm
    /\ LET usable == call[r].usable /\ Available(r)
       IN  call' = [call EXCEPT ![r] = NoCall(IF usable THEN "success" ELSE "unavailable")]

-----------------------------------------------------------------------------
(* The environment *)

\* The sources of a capability change; their disappearance is their last version.
Change(c) ==
    /\ world.content[c] # Gone
    /\ \E v \in (world.content[c] + 1)..Gone : world' = [world EXCEPT !.content[c] = v]
    /\ UNCHANGED <<store, runtime, call, agent, awaiting, spent>>

Tick ==
    /\ world.now < MaxTime /\ world' = [world EXCEPT !.now = @ + 1]
    /\ UNCHANGED <<store, runtime, call, agent, awaiting, spent>>

\* A process dies with its request and its call and starts again.
Restart(r) ==
    /\ Incident /\ runtime' = [runtime EXCEPT ![r] = Started]
    /\ call' = [call EXCEPT ![r] = NoCall("none")]
    /\ awaiting' = awaiting \ {r}
    /\ UNCHANGED <<store, world, agent>>

-----------------------------------------------------------------------------
Init ==
    /\ store = NoStore
    /\ runtime = [r \in Runtimes |-> Started]
    /\ call = [r \in Runtimes |-> NoCall("none")]
    /\ world = [content |-> [c \in Capabilities |-> 0], now |-> 0, cache |-> "open"]
    /\ agent = NoView
    /\ awaiting = {}
    /\ spent = [incidents |-> 0, requests |-> 0]

RequestTimes == {t \in Times : world.now <= t /\ t <= world.now + MaxSkew}

Request(r) ==
    \/ \E at \in RequestTimes, expected \in SeenGenerations :
          \/ "refresh" \in Duties[r] /\ \E observedAt \in Times : Refresh(r, expected, observedAt, at)
          \/ \E op \in Operations \cap Duties[r] : Ask(r, op, expected, at)
    \/ "delete" \in Duties[r] /\ Delete(r)
    \/ "provider" \in Duties[r] /\ Invoke(r)
Step(r) == \/ Collect(r) \/ Load(r) \/ Commit(r) \/ DeleteStore(r) \/ ClearCache(r)
           \/ View(r) \/ Admit(r)
Provide(r) == CallLoads(r) \/ Answer(r)

Next ==
    \/ \E r \in Runtimes : Request(r) \/ Step(r) \/ Provide(r) \/ Restart(r)
    \/ \E c \in Capabilities : Change(c)
    \/ Tick

Spec == Init /\ [][Next]_runtimeVars

-----------------------------------------------------------------------------
(* Properties *)

\* Nothing an operation may write is an invalid graph: no sequence of legal
\* requests, imports and source changes makes the store refuse the next one.
CandidatesAreValid ==
    \A r \in Runtimes : At(r, "load") => \A candidate \in Candidates(r) : GraphValid(candidate)

\* Every correction of the stored profile is in force, whatever refreshes
\* followed it (ADR-0027), and an export of the profile keeps it so (ADR-0028).
CorrectionsHold ==
    LET exported == Projected(store.profile)
    IN  /\ CorrectionsInForce(store.profile)
        /\ GraphValid(exported) /\ CorrectionsInForce(exported)

\* Corrections and declarations are never lost short of a deletion: not to a
\* refresh or another owner process that loaded earlier, nor to an import.
HistoryKept ==
    [][~store'.barred => /\ store.profile.corrections \subseteq store'.profile.corrections
                         /\ store.profile.declarations \subseteq store'.profile.declarations]_runtimeVars

\* A stored observation is never replaced by one of an earlier state of its
\* source: old snapshots cannot roll the profile back (docs/OWNER_WORKFLOW.md).
NoSourceRollback ==
    [][\A old \in store.profile.evidence, new \in store'.profile.evidence :
          old.id = new.id => old.fingerprint <= new.fingerprint]_runtimeVars

\* From the moment a refresh or a deletion is accepted until a refresh or an
\* import is verified, the provider of that process gives no context, even to a
\* call that had started before.
ProviderWithheld ==
    [][\A r \in Runtimes :
          call[r].pc = "loaded" /\ call'[r].result = "success" => r \notin awaiting]_runtimeVars

\* A deletion reported complete has closed the store and the adapter's cache,
\* and both stay closed.
DeletedMeansClosed ==
    \A r \in Runtimes :
        runtime[r].result = "deleted" => store.barred /\ store.profile = Empty /\ world.cache = "closed"

\* An admission that succeeds rests on the profile the store held when the agent was
\* shown its view: nothing was saved since, by this process or another, not even a
\* refresh that leaves every word of the view as it was and only replaces the
\* contents behind it.
AdmittedAsShown ==
    [][\A r \in Runtimes :
          Running(r, {"admit"}) /\ runtime'[r].result = "admitted" =>
             runtime[r].candidate = runtime[r].view.stored]_runtimeVars

\* A profile stays sound through every sequence of requests: what is written is valid,
\* corrections stay in force, and no source goes back.
ProfileStaysSound == []CandidatesAreValid /\ []CorrectionsHold /\ NoSourceRollback
=============================================================================
