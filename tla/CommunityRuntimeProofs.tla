----------------------- MODULE CommunityRuntimeProofs -----------------------
(***************************************************************************)
(* Proofs about CommunityRuntime, for every number of processes, of        *)
(* capabilities and of requests.  No type of claims or observations is     *)
(* needed: a record is only required to have its fields.                   *)
(***************************************************************************)
EXTENDS CommunityRuntime, TLAPS

ProfileShaped(p) ==
    p \in [claims : {p.claims}, evidence : {p.evidence}, corrections : {p.corrections},
           declarations : {p.declarations}]
StoreShaped(s) ==
    s \in [generation : {s.generation}, profile : {s.profile}, at : {s.at}, barred : {s.barred}]
CallShaped(c) == c \in [pc : {c.pc}, at : {c.at}, usable : {c.usable}, result : {c.result}]
RuntimeShaped(s) ==
    s \in [pc : {s.pc}, op : {s.op}, expected : {s.expected}, at : {s.at},
           derivation : {s.derivation}, view : {s.view}, base : {s.base},
           candidate : {s.candidate}, complete : {s.complete}, snapshots : {s.snapshots}, session : {s.session},
           result : {s.result}]
WorldShaped(w) == w \in [content : {w.content}, now : {w.now}, cache : {w.cache}]

\* What the owner said in p is still said in q.
Keeps(p, q) == p.corrections \subseteq q.corrections /\ p.declarations \subseteq q.declarations

-----------------------------------------------------------------------------
(* The inductive invariant *)

\* A store that was never written holds the empty profile.
StoreGood(s) ==
    /\ StoreShaped(s) /\ ProfileShaped(s.profile)
    /\ s.generation \in Int /\ s.generation >= None
    /\ s.generation = None => s.profile = Empty

\* The candidate of a process that has loaded: as long as the store is what it
\* loaded, the candidate says all that the store says.
CandidateGood(s, st) ==
    /\ s.base \in Int /\ s.base >= None /\ ProfileShaped(s.candidate)
    /\ ~st.barred => /\ s.base <= st.generation
                     /\ s.base = st.generation => Keeps(st.profile, s.candidate)

RuntimeGood(s, st, cache) ==
    /\ RuntimeShaped(s)
    /\ s.pc # "idle" => s.result = "none"
    /\ s.pc = "clear" => st.barred /\ st.profile = Empty
    /\ s.result = "deleted" => st.barred /\ st.profile = Empty /\ cache = "closed"
    /\ s.pc = "loaded" => CandidateGood(s, st)

CallGood(c) == CallShaped(c) /\ (c.pc # "idle" => c.result = "none")

Withheld == \A r \in Runtimes : r \in awaiting => ~runtime[r].complete

Inv ==
    /\ StoreGood(store) /\ WorldShaped(world)
    /\ DOMAIN runtime = Runtimes /\ DOMAIN call = Runtimes
    /\ \A r \in Runtimes : RuntimeGood(runtime[r], store, world.cache)
    /\ \A r \in Runtimes : CallGood(call[r])
    /\ Withheld

-----------------------------------------------------------------------------
(* What the owner operations keep *)

\* saveOwnerDerivation replaces claims and evidence only.
LEMMA DerivedKeeps ==
    ASSUME NEW p, NEW d, ProfileShaped(p)
    PROVE  ProfileShaped(Derived(p, d)) /\ Keeps(p, Derived(p, d))
BY DEF Derived, ProfileShaped, Keeps

\* A correction is added to those there are.
LEMMA CorrectedKeeps ==
    ASSUME NEW p, NEW t, NEW at, NEW g, ProfileShaped(p)
    PROVE  ProfileShaped(Corrected(p, t, at, g)) /\ Keeps(p, Corrected(p, t, at, g))
BY DEF Corrected, ProfileShaped, Keeps

\* A declaration is added to those there are.
LEMMA DeclaredKeeps ==
    ASSUME NEW p, NEW c, NEW at, NEW g, ProfileShaped(p)
    PROVE  ProfileShaped(Declared(p, c, at, g)) /\ Keeps(p, Declared(p, c, at, g))
BY DEF Declared, ProfileShaped, Keeps

\* An imported profile follows one that said nothing.
LEMMA ProjectedKeeps ==
    ASSUME NEW p
    PROVE  ProfileShaped(Projected(p)) /\ Keeps(Empty, Projected(p)) /\ ProfileShaped(Empty)
BY DEF Projected, ProfileShaped, Keeps, Empty

\* Whatever an operation may write keeps what the store says.
LEMMA CandidatesKeep ==
    ASSUME StoreGood(store), NEW r \in Runtimes, NEW q \in Candidates(r)
    PROVE  ProfileShaped(q) /\ Keeps(store.profile, q)
<1>0. ProfileShaped(store.profile)
    BY DEF StoreGood
<1>1. CASE runtime[r].op = "refresh"
    BY <1>0, <1>1, DerivedKeeps DEF Candidates, Derivations
<1>2. CASE runtime[r].op = "correct"
    BY <1>0, <1>2, CorrectedKeeps DEF Candidates, Corrections
<1>3. CASE runtime[r].op = "declare"
    BY <1>0, <1>3, DeclaredKeeps DEF Candidates, Declarations
<1>4. CASE runtime[r].op = "import"
    BY <1>4, ProjectedKeeps DEF Candidates, Imports, StoreGood
<1>5. CASE runtime[r].op \notin {"refresh", "correct", "declare", "import"}
    <2>1. Candidates(r) = {store.profile}
        BY <1>5 DEF Candidates
    <2> QED BY <1>0, <2>1 DEF Keeps
<1> QED BY <1>1, <1>2, <1>3, <1>4, <1>5

-----------------------------------------------------------------------------
(* What a step of one process leaves to the others *)

\* A write is a compare-and-set that raises the generation; a deletion is final.
StoreStep(st, new) ==
    \/ new = st
    \/ ~st.barred /\ ~new.barred /\ new.generation = st.generation + 1
    \/ new.barred /\ (st.barred => new.profile \in {st.profile, Empty})

LEMMA OthersStayGood ==
    ASSUME NEW s, NEW st, NEW new, NEW cache, NEW after, RuntimeGood(s, st, cache),
           StoreGood(st), StoreGood(new), StoreStep(st, new), after \in {cache, "closed"}
    PROVE  RuntimeGood(s, new, after)
<1>1. s.pc = "clear" => new.barred /\ new.profile = Empty
    BY DEF RuntimeGood, StoreStep
<1>2. s.result = "deleted" => new.barred /\ new.profile = Empty /\ after = "closed"
    BY DEF RuntimeGood, StoreStep
<1>3. s.pc = "loaded" => CandidateGood(s, new)
    BY DEF RuntimeGood, StoreStep, CandidateGood, StoreGood, None
<1> QED BY <1>1, <1>2, <1>3 DEF RuntimeGood

\* It is enough to look at the process that takes a step.
LEMMA StepSuffices ==
    ASSUME Inv, NEW r \in Runtimes, NEW s, runtime' = [runtime EXCEPT ![r] = s],
           StoreGood(store'), StoreStep(store, store'),
           WorldShaped(world'), world'.cache \in {world.cache, "closed"},
           RuntimeGood(s, store', world'.cache),
           awaiting' \subseteq awaiting \cup {r}, r \in awaiting' => ~s.complete,
           UNCHANGED call
    PROVE  Inv'
<1>1. DOMAIN runtime' = Runtimes /\ \A q \in Runtimes : runtime'[q] = IF q = r THEN s ELSE runtime[q]
    BY DEF Inv
<1>2. ASSUME NEW q \in Runtimes
      PROVE  RuntimeGood(runtime'[q], store', world'.cache)
    BY <1>1, OthersStayGood DEF Inv
<1>3. Withheld'
    BY <1>1 DEF Inv, Withheld
<1> QED BY <1>1, <1>2, <1>3 DEF Inv

\* The runtime that a finished request leaves.
LEMMA ReadyIsGood ==
    ASSUME NEW complete, NEW snapshots, NEW session, NEW result, NEW st, NEW cache,
           result = "deleted" => st.barred /\ st.profile = Empty /\ cache = "closed"
    PROVE  RuntimeGood(Ready(complete, snapshots, session, result), st, cache)
<1> DEFINE s == Ready(complete, snapshots, session, result)
<1>1. s.pc = "idle" /\ s.result = result
    BY DEF Ready
<1>2. RuntimeShaped(s)
    BY DEF Ready, RuntimeShaped
<1> QED BY <1>1, <1>2 DEF RuntimeGood

\* A step that only returns: the other parts of the state stay as they are.
LEMMA ReturnKeeps ==
    ASSUME Inv, NEW r \in Runtimes, NEW result, Return(r, result),
           result = "deleted" => store.barred /\ store.profile = Empty /\ world'.cache = "closed",
           WorldShaped(world'), world'.cache \in {world.cache, "closed"},
           UNCHANGED <<store, awaiting, call>>
    PROVE  Inv'
<1> DEFINE kept == IF result \in {"deleted", "admitted"} THEN result ELSE "none"
           s == Ready(runtime[r].complete, runtime[r].snapshots, runtime[r].session, kept)
<1>1. runtime' = [runtime EXCEPT ![r] = s]
    BY DEF Return, Finish, Inv
<1>2. RuntimeGood(s, store, world'.cache)
    BY ReadyIsGood
<1>3. s.complete = runtime[r].complete
    BY DEF Ready
<1>4. StoreStep(store, store') /\ StoreGood(store')
    BY DEF StoreStep, Inv
<1> HIDE DEF s
<1> QED BY <1>1, <1>2, <1>3, <1>4, StepSuffices DEF Inv, Withheld

-----------------------------------------------------------------------------
(* One lemma per action *)

\* A step to a label that no part of the invariant speaks about.
LEMMA MoveKeeps ==
    ASSUME Inv, NEW r \in Runtimes, NEW s, runtime' = [runtime EXCEPT ![r] = s],
           RuntimeShaped(s), s.pc \notin {"idle", "loaded", "clear"}, s.result = "none",
           awaiting' \subseteq awaiting \cup {r}, r \in awaiting' => ~s.complete, Local
    PROVE  Inv'
<1>1. RuntimeGood(s, store, world.cache)
    BY DEF RuntimeGood
<1>2. StoreStep(store, store') /\ StoreGood(store') /\ WorldShaped(world')
    BY DEF StoreStep, Inv, Local
<1> QED BY <1>1, <1>2, StepSuffices DEF Local

LEMMA RefreshKeeps ==
    ASSUME Inv, NEW r \in Runtimes, NEW expected, NEW observedAt, NEW at,
           Refresh(r, expected, observedAt, at)
    PROVE  Inv'
<1> DEFINE s == [runtime[r] EXCEPT
          !.pc = "collect", !.op = "refresh", !.expected = expected, !.at = at,
          !.complete = FALSE, !.snapshots = FALSE, !.result = "none",
          !.derivation = [NoDerivation EXCEPT !.derivedAt = observedAt]]
<1>1. RuntimeShaped(runtime[r])
    BY DEF Inv, RuntimeGood
<1>2. RuntimeShaped(s) /\ s.pc = "collect" /\ s.result = "none" /\ s.complete = FALSE
    BY <1>1 DEF RuntimeShaped
<1>3. runtime' = [runtime EXCEPT ![r] = s]
    BY DEF Refresh
<1> HIDE DEF s
<1> QED BY <1>2, <1>3, MoveKeeps DEF Refresh

LEMMA CollectKeeps ==
    ASSUME Inv, NEW r \in Runtimes, Collect(r)
    PROVE  Inv'
<1>1. CASE Return(r, "refresh-incomplete")
    BY <1>1, ReturnKeeps DEF Collect, Local, Inv
<1>2. ASSUME NEW derivation,
             runtime' = [runtime EXCEPT ![r] = [@ EXCEPT !.pc = "load", !.derivation = derivation]]
      PROVE  Inv'
    <2> DEFINE s == [runtime[r] EXCEPT !.pc = "load", !.derivation = derivation]
    <2>1. RuntimeShaped(runtime[r]) /\ runtime[r].result = "none"
        BY DEF Inv, RuntimeGood, Collect, At
    <2>2. RuntimeShaped(s) /\ s.pc = "load" /\ s.result = "none" /\ s.complete = runtime[r].complete
        BY <2>1 DEF RuntimeShaped
    <2>3. runtime' = [runtime EXCEPT ![r] = s]
        BY <1>2
    <2>4. r \in awaiting' => ~s.complete
        BY <2>2 DEF Collect, Inv, Withheld
    <2> HIDE DEF s
    <2> QED BY <2>2, <2>3, <2>4, MoveKeeps DEF Collect
<1> QED BY <1>1, <1>2 DEF Collect

LEMMA AskKeeps ==
    ASSUME Inv, NEW r \in Runtimes, NEW op, NEW expected, NEW at, Ask(r, op, expected, at)
    PROVE  Inv'
<1> DEFINE s == [runtime[r] EXCEPT !.pc = "load", !.op = op, !.expected = expected, !.at = at,
                    !.result = "none", !.view = IF op = "admit" THEN agent ELSE NoView]
<1>1. RuntimeShaped(runtime[r])
    BY DEF Inv, RuntimeGood
<1>2. RuntimeShaped(s) /\ s.pc = "load" /\ s.result = "none" /\ s.complete = runtime[r].complete
    BY <1>1 DEF RuntimeShaped
<1>3. runtime' = [runtime EXCEPT ![r] = s]
    BY DEF Ask
<1>4. r \in awaiting' => ~s.complete
    BY <1>2 DEF Ask, Inv, Withheld
<1> HIDE DEF s
<1> QED BY <1>2, <1>3, <1>4, MoveKeeps DEF Ask

LEMMA DeleteKeeps ==
    ASSUME Inv, NEW r \in Runtimes, Delete(r)
    PROVE  Inv'
<1> DEFINE s == [runtime[r] EXCEPT
          !.pc = "delete", !.op = "delete", !.complete = FALSE, !.snapshots = FALSE,
          !.session = "disposed", !.result = "none"]
<1>1. RuntimeShaped(runtime[r])
    BY DEF Inv, RuntimeGood
<1>2. RuntimeShaped(s) /\ s.pc = "delete" /\ s.result = "none" /\ s.complete = FALSE
    BY <1>1 DEF RuntimeShaped
<1>3. runtime' = [runtime EXCEPT ![r] = s]
    BY DEF Delete
<1> HIDE DEF s
<1> QED BY <1>2, <1>3, MoveKeeps DEF Delete

LEMMA LoadKeeps ==
    ASSUME Inv, NEW r \in Runtimes, Load(r)
    PROVE  Inv'
<1>1. CASE Return(r, "rejected")
    BY <1>1, ReturnKeeps DEF Load, Local, Inv
<1>2. ASSUME NEW candidate \in Candidates(r), NEW derivation,
             runtime' = [runtime EXCEPT ![r] = [@ EXCEPT
                   !.pc = "loaded", !.base = store.generation, !.candidate = candidate,
                   !.expected = None, !.derivation = derivation]]
      PROVE  Inv'
    <2> DEFINE s == [runtime[r] EXCEPT !.pc = "loaded", !.base = store.generation,
                       !.candidate = candidate, !.expected = None, !.derivation = derivation]
    <2>1. RuntimeShaped(runtime[r]) /\ runtime[r].result = "none"
        BY DEF Inv, RuntimeGood, Load, At
    <2>2. /\ RuntimeShaped(s) /\ s.pc = "loaded" /\ s.result = "none"
          /\ s.complete = runtime[r].complete
          /\ s.base = store.generation /\ s.candidate = candidate
        BY <2>1 DEF RuntimeShaped
    <2>3. ProfileShaped(candidate) /\ Keeps(store.profile, candidate)
        BY CandidatesKeep DEF Inv
    <2>4. CandidateGood(s, store)
        BY <2>2, <2>3 DEF CandidateGood, Inv, StoreGood, None
    <2>5. RuntimeGood(s, store, world.cache)
        BY <2>2, <2>4 DEF RuntimeGood
    <2>6. runtime' = [runtime EXCEPT ![r] = s]
        BY <1>2
    <2>7. r \in awaiting' => ~s.complete
        BY <2>2 DEF Load, Inv, Withheld
    <2>8. StoreStep(store, store') /\ StoreGood(store') /\ WorldShaped(world')
        BY DEF StoreStep, Inv, Load, Local
    <2> HIDE DEF s
    <2> QED BY <2>5, <2>6, <2>7, <2>8, StepSuffices DEF Load, Local
<1> QED BY <1>1, <1>2 DEF Load

\* The activation: what was loaded is what the store still held.
LEMMA ActivationIsGood ==
    ASSUME Inv, NEW r \in Runtimes, At(r, "loaded"), Current(r),
           store' = [generation |-> runtime[r].base + 1, profile |-> runtime[r].candidate,
                     at |-> runtime[r].at, barred |-> FALSE]
    PROVE  StoreGood(store') /\ StoreStep(store, store') /\ Keeps(store.profile, store'.profile)
<1>1. CandidateGood(runtime[r], store) /\ StoreGood(store)
    BY DEF Inv, RuntimeGood, At
<1>2. runtime[r].base = store.generation /\ ~store.barred
    BY DEF Current
<1>3. /\ StoreShaped(store') /\ store'.generation = store.generation + 1
      /\ store'.profile = runtime[r].candidate /\ ~store'.barred
    BY <1>2 DEF StoreShaped
<1>4. ProfileShaped(store'.profile) /\ Keeps(store.profile, store'.profile)
    BY <1>1, <1>2, <1>3 DEF CandidateGood, StoreGood
<1>5. store'.generation \in Int /\ store'.generation > None
    BY <1>1, <1>3 DEF StoreGood, None
<1> QED BY <1>2, <1>3, <1>4, <1>5 DEF StoreGood, StoreStep, None

LEMMA CommitKeeps ==
    ASSUME Inv, NEW r \in Runtimes, Commit(r)
    PROVE  Inv'
<1> DEFINE Activates ==
      /\ Current(r)
      /\ store' = [generation |-> runtime[r].base + 1, profile |-> runtime[r].candidate,
                   at |-> runtime[r].at, barred |-> FALSE]
<1>1. UNCHANGED <<call, world>> /\ At(r, "loaded")
    BY DEF Commit, Running
<1>2. WorldShaped(world') /\ world'.cache \in {world.cache, "closed"}
    BY <1>1 DEF Inv
<1>3. ASSUME NEW result \in {"conflict", "persistence-failed"}, Return(r, result),
             UNCHANGED <<store, awaiting>>
      PROVE  Inv'
    BY <1>1, <1>2, <1>3, ReturnKeeps
<1>4. ASSUME Activates, NEW complete, NEW snapshots, NEW result,
             result \notin {"deleted", "admitted"}, Finish(r, complete, snapshots, result),
             awaiting' \subseteq awaiting, r \in awaiting' => ~complete
      PROVE  Inv'
    <2> DEFINE s == Ready(complete, snapshots, runtime[r].session, "none")
    <2>1. runtime' = [runtime EXCEPT ![r] = s]
        BY <1>4 DEF Finish
    <2>2. StoreGood(store') /\ StoreStep(store, store')
        BY <1>1, <1>4, ActivationIsGood
    <2>3. RuntimeGood(s, store', world'.cache)
        BY ReadyIsGood
    <2>4. s.complete = complete
        BY DEF Ready
    <2> HIDE DEF s
    <2> QED BY <1>1, <1>2, <1>4, <2>1, <2>2, <2>3, <2>4, StepSuffices
<1> HIDE DEF Activates
<1>5. CASE /\ Activates
           /\ UNCHANGED awaiting /\ Return(r, "commit-outcome-unknown")
    <2>1. Finish(r, runtime[r].complete, runtime[r].snapshots, "commit-outcome-unknown")
        BY <1>5 DEF Return
    <2>2. awaiting' \subseteq awaiting /\ (r \in awaiting' => ~runtime[r].complete)
        BY <1>5 DEF Inv, Withheld
    <2> QED BY <1>4, <1>5, <2>1, <2>2
<1>6. CASE /\ Activates
           /\ Saved(r)
           /\ awaiting' = awaiting \ IF runtime[r].op \in {"refresh", "import"} THEN {r} ELSE {}
    <2>1. CASE runtime[r].op = "refresh"
        <3>1. Finish(r, TRUE, TRUE, "refreshed")
            BY <1>6, <2>1 DEF Saved
        <3>2. awaiting' \subseteq awaiting /\ r \notin awaiting'
            BY <1>6, <2>1
        <3> QED BY <1>4, <1>6, <3>1, <3>2
    <2>2. CASE runtime[r].op = "import"
        <3>1. Finish(r, TRUE, FALSE, "imported")
            BY <1>6, <2>2 DEF Saved
        <3>2. awaiting' \subseteq awaiting /\ r \notin awaiting'
            BY <1>6, <2>2
        <3> QED BY <1>4, <1>6, <3>1, <3>2
    <2>3. CASE runtime[r].op \notin {"refresh", "import"}
        <3>1. Finish(r, runtime[r].complete, runtime[r].snapshots, "saved")
            BY <1>6, <2>3 DEF Saved, Return
        <3>2. awaiting' \subseteq awaiting /\ (r \in awaiting' => ~runtime[r].complete)
            BY <1>6, <2>3 DEF Inv, Withheld
        <3> QED BY <1>4, <1>6, <3>1, <3>2
    <2> QED BY <2>1, <2>2, <2>3
<1> QED BY <1>3, <1>5, <1>6 DEF Commit, Activates

LEMMA DeleteStoreKeeps ==
    ASSUME Inv, NEW r \in Runtimes, DeleteStore(r)
    PROVE  Inv'
<1>1. /\ UNCHANGED <<call, world, awaiting>> /\ StoreGood(store)
      /\ RuntimeShaped(runtime[r]) /\ runtime[r].result = "none"
    BY DEF DeleteStore, Inv, RuntimeGood, At
<1>2. WorldShaped(world') /\ world'.cache \in {world.cache, "closed"}
    BY <1>1 DEF Inv
<1>3. CASE store' = [NoStore EXCEPT !.barred = TRUE] /\ runtime' = [runtime EXCEPT ![r].pc = "clear"]
    <2> DEFINE s == [runtime[r] EXCEPT !.pc = "clear"]
    <2>1. store'.barred /\ store'.profile = Empty /\ store'.generation = None /\ StoreShaped(store')
        BY <1>3 DEF NoStore, StoreShaped
    <2>2. StoreGood(store') /\ StoreStep(store, store')
        BY <2>1, ProjectedKeeps DEF StoreGood, StoreStep, None
    <2>3. RuntimeShaped(s) /\ s.pc = "clear" /\ s.result = "none" /\ s.complete = runtime[r].complete
        BY <1>1 DEF RuntimeShaped
    <2>4. RuntimeGood(s, store', world'.cache)
        BY <2>1, <2>3 DEF RuntimeGood
    <2>5. runtime' = [runtime EXCEPT ![r] = s]
        BY <1>3
    <2>6. r \in awaiting' => ~s.complete
        BY <1>1, <2>3 DEF Inv, Withheld
    <2> HIDE DEF s
    <2> QED BY <1>1, <1>2, <2>2, <2>4, <2>5, <2>6, StepSuffices
<1>4. CASE store' \in {store, [store EXCEPT !.barred = TRUE]} /\ Return(r, "deletion-incomplete")
    <2> DEFINE s == Ready(runtime[r].complete, runtime[r].snapshots, runtime[r].session, "none")
    <2>1. runtime' = [runtime EXCEPT ![r] = s]
        BY <1>4 DEF Return, Finish
    <2>2. CASE store' = store
        BY <1>2, <1>4, <1>1, <2>2, ReturnKeeps
    <2>3. CASE store' = [store EXCEPT !.barred = TRUE]
        <3>1. /\ StoreShaped(store') /\ store'.barred /\ store'.profile = store.profile
              /\ store'.generation = store.generation
            BY <1>1, <2>3 DEF StoreGood, StoreShaped
        <3>2. StoreGood(store') /\ StoreStep(store, store')
            BY <1>1, <3>1 DEF StoreGood, StoreStep
        <3>3. RuntimeGood(s, store', world'.cache)
            BY ReadyIsGood
        <3>4. r \in awaiting' => ~s.complete
            BY <1>1 DEF Ready, Inv, Withheld
        <3> HIDE DEF s
        <3> QED BY <1>1, <1>2, <2>1, <3>2, <3>3, <3>4, StepSuffices
    <2> QED BY <1>4, <2>2, <2>3
<1> QED BY <1>3, <1>4 DEF DeleteStore

LEMMA ClearCacheKeeps ==
    ASSUME Inv, NEW r \in Runtimes, ClearCache(r)
    PROVE  Inv'
<1>1. store.barred /\ store.profile = Empty /\ WorldShaped(world)
    BY DEF ClearCache, Inv, RuntimeGood, At
<1>2. CASE world' = [world EXCEPT !.cache = "closed"] /\ Return(r, "deleted")
    <2>1. WorldShaped(world') /\ world'.cache = "closed"
        BY <1>1, <1>2 DEF WorldShaped
    <2> QED BY <1>1, <1>2, <2>1, ReturnKeeps DEF ClearCache
<1>3. CASE UNCHANGED world /\ Return(r, "deletion-incomplete")
    BY <1>1, <1>3, ReturnKeeps DEF ClearCache
<1> QED BY <1>2, <1>3 DEF ClearCache

LEMMA ViewKeeps ==
    ASSUME Inv, NEW r \in Runtimes, View(r)
    PROVE  Inv'
<1>1. PICK result \in {"viewed", "rejected"} : Return(r, result)
    BY DEF View
<1> QED BY <1>1, ReturnKeeps DEF View, Inv

LEMMA AdmitKeeps ==
    ASSUME Inv, NEW r \in Runtimes, Admit(r)
    PROVE  Inv'
<1>1. PICK result \in {"admitted", "rejected"} : Return(r, result)
    BY DEF Admit
<1> QED BY <1>1, ReturnKeeps DEF Admit, Local, Inv

\* A process dies, and what it still owed with it.
LEMMA RestartKeeps ==
    ASSUME Inv, NEW r \in Runtimes, Restart(r)
    PROVE  Inv'
<1>1. RuntimeGood(Started, store, world.cache)
    BY ReadyIsGood DEF Started
<1>2. \A q \in Runtimes : runtime'[q] = IF q = r THEN Started ELSE runtime[q]
    BY DEF Restart, Inv
<1>3. \A q \in Runtimes : RuntimeGood(runtime'[q], store', world'.cache)
    BY <1>1, <1>2 DEF Restart, Inv
<1>4. CallGood(NoCall("none"))
    BY DEF CallGood, CallShaped, NoCall
<1>5. \A q \in Runtimes : CallGood(call'[q])
    BY <1>4 DEF Restart, Inv
<1>6. Withheld'
    BY <1>2 DEF Restart, Inv, Withheld
<1> QED BY <1>3, <1>5, <1>6 DEF Restart, Inv

\* The steps of provider calls.
LEMMA CallStepKeeps ==
    ASSUME Inv, NEW r \in Runtimes, NEW c, call' = [call EXCEPT ![r] = c], CallGood(c), Alone(r)
    PROVE  Inv'
<1>1. \A q \in Runtimes : CallGood(call'[q])
    BY DEF Inv
<1> QED BY <1>1 DEF Alone, Inv, Withheld

LEMMA InvokeKeeps ==
    ASSUME Inv, NEW r \in Runtimes, Invoke(r)
    PROVE  Inv'
<1> DEFINE c == [NoCall("none") EXCEPT !.pc = "loading", !.at = world.now]
<1>1. CallGood(c)
    BY DEF CallGood, CallShaped, NoCall
<1>2. call' = [call EXCEPT ![r] = c]
    BY DEF Invoke
<1> HIDE DEF c
<1> QED BY <1>1, <1>2, CallStepKeeps DEF Invoke

LEMMA CallLoadsKeeps ==
    ASSUME Inv, NEW r \in Runtimes, CallLoads(r)
    PROVE  Inv'
<1> DEFINE usable == /\ ~store.barred /\ store.generation # None /\ store.at <= call[r].at
                     /\ Youngest(store.profile, call[r].at)
           c == [call[r] EXCEPT !.pc = "loaded", !.usable = usable]
<1>1. CallShaped(call[r]) /\ call[r].result = "none"
    BY DEF CallLoads, Inv, CallGood
<1>2. call' = [call EXCEPT ![r] = c]
    BY DEF CallLoads
<1> HIDE DEF usable
<1>3. CallGood(c)
    BY <1>1 DEF CallGood, CallShaped
<1> HIDE DEF c
<1> QED BY <1>2, <1>3, CallStepKeeps DEF CallLoads

LEMMA AnswerKeeps ==
    ASSUME Inv, NEW r \in Runtimes, Answer(r)
    PROVE  Inv'
<1>1. PICK result : call' = [call EXCEPT ![r] = NoCall(result)]
    BY DEF Answer
<1>2. CallGood(NoCall(result))
    BY DEF CallGood, CallShaped, NoCall
<1> QED BY <1>1, <1>2, CallStepKeeps DEF Answer

\* Sources and the clock.
LEMMA WorldKeeps ==
    ASSUME Inv, WorldShaped(world'), world'.cache = world.cache,
           UNCHANGED <<store, runtime, call, agent, awaiting, spent>>
    PROVE  Inv'
BY DEF Inv, Withheld

LEMMA ChangeKeeps ==
    ASSUME Inv, NEW c \in Capabilities, Change(c)
    PROVE  Inv'
<1>1. PICK v : world' = [world EXCEPT !.content[c] = v]
    BY DEF Change
<1>2. WorldShaped(world') /\ world'.cache = world.cache
    BY <1>1 DEF Inv, WorldShaped
<1> QED BY <1>2, WorldKeeps DEF Change

LEMMA TickKeeps ==
    ASSUME Inv, Tick
    PROVE  Inv'
<1>1. world' = [world EXCEPT !.now = @ + 1]
    BY DEF Tick
<1>2. WorldShaped(world') /\ world'.cache = world.cache
    BY <1>1 DEF Inv, WorldShaped
<1> QED BY <1>2, WorldKeeps DEF Tick

-----------------------------------------------------------------------------
(* Theorems *)

LEMMA InitGood == Init => Inv
<1> SUFFICES ASSUME Init PROVE Inv
    OBVIOUS
<1>1. StoreGood(NoStore)
    BY ProjectedKeeps DEF StoreGood, StoreShaped, NoStore, None
<1>2. RuntimeGood(Started, store, world.cache)
    BY ReadyIsGood DEF Started
<1>3. CallGood(NoCall("none"))
    BY DEF CallGood, CallShaped, NoCall
<1>4. WorldShaped(world)
    BY DEF Init, WorldShaped
<1> QED BY <1>1, <1>2, <1>3, <1>4 DEF Init, Inv, Withheld

LEMMA NextKeeps == Inv /\ [Next]_runtimeVars => Inv'
<1> SUFFICES ASSUME Inv, [Next]_runtimeVars PROVE Inv'
    OBVIOUS
<1>1. ASSUME NEW r \in Runtimes, Request(r)
      PROVE  Inv'
    BY <1>1, RefreshKeeps, AskKeeps, DeleteKeeps, InvokeKeeps DEF Request
<1>2. ASSUME NEW r \in Runtimes, Step(r)
      PROVE  Inv'
    BY <1>2, CollectKeeps, LoadKeeps, CommitKeeps, DeleteStoreKeeps, ClearCacheKeeps, ViewKeeps,
       AdmitKeeps DEF Step
<1>3. ASSUME NEW r \in Runtimes, Provide(r)
      PROVE  Inv'
    BY <1>3, CallLoadsKeeps, AnswerKeeps DEF Provide
<1>4. CASE UNCHANGED runtimeVars
    BY <1>4 DEF runtimeVars, Inv, Withheld
<1> QED BY <1>1, <1>2, <1>3, <1>4, RestartKeeps, ChangeKeeps, TickKeeps DEF Next

\* The inductive invariant of the runtimes.
THEOREM InvHolds == Spec => []Inv
<1>1. Init => Inv
    BY InitGood
<1>2. Inv /\ [Next]_runtimeVars => Inv'
    BY NextKeeps
<1> QED BY <1>1, <1>2, PTL DEF Spec

\* A deletion reported complete has closed the store and the cache, and both stay
\* closed, whatever other processes still had under way.
THEOREM DeletionCloses == Spec => []DeletedMeansClosed
<1>1. Inv => DeletedMeansClosed
    BY DEF Inv, RuntimeGood, DeletedMeansClosed
<1> QED BY <1>1, InvHolds, PTL

\* Only a call that finds its runtime complete and idle succeeds.
LEMMA StepWithholds ==
    ASSUME Inv, Next, NEW r \in Runtimes, call[r].pc = "loaded", call'[r].result = "success"
    PROVE  r \notin awaiting
<1>1. DOMAIN call = Runtimes /\ call[r].result = "none"
    BY DEF Inv, CallGood
<1>2. ~UNCHANGED call
    BY <1>1
<1>3. ASSUME NEW q \in Runtimes, Request(q)
      PROVE  FALSE
    <2>1. PICK c : Invoke(q) /\ call' = [call EXCEPT ![q] = c]
        BY <1>2, <1>3 DEF Request, Refresh, Ask, Delete, Local, Invoke
    <2> QED BY <1>1, <2>1 DEF Invoke
<1>4. ASSUME NEW q \in Runtimes, Step(q)
      PROVE  FALSE
    BY <1>2, <1>4 DEF Step, Collect, Load, Commit, DeleteStore, ClearCache, View, Admit, Local
<1>5. ASSUME NEW q \in Runtimes, CallLoads(q)
      PROVE  FALSE
    BY <1>1, <1>5 DEF CallLoads
<1>6. ASSUME NEW q \in Runtimes, Answer(q)
      PROVE  r \notin awaiting
    <2>1. q = r
        BY <1>1, <1>6 DEF Answer
    <2> DEFINE usable == call[r].usable /\ Available(r)
               result == IF usable THEN "success" ELSE "unavailable"
    <2>2. call' = [call EXCEPT ![r] = NoCall(result)] /\ (result = "success" => Available(r))
        BY <1>6, <2>1 DEF Answer
    <2> HIDE DEF result
    <2>3. result = "success"
        BY <1>1, <2>2 DEF NoCall
    <2> QED BY <2>2, <2>3 DEF Available, Inv, Withheld
<1>7. ASSUME NEW q \in Runtimes, Restart(q)
      PROVE  FALSE
    BY <1>1, <1>7 DEF Restart, NoCall
<1> QED BY <1>2, <1>3, <1>4, <1>5, <1>6, <1>7 DEF Next, Provide, Change, Tick

\* While a refresh or a deletion is owed, no provider call succeeds, those that had
\* begun before it included.
THEOREM ProviderIsWithheld == Spec => ProviderWithheld
<1>1. Inv /\ [Next]_runtimeVars =>
         [\A r \in Runtimes :
             call[r].pc = "loaded" /\ call'[r].result = "success" => r \notin awaiting]_runtimeVars
    BY StepWithholds
<1> QED BY <1>1, InvHolds, PTL DEF Spec, ProviderWithheld

\* The store changes by an activation or by a deletion.
LEMMA StepKeepsHistory ==
    ASSUME Inv, Next, ~store'.barred
    PROVE  Keeps(store.profile, store'.profile)
<1>1. CASE UNCHANGED store
    BY <1>1 DEF Keeps
<1>2. ASSUME NEW r \in Runtimes, Commit(r), ~UNCHANGED store
      PROVE  Keeps(store.profile, store'.profile)
    BY <1>2, ActivationIsGood DEF Commit, Running
<1>3. ASSUME NEW r \in Runtimes, DeleteStore(r), ~UNCHANGED store
      PROVE  FALSE
    BY <1>3 DEF DeleteStore, NoStore, Inv, StoreGood, StoreShaped
<1>4. ASSUME NEW r \in Runtimes, Request(r)
      PROVE  UNCHANGED store
    BY <1>4 DEF Request, Refresh, Ask, Delete, Invoke, Local, Alone
<1>5. ASSUME NEW r \in Runtimes, Step(r), ~Commit(r), ~DeleteStore(r)
      PROVE  UNCHANGED store
    BY <1>5 DEF Step, Collect, Load, ClearCache, View, Admit, Local
<1>6. ASSUME NEW r \in Runtimes, Provide(r) \/ Restart(r)
      PROVE  UNCHANGED store
    BY <1>6 DEF Provide, CallLoads, Answer, Restart, Alone
<1> QED BY <1>1, <1>2, <1>3, <1>4, <1>5, <1>6 DEF Next, Change, Tick

\* Nothing the owner said is lost to a refresh, to another process or to an import.
THEOREM HistoryIsKept == Spec => HistoryKept
<1>1. Inv /\ [Next]_runtimeVars =>
         [~store'.barred => /\ store.profile.corrections \subseteq store'.profile.corrections
                            /\ store.profile.declarations \subseteq store'.profile.declarations]_runtimeVars
    BY StepKeepsHistory DEF Keeps
<1> QED BY <1>1, InvHolds, PTL DEF Spec, HistoryKept

-----------------------------------------------------------------------------
(* What an agent was shown *)

\* As long as the generation of a view is the newest, the store is what it was when
\* the view was returned.
Known(v, st) ==
    ~st.barred => /\ v.generation \in Int /\ v.generation <= st.generation
                  /\ v.generation = st.generation => v.stored = st.profile

\* A loaded admission with the generation of its view has loaded what was stored then.
Agreed(s) ==
    s.pc = "loaded" /\ s.op = "admit" /\ s.view.generation = s.base => s.candidate = s.view.stored

ShownInv ==
    /\ Known(agent, store)
    /\ \A r \in Runtimes : Known(runtime[r].view, store) /\ Agreed(runtime[r])

LEMMA NothingIsKnown ==
    ASSUME NEW st, StoreGood(st)
    PROVE  Known(NoView, st)
BY DEF Known, NoView, StoreGood, None

\* A generation is written once.
LEMMA KnownStays ==
    ASSUME NEW v, NEW st, NEW new, StoreGood(st), StoreStep(st, new), Known(v, st)
    PROVE  Known(v, new)
<1>1. CASE new = st
    BY <1>1
<1>2. CASE ~st.barred /\ ~new.barred /\ new.generation = st.generation + 1
    BY <1>2 DEF Known, StoreGood
<1>3. CASE new.barred
    BY <1>3 DEF Known
<1> QED BY <1>1, <1>2, <1>3 DEF StoreStep

LEMMA StoreSteps ==
    ASSUME Inv, Next
    PROVE  StoreStep(store, store')
<1>1. CASE UNCHANGED store
    BY <1>1 DEF StoreStep
<1>2. ASSUME NEW r \in Runtimes, Commit(r), ~UNCHANGED store
      PROVE  StoreStep(store, store')
    BY <1>2, ActivationIsGood DEF Commit, Running
<1>3. ASSUME NEW r \in Runtimes, DeleteStore(r)
      PROVE  StoreStep(store, store')
    BY <1>3 DEF DeleteStore, NoStore, Inv, StoreGood, StoreShaped, StoreStep
<1>4. ASSUME NEW r \in Runtimes, Request(r) \/ Provide(r) \/ Restart(r)
      PROVE  UNCHANGED store
    BY <1>4 DEF Request, Refresh, Ask, Delete, Invoke, Local, Alone, Provide, CallLoads, Answer,
       Restart
<1>5. ASSUME NEW r \in Runtimes, Step(r), ~Commit(r), ~DeleteStore(r)
      PROVE  UNCHANGED store
    BY <1>5 DEF Step, Collect, Load, ClearCache, View, Admit, Local
<1> QED BY <1>1, <1>2, <1>3, <1>4, <1>5 DEF Next, Change, Tick

\* It is enough to look at the process that takes a step.
LEMMA ShownSuffices ==
    ASSUME Inv, ShownInv, NEW r \in Runtimes, NEW s, runtime' = [runtime EXCEPT ![r] = s],
           StoreStep(store, store'), Known(s.view, store'), Agreed(s), Known(agent', store')
    PROVE  ShownInv'
<1>1. \A q \in Runtimes : runtime'[q] = IF q = r THEN s ELSE runtime[q]
    BY DEF Inv
<1>2. ASSUME NEW q \in Runtimes
      PROVE  Known(runtime'[q].view, store') /\ Agreed(runtime'[q])
    <2>1. Known(runtime[q].view, store') /\ Agreed(runtime[q])
        BY KnownStays DEF ShownInv, Inv
    <2> QED BY <1>1, <2>1
<1> QED BY <1>2 DEF ShownInv

\* A step that ends a request, or does nothing to the views.
LEMMA ShownByReturn ==
    ASSUME Inv, Inv', ShownInv, NEW r \in Runtimes, NEW complete, NEW snapshots, NEW result,
           Finish(r, complete, snapshots, result), StoreStep(store, store'), UNCHANGED agent
    PROVE  ShownInv'
<1> DEFINE s == Ready(complete, snapshots, runtime[r].session,
                      IF result \in {"deleted", "admitted"} THEN result ELSE "none")
<1>1. runtime' = [runtime EXCEPT ![r] = s]
    BY DEF Finish
<1>2. s.view = NoView /\ s.pc = "idle"
    BY DEF Ready
<1> HIDE DEF s
<1>3. Known(s.view, store') /\ Agreed(s)
    BY <1>2, NothingIsKnown DEF Agreed, Inv
<1>4. Known(agent', store')
    BY KnownStays DEF ShownInv, Inv
<1> QED BY <1>1, <1>3, <1>4, ShownSuffices

\* A step of a request before its load and after its start.
LEMMA ShownOnTheWay ==
    ASSUME Inv, ShownInv, NEW r \in Runtimes, NEW s, runtime' = [runtime EXCEPT ![r] = s],
           s.view = runtime[r].view, s.pc # "loaded", StoreStep(store, store'), UNCHANGED agent
    PROVE  ShownInv'
<1>1. Known(s.view, store') /\ Known(agent', store')
    BY KnownStays DEF ShownInv, Inv
<1> QED BY <1>1, ShownSuffices DEF Agreed

LEMMA RequestShows ==
    ASSUME Inv, ShownInv, NEW r \in Runtimes, Request(r), StoreStep(store, store')
    PROVE  ShownInv'
<1>0. RuntimeShaped(runtime[r]) /\ Known(agent, store) /\ Known(NoView, store)
    BY NothingIsKnown DEF ShownInv, Inv, RuntimeGood
<1>1. ASSUME NEW expected, NEW observedAt, NEW at, Refresh(r, expected, observedAt, at)
      PROVE  ShownInv'
    <2> DEFINE s == [runtime[r] EXCEPT
          !.pc = "collect", !.op = "refresh", !.expected = expected, !.at = at,
          !.complete = FALSE, !.snapshots = FALSE, !.result = "none",
          !.derivation = [NoDerivation EXCEPT !.derivedAt = observedAt]]
    <2>1. s.view = runtime[r].view /\ s.pc = "collect"
        BY <1>0 DEF RuntimeShaped
    <2>2. runtime' = [runtime EXCEPT ![r] = s] /\ UNCHANGED agent
        BY <1>1 DEF Refresh, Local
    <2> HIDE DEF s
    <2> QED BY <2>1, <2>2, ShownOnTheWay
<1>2. ASSUME NEW op, NEW expected, NEW at, Ask(r, op, expected, at)
      PROVE  ShownInv'
    <2> DEFINE view == IF op = "admit" THEN agent ELSE NoView
               s == [runtime[r] EXCEPT !.pc = "load", !.op = op, !.expected = expected, !.at = at,
                        !.result = "none", !.view = view]
    <2>1. s.view = view /\ s.pc = "load"
        BY <1>0 DEF RuntimeShaped
    <2>2. runtime' = [runtime EXCEPT ![r] = s] /\ UNCHANGED <<agent, store>>
        BY <1>2 DEF Ask, Local
    <2>3. Known(view, store)
        BY <1>0
    <2> HIDE DEF s, view
    <2>4. Known(s.view, store') /\ Agreed(s) /\ Known(agent', store')
        BY <1>0, <2>1, <2>2, <2>3 DEF Agreed
    <2> QED BY <2>2, <2>4, ShownSuffices
<1>3. CASE Delete(r)
    <2> DEFINE s == [runtime[r] EXCEPT
          !.pc = "delete", !.op = "delete", !.complete = FALSE, !.snapshots = FALSE,
          !.session = "disposed", !.result = "none"]
    <2>1. s.view = runtime[r].view /\ s.pc = "delete"
        BY <1>0 DEF RuntimeShaped
    <2>2. runtime' = [runtime EXCEPT ![r] = s] /\ UNCHANGED agent
        BY <1>3 DEF Delete, Local
    <2> HIDE DEF s
    <2> QED BY <2>1, <2>2, ShownOnTheWay
<1>4. CASE Invoke(r)
    BY <1>4 DEF Invoke, Alone, ShownInv
<1> QED BY <1>1, <1>2, <1>3, <1>4 DEF Request

\* An admission loads what the store holds, and whoever saw the same generation saw it.
LEMMA LoadShows ==
    ASSUME Inv, Inv', ShownInv, NEW r \in Runtimes, Load(r)
    PROVE  ShownInv'
<1>0. /\ RuntimeShaped(runtime[r]) /\ Known(runtime[r].view, store)
      /\ StoreStep(store, store') /\ UNCHANGED <<agent, store>>
    BY DEF ShownInv, Inv, RuntimeGood, StoreStep, Load, Local
<1>1. CASE Return(r, "rejected")
    BY <1>0, <1>1, ShownByReturn DEF Return
<1>2. ASSUME NEW candidate \in Candidates(r), ~store.barred,
             runtime' = [runtime EXCEPT ![r] = [@ EXCEPT
                   !.pc = "loaded", !.base = store.generation, !.candidate = candidate,
                   !.expected = None, !.derivation = NoDerivation]]
      PROVE  ShownInv'
    <2> DEFINE s == [runtime[r] EXCEPT !.pc = "loaded", !.base = store.generation,
                       !.candidate = candidate, !.expected = None, !.derivation = NoDerivation]
    <2>1. /\ s.view = runtime[r].view /\ s.op = runtime[r].op
          /\ s.base = store.generation /\ s.candidate = candidate
        BY <1>0 DEF RuntimeShaped
    <2>2. runtime' = [runtime EXCEPT ![r] = s]
        BY <1>2
    <2> HIDE DEF s
    <2>3. runtime[r].op = "admit" => candidate = store.profile
        BY <1>2 DEF Candidates
    <2>4. Agreed(s)
        BY <1>0, <1>2, <2>1, <2>3 DEF Agreed, Known
    <2>5. Known(s.view, store') /\ Known(agent', store')
        BY <1>0, <2>1 DEF ShownInv
    <2> QED BY <1>0, <2>2, <2>4, <2>5, ShownSuffices
<1> QED BY <1>1, <1>2 DEF Load

\* The view that is returned remembers what the store holds at that moment.
LEMMA ViewShows ==
    ASSUME Inv, Inv', ShownInv, NEW r \in Runtimes, View(r)
    PROVE  ShownInv'
<1>0. StoreStep(store, store') /\ UNCHANGED store
    BY DEF View, StoreStep
<1>1. CASE UNCHANGED agent
    BY <1>0, <1>1, ShownByReturn DEF View, Return
<1>2. ASSUME NEW expires, agent' = ViewOf(runtime[r].base, runtime[r].candidate, expires),
             Return(r, "viewed")
      PROVE  ShownInv'
    <2> DEFINE s == Ready(runtime[r].complete, runtime[r].snapshots, runtime[r].session, "none")
    <2>1. runtime' = [runtime EXCEPT ![r] = s]
        BY <1>2 DEF Return, Finish
    <2>2. s.view = NoView /\ s.pc = "idle"
        BY DEF Ready
    <2> HIDE DEF s
    <2>3. Known(s.view, store') /\ Agreed(s)
        BY <2>2, NothingIsKnown DEF Agreed, Inv
    <2>4. CandidateGood(runtime[r], store)
        BY DEF View, Running, At, Inv, RuntimeGood
    <2>5. agent'.generation = runtime[r].base /\ agent'.stored = store.profile
        BY <1>2 DEF ViewOf
    <2>6. Known(agent', store')
        BY <1>0, <2>4, <2>5 DEF Known, CandidateGood
    <2> QED BY <1>0, <2>1, <2>3, <2>6, ShownSuffices
<1> QED BY <1>1, <1>2 DEF View

LEMMA StepShows ==
    ASSUME Inv, Inv', ShownInv, NEW r \in Runtimes, Step(r), StoreStep(store, store')
    PROVE  ShownInv'
<1>0. RuntimeShaped(runtime[r])
    BY DEF Inv, RuntimeGood
<1>1. CASE Collect(r)
    <2>1. CASE Return(r, "refresh-incomplete")
        BY <1>1, <2>1, ShownByReturn DEF Collect, Return, Local
    <2>2. ASSUME NEW v, runtime' = [runtime EXCEPT ![r] = [@ EXCEPT !.pc = "load", !.derivation = v]]
          PROVE  ShownInv'
        <3> DEFINE s == [runtime[r] EXCEPT !.pc = "load", !.derivation = v]
        <3>1. s.view = runtime[r].view /\ s.pc = "load"
            BY <1>0 DEF RuntimeShaped
        <3>2. runtime' = [runtime EXCEPT ![r] = s] /\ UNCHANGED agent
            BY <1>1, <2>2 DEF Collect, Local
        <3> HIDE DEF s
        <3> QED BY <3>1, <3>2, ShownOnTheWay
    <2> QED BY <1>1, <2>1, <2>2 DEF Collect
<1>2. CASE Commit(r)
    <2>1. PICK complete, snapshots, result : Finish(r, complete, snapshots, result)
        BY <1>2 DEF Commit, Saved, Return
    <2> QED BY <1>2, <2>1, ShownByReturn DEF Commit
<1>3. CASE DeleteStore(r)
    <2>1. CASE Return(r, "deletion-incomplete")
        BY <1>3, <2>1, ShownByReturn DEF DeleteStore, Return
    <2>2. CASE runtime' = [runtime EXCEPT ![r].pc = "clear"]
        <3> DEFINE s == [runtime[r] EXCEPT !.pc = "clear"]
        <3>1. s.view = runtime[r].view /\ s.pc = "clear"
            BY <1>0 DEF RuntimeShaped
        <3>2. runtime' = [runtime EXCEPT ![r] = s] /\ UNCHANGED agent
            BY <1>3, <2>2 DEF DeleteStore
        <3> HIDE DEF s
        <3> QED BY <3>1, <3>2, ShownOnTheWay
    <2> QED BY <1>3, <2>1, <2>2 DEF DeleteStore
<1>4. CASE ClearCache(r) \/ Admit(r)
    <2>1. PICK result : Return(r, result) /\ UNCHANGED agent
        BY <1>4 DEF ClearCache, Admit, Local
    <2> QED BY <2>1, ShownByReturn DEF Return
<1> QED BY <1>1, <1>2, <1>3, <1>4, LoadShows, ViewShows DEF Step

LEMMA NextShows ==
    ASSUME Inv, Inv', ShownInv, [Next]_runtimeVars
    PROVE  ShownInv'
<1>1. CASE UNCHANGED runtimeVars
    BY <1>1 DEF runtimeVars, ShownInv
<1>2. CASE Next
    <2>0. StoreStep(store, store')
        BY <1>2, StoreSteps
    <2>1. ASSUME NEW r \in Runtimes, Provide(r)
          PROVE  ShownInv'
        BY <2>1 DEF Provide, CallLoads, Answer, Alone, ShownInv
    <2>2. ASSUME NEW r \in Runtimes, Restart(r)
          PROVE  ShownInv'
        <3>1. runtime' = [runtime EXCEPT ![r] = Started] /\ UNCHANGED agent
            BY <2>2 DEF Restart
        <3>2. Started.view = NoView /\ Started.pc = "idle"
            BY DEF Started, Ready
        <3>3. Known(Started.view, store') /\ Agreed(Started) /\ Known(agent', store')
            BY <2>0, <3>1, <3>2, NothingIsKnown, KnownStays DEF Agreed, Inv, ShownInv
        <3> QED BY <2>0, <3>1, <3>3, ShownSuffices
    <2>3. ASSUME UNCHANGED <<store, runtime, agent>>
          PROVE  ShownInv'
        BY <2>3 DEF ShownInv
    <2> QED BY <1>2, <2>0, <2>1, <2>2, <2>3, RequestShows, StepShows DEF Next, Change, Tick
<1> QED BY <1>1, <1>2

\* What another process does, and what the process itself does elsewhere.
LEMMA StepAdmitsShown ==
    ASSUME Inv, ShownInv, Next, NEW r \in Runtimes, Running(r, {"admit"}),
           runtime'[r].result = "admitted"
    PROVE  runtime[r].candidate = runtime[r].view.stored
<1>1. DOMAIN runtime = Runtimes /\ runtime[r].result = "none" /\ runtime[r].pc = "loaded"
    BY DEF Inv, RuntimeGood, Running, At
<1>2. runtime'[r] # runtime[r]
    BY <1>1
<1>3. ASSUME NEW q \in Runtimes, Request(q)
      PROVE  FALSE
    BY <1>1, <1>2, <1>3 DEF Request, Refresh, Ask, Delete, Invoke, Alone, At
<1>4. ASSUME NEW q \in Runtimes, Step(q), q # r
      PROVE  FALSE
    BY <1>1, <1>2, <1>4 DEF Step, Collect, Load, Commit, Saved, DeleteStore, ClearCache, View, Admit,
       Return, Finish
<1>5. CASE Step(r)
    <2>1. Admit(r)
        BY <1>1, <1>5 DEF Step, Collect, Load, Commit, DeleteStore, ClearCache, View, Running, At,
           Mutations
    <2>2. CASE Return(r, "rejected")
        <3>1. runtime'[r].result = "none"
            BY <1>1, <2>2 DEF Return, Finish, Ready
        <3> QED BY <3>1
    <2>3. CASE SameView(r)
        BY <2>3 DEF SameView, ShownInv, Agreed, Running, At
    <2> QED BY <2>1, <2>2, <2>3 DEF Admit
<1>6. ASSUME NEW q \in Runtimes, Provide(q)
      PROVE  FALSE
    BY <1>2, <1>6 DEF Provide, CallLoads, Answer, Alone
<1>7. ASSUME NEW q \in Runtimes, Restart(q)
      PROVE  FALSE
    BY <1>1, <1>2, <1>7 DEF Restart, Started, Ready
<1> QED BY <1>2, <1>3, <1>4, <1>5, <1>6, <1>7 DEF Next, Change, Tick

\* An admission that succeeds rests on the profile the store held when its view was
\* returned, whatever the processes saved, deleted or lost in between.
THEOREM AdmissionWasShown == Spec => AdmittedAsShown
<1>1. Init => ShownInv
    <2>1. Init => \A r \in Runtimes : runtime[r].view = NoView /\ runtime[r].pc = "idle"
        BY DEF Init, Started, Ready
    <2> QED BY <2>1, InitGood, NothingIsKnown DEF Init, ShownInv, Agreed, Inv
<1>2. Inv /\ Inv' /\ ShownInv /\ [Next]_runtimeVars => ShownInv'
    BY NextShows
<1>3. Inv /\ ShownInv /\ [Next]_runtimeVars =>
         [\A r \in Runtimes :
             Running(r, {"admit"}) /\ runtime'[r].result = "admitted" =>
                runtime[r].candidate = runtime[r].view.stored]_runtimeVars
    BY StepAdmitsShown
<1> QED BY <1>1, <1>2, <1>3, InvHolds, PTL DEF Spec, AdmittedAsShown

-----------------------------------------------------------------------------
(* Coherent profiles: what makes the graph of a profile valid, and keeps it so *)

ClaimShaped(c) ==
    c \in [id : {c.id}, scope : {c.scope}, state : {c.state}, evidence : {c.evidence},
           observed : {c.observed}, attributable : {c.attributable}, stale : {c.stale},
           correction : {c.correction}]
EvidenceShaped(e) ==
    e \in [id : {e.id}, source : {e.source}, fingerprint : {e.fingerprint},
           observed : {e.observed}, collected : {e.collected}]
CorrectionShaped(r) == r \in [id : {r.id}, target : {r.target}, at : {r.at}]

\* An identifier is made of a kind and of what it identifies.
Kind(id) == id[1]
Of(id) == id[2]

Is(c, state) == c.state = state
Shaped(p) ==
    /\ ProfileShaped(p)
    /\ \A c \in p.claims : /\ ClaimShaped(c) /\ c.scope = <<c.scope[1], c.scope[2]>>
                           /\ c.state \in {"observed", "disputed", "declared"}
    /\ \A e \in p.evidence : EvidenceShaped(e) /\ e.fingerprint \in Int
    /\ \A r \in p.corrections : CorrectionShaped(r) /\ r.id # NoCorrection

Unique(p) ==
    /\ \A c, d \in p.claims : c.id = d.id => c = d
    /\ \A e, f \in p.evidence : e.id = f.id => e = f
    /\ \A r, q \in p.corrections : r.id = q.id => r = q

Resolved(p) ==
    /\ \A c \in p.claims : \A id \in c.evidence : \E e \in p.evidence : e.id = id
    /\ \A r \in p.corrections : \E c \in p.claims : c.id = r.target

\* The correction of a dispute refers to the observed claim of its scope that it replaced.
Replaces(p, d, h) == \E r \in p.corrections : r.id = d.correction /\ r.target = h.id
Disputes(p) ==
    \A d \in p.claims : Is(d, "disputed") =>
        \E h \in p.claims : Replaces(p, d, h) /\ h.scope = d.scope /\ Is(h, "observed")

\* Whatever was corrected once is what some dispute replaces now.
Standing(p) ==
    \A r \in p.corrections : \E d \in p.claims :
        Is(d, "disputed") /\ \E q \in p.corrections : q.id = d.correction /\ q.target = r.target

\* Where there is a dispute, all that was observed is history; elsewhere one claim is observed.
Target(p, c) == \E r \in p.corrections : r.target = c.id
Scoped(p) ==
    /\ \A c, d \in p.claims :
          Is(c, "observed") /\ Is(d, "disputed") /\ c.scope = d.scope => Target(p, c)
    /\ \A c, d \in p.claims :
          Is(c, "observed") /\ Is(d, "observed") /\ c.scope = d.scope
             /\ ~Target(p, c) /\ ~Target(p, d) => c = d

\* What identifiers say of what they identify; what is kept forever cites nothing live.
Named(p) ==
    /\ \A c \in p.claims : Kind(c.id) = "claim" =>
          c.scope = <<Of(c.id), Here>> /\ ~Target(p, c) /\ ~Is(c, "declared")
    /\ \A c \in p.claims : Kind(c.id) = "history" => c.scope = Of(c.id).scope /\ Target(p, c)
    /\ \A c \in p.claims : Target(p, c) \/ ~Is(c, "observed") =>
          \A id \in c.evidence : Kind(id) # "live"
    /\ \A e \in p.evidence : Kind(e.id) = "archived" => e = [Of(e.id) EXCEPT !.id = e.id]

Coherent(p) ==
    /\ Shaped(p) /\ Unique(p) /\ Resolved(p) /\ Disputes(p) /\ Standing(p) /\ Scoped(p)
    /\ Named(p)

\* What was said up to a generation.
Dated(p, g) ==
    /\ \A c \in p.claims : Kind(c.id) = "declared" => Of(c.id) \in Int /\ Of(c.id) <= g
    /\ \A r \in p.corrections : Kind(r.id) = "correction" => Of(r.id) \in Int /\ Of(r.id) <= g

\* Observations are not newer than their sources, and none is replaced by an older one.
SeenBy(p, content) ==
    \A e \in p.evidence : Kind(e.id) = "live" =>
        Of(e.id) \in Capabilities /\ e.fingerprint <= content[Of(e.id)]
Forward(p, q) ==
    \A old \in p.evidence, new \in q.evidence :
        old.id = new.id => old.fingerprint <= new.fingerprint

Promising(s, st, content) ==
    /\ s.pc \in {"collect", "load"} =>
          s.expected \in Int /\ (~st.barred => s.expected <= st.generation)
    /\ s.pc = "collect" => s.op = "refresh"
    /\ s.pc = "load" /\ s.op = "refresh" =>
          /\ s.derivation.content \in [Capabilities -> Int]
          /\ \A c \in Capabilities : s.derivation.content[c] <= content[c]
          /\ ~st.barred /\ s.expected = st.generation => SeenBy(st.profile, s.derivation.content)
    /\ s.pc = "loaded" /\ ~st.barred /\ s.base = st.generation =>
          /\ Coherent(s.candidate) /\ Dated(s.candidate, s.base + 1)
          /\ SeenBy(s.candidate, content) /\ Forward(st.profile, s.candidate)

StoreSound(st, content) ==
    Coherent(st.profile) /\ Dated(st.profile, st.generation) /\ SeenBy(st.profile, content)

SoundInv ==
    /\ Inv /\ world.content \in [Capabilities -> Int] /\ StoreSound(store, world.content)
    /\ \A r \in Runtimes : Promising(runtime[r], store, world.content)

-----------------------------------------------------------------------------
(* What coherence means for the graph *)

\* The dispute that replaces what a correction corrected, in the scope of its target.
LEMMA CorrectedIsDisputed ==
    ASSUME NEW p, Unique(p), Disputes(p), Standing(p), NEW c \in p.claims, Target(p, c)
    PROVE  \E d \in p.claims : Is(d, "disputed") /\ d.scope = c.scope /\ Replaces(p, d, c)
<1>1. PICK r \in p.corrections : r.target = c.id
    BY DEF Target
<1>2. PICK d \in p.claims, q \in p.corrections :
         Is(d, "disputed") /\ q.id = d.correction /\ q.target = r.target
    BY DEF Standing
<1>3. PICK h \in p.claims, o \in p.corrections :
         o.id = d.correction /\ o.target = h.id /\ h.scope = d.scope
    BY <1>2 DEF Disputes, Replaces
<1>4. o = q
    BY <1>2, <1>3 DEF Unique
<1>5. h = c
    BY <1>1, <1>2, <1>3, <1>4 DEF Unique
<1> QED BY <1>2, <1>3, <1>4, <1>5 DEF Replaces

LEMMA CoherentIsSound ==
    ASSUME NEW p, Coherent(p)
    PROVE  GraphValid(p) /\ CorrectionsInForce(p)
<1>0. Shaped(p) /\ Unique(p) /\ Resolved(p) /\ Disputes(p) /\ Standing(p) /\ Scoped(p)
    BY DEF Coherent
<1>1. Cited(p.claims) \subseteq {e.id : e \in p.evidence}
    BY <1>0 DEF Resolved, Cited
<1>2. Targets(p) \subseteq {c.id : c \in p.claims}
    BY <1>0 DEF Resolved, Targets
<1>3. \A c \in p.claims : c.state = "disputed" => \E r \in p.corrections : r.id = c.correction
    BY <1>0 DEF Disputes, Is, Replaces
<1>4. GraphValid(p)
    BY <1>0, <1>1, <1>2, <1>3 DEF GraphValid, Unique
<1>5. ASSUME NEW r \in p.corrections, NEW target \in p.claims, target.id = r.target
      PROVE  /\ \E c \in p.claims : c.state = "disputed" /\ c.scope = target.scope
             /\ \A c \in Selected(p) : c.scope = target.scope => c.state = "declared"
    <2>1. Target(p, target)
        BY <1>5 DEF Target
    <2>2. PICK d \in p.claims : Is(d, "disputed") /\ d.scope = target.scope
        BY <1>0, <2>1, CorrectedIsDisputed
    <2>3. ASSUME NEW c \in p.claims, c.scope = target.scope, c.state \notin {"disputed", "declared"}
          PROVE  c \notin Selected(p)
        <3>1. c.state = "observed"
            BY <1>0, <2>3 DEF Shaped
        <3>2. Target(p, c)
            BY <1>0, <2>2, <2>3, <3>1 DEF Scoped, Is
        <3>3. PICK e \in p.claims : Is(e, "disputed") /\ Replaces(p, e, c)
            BY <1>0, <3>2, CorrectedIsDisputed
        <3> QED BY <3>3 DEF Selected, Is, Replaces
    <2>4. Selected(p) \subseteq p.claims /\ \A c \in Selected(p) : c.state # "disputed"
        BY DEF Selected
    <2> QED BY <2>2, <2>3, <2>4 DEF Is
<1> QED BY <1>4, <1>5 DEF CorrectionsInForce, Targets

LEMMA EmptyIsCoherent == Coherent(Empty) /\ \A g, content : Dated(Empty, g) /\ SeenBy(Empty, content)
<1>1. Empty.claims = {} /\ Empty.evidence = {} /\ Empty.corrections = {}
    BY DEF Empty
<1>2. Shaped(Empty)
    BY <1>1, ProjectedKeeps DEF Shaped
<1>3. Unique(Empty) /\ Resolved(Empty) /\ Disputes(Empty) /\ Standing(Empty) /\ Scoped(Empty)
    BY <1>1 DEF Unique, Resolved, Disputes, Standing, Scoped
<1>4. Named(Empty) /\ \A g, content : Dated(Empty, g) /\ SeenBy(Empty, content)
    BY <1>1 DEF Named, Dated, SeenBy
<1> QED BY <1>2, <1>3, <1>4 DEF Coherent

-----------------------------------------------------------------------------
(* Exports and imports rename, and nothing else *)

LEMMA RenamingIsInjective ==
    ASSUME NEW x, NEW y
    PROVE  /\ Renamed(x) = Renamed(y) => x = y
           /\ Kind(Renamed(x)) = "renamed" /\ Renamed(x) # NoCorrection
BY DEF Renamed, Kind, NoCorrection

LEMMA ProjectedIsCoherent ==
    ASSUME NEW p, Coherent(p)
    PROVE  /\ Coherent(Projected(p))
           /\ \A g, content : Dated(Projected(p), g) /\ SeenBy(Projected(p), content)
<1> DEFINE C(c) == [c EXCEPT !.id = Renamed(c.id), !.scope = Remapped(c.scope),
                        !.evidence = {Renamed(e) : e \in c.evidence},
                        !.correction = IF @ = NoCorrection THEN @ ELSE Renamed(@)]
           E(e) == [e EXCEPT !.id = Renamed(e.id), !.source = Remapped(e.source)]
           R(r) == [r EXCEPT !.id = Renamed(@), !.target = Renamed(@)]
           q == Projected(p)
<1>0. /\ Shaped(p) /\ Unique(p) /\ Resolved(p) /\ Disputes(p) /\ Standing(p) /\ Scoped(p)
      /\ Named(p)
    BY DEF Coherent
<1>1. /\ q.claims = {C(c) : c \in p.claims} /\ q.evidence = {E(e) : e \in p.evidence}
      /\ q.corrections = {R(r) : r \in p.corrections}
    BY DEF Projected
<1>2. \A c \in p.claims :
         /\ ClaimShaped(C(c)) /\ C(c).id = Renamed(c.id)
         /\ C(c).scope = <<c.scope[1], <<c.scope[2]>>>> /\ C(c).state = c.state
         /\ C(c).evidence = {Renamed(e) : e \in c.evidence}
         /\ c.correction # NoCorrection => C(c).correction = Renamed(c.correction)
    BY <1>0, ZenonT(30) DEF Shaped, ClaimShaped, Remapped
<1>3. \A e \in p.evidence :
         EvidenceShaped(E(e)) /\ E(e).id = Renamed(e.id) /\ E(e).fingerprint = e.fingerprint
    BY <1>0 DEF Shaped, EvidenceShaped
<1>4. \A r \in p.corrections :
         CorrectionShaped(R(r)) /\ R(r).id = Renamed(r.id) /\ R(r).target = Renamed(r.target)
    BY <1>0 DEF Shaped, CorrectionShaped
<1>5. ProfileShaped(q)
    BY ProjectedKeeps
<1> HIDE DEF C, E, R, q
<1>6. Shaped(q)
    <2>1. \A c \in q.claims : /\ ClaimShaped(c) /\ c.scope = <<c.scope[1], c.scope[2]>>
                              /\ c.state \in {"observed", "disputed", "declared"}
        BY <1>0, <1>1, <1>2 DEF Shaped
    <2>2. \A e \in q.evidence : EvidenceShaped(e) /\ e.fingerprint \in Int
        BY <1>0, <1>1, <1>3 DEF Shaped
    <2>3. \A r \in q.corrections : CorrectionShaped(r) /\ r.id # NoCorrection
        BY <1>1, <1>4, RenamingIsInjective
    <2> QED BY <1>5, <2>1, <2>2, <2>3 DEF Shaped
<1>7. Unique(q)
    <2>1. \A c, d \in p.claims : C(c).id = C(d).id => c = d
        BY <1>0, <1>2, RenamingIsInjective DEF Unique
    <2>2. \A c, d \in p.evidence : E(c).id = E(d).id => c = d
        BY <1>0, <1>3, RenamingIsInjective DEF Unique
    <2>3. \A c, d \in p.corrections : R(c).id = R(d).id => c = d
        BY <1>0, <1>4, RenamingIsInjective DEF Unique
    <2> QED BY <1>1, <2>1, <2>2, <2>3 DEF Unique
<1>8. Resolved(q)
    <2>1. ASSUME NEW c \in p.claims, NEW id \in C(c).evidence
          PROVE  \E e \in q.evidence : e.id = id
        <3>1. PICK i \in c.evidence : id = Renamed(i)
            BY <1>2
        <3>2. PICK e \in p.evidence : e.id = i
            BY <1>0 DEF Resolved
        <3> QED BY <1>1, <1>3, <3>1, <3>2
    <2>2. ASSUME NEW r \in p.corrections
          PROVE  \E c \in q.claims : c.id = R(r).target
        <3>1. PICK c \in p.claims : c.id = r.target
            BY <1>0 DEF Resolved
        <3> QED BY <1>1, <1>2, <1>4, <3>1
    <2> QED BY <1>1, <2>1, <2>2 DEF Resolved
<1>9. \A c \in p.claims : Target(q, C(c)) <=> Target(p, c)
    BY <1>1, <1>2, <1>4, RenamingIsInjective DEF Target
<1>10. Disputes(q)
    <2>1. ASSUME NEW d \in p.claims, Is(d, "disputed")
          PROVE  \E h \in q.claims : /\ Replaces(q, C(d), h) /\ h.scope = C(d).scope
                                     /\ Is(h, "observed")
        <3>1. PICK h \in p.claims, r \in p.corrections :
                 /\ r.id = d.correction /\ r.target = h.id /\ h.scope = d.scope
                 /\ Is(h, "observed")
            BY <1>0, <2>1 DEF Disputes, Replaces
        <3>2. d.correction # NoCorrection
            BY <1>0, <3>1 DEF Shaped
        <3>3. R(r) \in q.corrections /\ R(r).id = C(d).correction /\ R(r).target = C(h).id
            BY <1>1, <1>2, <1>4, <3>1, <3>2
        <3>4. C(h) \in q.claims /\ C(h).scope = C(d).scope /\ Is(C(h), "observed")
            BY <1>1, <1>2, <3>1 DEF Is
        <3> QED BY <3>3, <3>4 DEF Replaces
    <2>2. \A d \in p.claims : Is(C(d), "disputed") => Is(d, "disputed")
        BY <1>2 DEF Is
    <2> QED BY <1>1, <2>1, <2>2 DEF Disputes
<1>11. Standing(q)
    <2>1. ASSUME NEW r \in p.corrections
          PROVE  \E d \in q.claims :
                    Is(d, "disputed") /\ \E o \in q.corrections : o.id = d.correction /\ o.target = R(r).target
        <3>1. PICK d \in p.claims, o \in p.corrections :
                 Is(d, "disputed") /\ o.id = d.correction /\ o.target = r.target
            BY <1>0 DEF Standing
        <3>2. d.correction # NoCorrection
            BY <1>0, <3>1 DEF Shaped
        <3>3. R(o) \in q.corrections /\ R(o).id = C(d).correction /\ R(o).target = R(r).target
            BY <1>1, <1>2, <1>4, <3>1, <3>2
        <3>4. C(d) \in q.claims /\ Is(C(d), "disputed")
            BY <1>1, <1>2, <3>1 DEF Is
        <3> QED BY <3>3, <3>4
    <2> QED BY <1>1, <2>1 DEF Standing
<1>12. Scoped(q)
    <2>1. \A c, d \in p.claims : C(c).scope = C(d).scope => c.scope = d.scope
        BY <1>0, <1>2 DEF Shaped
    <2>2. \A c \in p.claims, s \in {"observed", "disputed"} : Is(C(c), s) => Is(c, s)
        BY <1>2 DEF Is
    <2>3. ASSUME NEW c \in p.claims, NEW d \in p.claims, Is(C(c), "observed"),
                 C(c).scope = C(d).scope
          PROVE  /\ Is(C(d), "disputed") => Target(q, C(c))
                 /\ Is(C(d), "observed") /\ ~Target(q, C(c)) /\ ~Target(q, C(d)) => C(c) = C(d)
        BY <1>0, <1>9, <2>1, <2>2, <2>3 DEF Scoped
    <2> QED BY <1>1, <2>3 DEF Scoped
<1>13. \A c \in q.claims : /\ Kind(c.id) = "renamed"
                           /\ \A id \in c.evidence : Kind(id) = "renamed"
    BY <1>1, <1>2, RenamingIsInjective
<1>14. /\ \A e \in q.evidence : Kind(e.id) = "renamed"
       /\ \A r \in q.corrections : Kind(r.id) = "renamed"
    BY <1>1, <1>3, <1>4, RenamingIsInjective
<1>15. Named(q)
    BY <1>13, <1>14 DEF Named
<1>16. \A g, content : Dated(q, g) /\ SeenBy(q, content)
    BY <1>13, <1>14 DEF Dated, SeenBy
<1>17. Coherent(q)
    BY <1>6, <1>7, <1>8, <1>10, <1>11, <1>12, <1>15 DEF Coherent
<1> QED BY <1>16, <1>17 DEF q

-----------------------------------------------------------------------------
(* Declarations and corrections *)

LEMMA SameEvidenceIsForward ==
    ASSUME NEW p, NEW q, Shaped(q), Unique(q), p.evidence \subseteq q.evidence
    PROVE  Forward(p, q)
BY DEF Shaped, Unique, Forward

LEMMA DeclaredIsCoherent ==
    ASSUME NEW p, NEW c, NEW at, NEW g \in Int, Coherent(p), Dated(p, g)
    PROVE  LET q == Declared(p, c, at, g + 1)
           IN  /\ Coherent(q) /\ Dated(q, g + 1) /\ Forward(p, q)
               /\ \A content : SeenBy(p, content) => SeenBy(q, content)
<1> DEFINE q == Declared(p, c, at, g + 1)
           n == [id |-> <<"declared", g + 1>>, scope |-> <<c, Here>>, state |-> "declared",
                 evidence |-> {}, observed |-> None, attributable |-> TRUE, stale |-> FALSE,
                 correction |-> NoCorrection]
<1>0. /\ Shaped(p) /\ Unique(p) /\ Resolved(p) /\ Disputes(p) /\ Standing(p) /\ Scoped(p)
      /\ Named(p)
    BY DEF Coherent
<1>1. ProfileShaped(p)
    BY <1>0 DEF Shaped
<1>2. /\ q.claims = p.claims \cup {n} /\ q.evidence = p.evidence
      /\ q.corrections = p.corrections /\ ProfileShaped(q)
    BY <1>1, DeclaredKeeps DEF Declared, ProfileShaped
<1>3. /\ ClaimShaped(n) /\ n.scope = <<n.scope[1], n.scope[2]>> /\ n.state = "declared"
      /\ n.evidence = {} /\ Kind(n.id) = "declared" /\ Of(n.id) = g + 1
    BY DEF ClaimShaped, Kind, Of
<1> HIDE DEF n, q
<1>4. \A x \in p.claims : x.id # n.id
    BY <1>3 DEF Dated
<1>5. Shaped(q)
    BY <1>0, <1>2, <1>3 DEF Shaped
<1>6. Unique(q)
    BY <1>0, <1>2, <1>4 DEF Unique
<1>7. Resolved(q)
    BY <1>0, <1>2, <1>3 DEF Resolved
<1>9. Disputes(q) /\ Standing(q) /\ Scoped(q)
    <2>1. \A x \in q.claims : Is(x, "disputed") \/ Is(x, "observed") => x \in p.claims
        BY <1>2, <1>3 DEF Is
    <2>2. Disputes(q)
        BY <1>0, <1>2, <2>1 DEF Disputes, Replaces
    <2>3. Standing(q)
        BY <1>0, <1>2 DEF Standing
    <2>4. Scoped(q)
        BY <1>0, <1>2, <2>1 DEF Scoped, Target
    <2> QED BY <2>2, <2>3, <2>4
<1>10. Named(q)
    BY <1>0, <1>2, <1>3 DEF Named, Target
<1>11. Dated(q, g + 1)
    BY <1>2, <1>3 DEF Dated
<1>12. Forward(p, q) /\ \A content : SeenBy(p, content) => SeenBy(q, content)
    BY <1>2, <1>5, <1>6, SameEvidenceIsForward DEF SeenBy
<1> QED BY <1>5, <1>6, <1>7, <1>9, <1>10, <1>11, <1>12 DEF Coherent, q

\* What a correction refers to, and the dispute it makes of its target.
Referred(p, t) ==
    IF t.state = "disputed" THEN [claim |-> Original(p, t), evidence |-> {}] ELSE Archive(p, t)
Disputed(p, t, g) ==
    [t EXCEPT !.state = "disputed", !.evidence = Referred(p, t).claim.evidence,
              !.correction = <<"correction", g>>]

LEMMA CorrectedParts ==
    ASSUME NEW p, NEW t, NEW at, NEW g, ProfileShaped(p)
    PROVE  LET q == Corrected(p, t, at, g)
           IN  /\ q.claims = (p.claims \ {t}) \cup {Disputed(p, t, g), Referred(p, t).claim}
               /\ q.evidence = p.evidence \cup Referred(p, t).evidence
               /\ q.corrections = p.corrections \cup
                     {[id |-> Disputed(p, t, g).correction, target |-> Referred(p, t).claim.id,
                       at |-> at]}
               /\ ProfileShaped(q)
BY DEF Corrected, ProfileShaped, Referred, Disputed

\* The first correction of an observation archives it.
LEMMA FirstCorrectionIsCoherent ==
    ASSUME NEW p, NEW t \in p.claims, NEW at, NEW g \in Int, Coherent(p), Dated(p, g),
           ~Target(p, t), t.state = "observed"
    PROVE  LET q == Corrected(p, t, at, g + 1)
           IN  /\ Coherent(q) /\ Dated(q, g + 1) /\ Forward(p, q)
               /\ \A content : SeenBy(p, content) => SeenBy(q, content)
<1> DEFINE q == Corrected(p, t, at, g + 1)
           K(e) == [e EXCEPT !.id = <<"archived", e>>]
           copies == {K(e) : e \in Records(p, t.evidence)}
           ids == {e.id : e \in copies}
           a == [t EXCEPT !.id = <<"history", t>>, !.evidence = ids]
           d == [t EXCEPT !.state = "disputed", !.evidence = ids,
                          !.correction = <<"correction", g + 1>>]
           n == [id |-> <<"correction", g + 1>>, target |-> a.id, at |-> at]
<1>0. /\ Shaped(p) /\ Unique(p) /\ Resolved(p) /\ Disputes(p) /\ Standing(p) /\ Scoped(p)
      /\ Named(p) /\ ProfileShaped(p) /\ ClaimShaped(t)
    BY DEF Coherent, Shaped
<1>1. /\ Archive(p, t).claim = a /\ Archive(p, t).evidence = copies
    BY DEF Archive
<1>2. ClaimShaped(a) /\ a.id = <<"history", t>> /\ a.scope = t.scope /\ a.state = "observed"
      /\ a.evidence = ids
    BY <1>0 DEF ClaimShaped
<1>3. ClaimShaped(d) /\ d.id = t.id /\ d.scope = t.scope /\ d.state = "disputed"
      /\ d.evidence = ids /\ d.correction = n.id
    BY <1>0 DEF ClaimShaped
<1>4. CorrectionShaped(n) /\ n.target = a.id /\ n.id # NoCorrection
      /\ Kind(n.id) = "correction" /\ Of(n.id) = g + 1
    BY DEF CorrectionShaped, NoCorrection, Kind, Of
<1>5. /\ q.claims = (p.claims \ {t}) \cup {d, a} /\ q.evidence = p.evidence \cup copies
      /\ q.corrections = p.corrections \cup {n} /\ ProfileShaped(q)
    <2>1. Referred(p, t).claim = a /\ Referred(p, t).evidence = copies
        BY <1>1 DEF Referred
    <2>2. a.evidence = ids
        BY <1>2
    <2> HIDE DEF a, copies, ids
    <2>3. d = Disputed(p, t, g + 1)
        BY <2>1, <2>2 DEF Disputed
    <2> HIDE DEF d
    <2>4. n = [id |-> d.correction, target |-> a.id, at |-> at]
        BY <1>3
    <2> HIDE DEF n
    <2> QED BY <1>0, <2>1, <2>3, <2>4, CorrectedParts
<1>6. \A e \in copies : \E o \in p.evidence : e = K(o) /\ o.id \in t.evidence
    BY DEF Records
<1>7. \A o \in p.evidence : /\ EvidenceShaped(K(o)) /\ K(o).id = <<"archived", o>>
                            /\ K(o).fingerprint = o.fingerprint
    BY <1>0 DEF Shaped, EvidenceShaped
<1>8. \A o \in p.evidence : /\ Kind(K(o).id) = "archived" /\ Of(K(o).id) = o
                            /\ [o EXCEPT !.id = K(o).id] = K(o)
    BY <1>7 DEF Kind, Of
<1>9. Kind(a.id) = "history" /\ Of(a.id) = t
    BY <1>2 DEF Kind, Of
<1> HIDE DEF K, copies, a, d, n, q
<1>10. \A id \in ids : /\ Kind(id) = "archived" /\ \E e \in copies : e.id = id
    BY <1>6, <1>8
<1> HIDE DEF ids
<1>11. \A x \in p.claims : Is(x, "disputed") => x.scope # t.scope
    BY <1>0 DEF Scoped, Is
<1>12. \A x \in p.claims : x.id # a.id
    <2> SUFFICES ASSUME NEW x \in p.claims, x.id = a.id PROVE FALSE
        OBVIOUS
    <2>1. x.scope = t.scope /\ Target(p, x)
        BY <1>0, <1>9 DEF Named
    <2> QED BY <1>0, <1>11, <2>1, CorrectedIsDisputed
<1>13. \A r \in p.corrections : r.id # n.id
    BY <1>4 DEF Dated
<1>14. \A x \in p.claims \ {t} : x.id # t.id
    BY <1>0 DEF Unique
<1>15. \A x \in p.claims : Target(q, x) <=> Target(p, x)
    BY <1>4, <1>5, <1>12 DEF Target
<1>16. Target(q, a) /\ (Target(q, d) <=> Target(p, t))
    BY <1>3, <1>4, <1>5, <1>12 DEF Target
<1>17. Shaped(q)
    <2>1. \A e \in copies : EvidenceShaped(e) /\ e.fingerprint \in Int
        BY <1>0, <1>6, <1>7 DEF Shaped
    <2>2. a.scope = <<a.scope[1], a.scope[2]>> /\ d.scope = <<d.scope[1], d.scope[2]>>
        BY <1>0, <1>2, <1>3 DEF Shaped
    <2> QED BY <1>0, <1>2, <1>3, <1>4, <1>5, <2>1, <2>2 DEF Shaped
<1>18. Unique(q)
    <2>1. \A x, y \in q.claims : x.id = y.id => x = y
        BY <1>0, <1>3, <1>5, <1>12, <1>14 DEF Unique
    <2>2. ASSUME NEW e \in p.evidence, NEW f \in copies, e.id = f.id
          PROVE  e = f
        <3>1. PICK o \in p.evidence : f = K(o)
            BY <1>6
        <3>2. Kind(e.id) = "archived" /\ Of(e.id) = o
            BY <1>8, <2>2, <3>1
        <3>3. e = [o EXCEPT !.id = e.id]
            BY <1>0, <3>2 DEF Named
        <3> QED BY <1>8, <2>2, <3>1, <3>3
    <2>3. \A e, f \in copies : e.id = f.id => e = f
        BY <1>6, <1>8
    <2>4. \A e, f \in q.evidence : e.id = f.id => e = f
        BY <1>0, <1>5, <2>2, <2>3 DEF Unique
    <2> QED BY <1>0, <1>5, <1>13, <2>1, <2>4 DEF Unique
<1>19. Resolved(q)
    <2>1. \A x \in q.claims : \A id \in x.evidence : \E e \in q.evidence : e.id = id
        BY <1>0, <1>2, <1>3, <1>5, <1>10 DEF Resolved
    <2>2. \A r \in p.corrections : \E x \in q.claims : x.id = r.target
        BY <1>0, <1>5 DEF Resolved, Target
    <2> QED BY <1>4, <1>5, <2>1, <2>2 DEF Resolved
<1>20. Disputes(q)
    <2>1. ASSUME NEW x \in p.claims \ {t}, Is(x, "disputed")
          PROVE  \E h \in q.claims : Replaces(q, x, h) /\ h.scope = x.scope /\ Is(h, "observed")
        <3>1. PICK h \in p.claims : Replaces(p, x, h) /\ h.scope = x.scope /\ Is(h, "observed")
            BY <1>0, <2>1 DEF Disputes
        <3>2. h # t
            BY <3>1 DEF Replaces, Target
        <3> QED BY <1>5, <3>1, <3>2 DEF Replaces
    <2>2. Replaces(q, d, a) /\ a.scope = d.scope /\ Is(a, "observed") /\ a \in q.claims
        BY <1>2, <1>3, <1>4, <1>5 DEF Replaces, Is
    <2>3. ~Is(a, "disputed")
        BY <1>2 DEF Is
    <2> QED BY <1>5, <2>1, <2>2, <2>3 DEF Disputes
<1>21. Standing(q)
    <2>1. ASSUME NEW r \in p.corrections
          PROVE  \E x \in q.claims :
                    Is(x, "disputed") /\ \E o \in q.corrections : o.id = x.correction /\ o.target = r.target
        <3>1. PICK x \in p.claims :
                 Is(x, "disputed") /\ \E o \in p.corrections : o.id = x.correction /\ o.target = r.target
            BY <1>0 DEF Standing
        <3>2. x # t
            BY <3>1 DEF Is
        <3> QED BY <1>5, <3>1, <3>2
    <2>2. Is(d, "disputed") /\ d \in q.claims /\ n \in q.corrections /\ n.id = d.correction
        BY <1>3, <1>5 DEF Is
    <2> QED BY <1>5, <2>1, <2>2 DEF Standing
<1>22. Scoped(q)
    <2>1. ~Is(d, "observed") /\ ~Is(a, "disputed")
        BY <1>2, <1>3 DEF Is
    <2>2. ASSUME NEW x \in p.claims \ {t}, Is(x, "observed"), x.scope = t.scope
          PROVE  Target(q, x)
        BY <1>0, <1>15, <2>2 DEF Scoped, Is
    <2>3. ASSUME NEW x \in q.claims, NEW y \in q.claims, Is(x, "observed"), Is(y, "disputed"),
                 x.scope = y.scope
          PROVE  Target(q, x)
        <3>1. x = a \/ x \in p.claims \ {t}
            BY <1>5, <2>1, <2>3
        <3>2. y = d \/ y \in p.claims \ {t}
            BY <1>5, <2>1, <2>3
        <3>3. CASE y = d
            BY <1>3, <1>16, <2>2, <2>3, <3>1, <3>3
        <3>4. CASE y \in p.claims \ {t}
            BY <1>0, <1>15, <1>16, <2>3, <3>1, <3>4 DEF Scoped
        <3> QED BY <3>2, <3>3, <3>4
    <2>4. ASSUME NEW x \in q.claims, NEW y \in q.claims, Is(x, "observed"), Is(y, "observed"),
                 x.scope = y.scope, ~Target(q, x), ~Target(q, y)
          PROVE  x = y
        <3>1. x \in p.claims /\ y \in p.claims
            BY <1>5, <1>16, <2>1, <2>4
        <3> QED BY <1>0, <1>15, <2>4, <3>1 DEF Scoped
    <2> QED BY <2>3, <2>4 DEF Scoped
<1>23. Named(q)
    <2>1. \A x \in q.claims : Kind(x.id) = "claim" =>
             x.scope = <<Of(x.id), Here>> /\ ~Target(q, x) /\ ~Is(x, "declared")
        <3>1. Kind(d.id) = "claim" =>
                 d.scope = <<Of(d.id), Here>> /\ ~Target(q, d) /\ ~Is(d, "declared")
            BY <1>0, <1>3, <1>16 DEF Named, Is
        <3> QED BY <1>0, <1>5, <1>9, <1>15, <3>1 DEF Named
    <2>2. \A x \in q.claims : Kind(x.id) = "history" => x.scope = Of(x.id).scope /\ Target(q, x)
        <3>1. Kind(d.id) # "history"
            BY <1>0, <1>3 DEF Named
        <3> QED BY <1>0, <1>2, <1>5, <1>9, <1>15, <1>16, <3>1 DEF Named
    <2>3. \A x \in q.claims : Target(q, x) \/ ~Is(x, "observed") =>
             \A id \in x.evidence : Kind(id) # "live"
        <3>1. \A id \in d.evidence \cup a.evidence : Kind(id) # "live"
            BY <1>2, <1>3, <1>10
        <3> QED BY <1>0, <1>5, <1>15, <3>1 DEF Named
    <2>4. \A e \in q.evidence : Kind(e.id) = "archived" => e = [Of(e.id) EXCEPT !.id = e.id]
        <3>1. \A e \in copies : e = [Of(e.id) EXCEPT !.id = e.id]
            BY <1>6, <1>8
        <3> QED BY <1>0, <1>5, <3>1 DEF Named
    <2> QED BY <2>1, <2>2, <2>3, <2>4 DEF Named
<1>24. Dated(q, g + 1)
    BY <1>3, <1>4, <1>5, <1>9 DEF Dated
<1>25. \A content : SeenBy(p, content) => SeenBy(q, content)
    BY <1>5, <1>6, <1>8 DEF SeenBy
<1>26. Coherent(q)
    BY <1>17, <1>18, <1>19, <1>20, <1>21, <1>22, <1>23 DEF Coherent
<1>27. Forward(p, q)
    BY <1>5, <1>17, <1>18, SameEvidenceIsForward
<1> QED BY <1>24, <1>25, <1>26, <1>27 DEF q

\* A further correction of a dispute refers to the same original.
LEMMA FurtherCorrectionIsCoherent ==
    ASSUME NEW p, NEW t \in p.claims, NEW at, NEW g \in Int, Coherent(p), Dated(p, g),
           ~Target(p, t), t.state = "disputed"
    PROVE  LET q == Corrected(p, t, at, g + 1)
           IN  /\ Coherent(q) /\ Dated(q, g + 1) /\ Forward(p, q)
               /\ \A content : SeenBy(p, content) => SeenBy(q, content)
<1> DEFINE q == Corrected(p, t, at, g + 1)
           o == Original(p, t)
           d == [t EXCEPT !.state = "disputed", !.evidence = o.evidence,
                          !.correction = <<"correction", g + 1>>]
           n == [id |-> <<"correction", g + 1>>, target |-> o.id, at |-> at]
<1>0. /\ Shaped(p) /\ Unique(p) /\ Resolved(p) /\ Disputes(p) /\ Standing(p) /\ Scoped(p)
      /\ Named(p) /\ ProfileShaped(p) /\ ClaimShaped(t)
    BY DEF Coherent, Shaped
<1>1. PICK h \in p.claims : Replaces(p, t, h) /\ h.scope = t.scope /\ Is(h, "observed")
    BY <1>0 DEF Disputes, Is
<1>2. o \in p.claims /\ \E r \in p.corrections : r.id = t.correction /\ r.target = o.id
    <2>1. h \in Originals(p, t)
        BY <1>1 DEF Originals, Replaces
    <2>2. o \in Originals(p, t)
        BY <2>1 DEF Original
    <2> QED BY <2>2 DEF Originals
<1>3. o = h
    BY <1>0, <1>1, <1>2 DEF Unique, Replaces
<1>4. ClaimShaped(d) /\ d.id = t.id /\ d.scope = t.scope /\ d.state = "disputed"
      /\ d.evidence = o.evidence /\ d.correction = n.id
    BY <1>0 DEF ClaimShaped
<1>5. CorrectionShaped(n) /\ n.target = o.id /\ n.id # NoCorrection
      /\ Kind(n.id) = "correction" /\ Of(n.id) = g + 1
    BY DEF CorrectionShaped, NoCorrection, Kind, Of
<1>6. /\ q.claims = (p.claims \ {t}) \cup {d, o} /\ q.evidence = p.evidence
      /\ q.corrections = p.corrections \cup {n} /\ ProfileShaped(q)
    <2>1. Referred(p, t).claim = o /\ Referred(p, t).evidence = {}
        BY DEF Referred
    <2> HIDE DEF o
    <2>2. d = Disputed(p, t, g + 1)
        BY <2>1 DEF Disputed
    <2> HIDE DEF d
    <2>3. n = [id |-> d.correction, target |-> o.id, at |-> at]
        BY <1>4
    <2> HIDE DEF n
    <2>4. /\ q.claims =
                (p.claims \ {t}) \cup {Disputed(p, t, g + 1), Referred(p, t).claim}
          /\ q.evidence = p.evidence \cup Referred(p, t).evidence
          /\ q.corrections = p.corrections \cup
                {[id |-> Disputed(p, t, g + 1).correction, target |-> Referred(p, t).claim.id,
                  at |-> at]}
          /\ ProfileShaped(q)
        BY <1>0, CorrectedParts
    <2> HIDE DEF q
    <2> QED BY <2>1, <2>2, <2>3, <2>4
<1> HIDE DEF o, d, n, q
<1>7. /\ o \in p.claims /\ o.scope = t.scope /\ Is(o, "observed") /\ Target(p, o) /\ o # t
    BY <1>1, <1>3 DEF Is, Replaces, Target
<1>8. q.claims = (p.claims \ {t}) \cup {d}
    BY <1>6, <1>7
<1>9. \A r \in p.corrections : r.id # n.id
    BY <1>5 DEF Dated
<1>10. \A x \in p.claims \ {t} : x.id # t.id
    BY <1>0 DEF Unique
<1>11. \A x : Target(q, x) <=> Target(p, x)
    BY <1>5, <1>6, <1>7 DEF Target
<1>12. ~Target(q, d) /\ (Target(p, d) <=> Target(p, t))
    BY <1>4, <1>11 DEF Target
<1>13. Shaped(q)
    <2>1. d.scope = <<d.scope[1], d.scope[2]>>
        BY <1>0, <1>4 DEF Shaped
    <2> QED BY <1>0, <1>4, <1>5, <1>6, <1>8, <2>1 DEF Shaped
<1>14. Unique(q)
    BY <1>0, <1>4, <1>6, <1>8, <1>9, <1>10 DEF Unique
<1>15. Resolved(q)
    <2>1. \A x \in q.claims : \A id \in x.evidence : \E e \in q.evidence : e.id = id
        BY <1>0, <1>4, <1>6, <1>7, <1>8 DEF Resolved
    <2>2. \A r \in p.corrections : \E x \in q.claims : x.id = r.target
        BY <1>0, <1>8 DEF Resolved, Target
    <2>3. \E x \in q.claims : x.id = n.target
        BY <1>5, <1>7, <1>8
    <2> QED BY <1>6, <2>1, <2>2, <2>3 DEF Resolved
<1>16. Disputes(q)
    <2>1. ASSUME NEW x \in p.claims \ {t}, Is(x, "disputed")
          PROVE  \E k \in q.claims : Replaces(q, x, k) /\ k.scope = x.scope /\ Is(k, "observed")
        <3>1. PICK k \in p.claims : Replaces(p, x, k) /\ k.scope = x.scope /\ Is(k, "observed")
            BY <1>0, <2>1 DEF Disputes
        <3>2. k # t
            BY <3>1 DEF Is
        <3> QED BY <1>6, <1>8, <3>1, <3>2 DEF Replaces
    <2>2. Replaces(q, d, o) /\ o.scope = d.scope /\ Is(o, "observed") /\ o \in q.claims
        BY <1>4, <1>5, <1>6, <1>7, <1>8 DEF Replaces
    <2> QED BY <1>8, <2>1, <2>2 DEF Disputes
<1>17. Standing(q)
    <2>1. Is(d, "disputed") /\ d \in q.claims /\ n \in q.corrections /\ n.id = d.correction
        BY <1>4, <1>6, <1>8 DEF Is
    <2>2. ASSUME NEW r \in p.corrections
          PROVE  \E x \in q.claims :
                    Is(x, "disputed") /\ \E k \in q.corrections : k.id = x.correction /\ k.target = r.target
        <3>1. PICK x \in p.claims, k \in p.corrections :
                 Is(x, "disputed") /\ k.id = x.correction /\ k.target = r.target
            BY <1>0 DEF Standing
        <3>2. CASE x = t
            <4>1. k.target = o.id
                BY <1>0, <1>2, <3>1, <3>2 DEF Unique
            <4> QED BY <1>5, <2>1, <3>1, <4>1
        <3>3. CASE x # t
            BY <1>6, <1>8, <3>1, <3>3
        <3> QED BY <3>2, <3>3
    <2> QED BY <1>6, <2>1, <2>2 DEF Standing
<1>18. Scoped(q)
    <2>1. ~Is(d, "observed")
        BY <1>4 DEF Is
    <2>2. Is(t, "disputed") /\ d.scope = t.scope
        BY <1>4 DEF Is
    <2> QED BY <1>0, <1>8, <1>11, <2>1, <2>2 DEF Scoped
<1>19. Named(q)
    <2>1. /\ Kind(d.id) = "claim" => d.scope = <<Of(d.id), Here>>
          /\ ~Is(d, "declared") /\ Kind(d.id) # "history"
        BY <1>0, <1>4 DEF Named, Is
    <2>2. \A id \in d.evidence : Kind(id) # "live"
        BY <1>0, <1>4, <1>7 DEF Named
    <2> QED BY <1>0, <1>6, <1>8, <1>11, <1>12, <2>1, <2>2 DEF Named
<1>20. Dated(q, g + 1)
    BY <1>4, <1>5, <1>6, <1>8 DEF Dated
<1>21. Coherent(q)
    BY <1>13, <1>14, <1>15, <1>16, <1>17, <1>18, <1>19 DEF Coherent
<1>22. Forward(p, q) /\ \A content : SeenBy(p, content) => SeenBy(q, content)
    BY <1>6, <1>13, <1>14, SameEvidenceIsForward DEF SeenBy
<1> QED BY <1>20, <1>21, <1>22 DEF q

LEMMA CorrectedIsCoherent ==
    ASSUME NEW p, NEW t \in p.claims, NEW at, NEW g \in Int, Coherent(p), Dated(p, g),
           Correctable(p, t, at)
    PROVE  LET q == Corrected(p, t, at, g + 1)
           IN  /\ Coherent(q) /\ Dated(q, g + 1) /\ Forward(p, q)
               /\ \A content : SeenBy(p, content) => SeenBy(q, content)
<1>1. ~Target(p, t)
    BY DEF Correctable, Target, Targets
<1>2. t.state \in {"observed", "disputed"}
    BY DEF Correctable, Coherent, Shaped
<1>3. CASE t.state = "observed"
    BY <1>1, <1>3, FirstCorrectionIsCoherent
<1>4. CASE t.state = "disputed"
    BY <1>1, <1>4, FurtherCorrectionIsCoherent
<1> QED BY <1>2, <1>3, <1>4

-----------------------------------------------------------------------------
(* Derivations *)

LEMMA DerivedIsCoherent ==
    ASSUME NEW p, NEW v, Coherent(p), v.content \in [Capabilities -> Int]
    PROVE  LET q == Derived(p, v)
           IN  /\ Coherent(q)
               /\ \A g : Dated(p, g) => Dated(q, g)
               /\ SeenBy(p, v.content) => Forward(p, q)
               /\ \A content : (\A c \in Capabilities : content[c] \in Int /\ v.content[c] <= content[c])
                     => SeenBy(q, content)
<1> DEFINE q == Derived(p, v)
           kept == {c \in p.claims : c.id \in Targets(p) \/ c.state # "observed"}
           K(c) == IF c.state = "disputed"
                   THEN [c EXCEPT !.stale = @ \/ Outdated(p, v, c)] ELSE c
           A(x) == Assessment(v, x)
           O(x) == Observation(v, x)
           seen == {x \in Seen(v) : \A c \in Preserved(p, v) :
                       c.state = "disputed" => c.scope # A(x).scope}
<1>0. /\ Shaped(p) /\ Unique(p) /\ Resolved(p) /\ Disputes(p) /\ Standing(p) /\ Scoped(p)
      /\ Named(p) /\ ProfileShaped(p)
    BY DEF Coherent, Shaped
<1>1. /\ Preserved(p, v) = {K(c) : c \in kept}
      /\ Automated(Preserved(p, v), v) = {A(x) : x \in seen}
    BY DEF Preserved, Automated
<1>2. \A c \in p.claims : /\ ClaimShaped(K(c)) /\ K(c).id = c.id /\ K(c).scope = c.scope
                          /\ K(c).state = c.state /\ K(c).evidence = c.evidence
                          /\ K(c).correction = c.correction
    BY <1>0 DEF Shaped, ClaimShaped
<1>3. \A x : /\ ClaimShaped(A(x)) /\ A(x).id = <<"claim", x>> /\ A(x).scope = <<x, Here>>
             /\ A(x).state = "observed" /\ A(x).evidence = {<<"live", x>>}
    BY DEF Assessment, ClaimShaped
<1>4. \A x : /\ EvidenceShaped(O(x)) /\ O(x).id = <<"live", x>>
             /\ O(x).fingerprint = v.content[x]
    BY DEF Observation, EvidenceShaped
<1>5. /\ q.claims = Preserved(p, v) \cup Automated(Preserved(p, v), v)
      /\ q.evidence = Records(p, Cited(Preserved(p, v))) \cup
            {e \in {O(x) : x \in Seen(v)} : e.id \in Cited(Automated(Preserved(p, v), v))}
      /\ q.corrections = p.corrections /\ ProfileShaped(q)
    <2> HIDE DEF O
    <2> QED BY <1>0, DerivedKeeps DEF Derived, ProfileShaped, O
<1>6. kept \subseteq p.claims /\ \A c \in p.claims :
         c \in kept <=> Target(p, c) \/ ~Is(c, "observed")
    BY DEF Target, Targets, Is
<1>7. seen \subseteq Capabilities
    BY DEF Seen
<1>8. \A c \in kept, x \in seen : Is(c, "disputed") => c.scope # <<x, Here>>
    <2> HIDE DEF K, kept, A
    <2> QED BY <1>1, <1>2, <1>3, <1>6 DEF Is
<1>9. q.claims = {K(c) : c \in kept} \cup {A(x) : x \in seen}
    BY <1>1, <1>5
<1> HIDE DEF K, A, O, kept, seen, q
<1>30. \A id : id \in Cited(Automated(Preserved(p, v), v)) <=> \E x \in seen : id = <<"live", x>>
    <2> DEFINE automated == Automated(Preserved(p, v), v)
    <2>1. automated = {A(x) : x \in seen}
        BY <1>1
    <2> HIDE DEF automated
    <2>2. \A id : id \in Cited(automated) <=> \E c \in automated : id \in c.evidence
        BY DEF Cited
    <2>3. \A id : (\E c \in automated : id \in c.evidence) <=> \E x \in seen : id \in A(x).evidence
        BY <2>1
    <2>4. \A x \in seen : \A id : id \in A(x).evidence <=> id = <<"live", x>>
        BY <1>3
    <2> QED BY <2>2, <2>3, <2>4 DEF automated
<1>10. \A e \in q.evidence :
          \/ e \in p.evidence /\ \E c \in kept : e.id \in c.evidence
          \/ \E x \in seen : e = O(x)
    <2>1. \A e : e \in Records(p, Cited(Preserved(p, v))) =>
             e \in p.evidence /\ \E c \in kept : e.id \in c.evidence
        BY <1>1, <1>2, <1>6 DEF Records, Cited
    <2>2. \A y \in Seen(v) : O(y).id \in Cited(Automated(Preserved(p, v), v)) => y \in seen
        BY <1>4, <1>30
    <2> QED BY <1>5, <2>1, <2>2
<1>11. \A c \in kept : \A e \in p.evidence : e.id \in c.evidence => e \in q.evidence
    BY <1>1, <1>2, <1>5, <1>6 DEF Records, Cited
<1>12. \A x \in seen : O(x) \in q.evidence
    BY <1>4, <1>5, <1>30 DEF seen
<1>13. \A x \in seen : \A y : Kind(A(x).id) = "claim" /\ Of(A(x).id) = x
                              /\ Kind(O(x).id) = "live" /\ Of(O(x).id) = x
    BY <1>3, <1>4 DEF Kind, Of
<1>14. \A c \in kept : \A id \in c.evidence : Kind(id) # "live"
    BY <1>0, <1>6 DEF Named
<1>15. \A x \in seen : ~Target(p, A(x))
    <2> SUFFICES ASSUME NEW x \in seen, Target(p, A(x)) PROVE FALSE
        OBVIOUS
    <2>1. PICK c \in p.claims : c.id = A(x).id /\ Target(p, c)
        BY <1>0 DEF Resolved, Target
    <2> QED BY <1>0, <1>13, <2>1 DEF Named
<1>16. \A c \in kept, x \in seen : K(c).id # A(x).id
    <2> SUFFICES ASSUME NEW c \in kept, NEW x \in seen, K(c).id = A(x).id PROVE FALSE
        OBVIOUS
    <2>1. c \in p.claims /\ c.scope = <<x, Here>> /\ ~Target(p, c) /\ ~Is(c, "declared")
        BY <1>0, <1>2, <1>6, <1>13 DEF Named
    <2>2. Is(c, "disputed")
        BY <1>0, <1>6, <2>1 DEF Shaped, Is
    <2> QED BY <1>8, <2>1, <2>2
<1>17. /\ \A c \in kept : Target(q, K(c)) <=> Target(p, c)
       /\ \A x : Target(q, x) <=> Target(p, x)
    BY <1>2, <1>5, <1>6 DEF Target
<1>18. Shaped(q)
    <2>1. \A c \in kept : /\ ClaimShaped(K(c)) /\ K(c).scope = <<K(c).scope[1], K(c).scope[2]>>
                          /\ K(c).state \in {"observed", "disputed", "declared"}
        BY <1>0, <1>2, <1>6 DEF Shaped
    <2>2. \A x \in seen : /\ ClaimShaped(A(x)) /\ A(x).scope = <<A(x).scope[1], A(x).scope[2]>>
                          /\ A(x).state \in {"observed", "disputed", "declared"}
        BY <1>3
    <2>3. \A e \in q.evidence : EvidenceShaped(e) /\ e.fingerprint \in Int
        BY <1>0, <1>4, <1>7, <1>10 DEF Shaped
    <2> QED BY <1>0, <1>5, <1>9, <2>1, <2>2, <2>3 DEF Shaped
<1>19. Unique(q)
    <2>1. \A c, e \in kept : K(c).id = K(e).id => c = e
        BY <1>0, <1>2, <1>6 DEF Unique
    <2>2. \A x, y \in seen : A(x).id = A(y).id \/ O(x).id = O(y).id => x = y
        BY <1>13
    <2>3. \A c, e \in q.claims : c.id = e.id => c = e
        BY <1>9, <1>16, <2>1, <2>2
    <2>4. \A e, f \in q.evidence : e.id = f.id => e = f
        BY <1>0, <1>10, <1>13, <1>14, <2>2 DEF Unique
    <2> QED BY <1>0, <1>5, <2>3, <2>4 DEF Unique
<1>20. Resolved(q)
    <2>1. \A c \in kept : \A id \in K(c).evidence : \E e \in q.evidence : e.id = id
        BY <1>0, <1>2, <1>6, <1>11 DEF Resolved
    <2>2. \A x \in seen : \A id \in A(x).evidence : \E e \in q.evidence : e.id = id
        BY <1>3, <1>4, <1>12
    <2>3. \A r \in p.corrections : \E c \in q.claims : c.id = r.target
        <3>1. \A r \in p.corrections : \E c \in kept : c.id = r.target
            BY <1>0, <1>6 DEF Resolved, Target
        <3> QED BY <1>2, <1>6, <1>9, <3>1
    <2> QED BY <1>5, <1>9, <2>1, <2>2, <2>3 DEF Resolved
<1>21. /\ \A x, s : Is(A(x), s) => s = "observed"
       /\ \A c \in kept : \A s : Is(K(c), s) <=> Is(c, s)
    BY <1>2, <1>3, <1>6 DEF Is
<1>22. Disputes(q)
    <2>1. ASSUME NEW d \in kept, Is(d, "disputed")
          PROVE  \E h \in q.claims : Replaces(q, K(d), h) /\ h.scope = K(d).scope /\ Is(h, "observed")
        <3>1. PICK h \in p.claims : Replaces(p, d, h) /\ h.scope = d.scope /\ Is(h, "observed")
            BY <1>0, <1>6, <2>1 DEF Disputes
        <3>2. h \in kept
            BY <1>6, <3>1 DEF Replaces, Target
        <3>3. Replaces(q, K(d), K(h)) /\ K(h).scope = K(d).scope /\ Is(K(h), "observed")
            BY <1>2, <1>5, <1>6, <1>21, <3>1, <3>2 DEF Replaces
        <3> QED BY <1>9, <3>2, <3>3
    <2> QED BY <1>9, <1>21, <2>1 DEF Disputes
<1>23. Standing(q)
    <2>1. ASSUME NEW r \in p.corrections
          PROVE  \E d \in q.claims :
                    Is(d, "disputed") /\ \E k \in p.corrections : k.id = d.correction /\ k.target = r.target
        <3>1. PICK d \in p.claims, k \in p.corrections :
                 Is(d, "disputed") /\ k.id = d.correction /\ k.target = r.target
            BY <1>0 DEF Standing
        <3>2. d \in kept
            BY <1>6, <3>1 DEF Is
        <3>3. K(d) \in q.claims /\ Is(K(d), "disputed") /\ K(d).correction = d.correction
            BY <1>2, <1>6, <1>9, <1>21, <3>1, <3>2
        <3> QED BY <3>1, <3>3
    <2> QED BY <1>5, <2>1 DEF Standing
<1>24. Scoped(q)
    <2>1. ASSUME NEW c \in q.claims, NEW d \in q.claims, Is(c, "observed"), Is(d, "disputed"),
                 c.scope = d.scope
          PROVE  Target(q, c)
        <3>1. PICK e \in kept : d = K(e) /\ Is(e, "disputed") /\ e.scope = d.scope
            BY <1>2, <1>6, <1>9, <1>21, <2>1
        <3>2. ~ \E x \in seen : c = A(x)
            BY <1>3, <1>8, <2>1, <3>1
        <3>3. PICK b \in kept : c = K(b)
            BY <1>9, <3>2
        <3> QED BY <1>6, <1>17, <1>21, <2>1, <3>3
    <2>2. ASSUME NEW c \in q.claims, NEW d \in q.claims, Is(c, "observed"), Is(d, "observed"),
                 c.scope = d.scope, ~Target(q, c), ~Target(q, d)
          PROVE  c = d
        <3>1. \A b \in kept : c # K(b) /\ d # K(b)
            BY <1>6, <1>17, <1>21, <2>2
        <3>2. PICK x \in seen, y \in seen : c = A(x) /\ d = A(y)
            BY <1>9, <3>1
        <3> QED BY <1>3, <2>2, <3>2
    <2> QED BY <2>1, <2>2 DEF Scoped
<1>25. Named(q)
    <2>1. \A c \in q.claims : Kind(c.id) = "claim" =>
             c.scope = <<Of(c.id), Here>> /\ ~Target(q, c) /\ ~Is(c, "declared")
        BY <1>0, <1>2, <1>3, <1>6, <1>9, <1>13, <1>15, <1>17, <1>21 DEF Named
    <2>2. \A c \in q.claims : Kind(c.id) = "history" => c.scope = Of(c.id).scope /\ Target(q, c)
        BY <1>0, <1>2, <1>6, <1>9, <1>13, <1>17 DEF Named
    <2>3. \A c \in q.claims : Target(q, c) \/ ~Is(c, "observed") =>
             \A id \in c.evidence : Kind(id) # "live"
        BY <1>2, <1>3, <1>6, <1>9, <1>14, <1>15, <1>17 DEF Is
    <2>4. \A e \in q.evidence : Kind(e.id) = "archived" => e = [Of(e.id) EXCEPT !.id = e.id]
        BY <1>0, <1>10, <1>13 DEF Named
    <2> QED BY <2>1, <2>2, <2>3, <2>4 DEF Named
<1>26. \A g : Dated(p, g) => Dated(q, g)
    BY <1>2, <1>5, <1>6, <1>9, <1>13 DEF Dated
<1>27. ASSUME SeenBy(p, v.content)
       PROVE  Forward(p, q)
    BY <1>0, <1>4, <1>10, <1>13, <1>27 DEF SeenBy, Forward, Unique, Shaped
<1>28. ASSUME NEW content,
              \A c \in Capabilities : content[c] \in Int /\ v.content[c] <= content[c]
       PROVE  SeenBy(q, content)
    BY <1>4, <1>7, <1>10, <1>13, <1>14, <1>28 DEF SeenBy
<1>29. Coherent(q)
    BY <1>18, <1>19, <1>20, <1>22, <1>23, <1>24, <1>25 DEF Coherent
<1> QED BY <1>26, <1>27, <1>28, <1>29 DEF q

-----------------------------------------------------------------------------
(* Every process writes coherent profiles *)

\* What another store exported is what this theorem shows of every store.
SoundArtifacts == \A p \in Artifacts : Coherent(p)

LEMMA ForwardToItself ==
    ASSUME NEW p, Coherent(p)
    PROVE  Forward(p, p)
BY SameEvidenceIsForward DEF Coherent

LEMMA DatedLater ==
    ASSUME NEW p, NEW g \in Int, Dated(p, g)
    PROVE  Dated(p, g + 1)
BY DEF Dated

LEMMA CandidatesAreSound ==
    ASSUME SoundArtifacts, SoundInv, NEW r \in Runtimes, At(r, "load"), NEW q \in Candidates(r)
    PROVE  /\ Coherent(q) /\ Dated(q, store.generation + 1)
           /\ ~store.barred => SeenBy(q, world.content) /\ Forward(store.profile, q)
<1> DEFINE p == store.profile
           g == store.generation
<1>0. /\ Coherent(p) /\ Dated(p, g) /\ g \in Int /\ SeenBy(p, world.content)
      /\ Promising(runtime[r], store, world.content) /\ world.content \in [Capabilities -> Int]
      /\ Dated(p, g + 1) /\ Forward(p, p)
    BY ForwardToItself, DatedLater DEF SoundInv, StoreSound, Inv, StoreGood
<1>1. CASE runtime[r].op = "refresh"
    <2> DEFINE v == runtime[r].derivation
    <2>1. q = Derived(p, v) /\ store.generation = runtime[r].expected
        BY <1>1 DEF Candidates, Derivations, MayMutate
    <2>2. /\ v.content \in [Capabilities -> Int] /\ (~store.barred => SeenBy(p, v.content))
          /\ \A c \in Capabilities : v.content[c] <= world.content[c]
        BY <1>0, <1>1, <2>1 DEF Promising, At
    <2> HIDE DEF p, v
    <2>3. Coherent(q) /\ (Dated(p, g + 1) => Dated(q, g + 1))
        BY <1>0, <2>1, <2>2, DerivedIsCoherent
    <2>4. SeenBy(p, v.content) => Forward(p, q)
        BY <1>0, <2>1, <2>2, DerivedIsCoherent
    <2>5. \A c \in Capabilities : world.content[c] \in Int /\ v.content[c] <= world.content[c]
        BY <1>0, <2>2
    <2>6. SeenBy(q, world.content)
        BY <1>0, <2>1, <2>2, <2>5, DerivedIsCoherent
    <2> QED BY <1>0, <2>2, <2>3, <2>4, <2>6 DEF p
<1>2. CASE runtime[r].op = "correct"
    <2>1. PICK t \in p.claims :
             /\ Correctable(p, t, runtime[r].at) /\ q = Corrected(p, t, runtime[r].at, g + 1)
        BY <1>2 DEF Candidates, Corrections
    <2> HIDE DEF p, g
    <2>2. /\ Coherent(q) /\ Dated(q, g + 1) /\ Forward(p, q)
          /\ \A content : SeenBy(p, content) => SeenBy(q, content)
        BY <1>0, <2>1, CorrectedIsCoherent
    <2> QED BY <1>0, <2>2 DEF p, g
<1>3. CASE runtime[r].op = "declare"
    <2>1. PICK c \in Capabilities : q = Declared(p, c, runtime[r].at, g + 1)
        BY <1>3 DEF Candidates, Declarations
    <2> HIDE DEF p, g
    <2>2. /\ Coherent(q) /\ Dated(q, g + 1) /\ Forward(p, q)
          /\ \A content : SeenBy(p, content) => SeenBy(q, content)
        BY <1>0, <2>1, DeclaredIsCoherent
    <2> QED BY <1>0, <2>2 DEF p, g
<1>4. CASE runtime[r].op = "import"
    <2>1. PICK a \in Artifacts : q = Projected(a) /\ g = None
        BY <1>4 DEF Candidates, Imports
    <2>2. /\ Coherent(q) /\ Dated(q, g + 1) /\ SeenBy(q, world.content)
        BY <2>1, ProjectedIsCoherent DEF SoundArtifacts
    <2>3. p.evidence = {}
        BY <2>1 DEF SoundInv, Inv, StoreGood, Empty
    <2> QED BY <2>2, <2>3 DEF Forward
<1>5. CASE runtime[r].op \notin {"refresh", "correct", "declare", "import"}
    <2>1. q = p
        BY <1>5 DEF Candidates
    <2> QED BY <1>0, <2>1
<1> QED BY <1>1, <1>2, <1>3, <1>4, <1>5

-----------------------------------------------------------------------------
(* What the others were promised *)

LEMMA OthersStayPromising ==
    ASSUME NEW s, NEW st, NEW new, NEW cache, NEW content, Promising(s, st, content),
           RuntimeGood(s, st, cache), StoreGood(st), StoreStep(st, new)
    PROVE  Promising(s, new, content)
<1>1. CASE new = st
    BY <1>1
<1>2. CASE ~st.barred /\ ~new.barred /\ new.generation = st.generation + 1
    <2>1. s.pc \in {"collect", "load"} =>
             s.expected \in Int /\ s.expected <= new.generation /\ s.expected # new.generation
        BY <1>2 DEF Promising, StoreGood
    <2>2. s.pc = "loaded" => s.base # new.generation
        BY <1>2 DEF RuntimeGood, CandidateGood, StoreGood
    <2> QED BY <2>1, <2>2 DEF Promising
<1>3. CASE new.barred
    BY <1>3 DEF Promising
<1> QED BY <1>1, <1>2, <1>3 DEF StoreStep

\* It is enough to look at the process that takes a step.
LEMMA SoundStep ==
    ASSUME SoundInv, Inv', NEW r \in Runtimes, StoreStep(store, store'),
           \A q \in Runtimes : q # r => runtime'[q] = runtime[q],
           StoreSound(store', world.content), world'.content = world.content,
           Promising(runtime'[r], store', world.content)
    PROVE  SoundInv'
<1>1. ASSUME NEW q \in Runtimes
      PROVE  Promising(runtime'[q], store', world'.content)
    <2>1. CASE q = r
        BY <2>1
    <2>2. CASE q # r
        <3>1. /\ Promising(runtime[q], store, world.content) /\ StoreGood(store)
              /\ RuntimeGood(runtime[q], store, world.cache)
            BY DEF SoundInv, Inv
        <3>2. Promising(runtime[q], store', world.content)
            BY <3>1, OthersStayPromising
        <3> QED BY <2>2, <3>2
    <2> QED BY <2>1, <2>2
<1> QED BY <1>1 DEF SoundInv

LEMMA QuietPromises ==
    ASSUME NEW s, NEW st, NEW content, s.pc \notin {"collect", "load", "loaded"}
    PROVE  Promising(s, st, content)
BY DEF Promising

\* A step that leaves the store and the sources alone.
LEMMA LocalSounds ==
    ASSUME SoundInv, Inv', NEW r \in Runtimes, NEW s, runtime' = [runtime EXCEPT ![r] = s],
           UNCHANGED store, world'.content = world.content,
           Promising(s, store, world.content)
    PROVE  SoundInv'
<1>1. runtime'[r] = s /\ \A q \in Runtimes : q # r => runtime'[q] = runtime[q]
    BY DEF SoundInv, Inv
<1>2. StoreStep(store, store') /\ StoreSound(store', world.content)
    BY DEF StoreStep, SoundInv
<1> QED BY <1>1, <1>2, SoundStep

LEMMA ReturnSounds ==
    ASSUME SoundInv, Inv', NEW r \in Runtimes, NEW result, Return(r, result),
           UNCHANGED store, world'.content = world.content
    PROVE  SoundInv'
<1> DEFINE s == Ready(runtime[r].complete, runtime[r].snapshots, runtime[r].session,
                      IF result \in {"deleted", "admitted"} THEN result ELSE "none")
<1>1. runtime' = [runtime EXCEPT ![r] = s]
    BY DEF Return, Finish
<1>2. s.pc = "idle"
    BY DEF Ready
<1> HIDE DEF s
<1> QED BY <1>1, <1>2, QuietPromises, LocalSounds

LEMMA RequestSounds ==
    ASSUME SoundInv, Inv', NEW r \in Runtimes, Request(r)
    PROVE  SoundInv'
<1>0. /\ RuntimeShaped(runtime[r]) /\ store.generation \in Int
      /\ StoreSound(store, world.content)
    BY DEF SoundInv, Inv, RuntimeGood, StoreGood
<1>00. \A g \in SeenGenerations : g \in Int /\ g <= store.generation
    BY <1>0, OwnerAssumption, RuntimeAssumption DEF SeenGenerations, Generations, None
<1>1. ASSUME NEW at, NEW expected \in SeenGenerations, NEW observedAt,
             Refresh(r, expected, observedAt, at)
      PROVE  SoundInv'
    <2> DEFINE s == [runtime[r] EXCEPT
          !.pc = "collect", !.op = "refresh", !.expected = expected, !.at = at,
          !.complete = FALSE, !.snapshots = FALSE, !.result = "none",
          !.derivation = [NoDerivation EXCEPT !.derivedAt = observedAt]]
    <2>1. s.pc = "collect" /\ s.op = "refresh" /\ s.expected = expected
        BY <1>0 DEF RuntimeShaped
    <2>2. runtime' = [runtime EXCEPT ![r] = s]
        BY <1>1 DEF Refresh
    <2> HIDE DEF s
    <2>3. Promising(s, store, world.content)
        BY <1>0, <1>00, <2>1 DEF Promising
    <2> QED BY <1>1, <2>2, <2>3, LocalSounds DEF Refresh, Local
<1>2. ASSUME NEW op \in Operations, NEW at, NEW expected \in SeenGenerations,
             Ask(r, op, expected, at)
      PROVE  SoundInv'
    <2> DEFINE s == [runtime[r] EXCEPT !.pc = "load", !.op = op, !.expected = expected,
                       !.at = at, !.result = "none",
                       !.view = IF op = "admit" THEN agent ELSE NoView]
    <2>1. s.pc = "load" /\ s.op = op /\ s.expected = expected
        BY <1>0 DEF RuntimeShaped
    <2>2. runtime' = [runtime EXCEPT ![r] = s] /\ op # "refresh"
        BY <1>2 DEF Ask, Operations, Mutations
    <2> HIDE DEF s
    <2>3. Promising(s, store, world.content)
        BY <1>0, <1>00, <2>1, <2>2 DEF Promising
    <2> QED BY <1>2, <2>2, <2>3, LocalSounds DEF Ask, Local
<1>3. CASE Delete(r)
    <2> DEFINE s == [runtime[r] EXCEPT
          !.pc = "delete", !.op = "delete", !.complete = FALSE, !.snapshots = FALSE,
          !.session = "disposed", !.result = "none"]
    <2>1. s.pc = "delete"
        BY <1>0 DEF RuntimeShaped
    <2>2. runtime' = [runtime EXCEPT ![r] = s]
        BY <1>3 DEF Delete
    <2> HIDE DEF s
    <2> QED BY <1>3, <2>1, <2>2, QuietPromises, LocalSounds DEF Delete, Local
<1>4. CASE Invoke(r)
    BY <1>4 DEF Invoke, Alone, SoundInv
<1> QED BY <1>1, <1>2, <1>3, <1>4 DEF Request

LEMMA CollectSounds ==
    ASSUME SoundInv, Inv', NEW r \in Runtimes, Collect(r)
    PROVE  SoundInv'
<1>1. CASE Return(r, "refresh-incomplete")
    BY <1>1, ReturnSounds DEF Collect, Local
<1>2. ASSUME NEW v, v.content = world.content,
             runtime' = [runtime EXCEPT ![r] = [@ EXCEPT !.pc = "load", !.derivation = v]]
      PROVE  SoundInv'
    <2> DEFINE s == [runtime[r] EXCEPT !.pc = "load", !.derivation = v]
    <2>1. /\ RuntimeShaped(runtime[r]) /\ Promising(runtime[r], store, world.content)
          /\ runtime[r].pc = "collect" /\ world.content \in [Capabilities -> Int]
          /\ StoreSound(store, world.content)
        BY DEF SoundInv, Inv, RuntimeGood, Collect, At
    <2>2. /\ s.pc = "load" /\ s.derivation = v /\ s.op = runtime[r].op
          /\ s.expected = runtime[r].expected
        BY <2>1 DEF RuntimeShaped
    <2>3. runtime' = [runtime EXCEPT ![r] = s]
        BY <1>2
    <2> HIDE DEF s
    <2>4. \A c \in Capabilities : world.content[c] <= world.content[c]
        BY <2>1
    <2>5. Promising(s, store, world.content)
        BY <1>2, <2>1, <2>2, <2>4 DEF Promising, StoreSound
    <2> QED BY <2>3, <2>5, LocalSounds DEF Collect, Local
<1>3. CASE ~Return(r, "refresh-incomplete")
    <2>1. PICK v : /\ v.content = world.content
                   /\ runtime' = [runtime EXCEPT ![r] =
                         [@ EXCEPT !.pc = "load", !.derivation = v]]
        BY <1>3 DEF Collect
    <2> QED BY <1>2, <2>1
<1> QED BY <1>1, <1>3

LEMMA LoadSounds ==
    ASSUME SoundArtifacts, SoundInv, Inv', NEW r \in Runtimes, Load(r)
    PROVE  SoundInv'
<1>1. CASE Return(r, "rejected")
    BY <1>1, ReturnSounds DEF Load, Local
<1>2. ASSUME NEW candidate \in Candidates(r), NEW v, ~store.barred,
             runtime' = [runtime EXCEPT ![r] = [@ EXCEPT
                   !.pc = "loaded", !.base = store.generation, !.candidate = candidate,
                   !.expected = None, !.derivation = v]]
      PROVE  SoundInv'
    <2> DEFINE s == [runtime[r] EXCEPT !.pc = "loaded", !.base = store.generation,
                       !.candidate = candidate, !.expected = None, !.derivation = v]
    <2>1. RuntimeShaped(runtime[r]) /\ At(r, "load")
        BY DEF SoundInv, Inv, RuntimeGood, Load
    <2>2. s.pc = "loaded" /\ s.base = store.generation /\ s.candidate = candidate
        BY <2>1 DEF RuntimeShaped
    <2>3. runtime' = [runtime EXCEPT ![r] = s]
        BY <1>2
    <2> HIDE DEF s
    <2>4. Promising(s, store, world.content)
        BY <1>2, <2>1, <2>2, CandidatesAreSound DEF Promising
    <2> QED BY <2>3, <2>4, LocalSounds DEF Load, Local
<1> QED BY <1>1, <1>2 DEF Load

\* What was loaded is what the store still held, and goes on from there.
LEMMA ActivationIsSound ==
    ASSUME SoundInv, NEW r \in Runtimes, At(r, "loaded"), Current(r),
           store' = [generation |-> runtime[r].base + 1, profile |-> runtime[r].candidate,
                     at |-> runtime[r].at, barred |-> FALSE]
    PROVE  StoreSound(store', world.content) /\ Forward(store.profile, store'.profile)
<1>1. runtime[r].base = store.generation /\ ~store.barred
    BY DEF Current
<1>2. store'.generation = runtime[r].base + 1 /\ store'.profile = runtime[r].candidate
    OBVIOUS
<1>3. /\ Coherent(runtime[r].candidate) /\ Dated(runtime[r].candidate, runtime[r].base + 1)
      /\ SeenBy(runtime[r].candidate, world.content)
      /\ Forward(store.profile, runtime[r].candidate)
    BY <1>1 DEF SoundInv, Promising, At
<1> QED BY <1>2, <1>3 DEF StoreSound

LEMMA CommitSounds ==
    ASSUME SoundInv, Inv', NEW r \in Runtimes, Commit(r)
    PROVE  SoundInv' /\ Forward(store.profile, store'.profile)
<1>1. At(r, "loaded") /\ UNCHANGED world
    BY DEF Commit, Running
<1>2. PICK complete, snapshots, result : Finish(r, complete, snapshots, result)
    BY DEF Commit, Saved, Return
<1> DEFINE s == Ready(complete, snapshots, runtime[r].session,
                      IF result \in {"deleted", "admitted"} THEN result ELSE "none")
<1>3. runtime' = [runtime EXCEPT ![r] = s] /\ s.pc = "idle"
    BY <1>2 DEF Finish, Ready
<1> HIDE DEF s
<1>4. runtime'[r] = s /\ \A q \in Runtimes : q # r => runtime'[q] = runtime[q]
    BY <1>3 DEF SoundInv, Inv
<1>5. CASE UNCHANGED store
    <2>1. Forward(store.profile, store.profile)
        BY ForwardToItself DEF SoundInv, StoreSound
    <2> QED BY <1>1, <1>3, <1>5, <2>1, QuietPromises, LocalSounds
<1>6. CASE ~UNCHANGED store
    <2>1. /\ Current(r)
          /\ store' = [generation |-> runtime[r].base + 1, profile |-> runtime[r].candidate,
                       at |-> runtime[r].at, barred |-> FALSE]
        BY <1>6 DEF Commit
    <2>2. StoreStep(store, store')
        BY <1>1, <2>1, ActivationIsGood DEF SoundInv
    <2>3. StoreSound(store', world.content) /\ Forward(store.profile, store'.profile)
        BY <1>1, <2>1, ActivationIsSound
    <2>4. Promising(s, store', world.content)
        BY <1>3, QuietPromises
    <2> QED BY <1>1, <1>4, <2>2, <2>3, <2>4, SoundStep
<1> QED BY <1>5, <1>6

LEMMA DeleteStoreSounds ==
    ASSUME SoundInv, Inv', NEW r \in Runtimes, DeleteStore(r)
    PROVE  SoundInv' /\ Forward(store.profile, store'.profile)
<1>0. /\ RuntimeShaped(runtime[r]) /\ StoreSound(store, world.content) /\ UNCHANGED world
      /\ StoreShaped(store) /\ Forward(store.profile, store.profile)
    BY ForwardToItself DEF SoundInv, Inv, RuntimeGood, StoreGood, StoreSound, DeleteStore
<1>1. CASE store' = [NoStore EXCEPT !.barred = TRUE] /\ runtime' = [runtime EXCEPT ![r].pc = "clear"]
    <2> DEFINE s == [runtime[r] EXCEPT !.pc = "clear"]
    <2>1. s.pc = "clear" /\ runtime' = [runtime EXCEPT ![r] = s]
        BY <1>0, <1>1 DEF RuntimeShaped
    <2> HIDE DEF s
    <2>2. runtime'[r] = s /\ \A q \in Runtimes : q # r => runtime'[q] = runtime[q]
        BY <2>1 DEF SoundInv, Inv
    <2>3. store'.barred /\ store'.profile = Empty
        BY <1>1 DEF NoStore
    <2>4. StoreStep(store, store') /\ StoreSound(store', world.content)
        BY <2>3, EmptyIsCoherent DEF StoreStep, StoreSound
    <2>5. Forward(store.profile, store'.profile)
        BY <2>3 DEF Forward, Empty
    <2>6. Promising(s, store', world.content)
        BY <2>1, QuietPromises
    <2> QED BY <1>0, <2>2, <2>4, <2>5, <2>6, SoundStep
<1>2. CASE store' \in {store, [store EXCEPT !.barred = TRUE]} /\ Return(r, "deletion-incomplete")
    <2>1. CASE store' = store
        BY <1>0, <1>2, <2>1, ReturnSounds
    <2>2. CASE store' = [store EXCEPT !.barred = TRUE]
        <3>1. /\ store'.barred /\ store'.profile = store.profile
              /\ store'.generation = store.generation
            BY <1>0, <2>2 DEF StoreShaped
        <3>2. StoreStep(store, store') /\ StoreSound(store', world.content)
            BY <1>0, <3>1 DEF StoreStep, StoreSound
        <3> DEFINE s == Ready(runtime[r].complete, runtime[r].snapshots, runtime[r].session, "none")
        <3>3. runtime' = [runtime EXCEPT ![r] = s] /\ s.pc = "idle"
            BY <1>2 DEF Return, Finish, Ready
        <3> HIDE DEF s
        <3>4. runtime'[r] = s /\ \A q \in Runtimes : q # r => runtime'[q] = runtime[q]
            BY <3>3 DEF SoundInv, Inv
        <3>5. Promising(s, store', world.content)
            BY <3>3, QuietPromises
        <3> QED BY <1>0, <3>1, <3>2, <3>4, <3>5, SoundStep
    <2> QED BY <1>2, <2>1, <2>2
<1> QED BY <1>1, <1>2 DEF DeleteStore

\* The other steps of a process.
LEMMA OtherStepSounds ==
    ASSUME SoundInv, Inv', NEW r \in Runtimes, ClearCache(r) \/ View(r) \/ Admit(r)
    PROVE  SoundInv' /\ UNCHANGED store
<1>1. PICK result : Return(r, result)
    BY DEF ClearCache, View, Admit
<1>2. UNCHANGED store /\ world'.content = world.content
    BY DEF ClearCache, View, Admit, Local, SoundInv, Inv, WorldShaped
<1> QED BY <1>1, <1>2, ReturnSounds

LEMMA RestartSounds ==
    ASSUME SoundInv, Inv', NEW r \in Runtimes, Restart(r)
    PROVE  SoundInv'
<1>1. runtime' = [runtime EXCEPT ![r] = Started] /\ Started.pc = "idle"
    BY DEF Restart, Started, Ready
<1> QED BY <1>1, QuietPromises, LocalSounds DEF Restart

LEMMA ProvideSounds ==
    ASSUME SoundInv, Inv', NEW r \in Runtimes, Provide(r)
    PROVE  SoundInv'
BY DEF Provide, CallLoads, Answer, Alone, SoundInv

\* Sources only move on, which no observation contradicts.
LEMMA ChangeSounds ==
    ASSUME SoundInv, Inv', NEW c \in Capabilities, Change(c)
    PROVE  SoundInv'
<1>1. PICK v \in (world.content[c] + 1)..Gone : world' = [world EXCEPT !.content[c] = v]
    BY DEF Change
<1>2. /\ WorldShaped(world) /\ world.content \in [Capabilities -> Int]
      /\ UNCHANGED <<store, runtime>>
    BY DEF SoundInv, Inv, Change
<1>3. world'.content = [world.content EXCEPT ![c] = v]
    BY <1>1, <1>2 DEF WorldShaped
<1>4. v \in Int /\ world.content[c] \in Int /\ world.content[c] <= v
    BY <1>1, <1>2, OwnerAssumption DEF Gone
<1>5. /\ world'.content \in [Capabilities -> Int]
      /\ \A x \in Capabilities : world.content[x] <= world'.content[x]
    BY <1>2, <1>3, <1>4
<1>6. ASSUME NEW p, Shaped(p), SeenBy(p, world.content)
      PROVE  SeenBy(p, world'.content)
    BY <1>2, <1>5, <1>6 DEF Shaped, SeenBy
<1>7. StoreSound(store', world'.content)
    BY <1>2, <1>6 DEF SoundInv, StoreSound, Coherent
<1>8. ASSUME NEW r \in Runtimes
      PROVE  Promising(runtime'[r], store', world'.content)
    <2>1. Promising(runtime[r], store, world.content)
        BY DEF SoundInv
    <2>2. runtime[r].pc = "load" /\ runtime[r].op = "refresh" =>
             \A x \in Capabilities : runtime[r].derivation.content[x] <= world'.content[x]
        BY <1>2, <1>5, <2>1 DEF Promising
    <2> QED BY <1>2, <1>6, <2>1, <2>2 DEF Promising, Coherent
<1> QED BY <1>5, <1>7, <1>8 DEF SoundInv

LEMMA NextSounds ==
    ASSUME SoundArtifacts, SoundInv, [Next]_runtimeVars
    PROVE  SoundInv' /\ Forward(store.profile, store'.profile)
<1>0. Inv' /\ Forward(store.profile, store.profile)
    BY NextKeeps, ForwardToItself DEF SoundInv, StoreSound
<1>1. ASSUME NEW r \in Runtimes, Request(r)
      PROVE  SoundInv' /\ UNCHANGED store
    BY <1>0, <1>1, RequestSounds DEF Request, Refresh, Ask, Delete, Invoke, Local, Alone
<1>2. ASSUME NEW r \in Runtimes, Collect(r) \/ Load(r)
      PROVE  SoundInv' /\ UNCHANGED store
    BY <1>0, <1>2, CollectSounds, LoadSounds DEF Collect, Load, Local
<1>3. ASSUME NEW r \in Runtimes, Step(r)
      PROVE  SoundInv' /\ Forward(store.profile, store'.profile)
    BY <1>0, <1>2, <1>3, CommitSounds, DeleteStoreSounds, OtherStepSounds DEF Step
<1>4. ASSUME NEW r \in Runtimes, Provide(r) \/ Restart(r)
      PROVE  SoundInv' /\ UNCHANGED store
    BY <1>0, <1>4, ProvideSounds, RestartSounds DEF Provide, CallLoads, Answer, Alone, Restart
<1>5. ASSUME NEW c \in Capabilities, Change(c)
      PROVE  SoundInv' /\ UNCHANGED store
    BY <1>0, <1>5, ChangeSounds DEF Change
<1>6. CASE Tick
    <2>1. world'.content = world.content
        BY <1>6 DEF Tick, SoundInv, Inv, WorldShaped
    <2> QED BY <1>0, <1>6, <2>1 DEF Tick, SoundInv
<1>7. CASE UNCHANGED runtimeVars
    BY <1>0, <1>7 DEF runtimeVars, SoundInv
<1> QED BY <1>0, <1>1, <1>3, <1>4, <1>5, <1>6, <1>7 DEF Next

LEMMA InitSound == Init => SoundInv
<1> SUFFICES ASSUME Init PROVE SoundInv
    OBVIOUS
<1>1. world.content \in [Capabilities -> Int]
    BY DEF Init
<1>2. StoreSound(store, world.content)
    BY EmptyIsCoherent DEF Init, NoStore, StoreSound
<1>3. \A r \in Runtimes : runtime[r].pc = "idle"
    BY DEF Init, Started, Ready
<1> QED BY <1>1, <1>2, <1>3, InitGood, QuietPromises DEF SoundInv

\* No sequence of refreshes, corrections, declarations, imports and deletions of any
\* processes makes an operation write an invalid profile, puts a correction out of
\* force or rolls a source back, provided that what is imported came from such a store.
THEOREM ProfileIsSound ==
    ASSUME SoundArtifacts
    PROVE  Spec => ProfileStaysSound
<1>1. Init => SoundInv
    BY InitSound
<1>2. SoundInv /\ [Next]_runtimeVars => SoundInv'
    BY NextSounds
<1>3. SoundInv => CandidatesAreValid
    BY CandidatesAreSound, CoherentIsSound DEF CandidatesAreValid
<1>4. SoundInv => CorrectionsHold
    BY ProjectedIsCoherent, CoherentIsSound DEF CorrectionsHold, SoundInv, StoreSound
<1>5. SoundInv /\ [Next]_runtimeVars =>
         [\A old \in store.profile.evidence, new \in store'.profile.evidence :
             old.id = new.id => old.fingerprint <= new.fingerprint]_runtimeVars
    BY NextSounds DEF Forward
<1> QED BY <1>1, <1>2, <1>3, <1>4, <1>5, PTL DEF Spec, ProfileStaysSound, NoSourceRollback

\* What was asked of the artifacts holds of whatever this store exports: the hypothesis
\* of ProfileIsSound passes from store to store.
THEOREM ExportsAreSound ==
    ASSUME SoundArtifacts
    PROVE  Spec => [](Coherent(store.profile) /\ Coherent(Projected(store.profile)))
<1>1. Init => SoundInv
    BY InitSound
<1>2. SoundInv /\ [Next]_runtimeVars => SoundInv'
    BY NextSounds
<1>3. SoundInv => Coherent(store.profile) /\ Coherent(Projected(store.profile))
    BY ProjectedIsCoherent DEF SoundInv, StoreSound
<1> QED BY <1>1, <1>2, <1>3, PTL DEF Spec
=============================================================================
