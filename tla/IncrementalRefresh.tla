------------------------- MODULE IncrementalRefresh -------------------------
(***************************************************************************)
(* One incremental refresh session (incremental-refresh.ts) over sources   *)
(* that change while they are read.                                        *)
(*                                                                         *)
(* A refresh visits the repositories in order.  Each walk of a fingerprint *)
(* and each collection is a step of its own, and a repository has two      *)
(* parts, its files and its Git history, which change independently and    *)
(* are never read in one instant.  What runs between two awaits is one     *)
(* step: the derivation belongs to the step that settles the last          *)
(* repository.                                                             *)
(***************************************************************************)
EXTENDS Integers, FiniteSetsExt

CONSTANTS
    Count,            \* repositories
    MaxChanges,       \* bound on changes of the sources
    MaxTime,          \* bound on observation times
    MaxCacheAge,      \* limits.maxCacheAgeMs
    MaxCacheBytes,    \* limits.maxCacheBytes
    Size,             \* bytes of a collected repository, by the version of its files
    DerivedBytes      \* bytes of a derivation

ASSUME RefreshAssumption ==
    /\ Count \in Nat \ {0} /\ MaxChanges \in Nat /\ MaxTime \in Nat
    /\ MaxCacheAge \in Nat
    /\ MaxCacheBytes \in Nat /\ DerivedBytes \in Nat
    /\ Size \in [0..MaxChanges -> Nat]

VARIABLES
    source,    \* the current version of both parts of every repository
    session,   \* cache, previous derivation, lastObservedAt, disposed
    run,       \* the refresh in progress, or the outcome of the last one
    moments    \* what every repository has been since the refresh began
refreshVars == <<source, session, run, moments>>

Repositories == 1..Count
Version == 0..MaxChanges
Unread == -1
Present == [files : Version, history : Version]
Reading == [files : Version \cup {Unread}, history : Version \cup {Unread}]
Blank == [files |-> Unread, history |-> Unread]
Times == 0..MaxTime
Missing == [fingerprint |-> Blank, content |-> Blank, collectedAt |-> 0]
NoDerivation == [sourceObservedAt |-> 0, derivedAt |-> 0, bytes |-> 0]
Idle(outcome) ==
    [pc |-> "idle", repository |-> 1, at |-> 0, force |-> FALSE, before |-> Blank,
     probe |-> Blank, content |-> Blank, fresh |-> {}, outcome |-> outcome]

Entry == [fingerprint : Present, content : Present, collectedAt : Times]
Caches == [Repositories -> Entry \cup {Missing}]
Derivation == [sourceObservedAt : Times, derivedAt : Times, bytes : {0, DerivedBytes}]
SessionState == [cache : Caches, previous : Derivation, lastObservedAt : Times,
                 disposed : BOOLEAN]
Runs == [pc : {"idle", "probe", "walk", "collect", "log"},
         repository : Repositories, at : Times, force : BOOLEAN,
         before : Reading,               \* the fingerprint before the collections
         probe : Reading,                \* the walk in progress
         content : Reading,              \* what the collections have read
         fresh : SUBSET Repositories,    \* repositories reported fresh
         outcome : {"none", "published", "withheld", "failed"}]

TypeOK ==
    /\ source \in [Repositories -> Present]
    /\ session \in SessionState
    /\ run \in Runs
    /\ moments \in [Repositories -> SUBSET Present]

-----------------------------------------------------------------------------
(* The session *)

Empty == [r \in Repositories |-> Missing]
Cached(cache) == {r \in Repositories : cache[r] # Missing}
cacheBytes(cache, previous) ==
    previous.bytes + MapThenSumSet(LAMBDA r : Size[cache[r].content.files], Cached(cache))

\* now() of the code throws in a disposed session: whatever asks the clock after an
\* await goes no further.  Faulty variants (named Mutant...) precede what they vary.
Live == ~session.disposed

Keeps(cache) == session' = [session EXCEPT !.cache = cache]
At(label) == run.pc = label
\* What the sources have been matters while a refresh runs.
Observed == UNCHANGED <<source, moments>>

-----------------------------------------------------------------------------
(* The end of a refresh *)

sourceObservedAt(cache) == Min({cache[r].collectedAt : r \in Cached(cache)})

\* A complete set of fresh sources may yield a derivation, which follows the one
\* before it and fits; else, and of an incomplete set, nothing is published.
Publish(cache) ==
    /\ session.previous.sourceObservedAt <= sourceObservedAt(cache)
    /\ session.previous.derivedAt <= run.at
    /\ cacheBytes(cache, session.previous) - session.previous.bytes + DerivedBytes
          <= MaxCacheBytes
    /\ session' = [session EXCEPT !.cache = cache,
                      !.previous = [sourceObservedAt |-> sourceObservedAt(cache),
                                    derivedAt |-> run.at, bytes |-> DerivedBytes]]
    /\ run' = Idle("published")

\* The repository is settled: on to the next one, or to the end.
Settle(cache, fresh) ==
    IF run.repository < Count
    THEN /\ Keeps(cache)
         /\ run' = [run EXCEPT !.pc = "probe", !.repository = @ + 1, !.fresh = fresh,
                               !.before = Blank, !.probe = Blank, !.content = Blank]
    ELSE \/ fresh = Repositories /\ Publish(cache)
         \/ Keeps(cache) /\ run' = Idle("withheld")

\* A repository that could not be validated keeps its entry for a later refresh,
\* unless its source turned out to be invalid.
Unavailable(evict) ==
    Settle(IF evict THEN [session.cache EXCEPT ![run.repository] = Missing] ELSE session.cache,
           run.fresh)

\* The catch block.
Throw ==
    /\ session' = [session EXCEPT !.cache = Empty,
                                  !.previous = IF session.disposed THEN NoDerivation ELSE @]
    /\ run' = Idle("failed")

-----------------------------------------------------------------------------
(* Steps of a refresh *)

MutantRefreshBackwards(at, force) ==
    /\ At("idle") /\ Live
    /\ session' = [session EXCEPT !.lastObservedAt = at]
    /\ run' = [Idle("none") EXCEPT !.pc = "probe", !.at = at, !.force = force]
    /\ moments' = [r \in Repositories |-> {source[r]}]
    /\ UNCHANGED source
\* refreshLocalRepositories, to its first await.
Refresh(at, force) ==
    /\ At("idle") /\ Live /\ at >= session.lastObservedAt
    /\ session' = [session EXCEPT !.lastObservedAt = at]
    /\ run' = [Idle("none") EXCEPT !.pc = "probe", !.at = at, !.force = force]
    /\ moments' = [r \in Repositories |-> {source[r]}]
    /\ UNCHANGED source

\* A fingerprint walks one part after the other, in the order of their names.
ProbeHistory ==
    /\ At("probe") /\ Live /\ Observed /\ UNCHANGED session
    /\ run' = [run EXCEPT !.pc = "walk", !.probe.history = source[run.repository].history]

MutantUnchangedBlindly(entry, fingerprint) ==
    entry # Missing /\ ~run.force /\ run.at - entry.collectedAt < MaxCacheAge
\* An entry that is not collected again.
Unchanged(entry, fingerprint) ==
    /\ entry # Missing /\ ~run.force /\ entry.fingerprint = fingerprint
    /\ run.at - entry.collectedAt < MaxCacheAge

\* After the first walk: reuse the entry, or drop it if the source changed and
\* collect, as long as time and collections are left.
Decide(fingerprint) ==
    LET r == run.repository
        entry == session.cache[r]
        kept == IF entry.fingerprint = fingerprint
                THEN session.cache ELSE [session.cache EXCEPT ![r] = Missing]
    IN  IF Unchanged(entry, fingerprint) THEN Settle(session.cache, run.fresh \cup {r})
        ELSE \/ Settle(kept, run.fresh)
             \/ /\ Keeps(kept)
                /\ run' = [run EXCEPT !.pc = "collect", !.before = fingerprint, !.probe = Blank]

MutantAcceptUnbracketed(fingerprint) ==
    LET r == run.repository
        entry == [fingerprint |-> fingerprint, content |-> run.content, collectedAt |-> run.at]
    IN  IF cacheBytes([session.cache EXCEPT ![r] = entry], session.previous) > MaxCacheBytes
        THEN Unavailable(TRUE)
        ELSE Settle([session.cache EXCEPT ![r] = entry], run.fresh \cup {r})
\* After the second walk: an entry bracketed by equal fingerprints that fits
\* replaces the one before.
Accept(fingerprint) ==
    LET r == run.repository
        entry == [fingerprint |-> fingerprint, content |-> run.content, collectedAt |-> run.at]
    IN  IF \/ fingerprint # run.before
           \/ cacheBytes([session.cache EXCEPT ![r] = entry], session.previous) > MaxCacheBytes
        THEN Unavailable(TRUE)
        ELSE Settle([session.cache EXCEPT ![r] = entry], run.fresh \cup {r})

ProbeFiles ==
    /\ At("walk") /\ Live /\ Observed
    /\ LET fingerprint == [run.probe EXCEPT !.files = source[run.repository].files]
       IN  IF run.before = Blank THEN Decide(fingerprint) ELSE Accept(fingerprint)

CollectFiles ==
    /\ At("collect") /\ Live /\ Observed /\ UNCHANGED session
    /\ run' = [run EXCEPT !.pc = "log", !.content.files = source[run.repository].files]

CollectHistory ==
    /\ At("log") /\ Live /\ Observed /\ UNCHANGED session
    /\ run' = [run EXCEPT !.pc = "probe", !.content.history = source[run.repository].history]

\* A walk or a collection fails, or a budget is exhausted; only an invalid source
\* and one whose second walk fails lose their entry.
SourceFails ==
    /\ ~At("idle") /\ Live /\ Observed
    /\ \E evict \in BOOLEAN : Unavailable(evict)

\* The clock fails or runs backwards, in any step or in the first one.
ClockFails == Live /\ Observed /\ Throw

\* The session was disposed during an await: the clock throws, or a failing
\* collector of the last repository ends the refresh first.
Interrupted ==
    /\ ~At("idle") /\ ~Live /\ Observed
    /\ \/ Throw
       \/ /\ run.pc \in {"collect", "log"} /\ run.repository = Count
          /\ UNCHANGED session /\ run' = Idle("withheld")

RefreshStep ==
    \/ ProbeHistory \/ ProbeFiles \/ CollectFiles \/ CollectHistory
    \/ SourceFails \/ ClockFails \/ Interrupted

\* disposeIncrementalRefreshSessions, also under a refresh.
Dispose ==
    /\ ~session.disposed
    /\ session' = [session EXCEPT !.cache = Empty, !.previous = NoDerivation, !.disposed = TRUE]
    /\ UNCHANGED <<source, run, moments>>

\* A new session of the process begins cold.
Create ==
    /\ session.disposed /\ At("idle") /\ Observed
    /\ session' = [cache |-> Empty, previous |-> NoDerivation, lastObservedAt |-> 0,
                   disposed |-> FALSE]
    /\ run' = Idle("none")

\* The owner works on a repository.
Change(r) ==
    /\ \E part \in {"files", "history"} :
          /\ source[r][part] < MaxChanges
          /\ source' = [source EXCEPT ![r][part] = @ + 1]
    /\ moments' = IF At("idle") THEN moments ELSE [moments EXCEPT ![r] = @ \cup {source'[r]}]
    /\ UNCHANGED <<session, run>>

-----------------------------------------------------------------------------
RefreshInit ==
    /\ source = [r \in Repositories |-> [files |-> 0, history |-> 0]]
    /\ session = [cache |-> Empty, previous |-> NoDerivation, lastObservedAt |-> 0,
                  disposed |-> FALSE]
    /\ run = Idle("none")
    /\ moments = [r \in Repositories |-> {}]

RefreshNext ==
    \/ RefreshStep \/ Dispose \/ Create
    \/ \E at \in Times, force \in BOOLEAN : Refresh(at, force)
    \/ \E r \in Repositories : Change(r)
RefreshSpec == RefreshInit /\ [][RefreshNext]_refreshVars

-----------------------------------------------------------------------------
(* Properties *)

\* A cached collection is one version of its repository, the one its fingerprint
\* names, although fingerprint and content were read part by part while the parts
\* changed independently (the before and after probes of refreshLocalRepositories).
CachedIsOneVersion ==
    \A r \in Cached(session.cache) : session.cache[r].content = session.cache[r].fingerprint

Publishes == ~At("idle") /\ run'.outcome = "published"

Young(entry) == entry.collectedAt = run.at \/ run.at - entry.collectedAt < MaxCacheAge

\* Whatever is published about a repository, collected or reused, was its state at
\* one moment during this refresh, nothing older and no mixture, and was collected no
\* longer ago than the cache age allows.
PublishedIsCurrent ==
    [][Publishes => \A r \in Repositories :
          session'.cache[r].content \in moments[r] /\ Young(session'.cache[r])]_refreshVars

\* A disposed session holds no source data and no derivation, not even when its
\* refresh was in progress and goes on.
DisposedHoldsNothing ==
    session.disposed => session.cache = Empty /\ session.previous = NoDerivation

\* The cache is sound: each entry is one version, and after disposal there is none.
CacheIsSound == CachedIsOneVersion /\ DisposedHoldsNothing

\* No cached entry is older than the sources of the previous derivation, which would
\* make every later derivation fail (validatePrevious of evidence-claim-derivation.ts).
PreviousNeverBlocks ==
    /\ \A r \in Cached(session.cache) :
          session.cache[r].collectedAt >= session.previous.sourceObservedAt
    /\ session.previous.derivedAt <= session.lastObservedAt
=============================================================================
