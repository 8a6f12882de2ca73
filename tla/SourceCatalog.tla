--------------------------- MODULE SourceCatalog ---------------------------
(***************************************************************************)
(* The owner's catalog of source observations: runs of source-catalog.ts   *)
(* inside transactions of source-catalog-store.ts, by several processes,   *)
(* while the owner edits the configuration and the sources change.         *)
(*                                                                         *)
(* A lock file excludes other transactions; a crash leaves it behind, and  *)
(* the owner removes it when every writer has stopped.  A step reads or    *)
(* writes one entry of the directory, or is what happens between two       *)
(* awaits.  A hash is the value it is made from.                           *)
(***************************************************************************)
EXTENDS Integers, FiniteSets, FiniteSetsExt

CONSTANTS
    Writers,         \* processes that run the owner's commands
    Sources,         \* candidate sources
    Remote,          \* those on GitHub; the others are local
    Configurations,  \* configurations: an identity, and the authority of each source
    None,            \* no record, no generation, no authority, nobody
    Bad,             \* a generation that is damaged
    Batch,           \* limits.candidates
    Collections,     \* limits.collections
    CacheAge,        \* limits.cacheAgeMs
    Duration,        \* limits.durationMs
    Lifetime,        \* how long a record may be kept
    Duties,          \* the commands of each process
    MaxGeneration, MaxTime, MaxRuns, MaxIncidents, MaxEdits  \* bounds

Generations == 0..MaxGeneration
Commands == {"select", "refresh", "export", "delete"}

ASSUME CatalogAssumption ==
    /\ Batch \in Nat \ {0} /\ Collections \in Nat \ {0} /\ Lifetime \in Nat \ {0}
    /\ CacheAge \in Nat /\ Duration \in Nat /\ MaxGeneration \in Nat
    /\ None \notin Writers \cup Generations /\ None # Bad
    /\ \A c \in Configurations : DOMAIN c.authority = Sources
    /\ Duties \in [Writers -> SUBSET Commands] /\ Remote \subseteq Sources

\* What the code admits as records, and what a generation holds.
Identities == {c.identity : c \in Configurations}
Authorities == UNION {{c.authority[s] : s \in Sources} : c \in Configurations}
CatalogRecords ==
    [state : Nat, content : Nat, authority : Authorities, identity : Identities,
     observed : Nat, expires : Nat]
Envelopes == [binding : Identities, records : [Sources -> CatalogRecords \cup {None}]]

ASSUME EnvelopeAssumption == None \notin Envelopes /\ Bad \notin Envelopes

VARIABLES
    disk,   \* the directory: generations, staging, barrier, lock
    run,    \* per process: the command it runs
    world,  \* configuration, versions of the sources, clock
    spent   \* runs, incidents and edits so far
catalogVars == <<disk, run, world, spent>>

NoRecords == [s \in Sources |-> None]
Idle == [pc |-> "idle", command |-> "none", config |-> None, at |-> 0, first |-> None,
         left |-> {}, names |-> {}, selected |-> None, previous |-> NoRecords,
         records |-> NoRecords, hits |-> {}, source |-> None, state |-> None,
         content |-> None, collected |-> 0, verdict |-> "none"]

At(r, label) == run[r].pc = label
Update(r, changed) == run' = [run EXCEPT ![r] = changed]
Present == {g \in Generations : disk.generations[g] # None}
Kept(records) == {s \in Sources : records[s] # None}
Incident == spent.incidents < MaxIncidents /\ spent' = [spent EXCEPT !.incidents = @ + 1]
Calm == UNCHANGED spent
Sole(r, label) == At(r, label) /\ UNCHANGED world

\* authorize: the configuration is unchanged and the run is not over its time.
Authorized(r) ==
    /\ world.config = run[r].config
    /\ world.now - run[r].at <= Duration

\* The end of the transaction, thrown errors included: the finally block releases
\* the lock before the run answers.
End(r, verdict) == Update(r, [Idle EXCEPT !.pc = "release", !.verdict = verdict])
Fail(r) == End(r, "unavailable")

-----------------------------------------------------------------------------
(* The transaction *)

Begin(r, command) ==
    /\ Sole(r, "idle") /\ UNCHANGED disk
    /\ spent.runs < MaxRuns /\ spent' = [spent EXCEPT !.runs = @ + 1]
    /\ command = "select" => MaxGeneration \notin Present
    /\ Update(r, [Idle EXCEPT !.pc = "lock", !.command = command, !.config = world.config,
                              !.at = world.now, !.first = world.version])

\* The lock is created outside of the try block: who finds it taken leaves it.
MutantTakeLock(r) ==
    /\ Sole(r, "lock") /\ Calm
    /\ \/ /\ disk.lock = None
          /\ disk' = [disk EXCEPT !.lock = r]
          /\ Update(r, [run[r] EXCEPT !.pc = "scan"])
       \/ disk.lock # None /\ UNCHANGED disk /\ Fail(r)
TakeLock(r) ==
    /\ Sole(r, "lock") /\ Calm
    /\ \/ /\ disk.lock = None
          /\ disk' = [disk EXCEPT !.lock = r]
          /\ Update(r, [run[r] EXCEPT !.pc = "scan"])
       \/ disk.lock # None /\ UNCHANGED disk /\ Update(r, Idle)

\* A run ends before its transaction: a path cannot be resolved or overlaps the catalog,
\* the profile's configuration is another subject's, or the authority is gone.  Such a
\* run does not count.
Refuse(r) ==
    /\ Sole(r, "lock") /\ UNCHANGED disk /\ Update(r, Idle)
    /\ spent' = [spent EXCEPT !.runs = @ - 1]

\* The sources that a configuration names.
Named(config) == {s \in Sources : config.authority[s] # None}

\* After deletion only deletion may go on.
Scan(r) ==
    /\ Sole(r, "scan") /\ UNCHANGED disk /\ Calm
    /\ \/ /\ disk.barrier => run[r].command = "delete"
          /\ Update(r, [run[r] EXCEPT !.pc = "examine", !.left = Present, !.names = Present])
       \/ disk.barrier /\ run[r].command # "delete" /\ Fail(r)

\* recordAllowed: the configuration still names the record's source and its authority.
Allowed(config, s, record) ==
    record.identity = config.identity /\ record.authority = config.authority[s]

Expired(record, at) == record.observed > at \/ record.expires <= at

\* A deletion looks at expiry and binding only.
Withdrawn(r, envelope) ==
    \/ envelope.binding # run[r].config.identity
    \/ \E s \in Kept(envelope.records) :
          LET record == envelope.records[s]
          IN  \/ Expired(record, run[r].at)
              \/ run[r].command # "delete" /\ (\/ ~Allowed(run[r].config, s, record)
                                               \/ record.expires <= world.now)

\* Generations are read from the newest to the oldest; what is invalid or withdrawn
\* is removed, and the newest that remains is selected.
Examine(r) ==
    /\ Sole(r, "examine") /\ Calm /\ run[r].left # {}
    /\ LET g == Max(run[r].left)
           read == disk.generations[g]
           usable == read \notin {None, Bad} /\ ~Withdrawn(r, read)
           rest == [run[r] EXCEPT !.left = @ \ {g}]
       IN  /\ disk' = IF usable THEN disk ELSE [disk EXCEPT !.generations[g] = None]
           /\ Update(r, IF usable /\ rest.selected = None
                        THEN [rest EXCEPT !.selected = g, !.previous = read.records]
                        ELSE rest)

\* The transaction is open: staging left by a crash is gone.
Open(r) ==
    /\ Sole(r, "examine") /\ Calm /\ run[r].left = {}
    /\ disk' = [disk EXCEPT !.staging = FALSE]
    /\ Update(r, [run[r] EXCEPT
          !.pc = CASE run[r].command = "delete" -> "delete"
                   [] run[r].command = "export" -> "export"
                   [] OTHER -> "choose",
          !.records = run[r].previous])

\* An error of the file system in a transaction, and the end of it: whatever was
\* done, the lock is released.
Break(r) ==
    /\ run[r].pc \notin {"idle", "lock", "release"} /\ UNCHANGED <<disk, world>>
    /\ Incident /\ Fail(r)

Release(r) ==
    /\ Sole(r, "release") /\ Update(r, Idle)
    /\ \/ Calm /\ disk' = [disk EXCEPT !.lock = None]
       \/ Incident /\ UNCHANGED disk

-----------------------------------------------------------------------------
(* export, select and refresh *)

Export(r) ==
    /\ Sole(r, "export") /\ UNCHANGED disk /\ Calm
    /\ IF Authorized(r)
       THEN End(r, "exported")
       ELSE Fail(r)

\* The best ranked sources are looked at, or none when the profile covers the
\* request; the ranking (languages, hints of the records) is any.
Choose(r) ==
    /\ Sole(r, "choose") /\ UNCHANGED disk /\ Calm
    /\ LET named == Named(run[r].config)
           size == Min({Batch, Cardinality(named)})
       IN  \E chosen \in SUBSET named :
              /\ Cardinality(chosen) = size \/ (chosen = {} /\ run[r].command = "select")
              /\ Update(r, [run[r] EXCEPT !.pc = "next", !.left = chosen])

\* catch: the record of a source that failed is dropped.
Drop(r) ==
    Update(r, [run[r] EXCEPT !.pc = "next", !.records[run[r].source] = None,
                             !.source = None, !.state = None, !.content = None])

\* The state of a source by a probe; any probe may fail.
Probe(r) ==
    /\ Sole(r, "next") /\ UNCHANGED disk /\ Calm
    /\ \E s \in run[r].left :
          LET chosen == [run[r] EXCEPT !.left = @ \ {s}]
          IN  \/ /\ Authorized(r)
                 /\ Update(r, [chosen EXCEPT !.pc = "judge", !.source = s,
                                             !.state = world.version[s]])
              \/ Update(r, [chosen EXCEPT !.records[s] = None])

Fresh(record) == world.now - record.observed <= CacheAge /\ record.expires > world.now
Reusable(r, record) ==
    /\ run[r].command = "select" /\ record # None
    /\ record.state = run[r].state /\ Fresh(record)

\* A hit, or a collection within the limit, or a failure.
Judge(r) ==
    LET s == run[r].source
        reusable == Authorized(r) /\ Reusable(r, run[r].records[s])
    IN  /\ Sole(r, "judge") /\ UNCHANGED disk /\ Calm
        /\ \/ /\ reusable
              /\ Update(r, [run[r] EXCEPT !.pc = "next", !.hits = @ \cup {s},
                                          !.source = None, !.state = None])
           \/ /\ ~reusable /\ Authorized(r) /\ run[r].collected < Collections
              /\ Update(r, [run[r] EXCEPT !.pc = "collected", !.records[s] = None,
                                          !.collected = @ + 1, !.content = world.version[s]])
           \/ ~reusable /\ (~Authorized(r) \/ run[r].collected = Collections) /\ Drop(r)

\* A local source is probed again after its content was read; a collection from GitHub
\* carries the state it is of.
MutantUnmoved(r) == TRUE
Unmoved(r) ==
    IF run[r].source \in Remote
    THEN run[r].content = run[r].state
    ELSE world.version[run[r].source] = run[r].state

Record(r, expires) ==
    LET s == run[r].source
    IN  [state |-> run[r].state, content |-> run[r].content,
         authority |-> run[r].config.authority[s], identity |-> run[r].config.identity,
         observed |-> run[r].at, expires |-> expires]

\* The record ends with the grant of its source, or after its lifetime.  A collection
\* that fails is like a probe that does.
Collected(r) ==
    /\ Sole(r, "collected") /\ UNCHANGED disk /\ Calm
    /\ \/ /\ Authorized(r) /\ Unmoved(r)
          /\ \E expires \in {run[r].at + 1, run[r].at + Lifetime} :
                Update(r, [run[r] EXCEPT !.pc = "next", !.source = None, !.state = None,
                              !.content = None, !.records[run[r].source] = Record(r, expires)])
       \/ ~(Authorized(r) /\ Unmoved(r)) /\ Drop(r)

\* Probes take time: hits are judged again, and what expired is dropped.
Settle(r) ==
    LET stale == {s \in run[r].hits : ~Fresh(run[r].records[s])}
        expired == {s \in Kept(run[r].records) : run[r].records[s].expires <= world.now}
    IN  /\ Sole(r, "next") /\ UNCHANGED disk /\ Calm /\ run[r].left = {}
        /\ IF Authorized(r)
           THEN Update(r, [run[r] EXCEPT !.pc = "save", !.hits = @ \ stale,
                  !.records = [s \in Sources |->
                                 IF s \in stale \cup expired THEN None ELSE @[s]]])
           ELSE Fail(r)

-----------------------------------------------------------------------------
(* save *)

NextGeneration(r) == Max({-1} \cup run[r].names) + 1
Envelope(r) == [binding |-> run[r].config.identity, records |-> run[r].records]

Stage(r) ==
    /\ Sole(r, "save") /\ Calm
    /\ IF disk.barrier
       THEN UNCHANGED disk /\ Fail(r)
       ELSE /\ disk' = [disk EXCEPT !.staging = TRUE]
            /\ Update(r, [run[r] EXCEPT !.pc = "staged"])

\* beforeActivate asks for the authority once more.
BeforeActivate(r) ==
    /\ Sole(r, "staged") /\ UNCHANGED disk /\ Calm
    /\ IF Authorized(r) /\ ~disk.barrier
       THEN Update(r, [run[r] EXCEPT !.pc = "activate"])
       ELSE Fail(r)

\* The generation to fall back on, unless it holds a record whose source the new
\* one does not hold under the same authority.
MutantFallback(r) == {run[r].selected} \ {None}
Fallback(r) ==
    IF \E s \in Kept(run[r].previous) :
          \/ run[r].records[s] = None
          \/ run[r].records[s].authority # run[r].previous[s].authority
          \/ run[r].records[s].identity # run[r].previous[s].identity
    THEN {} ELSE {run[r].selected} \ {None}

\* A hard link that fails when its name exists.  What is to be removed after it depends
\* on nothing that happens later.
Activate(r) ==
    LET next == NextGeneration(r)
    IN  /\ Sole(r, "activate") /\ Calm /\ next <= MaxGeneration
        /\ disk' = [disk EXCEPT !.generations[next] = Envelope(r)]
        /\ Update(r, [run[r] EXCEPT !.pc = "verify", !.left = run[r].names \ Fallback(r),
                                    !.selected = None, !.previous = NoRecords])

\* The new generation is read back before anything is removed.
Verify(r) ==
    /\ Sole(r, "verify") /\ UNCHANGED disk /\ Calm
    /\ IF disk.generations[NextGeneration(r)] = Envelope(r)
       THEN Update(r, [run[r] EXCEPT !.pc = "unstage"])
       ELSE Fail(r)

Unstage(r) ==
    /\ Sole(r, "unstage") /\ Calm
    /\ disk' = [disk EXCEPT !.staging = FALSE]
    /\ Update(r, [run[r] EXCEPT !.pc = "prune", !.names = {}])

\* All older generations but the one to fall back on are removed.
MutantPrune(r) ==
    /\ Sole(r, "prune") /\ Calm /\ run[r].left # {}
    /\ LET g == Max(run[r].left) + 1
       IN  /\ disk' = [disk EXCEPT !.generations[g] = None]
           /\ Update(r, [run[r] EXCEPT !.left = @ \ {g - 1}])
Prune(r) ==
    /\ Sole(r, "prune") /\ Calm /\ run[r].left # {}
    /\ LET g == Max(run[r].left)
       IN  /\ disk' = [disk EXCEPT !.generations[g] = None]
           /\ Update(r, [run[r] EXCEPT !.left = @ \ {g}])

\* The last authorisation, and the last look at the hits.
Confirm(r) ==
    /\ Sole(r, "prune") /\ UNCHANGED disk /\ Calm /\ run[r].left = {}
    /\ IF Authorized(r) /\ \A s \in run[r].hits : Fresh(run[r].records[s])
       THEN End(r, "saved")
       ELSE Fail(r)

-----------------------------------------------------------------------------
(* delete *)

\* The barrier comes first; a deletion that finds it goes on where another stopped.
Delete(r) ==
    /\ Sole(r, "delete") /\ Calm
    /\ \/ /\ Authorized(r)
          /\ disk' = [disk EXCEPT !.barrier = TRUE]
          /\ Update(r, [run[r] EXCEPT !.pc = "clear"])
       \/ ~Authorized(r) /\ UNCHANGED disk /\ Fail(r)

Clear(r) ==
    /\ Sole(r, "clear") /\ Calm
    /\ \/ \E g \in Present :
             disk' = [disk EXCEPT !.generations[g] = None] /\ UNCHANGED run
       \/ /\ Present = {} /\ UNCHANGED disk
          /\ End(r, "deleted")

-----------------------------------------------------------------------------
(* The environment *)

Crash(r) ==
    /\ ~At(r, "idle") /\ Incident /\ Update(r, Idle) /\ UNCHANGED <<disk, world>>

\* The owner removes an abandoned lock when every writer has stopped.
Recover ==
    /\ disk.lock # None /\ \A r \in Writers : At(r, "idle")
    /\ disk' = [disk EXCEPT !.lock = None]
    /\ UNCHANGED <<run, world, spent>>

Damage(g) ==
    /\ g \in Present /\ disk.generations[g] # Bad /\ Incident
    /\ disk' = [disk EXCEPT !.generations[g] = Bad]
    /\ UNCHANGED <<run, world>>

\* The owner edits the configuration or a source; time passes.
Edited == spent.edits < MaxEdits /\ spent' = [spent EXCEPT !.edits = @ + 1]
Edit(config) ==
    /\ config # world.config /\ Edited
    /\ world' = [world EXCEPT !.config = config] /\ UNCHANGED <<disk, run>>
Change(s) ==
    /\ Edited
    /\ world' = [world EXCEPT !.version[s] = @ + 1] /\ UNCHANGED <<disk, run>>
Tick ==
    /\ world.now < MaxTime
    /\ world' = [world EXCEPT !.now = @ + 1] /\ UNCHANGED <<disk, run, spent>>

-----------------------------------------------------------------------------
Init ==
    /\ disk = [generations |-> [g \in Generations |-> None], staging |-> FALSE,
               barrier |-> FALSE, lock |-> None]
    /\ run = [r \in Writers |-> Idle]
    /\ world \in [config : Configurations, version : {[s \in Sources |-> 0]}, now : {0}]
    /\ spent = [runs |-> 0, incidents |-> 0, edits |-> 0]

Transaction(r) ==
    \/ Refuse(r) \/ TakeLock(r) \/ Scan(r) \/ Examine(r) \/ Open(r) \/ Break(r) \/ Release(r)
Select(r) == \/ Choose(r) \/ Probe(r) \/ Judge(r) \/ Collected(r) \/ Settle(r)
Save(r) ==
    \/ Stage(r) \/ BeforeActivate(r) \/ Activate(r) \/ Verify(r) \/ Unstage(r) \/ Prune(r)
    \/ Confirm(r)
Environment ==
    \/ Recover \/ Tick
    \/ \E g \in Generations : Damage(g)
    \/ \E s \in Sources : Change(s)
    \/ \E config \in Configurations : Edit(config)

Next ==
    \/ \E r \in Writers :
          \/ \E command \in Duties[r] : Begin(r, command)
          \/ Transaction(r) \/ Export(r) \/ Select(r) \/ Save(r) \/ Delete(r) \/ Clear(r)
          \/ Crash(r)
    \/ Environment

Spec == Init /\ [][Next]_catalogVars

-----------------------------------------------------------------------------
(* Properties *)

\* One transaction at a time, whatever crashed before and whoever finds the lock
\* taken (SECURITY_PRIVACY.md:297).
TransactionsExclusive ==
    \A r, q \in Writers :
        run[r].pc \notin {"idle", "lock"} /\ run[q].pc \notin {"idle", "lock"} => r = q

\* A record speaks of one version of its source: the state it is compared by is
\* the state of the content it was made from (source-catalog.ts:479).
RecordsAreOneVersion ==
    \A g \in Present : disk.generations[g] # Bad =>
        \A s \in Kept(disk.generations[g].records) :
            disk.generations[g].records[s].state = disk.generations[g].records[s].content

Answers(r, verdicts) ==
    run'[r].verdict \in verdicts /\ run[r].verdict \notin verdicts

\* When an invocation is acknowledged, no generation on disk, the older ones
\* included, holds a record that the configuration does not allow or that was
\* expired when the invocation began (SECURITY_PRIVACY.md:297).
WithdrawnIsGone ==
    [][\A r \in Writers : Answers(r, {"saved", "exported"}) =>
          \A g \in Present : disk.generations[g] # Bad =>
             \A s \in Kept(disk.generations[g].records) :
                /\ Allowed(world.config, s, disk.generations[g].records[s])
                /\ ~Expired(disk.generations[g].records[s], run[r].at)]_catalogVars

\* A source that an acknowledged selection dropped is in no generation that damage
\* could bring back, and at most one older generation is kept (ADR-0044).
DroppedNeverReturns ==
    [][\A r \in Writers : Answers(r, {"saved"}) =>
          /\ Cardinality(Present) <= 2
          /\ \A g \in Present : disk.generations[g] # Bad =>
                Kept(disk.generations[g].records) \subseteq Kept(run[r].records)]_catalogVars

\* What an acknowledged selection reports as a hit was the state of the source at
\* some moment of the run and is not older than the limit (source-catalog.ts:545).
HitsAreFresh ==
    [][\A r \in Writers : Answers(r, {"saved"}) =>
          \A s \in run[r].hits :
             /\ run[r].first[s] <= run[r].records[s].state
             /\ run[r].records[s].state <= world.version[s]
             /\ world.now - run[r].records[s].observed <= CacheAge]_catalogVars

\* Apart from deletion a generation leaves the disk because it is damaged or the run
\* may not use it, or with a newer one on disk: no order of activation, pruning and
\* errors leaves the catalog without what it had (ADR-0044, recovery).
NothingLost ==
    [][\A r \in Writers, g \in Present :
          run[r] # run'[r] /\ disk'.generations[g] = None /\ disk.generations[g] # Bad =>
             \/ Withdrawn(r, disk.generations[g])
             \/ \E newer \in Present : newer > g /\ disk'.generations[newer] # None]_catalogVars

\* An acknowledged deletion left nothing, also when it resumed one that was
\* interrupted (SOURCE_CATALOG.md:67), and the catalog stays empty: behind the barrier,
\* which nothing removes, no step of any process makes a generation or a staging file.
NothingComesBack ==
    disk.barrier =>
        /\ disk'.barrier
        /\ \A g \in Generations : disk.generations[g] = None => disk'.generations[g] = None
        /\ disk'.staging => disk.staging
DeletionIsComplete ==
    /\ [](\A r \in Writers : run[r].verdict = "deleted" =>
             Present = {} /\ ~disk.staging /\ disk.barrier)
    /\ [][NothingComesBack]_catalogVars

\* An acknowledged invocation tells the truth: what was withdrawn or dropped is gone, and
\* hits are fresh.
AcknowledgedIsTrue == WithdrawnIsGone /\ DroppedNeverReturns /\ HitsAreFresh
=============================================================================
