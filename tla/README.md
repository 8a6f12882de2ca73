# Verification of fork-me-up in TLA+

fork-me-up keeps a local profile of a developer, derived from repositories the
developer selected, and hands minimized, task-scoped context to coding assistants.
This directory models the parts of it whose correctness depends on the order of
events, checks the models with TLC and proves the most important facts with TLAPS.

## Contents

1. [The system](#the-system)
2. [Modules](#modules)
3. [How the models correspond to the code](#how-the-models-correspond-to-the-code)
4. [Runs](#runs)
5. [Bounds, fairness and the environment](#bounds-fairness-and-the-environment)
6. [Proofs](#proofs)
7. [Findings](#findings)
8. [What is not modelled](#what-is-not-modelled)
9. [Plan](#plan)

## The system

| Component (source) | State it keeps | Operations | Hard behaviour | What makes it correct |
|---|---|---|---|---|
| Profile store (`local-profile-store.ts`) | one directory: generation-addressed documents, staging files, mutation gate, deletion barrier | load, migrate, write, delete | several processes, every file operation an interleaving point; faults, crashes, power failure | commits are linearizable compare-and-sets; nothing is lost or resurrected; deletion is complete and final |
| Codex adapter (`codex-hook-adapter.ts`, `file-session-state.ts`) | one cache directory: guidance per session, staging files, lock, deletion barrier | hooks (start, resume, task), delete all, inspect | one process per hook, two locked operations per hook with a provider call between them | guidance of a superseded task is never restored; deletion is final; inspection reports one state |
| Incremental refresh (`incremental-refresh.ts`, `repository-fingerprint.ts`) | per session: cached collections, previous derivation, clocks, busy and disposed flags; a registry of sessions | create, refresh, dispose | repositories change during a collection; disposal during a refresh; budgets | what is reported fresh is one version of each repository; a disposed session holds and publishes nothing |
| Community runtime and stored provider (`local-community-runtime.ts`, `local-stored-profile-provider.ts`) | completeness, snapshots, busy flag; last clock value | run (refresh, import, export, delete, owner operations), provider invoke | provider calls suspended in a load while the runtime changes state | a provider never answers from a profile and sources that do not belong together, nor after a deletion |
| Owner workflow (`owner-profile-workflow.ts`, `owner-interpretation.ts`, `owner-profile-diagnostics.ts`) | the profile in the store | inspect, declare, correct, dispute, reject, save derivation, view, admit, doctor | read-check-write over the store's compare-and-set; chains of corrections against refreshes | owner corrections survive every refresh; history is archived once |
| Owner portability (`owner-profile-portability.ts`) | none of its own | delete, import, export | one step of several failing across sessions, store and adapter cache | `deleted` only when everything is gone; imports never replace; exports never overwrite |
| Source catalog (`source-catalog.ts`, `source-catalog-store.ts`) | a directory of catalog generations, lock, barrier | transactions: save, delete; selection and collection | crash inside a transaction; expiry; withdrawn records | no expired or withdrawn record comes back |
| Selected GitHub access (`selected-github-*.ts`, `public-history-*.ts`) | none | read selected sources, collect public history | authority rechecked around every request | nothing is returned for a revoked selection |
| Configuration and authority (`authorized-repository-config.ts`, `public-history-config.ts`, `local-profile-store-config.ts`, `developer-identity-config.ts`, `evidence-source-risk-config.ts`) | objects issued by resolvers | resolve, narrow, compose a runtime | directories are resolved one await at a time and relinked meanwhile; issued objects outlive a configuration | what is entered is what was configured; consent serves what it was given for |
| Local collection (`git-metadata-collector.ts`, `bounded-git-command.ts`, `filesystem-metadata-collector.ts`) | none | collect under bounds | child process, timer and output bound race; sources change during a walk | exactly one settlement; snapshots that changed are refused |
| Evidence pipeline (`git-authorship-assessment.ts`, `evidence-*.ts`, `demand-profile-producer.ts`) | none (pure) | assess, classify, derive, produce | invalidation of an earlier derivation | conservative levels; invalidation names exactly what changed |
| Core (`demand-profile-intersection.ts`, `claim-response-policy.ts`, `dcp-compiler.ts`) | none (pure) | intersect, decide, compile | packing under a budget | required items first, never over budget |
| MCP server (`mcp-stdio-server.ts`) | handshake flags, line buffer, sequence number | one line at a time | partial, oversized and malformed lines | answers in order, none before the handshake |
| Protocol, fixture provider, consumers, scripts, schemas | none | validation, test data, command lines | — | — |

How they interact: the owner's command line and the MCP server each run a
*runtime*; a runtime refreshes sources through a *session*, saves the derivation
through the *owner workflow* into the *store*, and answers *provider* requests by
loading the store and running the *core*. Several processes share the store only
through its directory. The owner's deletion disposes the sessions of its process,
deletes the store and then clears the adapter's cache through a callback. The
adapter's hooks share their cache directory with each other and with that callback.

## Modules

| Module | What it is |
|---|---|
| `ProfileStore` | the file protocol of the store: state, actions, properties |
| `ProfileRegister` | abstract specification: a compare-and-set register that deletion closes |
| `ProfileStoreRegister` | the refinement of `ProfileRegister` by `ProfileStore` |
| `ProfileStoreDurable` | `ProfileStore` on a disk that loses power |
| `CodexCache` | hooks, cache operations, deletion and inspection of the Codex adapter |
| `IncrementalRefresh` | one refresh session over sources that change while they are read |
| `OwnerProfile` | what a profile is and what the owner workflow makes of it: operators only |
| `CommunityRuntime` | runtimes of several processes over one store, their provider calls, the adapter's cache, and the agent that is shown a view |
| `SourceCatalog` | runs of the source catalog inside their transactions |
| `FilesystemWalk`, `PublicHistory`, `BoundedChild`, `SelectedGitHub`, `RepositoryAuthority` | the collectors of metadata, the commands they run, and the authority they work under |
| `Collection` | one of these five at work |
| `SourceAssessment`, `ClaimDerivation` | from commits and files to claims, and what a refresh tells of the claims before it |
| `TaskContext` | from a task and a profile to a packet |
| `McpServer` | the server's lines, handshake and answers |
| `Context` | hooks, evidence, task or server at work |
| `MC...` | the instances of the above for TLC |
| `Sequencing` | the filter of an array, as a recursive function |
| `OrderLemmas` | facts about the greatest and least element of a finite set of integers, about sequences, their elements and filters, and about sequences in the order of a rank |
| `ProfileStoreProofs` | the store: types, mutual exclusion, deletion, what commits build on and remove, what loads report, the refinement of the register, and reports that survive power failures |
| `CodexCacheProofs` | the adapter's cache: exclusion, deletion, inspection, delivery |
| `IncrementalRefreshProofs` | what a refresh caches and publishes, disposal, and the order of derivations |
| `CommunityRuntimeProofs` | history, the withheld provider, deletion, admission, sound profiles |
| `SourceCatalogProofs` | exclusion, records of one version, complete deletion, acknowledged answers, nothing lost |
| `CollectionProofs` | files, local and remote history, selected repositories, the owner's authority |
| `ContextProofs` | evidence and claims, what a refresh tells of them, packets, the server's handshake and answers |

Operators named `Mutant...` are faulty variants of the operator that follows them,
such as a dropped guard; each shows that some property notices the fault. No
specification uses them.

## How the models correspond to the code

### ProfileStore

`dir` is the directory: `finals` maps a generation to the kind of its document,
`temps` are the staging files (generation and nonce), `marks` the gate and the
barrier. `call[p]` is the call a process executes: its program counter, the local
variables of the functions it is in (the scan, the candidate, the debt that becomes
`maintenanceRequired`) and, when idle, its last outcome.

Every `await` of the code that reaches the file system is one step, so `Stat` and
`Read` of an entry are two steps (a document may be pruned between the metadata and
the open), while the pure decisions between two awaits belong to the step before or
after them. The calls follow the code:

- **load**: `Authorize` (`reauthorize`) → `List` → (`Stat` → `Read`) per entry →
  `Select`, which reauthorizes again and then decides: absent, migration required,
  active or recovered. A load takes no gate.
- **migrate** and **write**: `Authorize` → `Acquire` the gate by exclusive creation →
  `Authorize` again → scan → `Select` or `CheckWrite` → `Stage` → `VerifyStaged` →
  `Link` (the activation) → `Sync` → `VerifyFinal` → `Unstage` → `Cleanup` of what the
  scan knew, except the document built upon → `SyncCleanup` → `Release`.
- **delete**: `Acquire` → `Inventory` → `RaiseBarrier` → `VerifyBarrier` → `SyncBarrier`
  → `Remove` → `SyncRemoved` → `Relist` → `Release`.

`OperationFails` lets any of these operations throw, `CreationFails` lets an exclusive
creation throw after it created its file, and the fault branches of `Read`, `Release`,
`RemoveTemp`, `RemoveFinal` and `SyncCleanup` are the errors the code swallows there.
What a failure leads to (`FailureAt`, `Fail`) is the category and the `finally` blocks
of the code. `Crash` ends a process anywhere; `OwnerClearsGate` is the recovery of
`docs/OWNER_WORKFLOW.md` (every writer has stopped); `Damage` makes a document corrupt.

Data the scan does not tell apart is dropped: profile contents, validation times
(their checks are nondeterministic verdicts in `WriteVerdicts` and `SelectLegacy`),
and the identity and permission checks of the directory (a failing
`reauthorize`). Within a scan, entries are visited in name order, which for fewer than
eleven generations is numeric order.

### ProfileStoreDurable

Adds the directory as of its last sync. A power failure keeps, for every name that
changed since, either its old or its new state, independently of the others; this is
the weakest guarantee of the file systems the code runs on. `acknowledged` and
`deleted` remember what callers were told.

### CodexCache

`root` is the cache directory, `job[p]` the hook, deletion or inspection a process
runs. Guidance is the number of the task it answers and its expiry. A hook is a chain
of cache operations: `UserPromptSubmit` clears, invokes the provider and saves;
`SessionResume` loads and, if there is nothing valid, clears; `SessionStart` clears.
Each operation is `Lock` → the body → `Release`; what the hook does next is
`Continued`, what it does when the operation throws is `Thrown`. The provider's answer
is a choice between no usable answer and a packet with a fixed lifetime. Deletion is
`RaiseBarrier` → `List` → `Sweep` (in any order) → `Verify` under the lock. The inspection takes no
lock: the stamps it compares are modelled by the flag `changed`, which every change of
the directory sets in every running inspection. `now` is the clock, `tasks` counts the
tasks of a session and `told` is the newest task whose guidance was emitted (both only
observed by properties and bounds).

Root verification, size limits and malformed entries are abstracted; they lead to the
same failures as `OperationFails`.

### IncrementalRefresh

`source` is the world: every repository has two parts, its files and its Git history,
each with a version that only grows (the stamps of a fingerprint contain the change
time, so restoring an earlier text is a new version). `session` is the `SessionState`,
`run` the refresh in progress with its local variables, and `moments` remembers what
every repository has been since the refresh began (only the properties read it).

A refresh visits the repositories in order: `ProbeHistory` and `ProbeFiles` are the two
parts of a fingerprint's walk (`.git` sorts before the names of files), `Decide` is the
synchronous code after the first walk (reuse, drop, or collect), `CollectFiles` and
`CollectHistory` are the two collections, and `Accept` is the code after the second
walk. The code between the last await and the return belongs to the step that settles
the last repository (`Settle`, `Publish`). The session is tested for disposal wherever
the code asks the clock: `Live` guards every step after an await, and `Interrupted` is
what happens otherwise, including the collector of the last repository whose failure
ends the refresh before the clock is asked again.

Time left, probe entries and collections are budgets whose exhaustion may be discovered
at any step (`SourceFails`, the second disjunct of `Decide`, withholding in `Settle`).
Each part of a repository is read in one instant; the parts are what changes
independently. A walk that notices a change within itself fails, which is a failing
source. A derivation may fail for any reason; that it fails when it would precede the
one before it is `validatePrevious` of `evidence-claim-derivation.ts`. Sessions do not
share state, so one is modelled: after its disposal `Create` starts the next.

### OwnerProfile and CommunityRuntime

A *scope* is a capability of a project. Identifiers are hashes in the code; here they
are the tuple of what is hashed, so equal contents have equal identifiers.
`Derived`, `Corrected` and `Declared` are the three ways in which the workflow makes
the next profile, `Projected` is what an export keeps and an import restores,
`GraphValid` is the store's own validation of a profile, and `Selected` is what a view
shows an agent.

`store` is the register of `ProfileRegister`: a load reads it at one moment, a write is
a compare-and-set, deletion closes it. That the file protocol implements this register
is what `store_faults` checks. A runtime's request is a chain of awaits: `Refresh` →
`Collect` → `Load` → `Commit`, `Ask` → `Load` → `Commit` / `View` / `Admit`, `Delete` →
`DeleteStore` → `ClearCache`. A provider call is `Invoke` → `CallLoads` → `Answer` and
runs beside the requests of its process. `Collect` returns what the sources show, as
`refresh` establishes for the session; `awaiting` (only observed) holds the processes
whose accepted refresh or deletion is not verified yet. A caller names the generation it
last saw (`SeenGenerations`, at most `Lags` behind the store) and the times of its
observation and its request (`Delays` apart). `View` gives the agent a view of what was
loaded; an admission captures the view its agent holds when it asks, and `SameView` makes
it again from a fresh load. The identifier of a view is a hash of the generation and of
what is shown; the field `stored` of a view is not part of it, it only lets
`AdmittedAsShown` compare what the store held then with what an admission works on.
What was derived from a version of the sources among `Insufficient` is not attributable to
the owner and may not be used in a proposal.

Differences from the words of the documents that no property here depends on: an
import maps project references, so an imported dispute no longer suppresses automated
claims of the local project (compare `docs/OWNER_WORKFLOW.md:228`); a catalog that fails
behind a successful save is reported as not saved.

### SourceCatalog

`disk` is the catalog's directory, `run[r]` the command of a process with the variables
of `runSourceCatalog` and of `withSourceCatalog`, `world` the configuration, the version
of every source and the clock. A run is `Begin` → `TakeLock` → `Scan` → `Examine` per
generation → `Open` → (`Choose` → (`Probe` → `Judge` → `Collected`) per source →
`Settle` → `Stage` → `BeforeActivate` → `Activate` (the link) → `Verify` (the new
generation is read back) → `Unstage` → `Prune` → `Confirm`) or `Export` or `Delete` →
`Clear`, then `Release`. `Stage` and `BeforeActivate` look at the barrier, `Activate` does
not, as in the code. For a `Remote` source the second observation is the state the
collection reports of the revision it read, for a local one it is another probe
(`Unmoved`). Every authorization in the code is `Authorized`
at the step that makes it. `Refuse` is what ends a run before its transaction; it does
not count against `MaxRuns`. Ranking is a free choice; oversized entries, links and the
sync of the directory are left out. The owner removes an abandoned lock when every
writer has stopped (`docs/SOURCE_CATALOG.md:67`). The clock does not go back. `Activate`
stops at `MaxGeneration`, the bound of the model.

### Collection

- `FilesystemWalk`: a path is a node of a fixed tree; files have versions, a node may be
  replaced by a link to outside. A step is one operation of the port with its checks;
  reading a file is `StatFile` → `OpenFile` → `ReadFile` → `CloseFile`, entering a
  directory `EnterDirectory` (inspection) → `EnterNested` (is it a repository of its own?)
  → `ListDirectory`, and each of them may meet another directory in its place. A link that is put
  back is not modelled. What the parsers of documents refuse is `RefuseContent`. The
  configuration gives a rooted tree: from every path `Parent` leads to the root
  (`TreeAssumption`).
- `PublicHistory`: HEAD, loose reference, packed references, shallow boundary, object
  snapshot, `rev-list` and the second snapshot are steps; `pack-refs`, `switch`, commits,
  a deepening fetch and `gc` happen between them. A walk is what it has read (`commits`),
  what it has still to read (`pending`) and what it ever met (`scheduled`); the parents of
  a commit are distinct, as GitHub's answer is checked to be. The remote walk asks for one commit at
  a time and is refused or truncated by its limits. Left out: a detached HEAD, chains of
  symbolic references, a repository that *becomes* shallow meanwhile; the object store
  keeps what its shallow file does not cut; a commit's pages are one request; byte
  budgets and parsers are answers that may be refused.
- `BoundedChild`: one promise settled by output, exit, error, timer or close, for each of
  the four programs that are run this way. A kill always ends the program. The removal of
  the quarantine directory may fail, which the code ignores (`bounded-git-command.ts:72`).
- `SelectedGitHub`: the endpoints of one observation, each a check of the authority, a
  request and a check of the answer, while names are given to other repositories and
  back, visibility changes, and the owner revokes and restores the authority. A read is of
  one repository; the code repeats it for each one selected.
- `RepositoryAuthority`: a path is a sequence of names, `Canonical` is `realpath`.
  `Configure` → `ResolveRoot` → `ResolveRepository` → `IssueAuthority` → `ResolveStore` →
  `Compose` follow the awaits of `createLocalCommunityRuntime`; directories become links
  and directories again between them. Object identity is a number given at issue.
  `Visit` is a collection by a session, or by a caller of the exported
  `collectPublicHistory` who may pass any authority and any policy that were issued.
  Shapes, sizes and limits of the texts are configurations that are not `WellFormed` or
  not accepted; the window of a consent is in `PublicHistory`.

### Evidence, task and server

- `SourceAssessment` and `ClaimDerivation`: a world has files (places with contents),
  commits with author and coauthors, and the owner's annotations. `Derive` computes
  evidence, claims and the list of changes against the derivation before it, all from the
  world as it is. A committer is the author; merges and the shallow flag are not told
  apart from other truncation; all files are of one language, so a project has at most
  one claim. Limitations are sorted by one fixed order of their texts, in which the marker
  of omitted limitations is the last; a list that is cut keeps the first ones and gets the
  marker, and a claim inherits the markers of its evidence. Of the confidence levels `low`
  and `medium` occur.
- `TaskContext`: a demand is a function from capabilities to relevance; the sizes of
  texts are replaced by *which attempt is the first that fits*, any number of attempts
  (each shorter than the one before) may exceed the budget. `Limit` is 32 in the code.
  Redaction, projection and the basis of a demand are left out, of the three kinds of
  operations two are told apart, and the stored provider never passes alternatives.
- `McpServer`: a line is its message and a length in blocks; a message is what the server
  distinguishes of it. The output bound cannot be reached: a packet has at most 32768
  bytes and an answer holds it at most three times.

## Runs

| Run | Question | Result |
|---|---|---|
| `store_concurrency` | two processes and a document turning corrupt: exclusion (`GateExclusive`), commits that build on the newest document under a name that is free (`BuildsOnNewest`), *active* loads that see what existed when they were called (`ActiveLoadIsFresh`), gates released and calls returning (`CallsComplete`), up to the last generation | holds |
| `store_faults` | a failing operation and a crash, from every kind of initial store: final and complete deletion (`DeletionIsFinal`), the rollback document (`PrunesBehindRollback`), no debris (`CleanCommitLeavesNoDebris`), and the refinement of the register (`RegisterSpec`) | holds |
| `store_durable` | acknowledged commits and deletions survive power failures (`ReportsSurvive`) | holds |
| `cache_faults` | the Codex cache with a fault and a crash: exclusion (`CacheIsOrderly`), final and complete deletion (`GuidanceStaysDeleted`), inspections of one state (`InspectionIsSnapshot`), no guidance older than the last one delivered (`DeliveredSupersedes`) | holds |
| `refresh` | what a refresh caches is one version and a disposed session is empty (`CacheIsSound`), what it publishes is current and young enough (`PublishedIsCurrent`), no derivation blocks later ones (`PreviousNeverBlocks`) | holds |
| `runtime` | an owner's process and another over one store: valid profiles, corrections in force, no rollback of sources (`ProfileStaysSound`), nothing the owner said is lost (`HistoryKept`), deletion (`DeletedMeansClosed`), the provider (`ProviderWithheld`), that what is admitted rests on the very profile the agent was shown (`AdmittedAsShown`) | holds |
| `catalog` | exclusion (`TransactionsExclusive`), records of one version (`RecordsAreOneVersion`), deletion that is complete when it is acknowledged and permanent, whatever else is under way (`DeletionIsComplete`), what an acknowledged run claims (`AcknowledgedIsTrue`: withdrawn and dropped records gone, hits fresh), no loss on the way (`NothingLost`) | holds |
| `collection` | files (`WalkIsSound`), commands (`CallSettles`), local and remote history (`LocalHistoryIsTrue`, `RemoteHistoryIsTrue`), selected repositories (`SelectedReadIsTrue`), configuration (`AuthorityHolds`) | holds |
| `context` | evidence (`EvidenceIsHonest`, `DoubtNeverStrengthens`, `SilenceMeansUnchanged`), packets (`CautionIsKept`, `GuidanceCoversAllClaims`), the server (`LinesAreAnswered`, `HandshakeFirst`), overlapping hooks (`HooksEnd`) | holds |
| `store_crowded` | does a rejected write leave the store loadable? (`RejectedWriteLeavesLoadable`) | violated, see Findings |
| `store_unreadable` | is the rollback document kept when a read fails? (`PrunesBehindRollback`) | violated, see Findings |
| `under_explained` | does one uncertain capability prevent concise guidance? (`UncertainNeverConcise`) | violated, see Findings |

Some properties are conjunctions of parts that are stated and explained one by one above
them in their modules, and a run names the conjunction.

## Bounds, fairness and the environment

- **Store.** Two processes are enough for every pairwise race; a third would only add
  contenders for the same gate. `MaxGeneration` is 2 or 3: with generation 0 that is
  enough for a prune (new, rollback, pruned) and for a load to see two commits pass by;
  the last generation stands for `Number.MAX_SAFE_INTEGER`, so its overflow handling is
  reached. `MaxCandidates` is 3 or 4 instead of 16, so that the limit is reached too.
  `store_faults` starts from every kind of store, one of them at the last generation,
  `store_durable` from a legacy document (the one thing that only a deletion may lose),
  `store_concurrency` from a current one. A request may skip a generation, so that a
  corrupt document can occupy it. `store_crowded` has three nonces and three faults.
- **Cache.** Two sessions that contend for one lock, two tasks per session, a
  clock of two values and a lifetime of one tick (guidance expires within a run);
  `MaxEntries` is 4, so the scan limit is reached. `Overlap` says whether two hooks of
  one session may run at once. It is false in `cache_faults`, because
  `DeliveredSupersedes` depends on the host delivering the events of one session in
  order, and true in `context`, where only `HooksEnd` speaks of the hooks.
- **Refresh.** Two repositories, so that one is settled while the other changes and a
  derivation combines collections of different ages; every part changes once, which is
  enough for a mixture (old files with new history and the reverse). Three observation
  times and a cache age of one: entries are reused, expire and are renewed. The cache
  holds both derivation and small collections but not two large ones.
- **Runtime.** Two processes with different duties; four requests, so that a correction
  stands between two refreshes of which one loaded before it, or an import, a correction
  and a deletion meet a provider call; one fault or crash; one capability, two source
  versions and the disappearance, a clock of two values. Callers are up to date when they
  ask (`Lags` and `Delays` are 0, larger ones exceed the time of a run); what they named is
  outdated all the same when the other process saves while they are awaited. The theorems
  hold for all values.
- **Catalog.** One process selects, refreshes and exports, the other deletes: whoever
  runs second meets only the lock and what was left on disk, so the kind of the second
  run does not matter. Three runs, three generations, two sources, one of them remote, one
  incident and one edit; a batch of two with one collection; records live one or two ticks.
- **Collection.** A directory, a repository in it and an ignored directory, each with a
  file; two edits, so that a replacement and a write meet one read. A history with a
  merge, five commits, a limit of four and a boundary of two. Names of two identities
  with two changes. Two configurations and three links.
- **Context.** Three files with few contents and two edits after a derivation, of which
  the first may already follow an earlier one; two references and five limitations per
  claim, so both limits cut; a profile of at most three of nine claims, which include each
  state, a dispute, its target and another project; three lines of every kind.
- **Symmetry** is used for processes (and sessions) in runs without liveness.
- **Deadlock** is checked where every process can always make another call; the runs
  whose behaviours are bounded by a number of requests or edits, or end with an answer
  (`runtime`, `catalog`, `collection`, `context`), say `CHECK_DEADLOCK FALSE`.
- **Fairness.** `FairSpec` of the store and `CacheFairness` are weak fairness of each
  process's `Step`: a running Node.js process executes its next file operation.
  `ChildFairness` says that the event loop delivers the data, the timer and the close of
  a child that have come, and nothing of the program: it may never write or end.
  `ServerFairness` says that the server goes on, its provider answers and its client
  reads what is written or is gone; the client owes no line. Nothing is assumed about
  requests, crashes, faults, recoveries or the clock. Where liveness is checked there are
  no crashes: after a crash a gate, a lock or an unanswered line stays until the owner
  acts, which the code intends.

## Proofs

The theorems about the store hold for every number of processes, generations, nonces,
incidents and power failures; those about the refresh for every number of repositories and
changes and every limit; those about runtimes, the adapter's cache and the catalog for
every number of processes, capabilities, sessions, tasks, sources, configurations and
requests; those about the collectors for every tree, history, set of names and
configuration, every limit and every number of edits meanwhile; those about evidence, tasks
and the server for every set of places, contents and claims, every history, demand, budget
and limit, and every sequence of lines. What they assume of the
constants is what the modules' `ASSUME`s say, and the hypotheses named below.

Most proofs have the same plan: one lemma per action says what the action does to the
state (its *effect*), the preservation of an invariant is shown from the effects, and the
invariant of the run is a consequence. The invariants themselves were checked by TLC
before they were proved.

### The store

`ProfileStoreProofs!TypeCorrect` (`Spec => []TypeOK`) rests on `ConstantsAssumption`
only. Most steps need that the cursor of a scan is a generation, which `OrderLemmas`
derives from the finiteness of `0..MaxGeneration`, and that a process at a given label
has the values the label implies; `GoodStates` states the latter (`GoodCorrect`).

`GateCorrect` (`Spec => []GateExclusive`). `GateExclusive` is inductive once the labels
are typed: a process obtains the gate only when it does not exist, keeps it until
`Release`, and the owner removes it only when no process is running.

`DeletionFinal` (`Spec => DeletionIsFinal`, from `BarrierCorrect` and `DeletionCorrect`).
Neither half follows from itself: a write that was authorized before the barrier could
still link after it. The inductive invariant `BarrierInv` adds `GateExclusive` and
`BarrierHolds`: while the barrier stands, no process is between its scan and its link
(raising the barrier requires the gate, and so does everything between), and a deletion
that has checked the directory to be empty holds the gate until it reports.

`NoLostUpdate` (`BuildsOnNewest`), `LoadsAreFresh` (`ActiveLoadIsFresh`), `CleanCommits`
(`CleanCommitLeavesNoDebris`) and `RollbackKept` (`PrunesBehindRollback`) come from
`CommitInv` on top of that. It says what a scan is worth later: between its listing and
its link a mutation knows every entry of the directory (nobody else can add one without
the gate), its verdicts are still right, and its candidate follows the newest document;
after the link the candidate is the newest, and unless there is a maintenance debt
everything that is not known to the scan is the candidate itself. A load takes no gate;
what it relies on is that a document disappears only when a newer one stays (`Grows`), so
the newest one of the time of the call, or one that replaced it, is always found
(`LoadGood`). Two hypotheses are needed where they are named: `~ReadFaults`, because a
read error makes a sound document look invalid, and `Undamaged`, no document turns
corrupt between scan and pruning. `store_unreadable` shows that the first is necessary
for `RollbackKept`.

`StoreIsRegister` (`RegisterSpec`, under both hypotheses) proves the refinement: initial
states map to initial states, and every step to a step of `ProfileRegister` or to none.
What a client of the register is doing is read off the label, the nonce and the result of
the process; `NonceInv` makes this mapping well defined (a mutation has a nonce from its
staging file on, and failures before and behind the link have different results). The
steps are sorted into those that go on without effect (`Advances`), the link
(`Activates`) and the answers (`Ends`). The value of the register changes at the link and
at the barrier only (`ValueKept`): neither pruning nor staging moves the newest intact
document.

`ProfileStoreProofs!ReportsAreDurable` (`ReportsSurvive`, under `Undamaged`)
extends `StoreInv` by `DurableInv`: there is a document at least as new as every
acknowledged one that is intact in the directory and on the disk, or the barrier is on
the disk; a candidate is on the disk before anything it replaces is removed; and a
deletion that reports has an empty directory on the disk. A power failure takes each name
from either (`PowerEffect`), so what is the same in both survives.

### The adapter's cache

`CodexCacheProofs!CacheOrderly` (`CacheIsOrderly`) is the exclusion of the lock together
with what each job is made of (`JobOK`). `InspectionReportsOneState`: an inspection takes
no lock; its invariant `Snap` says that *as long as no stamp has moved* what it has noted
is still so, and every step that changes the directory moves the stamps of the others.
`DeletionIsFinal` (`GuidanceStaysDeleted`): behind the barrier no save is between its
staging file and its entry, and what was verified to be empty still is (`BarrierInv`).
`DeliverySupersedes` assumes `~Overlap` (the host delivers the events of one session in
order): then the one hook of a session, the cache and what was told agree on how new they
are (`DeliveryInv`).

### The refresh

`IncrementalRefreshProofs` proves `RefreshInvHolds` and from it `CacheCorrect`
(`CacheIsSound`), `CurrentCorrect` (`PublishedIsCurrent`) and `NeverBlocksCorrect`. The
argument is the order of the readings. A first walk reads the history before the files,
so the moment it ends at had both of its readings if the history has not changed since
(`FirstWalk`); every later reading lies between the first walk and the present state
(`Bracketed`). Versions only grow, hence when the second walk finds what the first one
found, the collection between them read the same, and the repository was in that state
at a moment inside the bracket (`BracketedIsOneVersion`). For an entry that is reused,
one walk suffices, because the entry is already one version not newer than the
repository (`HitIsCurrent`); this is why `Sound` also says that entries do not lie in the
future. Entries that were reported fresh are young until the refresh publishes.

### Runtimes

`CommunityRuntimeProofs` proves `HistoryIsKept`, `ProviderIsWithheld`, `DeletionCloses`
and `AdmissionWasShown` from one invariant. A candidate that was made from a load keeps
all the owner said *as long as the store's generation is the one it was made from*
(`CandidateGood`), and the compare-and-set writes it in no other case; a process that is
awaited is not complete, so its provider is not available (`Withheld`); a deletion that
clears the cache, or has reported, has barred and emptied the store. For admissions it
adds that a view, the agent's or a captured one, of the present generation shows the
stored profile, and that what was loaded from the present generation is that profile:
the generation that `SameView` compares then stands for the whole profile, which it would
not if a save could keep its number or a deletion could start over. Records are only
required to have their fields, so these proofs hold for profiles of any content.

`ProfileIsSound` (`ProfileStaysSound`) needs to know what profiles are. That a graph is
valid and corrections are in force is not kept by itself: whether a derivation may be
added depends on what every earlier correction replaced. `Coherent` is what is kept:
identifiers are unique and references resolve; every dispute replaces an observed claim of
its scope by a correction, and every correction stands in some dispute; where a scope is
disputed, all its observed claims are history; and identifiers tell the scope and the
standing of what they identify. `CoherentIsSound` derives validity from it, and one lemma
per owner operation (`Derived`, `Corrected`, `Declared`, `Projected`) keeps it. `Promising`
carries this through the awaits of a request as above: what was loaded from the generation
it names leads to a coherent candidate whose observations are not older than the store's
and not newer than the sources. The theorem assumes that imported artifacts are coherent
(`SoundArtifacts`); `ExportsAreSound` says that whatever such a store exports is, so the
hypothesis passes from store to store.

### The catalog

`SourceCatalogProofs` proves `LockExcludes`, `RecordsAreWhole` and `DeletionCompletes`.
The invariant says that a process inside of its transaction owns the lock; that all
records on disk and in memory are whole; that what a probe saw is not newer than what
was collected after it, and that not newer than the source, so a second probe that finds
the first one's state closes the bracket; and that a deletion works without staging and
answers while the directory is cleared and the lock its own. The link itself does not look
at the barrier: that nothing is made behind it (`NothingComesBack`, a part of
`DeletionIsComplete`) rests on the lock, which keeps the barrier down from the last look
of a run to its link.

`AcknowledgedTrue` (`AcknowledgedIsTrue`) and `NothingIsLost` (`NothingLost`) need a second
invariant, `Informed`. Until a run activates its generation it knows all generations there
are, and holds the records of the one it selected (`Knowing`); afterwards there are only
the new one, the one to fall back on and those still to be pruned, and what is not pruned
holds nothing the new one lacks (`Pruned`). What was examined, and what the run holds, is
lawful under the configuration the run began with (`Clean`, `Holding`); a hit is a state of
its source between the beginning of the run and the present (`Hit`). The lock makes the
facts about one run stable under the others.

### The collectors

One collector is at work in a behaviour of `Collection`, and `StepsOfCollectors` reduces a
step to one of that collector or to a stutter.

- `AuthorityIsKept` (`AuthorityHolds`). `AuthorityInv`: the store of a session is apart
  from *every* repository of its authority, a collection has entered nothing before it has
  found its repository again, and the remote it asks is the very object its policy was
  made with.
- `SelectedReadsAreTrue` (`SelectedReadIsTrue`). `SelectedInv` is about the program of
  requests: objects are asked for after the first metadata and before the last, hence all
  answers that enter an observation were compared with the identity the first one fixed;
  and a request that left after the authority was revoked is the last one of its read.
- `LocalHistoriesAreTrue` and `RemoteHistoriesAreTrue` (`LocalHistoryIsTrue`,
  `RemoteHistoryIsTrue`). `HistoryInv`: the present tips of all branches HEAD named are
  known through every edit of the repository, and a loose reference that was read to be
  absent left the packed one to be the tip, also when references are packed in between.
  `WalkGood` is the invariant of a walk: each commit it met is read or pending, once, and
  it met the parents of what it read and nothing else. The reasons for asking GitHub
  belong to the finished local history, so they stay.
- `WalksAreSound` (`WalkIsSound`). `WalkInv`: a file only goes on in versions while it is
  read, so an unchanged version at close means that one version was read; and in a tree
  that stands still each expected file is collected or below what the walk has still to
  visit (`Missing`).

Three of the operators used here are recursive functions (`Sequencing!Among`, `Walked`,
`Above`).
What they compute is proved without an induction principle: the existence of the function
by a witness, facts about its values by a least or, in a tree, an unreachable
counterexample (`PathInduction`, from `TreeAssumption`).

### Evidence, task and server

`ContextProofs` has one invariant for each of the three, and a step of `Context` is a step
of one of them (`StepsOfParts`).

- The server: `ServerInv`. A line that is not dropped is held from its first byte to the
  last one read (`StreamGood`), so what is processed at its end is the line that was sent.
  `HandshakeComesFirst` (`HandshakeFirst`): the two flags of the session stand for answers
  and lines of the past — `responded` for an answered `initialize`, `initialized` for a
  confirmation *after* it (`HandshakeGood`) — and later lines and answers do not change
  these. `LinesAreAnsweredInTurn` (`AnsweredInTurn`, the safety half of `LinesAreAnswered`):
  what was answered is what is owed for the lines that are `Settled`, which are all but one
  that is being read or worked on (`TurnGood`).
- The task: `TaskInv`. `GuidanceAlwaysCovers` (`GuidanceCoversAllClaims`) and
  `CautionIsAlwaysKept` (`CautionIsKept`) need what an attempt of the compiler is: it holds
  all claims, or a beginning of them in the order of retention and what tells of each claim
  it leaves out (`AttemptFacts`). Retention sorts by filters, one after the other; that the
  result ascends in the rank of the claims (`RetentionFacts`) is what makes a beginning of it
  the part that matters most. That a question is skipped only if nothing depends on it is
  `CommonIsEach`: the demand common to all interpretations is the demand of each when their
  signatures agree.
- The evidence: `EvidenceInv` says that worlds are well-formed and that current claims were
  derived from the world as it is. `EvidenceStaysHonest` (`EvidenceIsHonest`) follows the
  attribution of commits through the assessment of files to the claims; truncation is told
  because a list that is cut ends with the marker, and a claim inherits either the limitation
  or the marker from its evidence (`EvidenceTells`, `ClaimTells`). `SilenceAlwaysMeansUnchanged`
  (`SilenceMeansUnchanged`) compares two derivations. `DoubtWeakensOrKeeps`
  (`DoubtNeverStrengthens`) compares two worlds of which the later one has more annotations
  or commits (`Doubted`): the developer's commits are the same (`SameTargets`), the risks of
  a file can only grow (`MoreRisks`), and depth and confidence follow.

What is assumed of the constants: an adjacent claim names what it is adjacent to, as the
schema of claims requires (`schemas/claim/0.1.0.schema.json:364`), and an order of the claims
lists each of them (`ClaimAssumption`); places are finitely many (`PlaceAssumption`);
annotations name commits there are, limits are positive, and the two limitations that speak
of cuts are among the texts (`DerivationAssumption`). TLC evaluates all of them in `context`.

### What is only model-checked

- Liveness: `CallsComplete`, `CallSettles`, `HooksEnd`, and of `LinesAreAnswered` the half
  that every line is answered in the end. The prover has no ENABLED and hence no rule for
  fairness.

Every invariant and every action property of the passing runs is stated by a theorem, and
so is the refinement of the register.

The instances of the runs satisfy the hypotheses of the theorems, so what a run shows on
its instance the theorem shows for all.

## Findings

1. **A failing staging write leaves its file behind** (`store_crowded`). The exception
   of `writeEntryExclusive` leaves `commitCandidate` before the `try` that would remove
   the file. Each retry uses a new nonce; once the scan bound is exceeded the store can
   be neither loaded nor written.
2. **One read error can cost the newest document** (`store_unreadable`). A raw read
   error classifies a document as invalid; a commit that builds on the one below removes
   every invalid document of its scan.
3. **A capability nobody speaks of does not stop concise guidance** (`under_explained`).
   The mode follows the claims; a required capability without any claim is reported as an
   uncertainty but has no part in the choice, although ADR-0013 says that one uncertain
   relevant capability prevents a packet from under-explaining the task. Part of this is
   deliberate: ADR-0014 (`docs/adr/0014-demand-profile-intersection.md:22`) wants the mode
   made from claims, without an invented `insufficient-evidence` one, and guided when there
   is no claim at all. It does not speak of a packet that has claims for some of the
   required capabilities only, which is what the run shows.

Observations that are not findings, but that a reader of the properties should know:

- A load takes no gate: when two commits pass between its listing and its reads, the
  newer documents are unlisted or pruned under it, and it may report an older one, but
  then always as *recovered*. `ActiveLoadIsFresh` therefore speaks of active and absent
  results.
- A commit that pushes an older, shared commit out of the bounded history can make a
  claim stronger, because the shared commit is no longer seen. `DoubtNeverStrengthens`
  therefore speaks of commits that hide no older one (`NothingHidden`).
- An annotation of a commit that fell out of the bounded history, or of a file that was
  removed, makes every refresh fail until the owner edits it.
- One commit that touches two files can support practical use.
- More than 32 references of a claim are not compared by its fingerprint.
- More than 32 capabilities to draw analogies from make every budget too small; more
  than 32 claims or uncertainties fall to the later attempts; requested capabilities and
  languages of the metadata that exceed 32 together make the profile unavailable.

## What is not modelled

- **Components without state of the running system**: command-line parsing, schemas,
  scripts, conformance consumers, test data, protocol validators, the text format of the
  store.
- **Owner operations that only read**: inspection and diagnostics; writing an exported
  file. The composition of a task's needs in the interpretation.
- **Texts**: wording, redaction, sizes in bytes, identifiers as digests.
- **The platform**: path canonicalization and permissions of the store's own directory
  (the models assume a private directory). On Windows a directory is not synced, so
  `store_durable` says nothing about it (`local-profile-store.ts:978`).

Hazards of the code that no property covers:

- The exclusive creation of the gate succeeds and then throws
  (`local-profile-store.ts:558`): the gate stays until the owner removes it. The models
  contain the step (`CreationFails`), and the owner's recovery ends it.
- The clear of a task meets the lock of another session's hook
  (`codex-hook-adapter.ts:156`): the hook falls back and older guidance stays until the
  next task; `DeliveredSupersedes` speaks of what was delivered.
- Two tasks of one session overlap and the older one saves last
  (`codex-hook-adapter.ts:192`); the host delivers the events of one session in order.
- Entries of sessions that never resume stay; beyond 256 entries a deletion cannot list
  the directory (`file-session-state.ts:409`).
- The byte limit of the refresh cache (`incremental-refresh.ts:482`) is modelled
  (eviction happens) but no run checks it.

## Plan

The plan this development followed is carried out: the components above are modelled, their
hazards have properties, and all safety properties the runs check are proved. What is left:

1. Liveness stays with TLC. Should the provers learn ENABLED, `CallsComplete` is the first to
   prove, from `GoodStates` of the store.
2. Hypotheses worth removing: `ReadFaults` and `Undamaged` in the theorems about the store,
   once the code of the second finding classifies a read error as a failure of the scan, and
   `Overlap` in `DeliverySupersedes`, if the cache compared the task of guidance it saves.
3. Where the code changes, the property of the run named in `PROJECT.json` for the hazard
   shows first whether it still holds, and the effects of the changed action are what has to
   be proved again.
