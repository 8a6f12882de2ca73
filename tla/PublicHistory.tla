--------------------------- MODULE PublicHistory ---------------------------
(***************************************************************************)
(* The history of one repository: from its Git directory while Git is at   *)
(* work in it (git-metadata-collector.ts), and from GitHub when the local  *)
(* history is shallow or unavailable (public-history-collector.ts).        *)
(*                                                                         *)
(* The collector reads HEAD, the loose reference, the packed references    *)
(* and the shallow boundary one after the other, then runs git against the *)
(* object store between two snapshots of it.  A commit is what its parents *)
(* make it; git is what rev-list and cat-file answer.                      *)
(***************************************************************************)
EXTENDS Integers, Sequences, FiniteSets, SequencesExt, Sequencing

CONSTANTS
    Commits,      \* all commits there will be
    Parents,      \* the parents of each commit, a sequence
    Branches,
    Absent,       \* no loose or packed reference, no pinned head
    Latest,       \* commits that a branch may move to
    Deep,         \* commits that a shallow clone lacks
    Boundary,     \* commits whose parents a shallow clone lacks
    MaxCommits,   \* commits of a local or a remote history
    MaxRequests,  \* policy.github.limits.maxRequests
    MaxRepositoryEdits  \* bound on what Git does meanwhile

\* A commit that names a parent twice is refused (parseCommitResponse), and a limit of
\* no commits is none (parseLimits).
ASSUME HistoryAssumption ==
    /\ Parents \in [Commits -> Seq(Commits)] /\ \A c \in Commits : IsInjective(Parents[c])
    /\ Latest \subseteq Commits /\ Boundary \subseteq Commits \ Deep
    /\ \A c \in Commits : \A i \in DOMAIN Parents[c] :
          Parents[c][i] \in Deep => c \in Deep \cup Boundary
    /\ {MaxCommits, MaxRequests, MaxRepositoryEdits} \subseteq Nat /\ MaxCommits > 0

VARIABLES
    repository,  \* HEAD, references, shallow file, objects
    local,       \* the local collection
    remote,      \* the policy and the collection from GitHub
    tips         \* what a branch that HEAD named held since the collection began
historyVars == <<repository, local, remote, tips>>

ParentsOf(c) == Range(Parents[c])
Tip(r, b) == IF r.loose[b] # Absent THEN r.loose[b] ELSE r.packed[b]

\* The commits that a walk has met, has still to read, and has read; it reads the first
\* that is pending, and one for which stop holds has no parents.
Started(head) == [pending |-> <<head>>, scheduled |-> {head}, commits |-> <<>>]
Meet(walked, stop) ==
    LET c == Head(walked.pending)
        met == IF c \in stop THEN <<>> ELSE Parents[c]
    IN  [pending |-> Tail(walked.pending) \o Among(met, Commits \ walked.scheduled),
         scheduled |-> walked.scheduled \cup Range(met),
         commits |-> Append(walked.commits, c)]

\* rev-list: as many commits as asked for.
Walked(head, stop, n) ==
    LET walk[k \in 0..n] ==
          IF k = 0 THEN Started(head)
          ELSE IF walk[k - 1].pending = <<>> THEN walk[k - 1]
          ELSE Meet(walk[k - 1], stop)
    IN  walk[n]

-----------------------------------------------------------------------------
(* The local collection *)

NoLocal(branch) ==
    [pc |-> "open", branch |-> branch, found |-> Absent, boundary |-> {}, store |-> 0,
     commits |-> {}, truncated |-> FALSE, shallow |-> FALSE, category |-> "none"]

Reading(label) == local.pc = label /\ UNCHANGED <<repository, remote, tips>>
LocalIs(changed) == local' = changed
LocalFails(category) ==
    LocalIs([NoLocal(local.branch) EXCEPT !.pc = "done", !.category = category])

\* The directory and its .git are the authorized ones, of a supported layout.
OpenRepository ==
    /\ Reading("open")
    /\ \/ LocalIs([local EXCEPT !.pc = "head"])
       \/ \E category \in {"unsupported-repository", "not-authorized", "path-unavailable"} :
             LocalFails(category)

\* readControlFile gives one version of a file, or refuses it.
ControlFileRefused ==
    /\ local.pc \in {"head", "loose", "packed", "shallow"} /\ Reading(local.pc)
    /\ \E category \in {"not-authorized", "limit-exceeded", "invalid-metadata"} :
          LocalFails(category)

\* The time is over between two operations.
LateLocal == local.pc # "done" /\ Reading(local.pc) /\ LocalFails("deadline-exceeded")

\* resolveHead: HEAD names a branch; its loose reference is read before the packed ones.
ReadHead ==
    /\ Reading("head")
    /\ LocalIs([local EXCEPT !.pc = "loose", !.branch = repository.head])

ReadLoose ==
    /\ Reading("loose")
    /\ LET found == repository.loose[local.branch]
       IN  IF found = Absent THEN LocalIs([local EXCEPT !.pc = "packed"])
           ELSE LocalIs([local EXCEPT !.pc = "shallow", !.found = found])

ReadPacked ==
    /\ Reading("packed")
    /\ LET found == repository.packed[local.branch]
       IN  IF found = Absent THEN LocalFails("invalid-metadata")
           ELSE LocalIs([local EXCEPT !.pc = "shallow", !.found = found])

ReadShallow ==
    /\ Reading("shallow")
    /\ LocalIs([local EXCEPT !.pc = "before", !.boundary = repository.shallow])

SnapshotBefore ==
    /\ Reading("before")
    /\ LocalIs([local EXCEPT !.pc = "rev-list", !.store = repository.store])

\* git walks up to one commit more than the limit and cuts at the boundary; the store
\* has all that the boundary does not cut.
RevList ==
    /\ Reading("rev-list")
    /\ LET walked == Walked(local.found, local.boundary, MaxCommits)
       IN  LocalIs([local EXCEPT !.pc = "cat-file", !.commits = Range(walked.commits),
                                 !.truncated = walked.pending # <<>>])

\* executeGit: git may be missing, or run out of time or output.
CommandFails ==
    /\ local.pc \in {"rev-list", "cat-file"} /\ Reading(local.pc)
    /\ \E category \in {"git-unavailable", "limit-exceeded"} : LocalFails(category)

\* What a command wrote is refused unless it is wholly well-formed.
OutputRefused ==
    /\ local.pc \in {"rev-list", "cat-file"} /\ Reading(local.pc)
    /\ LocalFails("invalid-metadata")

\* snapshotObjectStore refuses alternates, links and stores that are too large.
StoreRefused ==
    /\ local.pc \in {"before", "cat-file"} /\ Reading(local.pc)
    /\ \E category \in {"unsupported-repository", "not-authorized", "limit-exceeded"} :
          LocalFails(category)

\* The bodies of the commits and their changed paths, then the second snapshot: the
\* commands must have seen one object store.
MutantSnapshotAfter ==
    /\ Reading("cat-file")
    /\ LocalIs([local EXCEPT !.pc = "done", !.category = "ok",
                             !.shallow = repository.shallow # {}])
SnapshotAfter ==
    /\ Reading("cat-file")
    /\ IF repository.store = local.store
       THEN LocalIs([local EXCEPT !.pc = "done", !.category = "ok",
                                  !.shallow = local.boundary # {}])
       ELSE LocalFails("not-authorized")

-----------------------------------------------------------------------------
(* The fallback *)

Eligible == {"unsupported-repository", "git-unavailable", "path-unavailable"}

\* The head that a remote history must have: the local one, else the pinned one.
ExpectedHead == IF local.category = "ok" THEN local.found ELSE remote.pinned

RemoteIs(changed) == remote' = changed /\ UNCHANGED <<repository, local, tips>>
Answer(source, status) ==
    RemoteIs([remote EXCEPT !.pc = "done", !.source = source, !.status = status])

\* What the collection gives when GitHub is not asked or does not answer.
Kept == IF local.category = "ok" THEN "local-git" ELSE "none"

\* The conditions in the order in which the code returns.
Whole == local.category = "ok" /\ ~local.shallow
Refused ==
    IF remote.policy = "none" THEN "disabled"
    ELSE IF remote.policy = "foreign" THEN "rejected"
    ELSE IF Whole THEN "not-needed"
    ELSE IF remote.policy = "expired" THEN "expired"
    ELSE IF local.category \notin Eligible \cup {"ok"} THEN "not-needed"
    ELSE IF ExpectedHead = Absent \/ remote.pinned \notin {Absent, ExpectedHead} THEN "rejected"
    ELSE "none"

\* The owner's mapping of the repository, whose consent is compared with the clock
\* when the local collection has ended.
Policies == {"none", "foreign", "expired", "current"}
ReadPolicy ==
    /\ local.pc = "done" /\ remote.pc = "local"
    /\ \E policy \in Policies, pinned \in Latest \cup {Absent} :
          /\ policy # "current" => pinned = Absent
          /\ RemoteIs([remote EXCEPT !.pc = "decide", !.policy = policy, !.pinned = pinned])

Decide ==
    /\ remote.pc = "decide"
    /\ IF Refused # "none"
       THEN Answer(IF remote.policy = "foreign" THEN "none" ELSE Kept, Refused)
       ELSE RemoteIs([remote EXCEPT !.pc = "identify", !.requests = 1])

\* A request that fails, or one too many: the local history stays.
GiveUp ==
    /\ remote.pc \in {"identify", "walk"}
    /\ \E status \in {"unavailable", "rejected"} : Answer(Kept, status)

\* The repository is public and has the name of the mapping.
Identify ==
    /\ remote.pc = "identify"
    /\ RemoteIs([remote EXCEPT !.pc = "walk", !.walked = Started(ExpectedHead)])

\* The walk asks for a commit while one is pending and the limit is not reached: one
\* request here for all of its pages.
Asks ==
    /\ remote.pc = "walk" /\ remote.requests < MaxRequests
    /\ remote.walked.pending # <<>> /\ Len(remote.walked.commits) < MaxCommits

FetchCommit ==
    /\ Asks
    /\ RemoteIs([remote EXCEPT !.requests = @ + 1, !.walked = Meet(@, {})])

\* readCommit: pages that differ on the commit, malformed or too many ones end the walk.
CommitRefused ==
    /\ Asks
    /\ RemoteIs([remote EXCEPT !.requests = @ + 1, !.pc = "done", !.source = Kept,
                               !.status = "rejected"])

MutantTruncated == Len(remote.walked.commits) = MaxCommits
Truncated == remote.walked.pending # <<>>
EndOfWalk ==
    /\ remote.pc = "walk"
    /\ remote.walked.pending = <<>> \/ Len(remote.walked.commits) = MaxCommits
    /\ RemoteIs([remote EXCEPT !.pc = "done", !.source = "github", !.status = "used",
                               !.truncated = Truncated])

-----------------------------------------------------------------------------
(* Git at work in the repository *)

RepositoryEdit(changed) ==
    /\ repository.edits < MaxRepositoryEdits /\ local.pc # "done"
    /\ UNCHANGED <<local, remote>>
    /\ repository' = [changed EXCEPT !.edits = @ + 1]
    /\ tips' = tips \cup {<<changed.head, Tip(changed, changed.head)>>}
                    \cup {<<b, Tip(changed, b)>> : b \in {t[1] : t \in tips}}

\* A commit writes its objects, then the loose reference of the branch.
MoveBranch(b, c) ==
    RepositoryEdit([repository EXCEPT !.loose[b] = c, !.store = @ + 1])
Checkout(b) == repository.head # b /\ RepositoryEdit([repository EXCEPT !.head = b])

\* pack-refs writes the packed references and then removes the loose ones.
PackRefs(b) ==
    repository.loose[b] # Absent /\ RepositoryEdit([repository EXCEPT !.packed[b] = Tip(repository, b)])
PruneLoose(b) ==
    /\ repository.loose[b] # Absent /\ repository.loose[b] = repository.packed[b]
    /\ RepositoryEdit([repository EXCEPT !.loose[b] = Absent])

\* A deepening fetch brings the objects, then removes the shallow file.
Deepen == repository.lacks # {} /\ RepositoryEdit([repository EXCEPT !.lacks = {}, !.store = @ + 1])
EndShallow ==
    /\ repository.lacks = {} /\ repository.shallow # {}
    /\ RepositoryEdit([repository EXCEPT !.shallow = {}])
Repack == RepositoryEdit([repository EXCEPT !.store = @ + 1])

-----------------------------------------------------------------------------
NoRemote ==
    [pc |-> "local", policy |-> "none", pinned |-> Absent, requests |-> 0,
     walked |-> [pending |-> <<>>, scheduled |-> {}, commits |-> <<>>], truncated |-> FALSE,
     source |-> "none", status |-> "none"]

HistoryInit ==
    /\ \E shallow \in BOOLEAN, head \in Branches :
          \E loose, packed \in [Branches -> Latest \cup {Absent}] :
             repository = [head |-> head, store |-> 0, edits |-> 0,
                           loose |-> loose, packed |-> packed,
                           shallow |-> IF shallow THEN Boundary ELSE {},
                           lacks |-> IF shallow THEN Deep ELSE {}]
    /\ \A b \in Branches : Tip(repository, b) # Absent
    /\ tips = {<<repository.head, Tip(repository, repository.head)>>}
    /\ local = NoLocal(repository.head)
    /\ remote = NoRemote

\* No collection was asked for.
HistoryRests ==
    /\ repository = [head |-> Absent, store |-> 0, edits |-> 0, loose |-> <<>>, packed |-> <<>>,
                      shallow |-> {}, lacks |-> {}]
    /\ tips = {} /\ local = NoLocal(Absent) /\ remote = NoRemote

LocalStep ==
    \/ OpenRepository \/ ReadHead \/ ReadLoose \/ ReadPacked \/ ReadShallow
    \/ SnapshotBefore \/ RevList \/ SnapshotAfter
    \/ LateLocal \/ ControlFileRefused \/ CommandFails \/ OutputRefused \/ StoreRefused
RemoteStep ==
    \/ ReadPolicy \/ Decide \/ GiveUp \/ Identify \/ FetchCommit \/ CommitRefused
    \/ EndOfWalk

HistoryNext ==
    \/ LocalStep \/ RemoteStep
    \/ \E b \in Branches : Checkout(b) \/ PackRefs(b) \/ PruneLoose(b)
    \/ \E b \in Branches, c \in Latest : MoveBranch(b, c)
    \/ Deepen \/ EndShallow \/ Repack

-----------------------------------------------------------------------------
(* Properties *)

\* The head of a local history was the tip of a branch that HEAD named, at a moment of
\* the collection, however references were moved, packed and pruned between the
\* readings (git-metadata-collector.ts:634).
HeadWasTip ==
    local.found # Absent => <<local.branch, local.found>> \in tips

Closed(commits) == \A c \in commits : ParentsOf(c) \subseteq commits

\* A local history that is not called shallow or truncated is complete, also when a
\* fetch ends the shallow state under the collection.
LocalHistoryComplete ==
    local.category = "ok" /\ ~local.shallow /\ ~local.truncated => Closed(local.commits)

\* A remote history begins with the expected head, reports a commit once, and is
\* called truncated exactly when a parent is missing.
RemoteHistoryIsTold ==
    remote.source = "github" =>
        /\ Len(remote.walked.commits) > 0 /\ remote.walked.commits[1] = ExpectedHead
        /\ IsInjective(remote.walked.commits)
        /\ remote.truncated = ~Closed(Range(remote.walked.commits))

\* The network is used only when the local history does not do, and what the
\* collection gives is about one commit: never a remote history for another head.
FallbackKeepsHead ==
    /\ remote.requests > 0 =>
          \/ local.category = "ok" /\ local.shallow
          \/ local.category \in Eligible
    /\ remote.source = "github" /\ local.category = "ok" =>
          /\ remote.walked.commits[1] = local.found
          /\ remote.pinned \in {Absent, local.found}

\* A local history is one moment of the repository, and tells whether it is complete.
LocalHistoryIsTrue == HeadWasTip /\ LocalHistoryComplete

\* A remote history belongs to the local head, and tells whether it is complete.
RemoteHistoryIsTrue == RemoteHistoryIsTold /\ FallbackKeepsHead
=============================================================================
