-------------------------- MODULE SourceAssessment --------------------------
(***************************************************************************)
(* What the collected metadata of the selected repositories may support:   *)
(* who took part in a commit (git-authorship-assessment.ts) and which      *)
(* risks limit a file (evidence-source-risk-classifier.ts).  Both are      *)
(* functions of a world: files, commits and the owner's annotations.       *)
(* A committer is the author of his commit here.                           *)
(***************************************************************************)
EXTENDS Integers, Sequences, FiniteSets

CONSTANTS
    Places,        \* source files, by repository and path
    RepositoryOf,  \* repository of a place
    Indicators,    \* risks that the path of a place indicates
    Contents,      \* digests of contents
    Absent,        \* no file at a place
    HistoryLimit   \* maxCommits that the collector reads of a repository

ASSUME PlaceAssumption == IsFiniteSet(Places) /\ HistoryLimit \in Nat

Repositories == {RepositoryOf[p] : p \in Places}
Present(world) == {p \in Places : world.files[p] # Absent}

\* The collected history: the newest commits of a repository.
CommitsOf(world, r) == {i \in DOMAIN world.commits : world.commits[i].repository = r}
Visible(world, r) ==
    {i \in CommitsOf(world, r) :
        Cardinality({j \in CommitsOf(world, r) : j > i}) < HistoryLimit}
Truncated(world, r) == Visible(world, r) # CommitsOf(world, r)

-----------------------------------------------------------------------------
(* Authorship *)

Participates(commit) ==
    "developer" \in commit.coauthors \/ (commit.author = "developer" /\ commit.coauthors # {})

Alone == [developer |-> "attributed", shared |-> "shared", bot |-> "bot", unknown |-> "unknown"]
MutantAttributionOf(world, i) ==
    IF i \in world.pairs THEN "pair-work"
    ELSE IF Participates(world.commits[i]) THEN "coauthored"
    ELSE [Alone EXCEPT !.shared = "attributed"][world.commits[i].author]
AttributionOf(world, i) ==
    IF i \in world.pairs THEN "pair-work"
    ELSE IF Participates(world.commits[i]) THEN "coauthored"
    ELSE Alone[world.commits[i].author]

Collaborative == {"coauthored", "pair-work"}
Target == Collaborative \cup {"attributed"}

\* ceilingsFor: the depth; confidence is medium exactly for practical use.
DepthOf(world, i) ==
    IF AttributionOf(world, i) = "attributed" /\ i \notin world.squashes THEN "practical-use"
    ELSE IF AttributionOf(world, i) \in Target THEN "exposure" ELSE "none"

\* limitationsFor.
ByState == [shared |-> "shared-identity", coauthored |-> "coauthored", bot |-> "bot-authored",
            unknown |-> "unknown-authorship"]
LimitationsOf(world, i) ==
    LET commit == world.commits[i]
        state == AttributionOf(world, i)
    IN  {l \in {"shared-identity", "coauthored", "bot-authored", "pair-work-declared",
                "unknown-authorship", "squash-history", "automated-contributor",
                "unmatched-coauthor"} :
            CASE l = "squash-history" -> i \in world.squashes
              [] l = "automated-contributor" -> "bot" \in commit.coauthors \cup {commit.author}
              [] l = "unmatched-coauthor" -> "unknown" \in commit.coauthors
              [] l = "pair-work-declared" -> state = "pair-work"
              [] OTHER -> state \in DOMAIN ByState /\ ByState[state] = l}
        \cup (IF Truncated(world, commit.repository) THEN {"history-truncated"} ELSE {})

\* resolveAnnotations and correlateSnapshots: an annotation of a commit that is not
\* collected, or of a file that is not there, is an error of the configuration.
Mismatch(world) ==
    \/ \E i \in world.squashes \cup world.pairs :
          i \notin Visible(world, world.commits[i].repository)
    \/ \E p \in world.marked : world.files[p] = Absent

-----------------------------------------------------------------------------
(* Risk *)

Associated(world, p) ==
    {i \in Visible(world, RepositoryOf[p]) : p \in world.commits[i].changed}
TargetCommits(world, p) ==
    {i \in Associated(world, p) : AttributionOf(world, i) \in Target}
Together(world, p) ==
    \E i \in Associated(world, p) : AttributionOf(world, i) \in Collaborative

\* countDigests: over all selected repositories.
Duplicated(world, p) == \E q \in Present(world) \ {p} : world.files[q] = world.files[p]

RiskFlags(world, p) ==
    Indicators[p]
    \cup (IF RepositoryOf[p] \in world.forks THEN {"fork"} ELSE {})
    \cup (IF p \in world.marked THEN {"generated"} ELSE {})
    \cup (IF Duplicated(world, p) THEN {"duplicated"} ELSE {})
    \cup (IF TargetCommits(world, p) = {} THEN {"uncertain"} ELSE {})

\* classifyFile: what the source itself limits.
SourceLimitations(world, p) ==
    {l \in {"explicit-repository-annotation", "explicit-path-annotation", "path-indicator-only",
            "exact-content-duplicate", "no-bounded-commit-association", "no-target-attribution",
            "history-truncated", "multiple-source-risks", "origin-unverified"} :
        CASE l = "explicit-repository-annotation" -> RepositoryOf[p] \in world.forks
          [] l = "explicit-path-annotation" -> p \in world.marked
          [] l = "path-indicator-only" -> Indicators[p] # {}
          [] l = "exact-content-duplicate" -> Duplicated(world, p)
          [] l = "no-bounded-commit-association" -> Associated(world, p) = {}
          [] l = "no-target-attribution" ->
                Associated(world, p) # {} /\ TargetCommits(world, p) = {}
          [] l = "history-truncated" -> Truncated(world, RepositoryOf[p])
          [] l = "multiple-source-risks" -> Cardinality(RiskFlags(world, p)) > 1
          [] l = "origin-unverified" -> RiskFlags(world, p) = {}}

\* The aggregated ceilings: work done together limits all of it.
Permitted(world, p) ==
    \E i \in TargetCommits(world, p) : DepthOf(world, i) = "practical-use"
MutantDepthCeiling(world, p) ==
    IF Permitted(world, p) THEN "practical-use"
    ELSE IF TargetCommits(world, p) # {} THEN "exposure" ELSE "none"
DepthCeiling(world, p) ==
    IF Permitted(world, p) /\ ~Together(world, p) THEN "practical-use"
    ELSE IF TargetCommits(world, p) # {} THEN "exposure" ELSE "none"
Strength(world, p) == IF RiskFlags(world, p) = {} THEN "moderate" ELSE "weak"
=============================================================================
