----------------------------- MODULE MCContext -----------------------------
(* A small instance of Context for TLC. *)
EXTENDS Context

CONSTANTS a, b, c, r1, r2, x, y, z, P, Q

\* The cache: overlapping hooks, and nothing fails.
MCNoIncident == [i \in Incidents |-> 0]

\* The evidence: two files of one repository, one of another that a path indicates to be
\* a tutorial; one commit more than the collector reads of the first.
MCRepositoryOf == a :> r1 @@ b :> r1 @@ c :> r2
MCIndicators == a :> {} @@ b :> {} @@ c :> {"tutorial"}
MCPlaceOrder == <<c, a, b>>
MCLimitationOrder == <<
    "duplicated", "fork", "generated", "tutorial", "uncertain",
    "no-attributable-evidence", "weak-source-evidence", "evidence-reference-limit-reached",
    "stale-evidence", "practical-use", "exposure", "none",
    "exact-content-duplicate", "explicit-path-annotation", "explicit-repository-annotation",
    "history-truncated", "multiple-source-risks", "no-bounded-commit-association",
    "no-target-attribution", "origin-unverified", "path-indicator-only",
    "automated-contributor", "bot-authored", "coauthored", "pair-work-declared",
    "shared-identity", "squash-history", "unknown-authorship", "unmatched-coauthor",
    "additional-limitations-omitted">>
By(author, coauthors) == [author |-> author, coauthors |-> coauthors]
MCShapes == {By("developer", {}), By("bot", {"developer"}), By("shared", {})}
CommitBy(author, p, r) ==
    [author |-> author, coauthors |-> {}, changed |-> {p}, repository |-> r]
MCStartWorlds ==
    {[files |-> a :> x @@ b :> y @@ c :> z,
      commits |-> <<CommitBy("developer", a, r1), CommitBy("developer", b, r1),
                    CommitBy("unknown", c, r2)>>,
      squashes |-> {}, pairs |-> {}, marked |-> {}, forks |-> {},
      projects |-> r1 :> P @@ r2 :> Q, edits |-> 0]}

\* The task: three capabilities and claims that correct, contradict and belong elsewhere.
ClaimOn(id, capability, state, project, target, adjacentFrom) ==
    [id |-> id, capability |-> capability, state |-> state, project |-> project,
     target |-> target, adjacentFrom |-> adjacentFrom]
MCClaimOrder == <<
    ClaimOn(1, a, "demonstrated", Global, 0, {}), ClaimOn(2, a, "disputed", Global, 1, {}),
    ClaimOn(3, a, "disputed", Global, 3, {}), ClaimOn(4, a, "self-declared", P, 0, {}),
    ClaimOn(5, b, "adjacent", Global, 0, {a, c}), ClaimOn(6, b, "demonstrated", P, 0, {}),
    ClaimOn(7, b, "demonstrated", Q, 0, {}), ClaimOn(8, c, "insufficient-evidence", P, 0, {}),
    ClaimOn(9, c, "adjacent", P, 0, {a, b, c})>>
MCClaimPool == Range(MCClaimOrder)

\* The server: each method, and messages that are spoilt in one way.
Sound(method) == [text |-> TRUE, object |-> TRUE, id |-> "good", known |-> TRUE,
                     method |-> method, params |-> TRUE]
MCLong == Sound("ping")
MCMessages ==
    {Sound(method) : method \in Methods \ {"initialized"}}
    \cup {[Sound(method) EXCEPT !.params = FALSE] : method \in {"initialize", "list", "call"}}
    \cup {[Sound(method) EXCEPT !.id = "none"] : method \in {"initialized", "call"}}
    \cup {[Sound("ping") EXCEPT !.text = FALSE], [Sound("ping") EXCEPT !.object = FALSE],
          [Sound("call") EXCEPT !.id = "bad"], [Sound("list") EXCEPT !.known = FALSE]}
=============================================================================
