--------------------------- MODULE ClaimDerivation ---------------------------
(***************************************************************************)
(* deriveEvidenceClaims: from what the sources may support to evidence,    *)
(* claims by project, and what a refresh must tell of the claims before it *)
(* (evidence-claim-derivation.ts).  All files are of one language, so a    *)
(* project has at most one claim.                                          *)
(*                                                                         *)
(* Meanwhile the developer and others commit and edit, and the owner       *)
(* annotates and assigns repositories to projects.                         *)
(***************************************************************************)
EXTENDS SourceAssessment, SequencesExt, Sequencing

CONSTANTS
    Projects,
    PlaceOrder,       \* the order of evidence identifiers
    LimitationOrder,  \* the order of limitations
    RefLimit,         \* maximumEvidenceReferencesPerClaim
    NoteLimit,        \* maximumLimitations
    Shapes,           \* participants of the commits to come
    StartWorlds,      \* worlds the first refresh may find
    MaxWorldEdits     \* bound on commits, edits and annotations

Participants == DOMAIN Alone
CommitRecords ==
    [author : Participants, coauthors : SUBSET Participants, changed : SUBSET Places,
     repository : Repositories]
Worlds ==
    {w \in [files : [Places -> Contents \cup {Absent}], commits : Seq(CommitRecords),
             squashes : SUBSET Nat, pairs : SUBSET Nat, marked : SUBSET Places,
             forks : SUBSET Repositories, projects : [Repositories -> Projects], edits : Nat] :
        w.squashes \cup w.pairs \subseteq DOMAIN w.commits}

ASSUME DerivationAssumption ==
    /\ PlaceOrder \in Seq(Places) /\ {RefLimit, NoteLimit} \subseteq Nat \ {0}
    /\ LimitationOrder \in Seq(STRING)
    /\ {"history-truncated", "additional-limitations-omitted"} \subseteq Range(LimitationOrder)
    /\ Shapes \subseteq [author : Participants, coauthors : SUBSET Participants]
    /\ StartWorlds \subseteq Worlds

VARIABLES
    world,       \* the selected repositories and the owner's configuration
    support,  \* evidence of the last derivation, by place
    stated,   \* its claims, by project
    changes   \* what it told of the evidence and the claims before it
derivationVars == <<world, support, stated, changes>>

-----------------------------------------------------------------------------
(* Evidence *)

\* boundedLimitations, of lists whose members are in order.
Bounded(list) ==
    IF Len(list) <= NoteLimit THEN list
    ELSE Append(SubSeq(list, 1, NoteLimit - 1), "additional-limitations-omitted")
Listed(set) == Among(LimitationOrder, set)

AuthorState(w, p) ==
    LET states == {AttributionOf(w, i) : i \in Associated(w, p)}
    IN  IF states \cap Collaborative # {} THEN "coauthored"
        ELSE IF "attributed" \in states THEN "attributed"
        ELSE IF states = {"bot"} THEN "bot" ELSE "unknown"

EvidenceAt(w, p) ==
    [digest |-> w.files[p], author |-> AuthorState(w, p),
     strength |-> Strength(w, p), depth |-> DepthCeiling(w, p),
     limitations |->
        Bounded(Listed(RiskFlags(w, p)) \o <<DepthCeiling(w, p)>>
                \o Listed(SourceLimitations(w, p))
                \o Listed(UNION {LimitationsOf(w, i) : i \in Associated(w, p)}
                          \ SourceLimitations(w, p)))]
EvidenceOf(w) == [p \in Present(w) |-> EvidenceAt(w, p)]

Attributable(e) == e.author \in {"attributed", "coauthored"}
Risks == {"fork", "generated", "tutorial", "duplicated", "uncertain"}

-----------------------------------------------------------------------------
(* Claims *)

ProjectOf(w, p) == w.projects[RepositoryOf[p]]
GroupOf(w, k) == {p \in Present(w) : ProjectOf(w, p) = k}
Owned(evidence, group) == {p \in group : Attributable(evidence[p])}

\* compareEvidenceSupport.
Rank(e) == (IF e.strength = "moderate" THEN 0 ELSE 2) + (IF e.author = "attributed" THEN 0 ELSE 1)
Ranked(evidence, group) ==
    LET held == IF Owned(evidence, group) = {} THEN group ELSE Owned(evidence, group)
        OfRank(r) == Among(PlaceOrder, {p \in held : Rank(evidence[p]) = r})
    IN  OfRank(0) \o OfRank(1) \o OfRank(2) \o OfRank(3)
References(evidence, group) ==
    LET ranked == Ranked(evidence, group)
    IN  SubSeq(ranked, 1, IF Len(ranked) < RefLimit THEN Len(ranked) ELSE RefLimit)

Practical(evidence, owned) ==
    {p \in owned : evidence[p].strength = "moderate" /\ evidence[p].depth = "practical-use"}

\* Risks come first, what the claim only inherits comes last.
ClaimNotes(evidence, owned, refs, cut, stale) ==
    LET inherited == UNION {Range(evidence[refs[i]].limitations) : i \in DOMAIN refs}
        weak == \E p \in owned : evidence[p].strength = "weak"
        own == (IF owned = {} THEN {"no-attributable-evidence"} ELSE {})
               \cup (IF weak THEN {"weak-source-evidence"} ELSE {})
               \cup (IF cut THEN {"evidence-reference-limit-reached"} ELSE {})
               \cup (IF stale THEN {"stale-evidence"} ELSE {})
    IN  Bounded(Listed(inherited \cap Risks) \o Listed(own) \o Listed(inherited \ Risks))

\* Confidence is medium exactly when some evidence is moderate and permits practical use.
ClaimOf(evidence, group, stale) ==
    LET owned == Owned(evidence, group)
        practical == Practical(evidence, owned)
        refs == References(evidence, group)
        cut == Len(Ranked(evidence, group)) > Len(refs)
    IN  [state |-> IF owned = {} THEN "insufficient-evidence" ELSE "demonstrated",
         depth |-> IF owned = {} THEN "none"
                   ELSE IF Cardinality(practical) >= 2 THEN "practical-use" ELSE "exposure",
         confidence |-> IF practical # {} THEN "medium" ELSE "low",
         refs |-> refs,
         limitations |-> ClaimNotes(evidence, owned, refs, cut, stale),
         stale |-> stale]
ClaimsOf(w, evidence, stale) ==
    [k \in {k \in Projects : GroupOf(w, k) # {}} |-> ClaimOf(evidence, GroupOf(w, k), stale)]

\* fingerprintClaim: the claim and the fingerprints of the evidence it refers to; that
\* of evidence covers its record.
MutantFingerprint(claim, evidence) == claim
Fingerprint(claim, evidence) ==
    <<claim, [i \in DOMAIN claim.refs |-> evidence[claim.refs[i]]]>>

-----------------------------------------------------------------------------
(* Invalidation *)

Invalidated(old, evidence) ==
    {<<p, "source-unavailable">> : p \in DOMAIN old \ DOMAIN evidence}
    \cup {<<p, "fingerprint-changed">> :
            p \in {p \in DOMAIN old \cap DOMAIN evidence : old[p] # evidence[p]}}

Lasting(claim) == Among(claim.limitations, Range(claim.limitations) \ {"stale-evidence"})
SameSupport(left, right) ==
    /\ <<left.state, left.depth, left.confidence>> = <<right.state, right.depth, right.confidence>>
    /\ left.refs = right.refs /\ Lasting(left) = Lasting(right)
Reason(old, claim, invalidated) ==
    IF SameSupport(old, claim) /\ old.stale # claim.stale THEN "freshness-changed"
    ELSE IF (Range(old.refs) \cup Range(claim.refs)) \cap {e[1] : e \in invalidated} # {}
    THEN "evidence-invalidated" ELSE "support-changed"

ToldClaims(evidence, claims, invalidated) ==
    {<<k, "no-longer-supported">> : k \in DOMAIN stated \ DOMAIN claims}
    \cup {<<k, Reason(stated[k], claims[k], invalidated)>> :
            k \in {k \in DOMAIN stated \cap DOMAIN claims :
                     Fingerprint(stated[k], support) # Fingerprint(claims[k], evidence)}}

\* deriveEvidenceClaims after classifyEvidenceSourceRisk.  Claims are stale when the
\* observation precedes the caller's staleBefore.  A mismatch derives nothing.
Derive(stale) ==
    /\ ~Mismatch(world)
    /\ support' = EvidenceOf(world)
    /\ stated' = ClaimsOf(world, support', stale)
    /\ changes' = [current |-> TRUE, evidence |-> Invalidated(support, support'),
                   claims |-> ToldClaims(support', stated', Invalidated(support, support'))]
    /\ UNCHANGED world

-----------------------------------------------------------------------------
(* The developer, others and the owner *)

NoChanges == [current |-> FALSE, evidence |-> {}, claims |-> {}]
WorldEdit(changed) ==
    /\ world.edits < MaxWorldEdits
    /\ world' = [changed EXCEPT !.edits = @ + 1]
    /\ changes' = NoChanges /\ UNCHANGED <<support, stated>>

\* A commit of files of one repository, as the working tree has them.
Commit(shape, changed) ==
    \E r \in Repositories :
        /\ changed # {} /\ \A p \in changed : RepositoryOf[p] = r
        /\ WorldEdit([world EXCEPT !.commits =
              Append(@, [author |-> shape.author, coauthors |-> shape.coauthors,
                         changed |-> changed, repository |-> r])])
\* A file is written or removed in the working tree.
EditFile(p, content) ==
    world.files[p] # content /\ WorldEdit([world EXCEPT !.files[p] = content])
AnnotateSquash(i) == i \notin world.squashes /\ WorldEdit([world EXCEPT !.squashes = @ \cup {i}])
AnnotatePair(i) == i \notin world.pairs /\ WorldEdit([world EXCEPT !.pairs = @ \cup {i}])
MarkPath(p) == p \notin world.marked /\ WorldEdit([world EXCEPT !.marked = @ \cup {p}])
MarkFork(r) == r \notin world.forks /\ WorldEdit([world EXCEPT !.forks = @ \cup {r}])
Assign(r, k) == world.projects[r] # k /\ WorldEdit([world EXCEPT !.projects[r] = k])

NothingDerived == support = <<>> /\ stated = <<>> /\ changes = NoChanges
DerivationInit == world \in StartWorlds /\ NothingDerived
\* No refresh was asked for.
DerivationRests ==
    /\ NothingDerived
    /\ world = [files |-> [p \in Places |-> Absent], commits |-> <<>>, squashes |-> {}, pairs |-> {},
                marked |-> {}, forks |-> {}, projects |-> <<>>, edits |-> MaxWorldEdits]

DerivationNext ==
    \/ \E stale \in BOOLEAN : Derive(stale)
    \/ \E shape \in Shapes, changed \in SUBSET Places : Commit(shape, changed)
    \/ \E p \in Places, content \in Contents \cup {Absent} : EditFile(p, content)
    \/ \E i \in DOMAIN world.commits : AnnotateSquash(i) \/ AnnotatePair(i)
    \/ \E p \in Places : MarkPath(p)
    \/ \E r \in Repositories, k \in Projects : MarkFork(r) \/ Assign(r, k)

-----------------------------------------------------------------------------
(* Properties *)

TookPart(commit) == "developer" \in commit.coauthors \cup {commit.author}

\* A claim is demonstrated exactly when collected history shows the developer taking part
\* in a present file of the project, as author, as coauthor or by the owner's declaration:
\* shared accounts, bots and others never add up to it (git-authorship-assessment.ts:172).
DemonstratedIsTheirs ==
    changes.current => \A k \in DOMAIN stated :
        (stated[k].state = "demonstrated") <=>
            \E p \in GroupOf(world, k) : \E i \in Associated(world, p) :
                TookPart(world.commits[i]) \/ i \in world.pairs

\* Practical use rests on two files of the project with contents found nowhere else among
\* all selected repositories, free of every doubt, each with a commit the developer made
\* alone and none made together (evidence-source-risk-classifier.ts:255,
\* evidence-claim-derivation.ts:289).
OwnWork(p) ==
    /\ \E i \in Associated(world, p) :
          /\ world.commits[i].author = "developer" /\ world.commits[i].coauthors = {}
          /\ i \notin world.squashes \cup world.pairs
    /\ \A i \in Associated(world, p) :
          /\ i \notin world.pairs
          /\ TookPart(world.commits[i]) => world.commits[i].coauthors = {}
    /\ p \notin world.marked /\ RepositoryOf[p] \notin world.forks /\ Indicators[p] = {}
    /\ \A q \in Places \ {p} : world.files[q] # world.files[p]
PracticalUseIsOwn ==
    changes.current => \A k \in DOMAIN stated :
        stated[k].depth = "practical-use" =>
            \E p, q \in GroupOf(world, k) : p # q /\ OwnWork(p) /\ OwnWork(q)

\* A new doubt, be it an annotation of risk or squash or a commit by others that hides no
\* older commit, never makes a claim say more ("a risk rule that increases support",
\* docs/adr/0022:52).
Says(claims, k) ==
    IF k \notin DOMAIN claims THEN {}
    ELSE (CASE claims[k].depth = "none" -> {} [] claims[k].depth = "exposure" -> {"exposure"}
            [] claims[k].depth = "practical-use" -> {"exposure", "practical-use"})
         \cup ({claims[k].confidence} \ {"low"})
Kept == <<world.files, world.projects, world.pairs>>
OthersOnly ==
    \A i \in DOMAIN world'.commits \ DOMAIN world.commits : ~TookPart(world'.commits[i])
NothingHidden == \A r \in Repositories : Visible(world, r) \subseteq Visible(world', r)
DoubtNeverStrengthens ==
    [][Kept' = Kept /\ OthersOnly /\ NothingHidden
       => \A before \in {EvidenceOf(world)}, after \in {EvidenceOf(world')} : \A k \in Projects :
            Says(ClaimsOf(world', after, FALSE), k) \subseteq Says(ClaimsOf(world, before, FALSE), k)]_world

\* A refresh that is silent about a claim left it as it was: its words, and the contents
\* and authorship of every file it refers to; what it says of evidence and claims that
\* are gone is so (evidence-claim-derivation.ts:398).
SilenceMeansUnchanged ==
    [][changes'.current =>
        /\ \A k \in DOMAIN stated \ {t[1] : t \in changes'.claims} :
            /\ k \in DOMAIN stated' /\ stated'[k] = stated[k]
            /\ \A p \in Range(stated[k].refs) : support'[p] = support[p]
        /\ \A t \in changes'.claims :
            t[2] = "freshness-changed" => stated'[t[1]].depth = stated[t[1]].depth]_derivationVars

\* However many limitations a file and a claim collect, a claim that refers to a file of a
\* truncated history says so, or says that it leaves limitations out.
TruncationIsTold ==
    changes.current => \A k \in DOMAIN stated :
        (\E p \in Range(stated[k].refs) : Truncated(world, RepositoryOf[p])) =>
            {"history-truncated", "additional-limitations-omitted"}
                \cap Range(stated[k].limitations) # {}

\* Claims say what the evidence supports: whose it is, that it is their own work, and
\* that it was cut.
EvidenceIsHonest == DemonstratedIsTheirs /\ PracticalUseIsOwn /\ TruncationIsTold
=============================================================================
