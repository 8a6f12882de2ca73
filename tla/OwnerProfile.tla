---------------------------- MODULE OwnerProfile ----------------------------
(***************************************************************************)
(* The profile a store keeps and what the owner workflow makes of it       *)
(* (owner-profile-workflow.ts), with the projection of exports and imports *)
(* (owner-profile-portability.ts) and the selection an agent is shown      *)
(* (owner-interpretation.ts).                                              *)
(*                                                                         *)
(* One capability of one project is a scope.  An identifier is the tuple   *)
(* of what the code hashes into it, so equal contents have equal           *)
(* identifiers and nothing else has.                                       *)
(***************************************************************************)
EXTENDS Integers

CONSTANTS
    Capabilities,   \* capabilities of the owner's project
    MaxVersion,     \* bound on versions of the sources of a capability
    MaxTime,        \* bound on the clock
    MaxGeneration,  \* bound on store generations
    Insufficient    \* versions of sources in which nothing is attributable to the owner

ASSUME OwnerAssumption ==
    MaxVersion \in Nat /\ MaxTime \in Nat /\ MaxGeneration \in Nat

None == -1
Times == 0..MaxTime
Generations == 0..MaxGeneration
Gone == MaxVersion + 1                  \* no source shows the capability
NoCorrection == <<>>
Here == <<>>                            \* the project of this store
Contents == [Capabilities -> 0..Gone]

Empty == [claims |-> {}, evidence |-> {}, corrections |-> {}, declarations |-> {}]

Targets(profile) == {c.target : c \in profile.corrections}
Records(profile, ids) == {e \in profile.evidence : e.id \in ids}
Cited(claims) == UNION {c.evidence : c \in claims}

-----------------------------------------------------------------------------
(* Automated assessments *)

\* The evidence and the claim a derivation has for a capability.  Their
\* identifiers depend on the place, the fingerprint on the content.
Observation(derivation, c) ==
    [id |-> <<"live", c>>, source |-> <<c, Here>>,
     fingerprint |-> derivation.content[c], observed |-> derivation.observed,
     collected |-> derivation.derivedAt]
Assessment(derivation, c) ==
    [id |-> <<"claim", c>>, scope |-> <<c, Here>>, state |-> "observed",
     evidence |-> {<<"live", c>>}, observed |-> derivation.observed,
     attributable |-> derivation.content[c] \notin Insufficient,
     stale |-> derivation.stale, correction |-> NoCorrection]

Seen(derivation) == {c \in Capabilities : derivation.content[c] # Gone}

\* A dispute becomes stale when what was corrected is observed no longer, again,
\* or differently.
Outdated(profile, derivation, claim) ==
    ~ /\ \E c \in Seen(derivation) :
            /\ Assessment(derivation, c).scope = claim.scope
            /\ ~derivation.stale /\ derivation.observed = claim.observed
      /\ \A old \in Records(profile, claim.evidence) :
            \E c \in Seen(derivation) :
               /\ Observation(derivation, c).source = old.source
               /\ Observation(derivation, c).fingerprint = old.fingerprint

Preserved(profile, derivation) ==
    {IF c.state = "disputed"
     THEN [c EXCEPT !.stale = @ \/ Outdated(profile, derivation, c)] ELSE c :
     c \in {c \in profile.claims : c.id \in Targets(profile) \/ c.state # "observed"}}

Automated(preserved, derivation) ==
    {Assessment(derivation, c) : c \in
        {c \in Seen(derivation) : \A kept \in preserved :
            kept.state = "disputed" => kept.scope # Assessment(derivation, c).scope}}

\* saveOwnerDerivation: what the owner said stays, the rest is replaced.
Derived(profile, derivation) ==
    LET preserved == Preserved(profile, derivation)
        automated == Automated(preserved, derivation)
    IN  [profile EXCEPT
           !.claims = preserved \cup automated,
           !.evidence = Records(profile, Cited(preserved)) \cup
              {e \in {Observation(derivation, c) : c \in Seen(derivation)} :
                  e.id \in Cited(automated)}]

-----------------------------------------------------------------------------
(* The owner's words *)

\* What a dispute replaced.
Originals(profile, target) ==
    {c \in profile.claims : \E r \in profile.corrections : r.id = target.correction /\ r.target = c.id}

\* A further correction needs the original of the dispute; a first one archives what
\* was observed, once.
Archivable(profile, target) ==
    IF target.state = "disputed"
    THEN \E c \in Originals(profile, target) : c.id # target.id /\ c.scope = target.scope
    ELSE /\ target.evidence \subseteq {e.id : e \in profile.evidence}
         /\ \A c \in profile.claims : c.id # <<"history", target>>

Correctable(profile, target, at) ==
    /\ target.state # "declared" /\ target.evidence # {}
    /\ target.observed # None /\ target.observed <= at
    /\ target.id \notin Targets(profile)
    /\ Archivable(profile, target)

\* The observation that a correction replaces, kept under identifiers of its own.
Archive(profile, target) ==
    LET copies == {[e EXCEPT !.id = <<"archived", e>>] : e \in Records(profile, target.evidence)}
    IN  [claim |-> [target EXCEPT !.id = <<"history", target>>,
                                  !.evidence = {e.id : e \in copies}],
         evidence |-> copies]

Original(profile, target) == CHOOSE c \in Originals(profile, target) : TRUE

\* correct, dispute and reject: the target becomes disputed, and a further
\* correction of it refers to the same original.
Corrected(profile, target, at, generation) ==
    LET repeated == target.state = "disputed"
        archive == IF repeated THEN [claim |-> Original(profile, target), evidence |-> {}]
                               ELSE Archive(profile, target)
        disputed == [target EXCEPT !.state = "disputed", !.evidence = archive.claim.evidence,
                                   !.correction = <<"correction", generation>>]
    IN  [profile EXCEPT
           !.claims = (@ \ {target}) \cup {disputed, archive.claim},
           !.evidence = @ \cup archive.evidence,
           !.corrections = @ \cup {[id |-> disputed.correction, target |-> archive.claim.id,
                                  at |-> at]}]

\* A declaration asserts and shows no evidence.
Declared(profile, c, at, generation) ==
    [profile EXCEPT
       !.claims = @ \cup {[id |-> <<"declared", generation>>, scope |-> <<c, Here>>,
                           state |-> "declared", evidence |-> {}, observed |-> None,
                           attributable |-> TRUE, stale |-> FALSE, correction |-> NoCorrection]},
       !.declarations = @ \cup {[id |-> <<"declaration", generation>>, at |-> at]}]

-----------------------------------------------------------------------------
(* Exports and imports *)

\* The projection renames every identifier, the project of a scope and the place
\* of a source included, each by its own hash.  The projection of an export and
\* that of its import are one renaming here.
Renamed(id) == <<"renamed", id>>
Remapped(scope) == <<scope[1], <<scope[2]>>>>

Projected(profile) ==
    [claims |-> {[c EXCEPT !.id = Renamed(c.id), !.scope = Remapped(c.scope),
                           !.evidence = {Renamed(e) : e \in c.evidence},
                           !.correction = IF @ = NoCorrection THEN @ ELSE Renamed(@)] :
                c \in profile.claims},
     evidence |-> {[e EXCEPT !.id = Renamed(e.id), !.source = Remapped(e.source)] :
                   e \in profile.evidence},
     corrections |-> {[r EXCEPT !.id = Renamed(@), !.target = Renamed(@)] :
                      r \in profile.corrections},
     declarations |-> {[d EXCEPT !.id = Renamed(@)] : d \in profile.declarations}]

Youngest(profile, at) ==
    /\ \A e \in profile.evidence : e.collected <= at
    /\ \A c \in profile.claims : c.observed <= at
    /\ \A r \in profile.corrections \cup profile.declarations : r.at <= at

-----------------------------------------------------------------------------
(* What an agent is shown *)

\* Claims that stand: neither disputed nor what the correction of a disputed claim
\* replaced.
Selected(profile) ==
    LET disputes == {c.correction : c \in {c \in profile.claims : c.state = "disputed"}}
        historical == {r.target : r \in {r \in profile.corrections : r.id \in disputes}}
    IN  {c \in profile.claims : c.state # "disputed" /\ c.id \notin historical}

\* A proposal may build on a shown claim for which there is evidence of the owner's
\* own work, or his word, and that is neither stale nor too old.
Admissible(profile, claim, at, age) ==
    /\ claim \in Selected(profile) /\ claim.attributable /\ ~claim.stale
    /\ claim.observed # None => claim.observed <= at /\ at - claim.observed <= age

-----------------------------------------------------------------------------
(* Properties of a profile *)

\* Identifiers are unique and every reference is resolved: the graph that the
\* store's format validates.  A candidate that fails this is refused.
GraphValid(profile) ==
    /\ \A c, d \in profile.claims : c.id = d.id => c = d
    /\ \A e, f \in profile.evidence : e.id = f.id => e = f
    /\ Cited(profile.claims) \subseteq {e.id : e \in profile.evidence}
    /\ Targets(profile) \subseteq {c.id : c \in profile.claims}
    /\ \A c \in profile.claims :
          c.state = "disputed" =>
             \E r \in profile.corrections : r.id = c.correction

\* Every correction is in force: its target is history, one claim of the target's
\* scope is disputed, and no other claim observed in that scope stands.
CorrectionsInForce(profile) ==
    LET selected == Selected(profile)
    IN  \A target \in {c \in profile.claims : c.id \in Targets(profile)} :
            /\ \E c \in profile.claims : c.state = "disputed" /\ c.scope = target.scope
            /\ \A c \in selected : c.scope = target.scope => c.state = "declared"
=============================================================================
