------------------------ MODULE RepositoryAuthority ------------------------
(***************************************************************************)
(* From the owner's configuration to the directories a collector enters    *)
(* and the remote histories it asks for: resolveAuthorizedRepositoryConfig *)
(* and the other resolvers, createLocalCommunityRuntime,                   *)
(* createIncrementalRefreshSession, and the checks of collectPublicHistory *)
(* and collectGitMetadata at the point of use.                             *)
(*                                                                         *)
(* A path is the sequence of its names.  Between two awaits a directory    *)
(* may be replaced by a link and put back.  What a resolver returns is     *)
(* compared by object identity in the code: here an authority has a        *)
(* number, and so has each of its repositories.                            *)
(***************************************************************************)
EXTENDS Integers, Sequences, FiniteSets, SequencesExt

CONSTANTS
    Places,           \* the directories
    LinkTo,           \* where a link in the place of a directory leads to
    Nowhere,          \* no directory, no policy, no session
    Configurations,   \* what the owner may write
    MaxRepositories,  \* localRepositoryConfigHardLimits.maxRepositories
    MaxAuthorities,   \* bound on resolutions
    MaxLinks          \* bound on replacements

ASSUME AuthorityAssumption ==
    /\ <<>> \in Places /\ DOMAIN LinkTo \subseteq Places
    /\ \A p \in DOMAIN LinkTo : LinkTo[p] \in Places \ DOMAIN LinkTo
    /\ {MaxRepositories, MaxAuthorities, MaxLinks} \subseteq Nat

VARIABLES
    links,   \* the directories that are links now, and how often that changed
    setup,   \* the resolution that is going on
    issued,  \* what resolvers returned: authorities, policies, sessions
    visit    \* the collection that is going on
authorityVars == <<links, setup, issued, visit>>

-----------------------------------------------------------------------------
(* Directories *)

\* realpath: one name after the other.
Enter(at, name) ==
    LET p == Append(at, name)
    IN  IF at = Nowhere \/ p \notin Places THEN Nowhere
        ELSE IF p \in links.now THEN LinkTo[p] ELSE p
Canonical(p) == FoldLeft(Enter, <<>>, p)

Contained(top, p) == IsPrefix(top, p)
Overlaps(p, q) == Contained(p, q) \/ Contained(q, p)

Relink(p) ==
    /\ links.changes < MaxLinks /\ UNCHANGED <<setup, issued, visit>>
    /\ links' = [now |-> IF p \in links.now THEN links.now \ {p} ELSE links.now \cup {p},
                 changes |-> links.changes + 1]

-----------------------------------------------------------------------------
(* Configuration *)

NoSetup == [pc |-> "idle", config |-> Nowhere, left |-> {}, roots |-> <<>>,
            repositories |-> <<>>, store |-> Nowhere]
SetupIs(label) == setup.pc = label /\ UNCHANGED <<links, visit>>
Abandon == setup' = NoSetup /\ UNCHANGED issued

\* parseConfig: a repository names a root, and there are not too many.
WellFormed(c) ==
    /\ \A m \in DOMAIN c.repositories : c.repositories[m].root \in DOMAIN c.roots
    /\ Cardinality(DOMAIN c.repositories) <= MaxRepositories

Configure(c) ==
    /\ SetupIs("idle") /\ UNCHANGED issued
    /\ Len(issued.authorities) < MaxAuthorities /\ WellFormed(c)
    /\ setup' = [NoSetup EXCEPT !.pc = "roots", !.config = c, !.left = DOMAIN c.roots]

\* A root that cannot be resolved, or is another root too, ends the resolution.
ResolveRoot(r) ==
    LET p == Canonical(setup.config.roots[r])
    IN  /\ SetupIs("roots") /\ r \in setup.left
        /\ IF p = Nowhere \/ p \in Range(setup.roots) THEN Abandon
           ELSE /\ setup' = [setup EXCEPT !.left = @ \ {r}, !.roots = (r :> p) @@ @]
                /\ UNCHANGED issued

RootsResolved ==
    /\ SetupIs("roots") /\ setup.left = {} /\ UNCHANGED issued
    /\ setup' = [setup EXCEPT !.pc = "repositories", !.left = DOMAIN setup.config.repositories]

\* A repository is looked up below what its root resolved to.
ResolveRepository(m) ==
    LET named == setup.config.repositories[m]
        top == setup.roots[named.root]
        p == Canonical(top \o named.relative)
    IN  /\ SetupIs("repositories") /\ m \in setup.left
        /\ IF \/ p = Nowhere
              \/ ~Contained(top, p)
              \/ p \in {setup.repositories[n].path : n \in DOMAIN setup.repositories}
           THEN Abandon
           ELSE /\ setup' = [setup EXCEPT !.left = @ \ {m},
                     !.repositories = (m :> [id |-> m, root |-> named.root, path |-> p,
                                             number |-> Len(issued.authorities) + 1]) @@ @]
                /\ UNCHANGED issued

IssueAuthority ==
    /\ SetupIs("repositories") /\ setup.left = {}
    /\ setup' = [setup EXCEPT !.pc = "store"]
    /\ issued' = [issued EXCEPT !.authorities =
                     Append(@, [roots |-> setup.roots, repositories |-> setup.repositories])]

ResolveStore ==
    LET p == Canonical(setup.config.store)
    IN  /\ SetupIs("store")
        /\ IF p = Nowhere THEN Abandon
           ELSE setup' = [setup EXCEPT !.pc = "compose", !.store = p] /\ UNCHANGED issued

\* resolveDeveloperIdentityConfig: each identity once, and one of them the developer's.
IdentityAccepted(c) == IsInjective(c.identities.digests) /\ "developer" \in Range(c.identities.roles)

\* resolveEvidenceSourceRiskConfig: a repository is annotated once.
RiskAccepted(c) == IsInjective(c.risk)

\* resolvePublicHistoryConfig: consent is for authorized repositories, each with a
\* public repository of its own; it is bound to this authority.
ConsentAccepted(c, repositories) ==
    DOMAIN c.consent \subseteq DOMAIN repositories /\ IsInjective(c.consent)
Policy(c, number, repositories) ==
    [authority |-> number, bound |-> [m \in DOMAIN c.consent |-> repositories[m]]]

\* parseConfiguration: every repository has a project.
ProjectsCovered(c, repositories) == c.projects = DOMAIN repositories

\* createIncrementalRefreshSession: projects for all repositories, annotations for no
\* others, and a policy issued for this authority.
SessionAccepted(c, number, repositories, policy) ==
    /\ policy = Nowhere \/ policy.authority = number
    /\ ProjectsCovered(c, repositories)
    /\ Range(c.risk) \cup c.identities.annotated \subseteq DOMAIN repositories

\* createLocalCommunityRuntime: the store overlaps no repository and is the same
\* developer's, and the project is that of a repository.
Compose ==
    LET c == setup.config
        number == Len(issued.authorities)
        repositories == setup.repositories
        policy == IF DOMAIN c.consent = {} THEN Nowhere ELSE Policy(c, number, repositories)
    IN  /\ SetupIs("compose")
        /\ IF /\ IdentityAccepted(c) /\ RiskAccepted(c) /\ c.identities.subject = c.subject
              /\ ConsentAccepted(c, repositories)
              /\ \A m \in DOMAIN repositories : ~Overlaps(repositories[m].path, setup.store)
              /\ c.project \in c.projects
              /\ SessionAccepted(c, number, repositories, policy)
           THEN /\ setup' = NoSetup
                /\ issued' = [issued EXCEPT
                      !.policies = @ \cup ({policy} \ {Nowhere}),
                      !.sessions = @ \cup {[authority |-> number, policy |-> policy,
                                            store |-> setup.store]}]
           ELSE Abandon

-----------------------------------------------------------------------------
(* Use *)

NoVisit == [pc |-> "idle", repository |-> Nowhere, top |-> Nowhere, policy |-> Nowhere,
            store |-> Nowhere, entered |-> Nowhere, remote |-> Nowhere]
VisitIs(label) == visit.pc = label /\ UNCHANGED <<links, setup, issued>>
Go(changed) == visit' = changed

\* selectAuthorizedRepository: one repository of an authority, the same object.
Narrowed(number, m) ==
    LET authority == issued.authorities[number]
        repository == authority.repositories[m]
    IN  [NoVisit EXCEPT !.pc = "root", !.repository = repository,
                        !.top = authority.roots[repository.root]]

\* A session collects with its own policy; collectPublicHistory is exported too, and
\* takes any authority and any policy that were issued.
Visit(number, m) ==
    /\ VisitIs("idle") /\ m \in DOMAIN issued.authorities[number].repositories
    /\ \/ \E session \in issued.sessions :
             /\ session.authority = number
             /\ Go([Narrowed(number, m) EXCEPT !.policy = session.policy, !.store = session.store])
       \/ \E policy \in issued.policies : Go([Narrowed(number, m) EXCEPT !.policy = policy])

\* requireAuthorizedDirectory: a path that leads elsewhere ends the collection; one
\* that is gone leaves the remote history.
Refound(p, next) ==
    LET found == Canonical(p)
    IN  CASE found = p -> Go(next)
          [] found = Nowhere -> Go([visit EXCEPT !.pc = "consult"])
          [] OTHER -> Go(NoVisit)

RevisitRoot == VisitIs("root") /\ Refound(visit.top, [visit EXCEPT !.pc = "repository"])
RevisitRepository ==
    LET p == visit.repository.path
    IN  /\ VisitIs("repository")
        /\ Refound(p, IF Contained(visit.top, p)
                      THEN [visit EXCEPT !.pc = "consult", !.entered = p] ELSE NoVisit)

\* isIssuedPublicHistoryConfigForRepository: the policy was made with this object.
MutantGrants(policy, repository) ==
    repository.id \in DOMAIN policy.bound /\ policy.bound[repository.id].root = repository.root
Grants(policy, repository) ==
    repository.id \in DOMAIN policy.bound /\ policy.bound[repository.id] = repository

\* A whole local history ends the collection, and so does a policy that does not grant
\* the remote one.
Consult ==
    /\ VisitIs("consult")
    /\ IF visit.policy # Nowhere /\ Grants(visit.policy, visit.repository)
       THEN \/ Go([visit EXCEPT !.pc = "remote",
                                !.remote = visit.policy.bound[visit.repository.id]])
            \/ visit.entered # Nowhere /\ Go(NoVisit)
       ELSE Go(NoVisit)
EndVisit == VisitIs("remote") /\ Go(NoVisit)

-----------------------------------------------------------------------------
AuthorityInit ==
    /\ links = [now |-> {}, changes |-> 0]
    /\ setup = NoSetup /\ visit = NoVisit
    /\ issued = [authorities |-> <<>>, policies |-> {}, sessions |-> {}]

AuthorityNext ==
    \/ \E p \in DOMAIN LinkTo : Relink(p)
    \/ \E c \in Configurations : Configure(c)
    \/ \E r \in setup.left : ResolveRoot(r)
    \/ RootsResolved
    \/ \E m \in setup.left : ResolveRepository(m)
    \/ IssueAuthority \/ ResolveStore \/ Compose
    \/ \E number \in DOMAIN issued.authorities :
          \E m \in DOMAIN issued.authorities[number].repositories : Visit(number, m)
    \/ RevisitRoot \/ RevisitRepository \/ Consult \/ EndVisit

-----------------------------------------------------------------------------
(* Properties *)

\* A directory that a collection enters is, at that moment, the one that the owner's
\* configuration resolved to, below the root that it is listed under, and apart from
\* the store, whatever was relinked between the resolution of the root, of the
\* repository and of the store, and before the collection
\* (authorized-repository-config.ts:149, local-community-runtime.ts:89).
EntersConfigured ==
    visit.pc = "repository" /\ visit'.entered # Nowhere =>
        /\ Canonical(visit'.entered) = visit.repository.path
        /\ Contained(visit.top, visit'.entered)
        /\ visit.store # Nowhere => ~Overlaps(visit'.entered, visit.store)

\* A remote history is read for the directory that consent was given for: consent given
\* under one configuration does not serve another that uses the same names
\* (public-history-config.ts:209).
ConsentIsBound ==
    visit'.remote # Nowhere => visit'.remote.path = visit.repository.path

AuthorityHolds == [][EntersConfigured /\ ConsentIsBound]_authorityVars
=============================================================================
