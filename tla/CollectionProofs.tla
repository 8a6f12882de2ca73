-------------------------- MODULE CollectionProofs --------------------------
(***************************************************************************)
(* Proofs about Collection: about each collector for itself, in a behaviour *)
(* in which one of them is at work.                                        *)
(***************************************************************************)
EXTENDS Collection, OrderLemmas, FiniteSetTheorems

-----------------------------------------------------------------------------
(* One collector is at work *)

\* Every step is one of a collector or leaves its part of the state alone.
LEMMA StepsOfCollectors ==
    ASSUME [Next]_collectionVars
    PROVE  /\ [WalkNext]_walkVars /\ [HistoryNext]_historyVars /\ [ChildNext]_childVars
           /\ [SelectedNext]_selectedVars /\ [AuthorityNext]_authorityVars
<1>1. CASE UNCHANGED collectionVars
    BY <1>1 DEF collectionVars
<1>2. CASE Next
    BY <1>2 DEF Next, Rest, Collectors
<1> QED BY <1>1, <1>2

-----------------------------------------------------------------------------
(* The owner's authority *)

\* The parts of the resolution, of what was issued and of a collection.
AuthorityShapes ==
    /\ setup \in [pc : {setup.pc}, config : {setup.config}, left : {setup.left},
                  roots : {setup.roots}, repositories : {setup.repositories},
                  store : {setup.store}]
    /\ issued \in [authorities : {issued.authorities}, policies : {issued.policies},
                   sessions : {issued.sessions}]
    /\ issued.authorities \in Seq({issued.authorities[i] : i \in DOMAIN issued.authorities})
    /\ visit \in [pc : {visit.pc}, repository : {visit.repository}, top : {visit.top},
                  policy : {visit.policy}, store : {visit.store}, entered : {visit.entered},
                  remote : {visit.remote}]

\* The resolution goes on with the repositories of the authority that it issued last.
SetupIsOfLast ==
    setup.pc \in {"store", "compose"} =>
        /\ Len(issued.authorities) > 0
        /\ issued.authorities[Len(issued.authorities)].repositories = setup.repositories

\* A session keeps its store apart from the repositories of its authority.
Apart(number, store) ==
    \A m \in DOMAIN issued.authorities[number].repositories :
        ~Overlaps(issued.authorities[number].repositories[m].path, store)
SessionsApart ==
    \A session \in issued.sessions :
        /\ session.authority \in 1..Len(issued.authorities)
        /\ Apart(session.authority, session.store)

\* A collection is apart from its session's store, enters nothing before it has found
\* the repository, and asks for no remote history but the repository's.
VisitIsApart ==
    /\ visit.store # Nowhere => ~Overlaps(visit.repository.path, visit.store)
    /\ visit.pc \in {"root", "repository"} => visit.entered = Nowhere
    /\ visit.remote # Nowhere => visit.pc = "remote" /\ visit.remote = visit.repository

AuthorityInv == AuthorityShapes /\ SetupIsOfLast /\ SessionsApart /\ VisitIsApart

LEMMA AuthorityInitInv == AuthorityInit => AuthorityInv
<1> SUFFICES ASSUME AuthorityInit PROVE AuthorityInv
    OBVIOUS
<1> USE DEF AuthorityInit, NoSetup, NoVisit
<1>1. <<>> \in Seq({<<>>[i] : i \in DOMAIN <<>>})
    OBVIOUS
<1>2. AuthorityShapes
    BY <1>1 DEF AuthorityShapes
<1>3. SetupIsOfLast
    BY DEF SetupIsOfLast
<1>4. SessionsApart
    BY DEF SessionsApart
<1>5. VisitIsApart
    BY DEF VisitIsApart
<1> QED BY <1>2, <1>3, <1>4, <1>5 DEF AuthorityInv

\* The resolution moves on without issuing anything.
SetupMoves ==
    /\ UNCHANGED <<issued, visit>>
    /\ setup' \in [pc : {setup'.pc}, config : {setup'.config}, left : {setup'.left},
                   roots : {setup'.roots}, repositories : {setup'.repositories},
                   store : {setup'.store}]
    /\ setup'.pc \in {"store", "compose"} =>
          setup.pc \in {"store", "compose"} /\ setup'.repositories = setup.repositories

LEMMA AbandonMoves ==
    ASSUME Abandon, UNCHANGED visit
    PROVE  SetupMoves
BY DEF Abandon, NoSetup, SetupMoves

LEMMA ResolutionMoves ==
    ASSUME AuthorityInv,
           \/ \E c \in Configurations : Configure(c)
           \/ \E r \in setup.left : ResolveRoot(r)
           \/ RootsResolved
           \/ \E m \in setup.left : ResolveRepository(m)
           \/ ResolveStore
    PROVE  SetupMoves
<1> USE DEF AuthorityInv, AuthorityShapes, SetupIs
<1>1. ASSUME NEW c \in Configurations, Configure(c) PROVE SetupMoves
    BY <1>1 DEF Configure, NoSetup, SetupMoves
<1>2. ASSUME NEW r \in setup.left, ResolveRoot(r) PROVE SetupMoves
    <2> DEFINE p == Canonical(setup.config.roots[r])
    <2> DEFINE roots == (r :> p) @@ setup.roots
    <2>1. CASE Abandon
        BY <1>2, <2>1, AbandonMoves DEF ResolveRoot
    <2>2. CASE ~Abandon
        <3>1. /\ setup' = [setup EXCEPT !.left = @ \ {r}, !.roots = roots]
              /\ UNCHANGED <<issued, visit>> /\ setup.pc = "roots"
            BY <1>2, <2>2 DEF ResolveRoot
        <3> HIDE DEF roots
        <3> QED BY <3>1 DEF SetupMoves
    <2> QED BY <2>1, <2>2
<1>3. ASSUME RootsResolved PROVE SetupMoves
    BY <1>3 DEF RootsResolved, SetupMoves
<1>4. ASSUME NEW m \in setup.left, ResolveRepository(m) PROVE SetupMoves
    <2> DEFINE named == setup.config.repositories[m]
               top == setup.roots[named.root]
               p == Canonical(top \o named.relative)
               found == (m :> [id |-> m, root |-> named.root, path |-> p,
                               number |-> Len(issued.authorities) + 1]) @@ setup.repositories
    <2>1. CASE Abandon
        BY <1>4, <2>1, AbandonMoves DEF ResolveRepository
    <2>2. CASE ~Abandon
        <3>1. /\ setup' = [setup EXCEPT !.left = @ \ {m}, !.repositories = found]
              /\ UNCHANGED <<issued, visit>> /\ setup.pc = "repositories"
            BY <1>4, <2>2 DEF ResolveRepository
        <3> HIDE DEF found
        <3> QED BY <3>1 DEF SetupMoves
    <2> QED BY <2>1, <2>2
<1>5. ASSUME ResolveStore PROVE SetupMoves
    <2> DEFINE p == Canonical(setup.config.store)
    <2>1. CASE Abandon
        BY <1>5, <2>1, AbandonMoves DEF ResolveStore
    <2>2. CASE ~Abandon
        <3>1. /\ setup' = [setup EXCEPT !.pc = "compose", !.store = p]
              /\ UNCHANGED <<issued, visit>> /\ setup.pc = "store"
            BY <1>5, <2>2 DEF ResolveStore
        <3> HIDE DEF p
        <3> QED BY <3>1 DEF SetupMoves
    <2> QED BY <2>1, <2>2
<1> QED BY <1>1, <1>2, <1>3, <1>4, <1>5

LEMMA MovesKeepAuthority ==
    ASSUME AuthorityInv, SetupMoves
    PROVE  AuthorityInv'
<1> USE DEF AuthorityInv, SetupMoves
<1>1. AuthorityShapes'
    BY DEF AuthorityShapes
<1>2. SetupIsOfLast'
    BY DEF SetupIsOfLast
<1>3. SessionsApart'
    BY DEF SessionsApart, Apart
<1>4. VisitIsApart'
    BY DEF VisitIsApart
<1> QED BY <1>1, <1>2, <1>3, <1>4

\* An authority that is issued leaves the earlier ones as they are.
LEMMA IssueKeepsAuthority ==
    ASSUME AuthorityInv, IssueAuthority
    PROVE  AuthorityInv'
<1> DEFINE s == issued.authorities
           a == [roots |-> setup.roots, repositories |-> setup.repositories]
           t == Append(s, a)
<1>1. /\ issued' = [issued EXCEPT !.authorities = t] /\ setup' = [setup EXCEPT !.pc = "store"]
      /\ UNCHANGED visit
    BY DEF IssueAuthority, SetupIs
<1>2. s \in Seq({s[i] : i \in DOMAIN s})
    BY DEF AuthorityInv, AuthorityShapes
<1>3. a.repositories = setup.repositories
    OBVIOUS
<1> HIDE DEF a
<1>4. /\ t \in Seq({s[i] : i \in DOMAIN s} \cup {a})
      /\ Len(s) \in Nat /\ Len(t) = Len(s) + 1 /\ DOMAIN s = 1..Len(s) /\ DOMAIN t = 1..Len(t)
      /\ t[Len(t)] = a
      /\ \A i \in 1..Len(s) : t[i] = s[i]
    BY <1>2
<1> HIDE DEF t, s
<1>5. t \in Seq({t[i] : i \in DOMAIN t})
    <2> DEFINE R == {t[i] : i \in DOMAIN t}
    <2>1. \A i \in DOMAIN t : t[i] \in R
        OBVIOUS
    <2>2. t = [i \in 1..Len(t) |-> t[i]]
        BY <1>4
    <2> HIDE DEF R
    <2>3. t \in [1..Len(t) -> R]
        BY <2>1, <2>2, <1>4
    <2>4. Len(t) \in Nat
        BY <1>4
    <2>5. t \in Seq(R)
        BY <2>3, <2>4
    <2> QED BY <2>5 DEF R
<1>6. /\ issued'.authorities = t /\ issued'.sessions = issued.sessions
      /\ issued' \in [authorities : {issued'.authorities}, policies : {issued'.policies},
                      sessions : {issued'.sessions}]
    BY <1>1 DEF AuthorityInv, AuthorityShapes
<1>7. /\ setup'.repositories = setup.repositories
      /\ setup' \in [pc : {setup'.pc}, config : {setup'.config}, left : {setup'.left},
                     roots : {setup'.roots}, repositories : {setup'.repositories},
                     store : {setup'.store}]
    BY <1>1 DEF AuthorityInv, AuthorityShapes
<1>8. AuthorityShapes'
    BY <1>1, <1>5, <1>6, <1>7 DEF AuthorityInv, AuthorityShapes
<1>9. SetupIsOfLast'
    BY <1>3, <1>4, <1>6, <1>7 DEF SetupIsOfLast
<1>10. SessionsApart'
    <2> SUFFICES ASSUME NEW session \in issued.sessions
                 PROVE  /\ session.authority \in 1..Len(t)
                        /\ \A m \in DOMAIN t[session.authority].repositories :
                              ~Overlaps(t[session.authority].repositories[m].path, session.store)
        BY <1>6 DEF SessionsApart, Apart
    <2>1. /\ session.authority \in 1..Len(s)
          /\ \A m \in DOMAIN s[session.authority].repositories :
                ~Overlaps(s[session.authority].repositories[m].path, session.store)
        BY DEF AuthorityInv, SessionsApart, Apart, s
    <2>2. t[session.authority] = s[session.authority] /\ session.authority \in 1..Len(t)
        BY <1>4, <2>1
    <2> QED BY <2>1, <2>2
<1>11. VisitIsApart'
    BY <1>1 DEF AuthorityInv, VisitIsApart
<1> QED BY <1>8, <1>9, <1>10, <1>11 DEF AuthorityInv

\* A session is for the authority whose repositories its store was compared with.
LEMMA ComposeKeepsAuthority ==
    ASSUME AuthorityInv, Compose
    PROVE  AuthorityInv'
<1> DEFINE c == setup.config
           number == Len(issued.authorities)
           repositories == setup.repositories
           policy == IF DOMAIN c.consent = {} THEN Nowhere ELSE Policy(c, number, repositories)
           session == [authority |-> number, policy |-> policy, store |-> setup.store]
<1>1. SetupIs("compose")
    BY DEF Compose
<1>2. CASE Abandon
    BY <1>1, <1>2, AbandonMoves, MovesKeepAuthority DEF SetupIs
<1>3. CASE ~Abandon
    <2>1. /\ \A m \in DOMAIN repositories : ~Overlaps(repositories[m].path, setup.store)
          /\ setup' = NoSetup
          /\ issued' = [issued EXCEPT !.policies = @ \cup ({policy} \ {Nowhere}),
                                      !.sessions = @ \cup {session}]
        BY <1>3 DEF Compose
    <2>2. session.authority = number /\ session.store = setup.store
        OBVIOUS
    <2> HIDE DEF session, policy
    <2>3. /\ issued'.authorities = issued.authorities
          /\ issued'.sessions = issued.sessions \cup {session}
          /\ issued' \in [authorities : {issued'.authorities}, policies : {issued'.policies},
                          sessions : {issued'.sessions}]
        BY <2>1 DEF AuthorityInv, AuthorityShapes
    <2>4. UNCHANGED visit
        BY <1>1 DEF SetupIs
    <2>5. AuthorityShapes'
        BY <2>1, <2>3, <2>4 DEF AuthorityInv, AuthorityShapes, NoSetup
    <2>6. SetupIsOfLast'
        BY <2>1 DEF SetupIsOfLast, NoSetup
    <2>7. number \in Nat
        BY DEF AuthorityInv, AuthorityShapes
    <2>8. session.authority \in 1..Len(issued.authorities) /\ Apart(session.authority, session.store)
        BY <1>1, <2>1, <2>2, <2>7 DEF AuthorityInv, SetupIsOfLast, SetupIs, Apart
    <2>9. SessionsApart'
        BY <2>3, <2>8 DEF AuthorityInv, SessionsApart, Apart
    <2>10. VisitIsApart'
        BY <2>4 DEF AuthorityInv, VisitIsApart
    <2> QED BY <2>5, <2>6, <2>9, <2>10 DEF AuthorityInv
<1> QED BY <1>2, <1>3

\* A collection goes on with another record of its parts.
VisitGoes ==
    /\ UNCHANGED <<setup, issued>>
    /\ visit' \in [pc : {visit'.pc}, repository : {visit'.repository}, top : {visit'.top},
                   policy : {visit'.policy}, store : {visit'.store}, entered : {visit'.entered},
                   remote : {visit'.remote}]
    /\ VisitIsApart'

LEMMA VisitsKeepAuthority ==
    ASSUME AuthorityInv, VisitGoes
    PROVE  AuthorityInv'
<1> USE DEF AuthorityInv, VisitGoes
<1>1. AuthorityShapes'
    BY DEF AuthorityShapes
<1>2. SetupIsOfLast'
    BY DEF SetupIsOfLast
<1>3. SessionsApart'
    BY DEF SessionsApart, Apart
<1> QED BY <1>1, <1>2, <1>3

\* A collection that is given up is of no repository.
LEMMA LeavingGoes ==
    ASSUME UNCHANGED <<setup, issued>>, Go(NoVisit)
    PROVE  VisitGoes
BY DEF Go, NoVisit, VisitGoes, VisitIsApart

LEMMA VisitStarts ==
    ASSUME AuthorityInv, NEW number \in DOMAIN issued.authorities,
           NEW m \in DOMAIN issued.authorities[number].repositories, Visit(number, m)
    PROVE  VisitGoes
<1> DEFINE target == issued.authorities[number].repositories[m]
           top == issued.authorities[number].roots[target.root]
<1>1. Narrowed(number, m) = [NoVisit EXCEPT !.pc = "root", !.repository = target, !.top = top]
    BY DEF Narrowed
<1>2. visit.pc = "idle" /\ UNCHANGED <<setup, issued>>
    BY DEF Visit, VisitIs
<1> HIDE DEF target, top
<1>3. ASSUME NEW session \in issued.sessions, session.authority = number,
             Go([Narrowed(number, m) EXCEPT !.policy = session.policy, !.store = session.store])
      PROVE  VisitGoes
    <2>1. ~Overlaps(target.path, session.store)
        BY <1>3 DEF AuthorityInv, SessionsApart, Apart, target
    <2>2. /\ visit'.repository = target /\ visit'.store = session.store
          /\ visit'.pc = "root" /\ visit'.entered = Nowhere /\ visit'.remote = Nowhere
          /\ visit' \in [pc : {visit'.pc}, repository : {visit'.repository}, top : {visit'.top},
                   policy : {visit'.policy}, store : {visit'.store}, entered : {visit'.entered},
                   remote : {visit'.remote}]
        BY <1>1, <1>3 DEF Go, NoVisit
    <2> QED BY <1>2, <2>1, <2>2 DEF VisitGoes, VisitIsApart
<1>4. ASSUME NEW policy \in issued.policies, Go([Narrowed(number, m) EXCEPT !.policy = policy])
      PROVE  VisitGoes
    <2>1. /\ visit'.store = Nowhere
          /\ visit'.pc = "root" /\ visit'.entered = Nowhere /\ visit'.remote = Nowhere
          /\ visit' \in [pc : {visit'.pc}, repository : {visit'.repository}, top : {visit'.top},
                   policy : {visit'.policy}, store : {visit'.store}, entered : {visit'.entered},
                   remote : {visit'.remote}]
        BY <1>1, <1>4 DEF Go, NoVisit
    <2> QED BY <1>2, <2>1 DEF VisitGoes, VisitIsApart
<1> QED BY <1>3, <1>4 DEF Visit

\* Of a directory that is found again the collection goes on, of one that is gone it has
\* only the history, and one that is elsewhere ends it.
LEMMA RefoundGoes ==
    ASSUME AuthorityInv, UNCHANGED <<setup, issued>>, visit.pc \in {"root", "repository"},
           NEW p, NEW next, Refound(p, next), Go(next) => VisitGoes
    PROVE  VisitGoes
<1>1. Go(next) \/ Go([visit EXCEPT !.pc = "consult"]) \/ Go(NoVisit)
    BY DEF Refound
<1>2. ASSUME Go([visit EXCEPT !.pc = "consult"]) PROVE VisitGoes
    <2>1. /\ visit'.store = visit.store /\ visit'.repository = visit.repository
          /\ visit'.pc = "consult" /\ visit'.remote = visit.remote
          /\ visit' \in [pc : {visit'.pc}, repository : {visit'.repository}, top : {visit'.top},
                   policy : {visit'.policy}, store : {visit'.store}, entered : {visit'.entered},
                   remote : {visit'.remote}]
        BY <1>2 DEF Go, AuthorityInv, AuthorityShapes
    <2> QED BY <2>1 DEF AuthorityInv, VisitGoes, VisitIsApart
<1> QED BY <1>1, <1>2, LeavingGoes

LEMMA RevisitRootGoes ==
    ASSUME AuthorityInv, RevisitRoot
    PROVE  VisitGoes
<1>1. /\ visit.pc = "root" /\ UNCHANGED <<setup, issued>>
      /\ Refound(visit.top, [visit EXCEPT !.pc = "repository"])
    BY DEF RevisitRoot, VisitIs
<1>2. ASSUME Go([visit EXCEPT !.pc = "repository"]) PROVE VisitGoes
    <2>1. /\ visit'.store = visit.store /\ visit'.repository = visit.repository
          /\ visit'.pc = "repository" /\ visit'.remote = visit.remote
          /\ visit'.entered = visit.entered
          /\ visit' \in [pc : {visit'.pc}, repository : {visit'.repository}, top : {visit'.top},
                   policy : {visit'.policy}, store : {visit'.store}, entered : {visit'.entered},
                   remote : {visit'.remote}]
        BY <1>2 DEF Go, AuthorityInv, AuthorityShapes
    <2> QED BY <1>1, <2>1 DEF AuthorityInv, VisitGoes, VisitIsApart
<1> QED BY <1>1, <1>2, RefoundGoes

LEMMA RevisitRepositoryGoes ==
    ASSUME AuthorityInv, RevisitRepository
    PROVE  VisitGoes
<1> DEFINE p == visit.repository.path
           next == IF Contained(visit.top, p)
                   THEN [visit EXCEPT !.pc = "consult", !.entered = p] ELSE NoVisit
<1>1. /\ visit.pc = "repository" /\ UNCHANGED <<setup, issued>> /\ Refound(p, next)
    BY DEF RevisitRepository, VisitIs
<1>2. ASSUME Go(next) PROVE VisitGoes
    <2>1. CASE Contained(visit.top, p)
        <3>1. /\ visit'.store = visit.store /\ visit'.repository = visit.repository
              /\ visit'.pc = "consult" /\ visit'.remote = visit.remote
              /\ visit' \in [pc : {visit'.pc}, repository : {visit'.repository}, top : {visit'.top},
                       policy : {visit'.policy}, store : {visit'.store},
                       entered : {visit'.entered}, remote : {visit'.remote}]
            BY <1>2, <2>1 DEF Go, AuthorityInv, AuthorityShapes
        <3> QED BY <1>1, <3>1 DEF AuthorityInv, VisitGoes, VisitIsApart
    <2>2. CASE ~Contained(visit.top, p)
        BY <1>1, <1>2, <2>2, LeavingGoes
    <2> QED BY <2>1, <2>2
<1> HIDE DEF p, next
<1> QED BY <1>1, <1>2, RefoundGoes

\* The remote history is of the repository that the policy was made with.
LEMMA ConsultGoes ==
    ASSUME AuthorityInv, Consult
    PROVE  VisitGoes
<1>1. visit.pc = "consult" /\ UNCHANGED <<setup, issued>>
    BY DEF Consult, VisitIs
<1>2. CASE Go(NoVisit)
    BY <1>1, <1>2, LeavingGoes
<1>3. CASE ~Go(NoVisit)
    <2> DEFINE bound == visit.policy.bound[visit.repository.id]
    <2>1. bound = visit.repository /\ Go([visit EXCEPT !.pc = "remote", !.remote = bound])
        BY <1>3 DEF Consult, Grants
    <2> HIDE DEF bound
    <2>2. /\ visit'.store = visit.store /\ visit'.repository = visit.repository
          /\ visit'.pc = "remote" /\ visit'.remote = visit.repository
          /\ visit' \in [pc : {visit'.pc}, repository : {visit'.repository}, top : {visit'.top},
                   policy : {visit'.policy}, store : {visit'.store}, entered : {visit'.entered},
                   remote : {visit'.remote}]
        BY <2>1 DEF Go, AuthorityInv, AuthorityShapes
    <2> QED BY <1>1, <2>2 DEF AuthorityInv, VisitGoes, VisitIsApart
<1> QED BY <1>2, <1>3

LEMMA EndVisitGoes ==
    ASSUME AuthorityInv, EndVisit
    PROVE  VisitGoes
BY LeavingGoes DEF EndVisit, VisitIs

LEMMA NextKeepsAuthority ==
    ASSUME AuthorityInv, [AuthorityNext]_authorityVars
    PROVE  AuthorityInv'
<1>1. CASE UNCHANGED <<setup, issued, visit>>
    BY <1>1 DEF AuthorityInv, AuthorityShapes, SetupIsOfLast, SessionsApart, Apart, VisitIsApart
<1>2. CASE SetupMoves
    BY <1>2, MovesKeepAuthority
<1>3. CASE VisitGoes
    BY <1>3, VisitsKeepAuthority
<1>4. CASE AuthorityNext
    <2>1. CASE \E p \in DOMAIN LinkTo : Relink(p)
        BY <1>1, <2>1 DEF Relink
    <2>2. CASE \/ \E c \in Configurations : Configure(c)
               \/ \E r \in setup.left : ResolveRoot(r)
               \/ RootsResolved
               \/ \E m \in setup.left : ResolveRepository(m)
               \/ ResolveStore
        BY <1>2, <2>2, ResolutionMoves
    <2>3. CASE IssueAuthority \/ Compose
        BY <2>3, IssueKeepsAuthority, ComposeKeepsAuthority
    <2>4. CASE \E number \in DOMAIN issued.authorities :
                  \E m \in DOMAIN issued.authorities[number].repositories : Visit(number, m)
        BY <1>3, <2>4, VisitStarts
    <2>5. CASE RevisitRoot \/ RevisitRepository \/ Consult \/ EndVisit
        BY <1>3, <2>5, RevisitRootGoes, RevisitRepositoryGoes, ConsultGoes, EndVisitGoes
    <2> QED BY <1>4, <2>1, <2>2, <2>3, <2>4, <2>5 DEF AuthorityNext
<1> QED BY <1>1, <1>4 DEF authorityVars

\* A step enters no directory but the one found where the configuration resolved to.
LEMMA StepEntersConfigured ==
    ASSUME AuthorityInv, AuthorityNext
    PROVE  EntersConfigured
<1> SUFFICES ASSUME visit.pc = "repository", visit'.entered # Nowhere
             PROVE  /\ Canonical(visit'.entered) = visit.repository.path
                    /\ Contained(visit.top, visit'.entered)
                    /\ visit.store # Nowhere => ~Overlaps(visit'.entered, visit.store)
    BY DEF EntersConfigured
<1>1. visit.entered = Nowhere /\ visit' # visit
    BY DEF AuthorityInv, VisitIsApart
<1>2. RevisitRepository
    BY <1>1 DEF AuthorityNext, Relink, Configure, ResolveRoot, RootsResolved, ResolveRepository,
                IssueAuthority, ResolveStore, Compose, SetupIs, Visit, RevisitRoot, Consult,
                EndVisit, VisitIs
<1> DEFINE p == visit.repository.path
           next == IF Contained(visit.top, p)
                   THEN [visit EXCEPT !.pc = "consult", !.entered = p] ELSE NoVisit
<1>3. ~Go(NoVisit) /\ ~Go([visit EXCEPT !.pc = "consult"])
    BY <1>1 DEF Go, NoVisit, AuthorityInv, AuthorityShapes
<1>4. Canonical(p) = p /\ Go(next)
    BY <1>2, <1>3 DEF RevisitRepository, Refound
<1>5. Contained(visit.top, p) /\ Go([visit EXCEPT !.pc = "consult", !.entered = p])
    BY <1>3, <1>4
<1>6. visit'.entered = p
    BY <1>5 DEF Go, AuthorityInv, AuthorityShapes
<1> QED BY <1>4, <1>5, <1>6 DEF AuthorityInv, VisitIsApart

\* A step asks for no remote history but that of the visited repository.
LEMMA StepBindsConsent ==
    ASSUME AuthorityInv, [AuthorityNext]_authorityVars
    PROVE  UNCHANGED authorityVars \/ ConsentIsBound
<1> SUFFICES ASSUME AuthorityNext, visit'.remote # Nowhere
             PROVE  visit'.remote.path = visit.repository.path
    BY DEF ConsentIsBound
<1>1. AuthorityInv'
    BY NextKeepsAuthority
<1>2. visit'.pc = "remote" /\ visit'.remote = visit'.repository
    BY <1>1 DEF AuthorityInv, VisitIsApart
<1>3. CASE UNCHANGED visit
    BY <1>2, <1>3
<1>4. CASE ~UNCHANGED visit
    <2>1. \/ \E number \in DOMAIN issued.authorities :
                \E m \in DOMAIN issued.authorities[number].repositories : Visit(number, m)
          \/ RevisitRoot \/ RevisitRepository \/ Consult \/ EndVisit
        BY <1>4 DEF AuthorityNext, Relink, Configure, ResolveRoot, RootsResolved,
                    ResolveRepository, IssueAuthority, ResolveStore, Compose, SetupIs
    <2>2. ~Go(NoVisit)
        BY <1>2 DEF Go, NoVisit
    <2>3. CASE \E number \in DOMAIN issued.authorities :
                  \E m \in DOMAIN issued.authorities[number].repositories : Visit(number, m)
        BY <1>2, <2>3 DEF Visit, Narrowed, NoVisit, Go
    <2>4. CASE RevisitRoot \/ RevisitRepository
        BY <1>2, <2>2, <2>4
           DEF RevisitRoot, RevisitRepository, Refound, Go, AuthorityInv, AuthorityShapes
    <2>5. CASE Consult \/ EndVisit
        BY <1>2, <2>2, <2>5 DEF Consult, EndVisit, Go, AuthorityInv, AuthorityShapes
    <2> QED BY <2>1, <2>3, <2>4, <2>5
<1> QED BY <1>3, <1>4

\* Whatever is relinked while a configuration is resolved and used, a collection enters
\* only the directory that it resolved to, apart from its store, and asks GitHub only for
\* the repository that consent was given with (requireAuthorizedDirectory,
\* isIssuedPublicHistoryConfigForRepository).
THEOREM AuthorityIsKept == Spec => AuthorityHolds
<1>1. Init => AuthorityInv
    BY AuthorityInitInv DEF Init
<1>2. AuthorityInv /\ [Next]_collectionVars => AuthorityInv'
    BY StepsOfCollectors, NextKeepsAuthority
<1>3. AuthorityInv /\ [Next]_collectionVars => [EntersConfigured /\ ConsentIsBound]_authorityVars
    BY StepsOfCollectors, StepEntersConfigured, StepBindsConsent
<1> QED BY <1>1, <1>2, <1>3, PTL DEF Spec, AuthorityHolds

-----------------------------------------------------------------------------
(* The owner's selected repositories *)

\* What a request of the program asks for.
KindAt(i) == reader.program[i][2]
ObjectKinds == {"ref", "head", "tree", "blob", "commit"}
Kinds == {"user", "metadata"} \cup ObjectKinds
IsObject(i) == KindAt(i) \in ObjectKinds
IsMetadata(i) == KindAt(i) = "metadata"

SelectedShapes ==
    /\ reader \in [pc : {reader.pc}, requests : {reader.requests}, result : {reader.result},
                   program : Seq(Selections \X Kinds),
                   observation : [id : {reader.observation.id}, revision : {reader.observation.revision},
                                  from : {reader.observation.from}],
                   observations : {reader.observations}]
    /\ host \in [granted : BOOLEAN, late : Nat, edits : {host.edits}, hidden : {host.hidden},
                 denotes : {host.denotes}, tip : {host.tip}, tips : {host.tips}]

\* Names denote repositories, and every tip there was is known.
ServiceKnown ==
    reader.pc # "done" =>
        /\ host.denotes \in [Selections -> Identifiers]
        /\ host.tip \in [Identifiers -> Nat]
        /\ \A id \in Identifiers : <<id, host.tip[id]>> \in host.tips

\* Objects are asked for between the first metadata and the last.
Opens(j) ==
    /\ IsMetadata(j)
    /\ \A i \in DOMAIN reader.program : IsObject(i) => j < i
    /\ \A k \in DOMAIN reader.program \ {j} :
          IsMetadata(k) => \A i \in DOMAIN reader.program : IsObject(i) => i < k
NoneOpen == \A k, i \in DOMAIN reader.program : IsMetadata(k) /\ IsObject(i) => i < k
ProgramOrderly ==
    IF reader.observation = NoObservation
    THEN \/ \A i \in DOMAIN reader.program : ~IsObject(i)
         \/ \E j \in DOMAIN reader.program : Opens(j)
    ELSE reader.observation.id \in Identifiers /\ NoneOpen

\* What has been observed since the metadata is of the repository they gave.
OfOne(observation) ==
    /\ observation.from \subseteq {observation.id}
    /\ observation.revision # 0 => <<observation.id, observation.revision>> \in host.tips

\* A request that left without authority is the last one.
LateIsLast ==
    host.late > 0 =>
        /\ host.late = 1 /\ ~host.granted
        /\ reader.pc \in {"answer", "done"}
        /\ reader.pc = "done" => reader.result # "ok"

\* What is sent is the first of the program.
Asked == reader.pc \in {"send", "sent", "answer"} => reader.program # <<>>

SelectedInv ==
    /\ SelectedShapes /\ ServiceKnown /\ Asked /\ ProgramOrderly /\ LateIsLast
    /\ OfOne(reader.observation) /\ \A o \in reader.observations : OfOne(o[2])

LEMMA EndpointsShape ==
    ASSUME NEW operation \in {"discover", "probe", "collect"}, NEW content \in BOOLEAN,
           NEW history \in BOOLEAN, NEW ancestors \in Nat,
           NEW wanted, wanted = [content |-> content, history |-> history, ancestors |-> ancestors]
    PROVE  /\ Endpoints(operation, wanted) \in Seq(Kinds)
           /\ Len(Endpoints(operation, wanted)) >= 2
           /\ \A i \in DOMAIN Endpoints(operation, wanted) :
                 Endpoints(operation, wanted)[i] \in
                    IF i = 1 \/ i = Len(Endpoints(operation, wanted)) THEN {"metadata"} ELSE ObjectKinds
<1> DEFINE objects == Objects(operation, wanted)
           all == Endpoints(operation, wanted)
<1>1. Content(wanted) \in Seq(ObjectKinds)
    <2>1. <<"tree", "blob">> \in Seq(ObjectKinds) /\ <<>> \in Seq(ObjectKinds)
        BY DEF ObjectKinds
    <2> HIDE DEF ObjectKinds
    <2> QED BY <2>1 DEF Content
<1>2. History(wanted) \in Seq(ObjectKinds)
    BY DEF History, ObjectKinds
<1>3. objects \in Seq(ObjectKinds)
    <2>1. <<"ref", "head">> \in Seq(ObjectKinds) /\ <<"ref">> \in Seq(ObjectKinds)
        BY DEF ObjectKinds
    <2> HIDE DEF ObjectKinds
    <2>2. <<"ref", "head">> \o Content(wanted) \o History(wanted) \in Seq(ObjectKinds)
        BY <1>1, <1>2, <2>1
    <2> QED BY <2>1, <2>2 DEF Objects
<1>4. all = <<"metadata">> \o objects \o <<"metadata">>
    BY DEF Endpoints
<1> HIDE DEF objects, all
<1>5. /\ all \in Seq(Kinds) /\ Len(objects) \in Nat /\ Len(all) = Len(objects) + 2
      /\ all[1] = "metadata" /\ all[Len(all)] = "metadata"
      /\ \A i \in 1..Len(objects) : all[i + 1] = objects[i]
    BY <1>3, <1>4 DEF Kinds
<1>6. ASSUME NEW i \in DOMAIN all, i # 1, i # Len(all) PROVE all[i] \in ObjectKinds
    <2>1. i - 1 \in 1..Len(objects) /\ i = (i - 1) + 1
        BY <1>5, <1>6
    <2>2. all[i] = objects[i - 1]
        BY <1>5, <2>1
    <2> QED BY <1>3, <2>1, <2>2
<1> QED BY <1>5, <1>6 DEF all

\* A sequence between a request and the same request.
LEMMA Enclosed ==
    ASSUME NEW S, NEW s \in Seq(S), NEW u \in Seq(S)
    PROVE  /\ u \o s \o u \in Seq(S) /\ Len(u \o s \o u) = Len(u) + Len(s) + Len(u)
           /\ \A i \in 1..(Len(u) + Len(s) + Len(u)) :
                 (u \o s \o u)[i] = IF i <= Len(u) THEN u[i]
                                    ELSE IF i <= Len(u) + Len(s) THEN s[i - Len(u)]
                                    ELSE u[i - (Len(u) + Len(s))]
<1> DEFINE us == u \o s
<1>1. Len(s) \in Nat /\ Len(u) \in Nat
    BY LenProperties
<1>5. us \in Seq(S)
    BY ConcatProperties
<1>2. /\ Len(us) = Len(u) + Len(s)
      /\ \A i \in 1..(Len(u) + Len(s)) : us[i] = IF i <= Len(u) THEN u[i] ELSE s[i - Len(u)]
    BY ConcatProperties
<1>3. /\ us \o u \in Seq(S) /\ Len(us \o u) = Len(us) + Len(u)
      /\ \A i \in 1..(Len(us) + Len(u)) :
            (us \o u)[i] = IF i <= Len(us) THEN us[i] ELSE u[i - Len(us)]
    <2> HIDE DEF us
    <2> QED BY <1>5, ConcatProperties
<1> HIDE DEF us
<1>4. \A i \in 1..(Len(u) + Len(s) + Len(u)) :
            (us \o u)[i] = IF i <= Len(u) + Len(s) THEN us[i] ELSE u[i - (Len(u) + Len(s))]
    BY <1>2, <1>3
<1> QED BY <1>1, <1>2, <1>3, <1>4 DEF us

\* A read begins with a program of one selection.
LEMMA SelectedInitInv == SelectedInit => SelectedInv
<1> SUFFICES ASSUME SelectedInit PROVE SelectedInv
    OBVIOUS
<1>1. /\ host \in [granted : {TRUE}, late : {0}, edits : {0}, hidden : {{}},
                   denotes : [Selections -> Identifiers], tip : {[id \in Identifiers |-> 1]},
                   tips : {{<<id, 1>> : id \in Identifiers}}]
    BY DEF SelectedInit
<1>2. PICK operation \in {"discover", "probe", "collect"}, content \in BOOLEAN,
           history \in BOOLEAN, ancestors \in 0..(CommitLimit - 1), name \in Selections :
          LET wanted == [content |-> content, history |-> history, ancestors |-> ancestors]
              named == [i \in DOMAIN Endpoints(operation, wanted) |->
                          <<name, Endpoints(operation, wanted)[i]>>]
          IN  reader = [pc |-> "prepare", requests |-> 0, result |-> "none",
                        program |-> <<<<name, "user">>>> \o named \o <<<<name, "user">>>>,
                        observation |-> NoObservation, observations |-> {}]
    BY DEF SelectedInit
<1> DEFINE wanted == [content |-> content, history |-> history, ancestors |-> ancestors]
           all == Endpoints(operation, wanted)
           named == [i \in DOMAIN all |-> <<name, all[i]>>]
           user == <<<<name, "user">>>>
           program == user \o named \o user
<1>3. reader = [pc |-> "prepare", requests |-> 0, result |-> "none", program |-> program,
                observation |-> NoObservation, observations |-> {}]
    BY <1>2
<1>4. ancestors \in Nat
    BY SelectionAssumption
<1>5. /\ all \in Seq(Kinds) /\ Len(all) >= 2
      /\ \A i \in DOMAIN all : all[i] \in IF i = 1 \/ i = Len(all) THEN {"metadata"} ELSE ObjectKinds
    <2> HIDE DEF all
    <2>1. wanted = [content |-> content, history |-> history, ancestors |-> ancestors]
        OBVIOUS
    <2> HIDE DEF wanted
    <2> QED BY <1>4, <2>1, EndpointsShape DEF all
<1> HIDE DEF all, wanted
<1>6. named \in Seq(Selections \X Kinds) /\ Len(named) = Len(all) /\ Len(all) \in Nat
      /\ DOMAIN all = 1..Len(all)
    BY <1>5
<1>7. \A i \in 1..Len(all) : named[i] = <<name, all[i]>>
    BY <1>6
<1> HIDE DEF named
<1>8. user \in Seq(Selections \X Kinds) /\ Len(user) = 1 /\ user[1] = <<name, "user">>
    BY DEF Kinds
<1> HIDE DEF user
<1>9. /\ program \in Seq(Selections \X Kinds) /\ Len(program) = Len(all) + 2
      /\ program[1] = <<name, "user">> /\ program[Len(program)] = <<name, "user">>
      /\ \A i \in 1..Len(all) : program[i + 1] = <<name, all[i]>>
    <2> DEFINE S == Selections \X Kinds
    <2> HIDE DEF S
    <2>1. /\ program \in Seq(S) /\ Len(program) = Len(user) + Len(named) + Len(user)
          /\ \A i \in 1..(Len(user) + Len(named) + Len(user)) :
                 program[i] = IF i <= Len(user) THEN user[i]
                              ELSE IF i <= Len(user) + Len(named) THEN named[i - Len(user)]
                              ELSE user[i - (Len(user) + Len(named))]
        BY <1>6, <1>8, Enclosed DEF S
    <2> HIDE DEF program
    <2>2. /\ program[1] = user[1] /\ program[Len(all) + 2] = user[1] /\ Len(program) = Len(all) + 2
          /\ \A i \in 1..Len(all) : program[i + 1] = named[i]
        BY <1>6, <1>8, <2>1, SMTT(30)
    <2> QED BY <1>6, <1>7, <1>8, <2>1, <2>2 DEF S
<1> HIDE DEF program
<1>10. reader.program = program /\ reader.observation = NoObservation
    BY <1>3
<1>11. SelectedShapes
    <2>1. reader \in [pc : {reader.pc}, requests : {reader.requests}, result : {reader.result},
                      program : Seq(Selections \X Kinds),
                      observation : [id : {reader.observation.id},
                                     revision : {reader.observation.revision},
                                     from : {reader.observation.from}],
                      observations : {reader.observations}]
        <3> DEFINE S == Seq(Selections \X Kinds)
        <3>1. program \in S
            BY <1>9
        <3> HIDE DEF S
        <3>2. reader \in [pc : {reader.pc}, requests : {reader.requests}, result : {reader.result},
                          program : S,
                          observation : [id : {reader.observation.id},
                                         revision : {reader.observation.revision},
                                         from : {reader.observation.from}],
                          observations : {reader.observations}]
            BY <1>3, <3>1 DEF NoObservation
        <3> QED BY <3>2 DEF S
    <2>2. host \in [granted : BOOLEAN, late : Nat, edits : {host.edits}, hidden : {host.hidden},
                    denotes : {host.denotes}, tip : {host.tip}, tips : {host.tips}]
        <3> DEFINE D == [Selections -> Identifiers]
                   T == {[id \in Identifiers |-> 1]}
                   U == {{<<id, 1>> : id \in Identifiers}}
        <3> HIDE DEF D, T, U
        <3>1. host \in [granted : {TRUE}, late : {0}, edits : {0}, hidden : {{}},
                        denotes : D, tip : T, tips : U]
            BY <1>1 DEF D, T, U
        <3>2. host.granted \in BOOLEAN /\ host.late \in Nat
            <4>1. host.granted = TRUE /\ host.late = 0
                BY <1>1
            <4>2. host.granted \in BOOLEAN
                BY <4>1, Zenon
            <4>3. host.late \in Nat
                BY <4>1
            <4> QED BY <4>2, <4>3
        <3> QED BY <3>1, <3>2
    <2> QED BY <2>1, <2>2 DEF SelectedShapes
<1>12. ServiceKnown
    BY <1>1 DEF ServiceKnown
<1>13. \A i \in DOMAIN program : 
          /\ IsObject(i) => i > 2 /\ i < Len(all) + 1
          /\ IsMetadata(i) => i = 2 \/ i = Len(all) + 1
    <2> TAKE i \in DOMAIN program
    <2>1. i \in 1..(Len(all) + 2)
        BY <1>6, <1>9
    <2>2. CASE i = 1 \/ i = Len(all) + 2
        BY <1>9, <1>10, <2>2 DEF IsObject, IsMetadata, KindAt, ObjectKinds
    <2>3. CASE i \in 2..(Len(all) + 1)
        <3>1. i - 1 \in 1..Len(all) /\ i = (i - 1) + 1
            BY <1>6, <2>3
        <3>2. KindAt(i) = all[i - 1]
            BY <1>9, <1>10, <3>1 DEF KindAt
        <3>3. all[i - 1] \in IF i = 2 \/ i = Len(all) + 1 THEN {"metadata"} ELSE ObjectKinds
            BY <1>5, <1>6, <3>1
        <3>4. IF i = 2 \/ i = Len(all) + 1 THEN ~IsObject(i) ELSE ~IsMetadata(i)
            BY <3>2, <3>3 DEF IsObject, IsMetadata, ObjectKinds
        <3> QED BY <1>6, <2>3, <3>4
    <2> QED BY <1>6, <2>1, <2>2, <2>3
<1>14. IsMetadata(2)
    <2>1. 1 \in DOMAIN all /\ 2 = 1 + 1 /\ 1 \in 1..Len(all)
        BY <1>5, <1>6
    <2>2. all[1] = "metadata" /\ program[2] = <<name, all[1]>>
        BY <1>5, <1>9, <2>1
    <2> QED BY <1>10, <2>2 DEF IsMetadata, KindAt
<1>15. ProgramOrderly
    <2>1. 2 \in DOMAIN program /\ \A i \in DOMAIN program : i \in Nat
        BY <1>5, <1>6, <1>9
    <2>2. Opens(2)
        BY <1>6, <1>10, <1>13, <1>14, <2>1 DEF Opens
    <2> QED BY <1>10, <2>1, <2>2 DEF ProgramOrderly
<1>16. LateIsLast
    BY <1>1 DEF LateIsLast
<1>17. OfOne(reader.observation) /\ \A o \in reader.observations : OfOne(o[2])
    BY <1>3 DEF OfOne, NoObservation
<1>18. Asked
    BY <1>3 DEF Asked
<1> QED BY <1>11, <1>12, <1>15, <1>16, <1>17, <1>18 DEF SelectedInv

LEMMA SelectedRestsInv == SelectedRests => SelectedInv
<1> SUFFICES ASSUME SelectedRests PROVE SelectedInv
    OBVIOUS
<1> USE DEF SelectedRests, NoObservation
<1>1. SelectedShapes
    <2>1. <<>> \in Seq(Selections \X Kinds)
        OBVIOUS
    <2> QED BY <2>1 DEF SelectedShapes
<1>2. ServiceKnown
    BY DEF ServiceKnown
<1>3. ProgramOrderly
    BY DEF ProgramOrderly
<1>4. LateIsLast
    BY DEF LateIsLast
<1>5. OfOne(reader.observation) /\ \A o \in reader.observations : OfOne(o[2])
    BY DEF OfOne
<1>6. Asked
    BY DEF Asked
<1> QED BY <1>1, <1>2, <1>3, <1>4, <1>5, <1>6 DEF SelectedInv

\* A step of the reader that leaves its program and its observations alone.
ReaderKeeps ==
    /\ reader' \in [pc : {reader'.pc}, requests : {reader'.requests}, result : {reader'.result},
                    program : {reader.program}, observation : {reader.observation},
                    observations : {reader.observations}]
    /\ reader'.pc \in {"send", "sent", "answer"} => reader.program # <<>>

\* A step of the reader in which the service stays and the authority is not passed by.
Lawfully ==
    /\ UNCHANGED host
    /\ host.late > 0 => reader'.pc = "done" /\ reader'.result # "ok"
    /\ reader.pc # "done"

LEMMA StopKeeps ==
    ASSUME SelectedInv, NEW result, Stop(result)
    PROVE  ReaderKeeps /\ reader'.pc = "done" /\ reader'.result = result
BY DEF SelectedInv, SelectedShapes, Stop, ReaderIs, ReaderKeeps

\* The invariant of a program and observations that stay.
LEMMA KeepingShapes ==
    ASSUME SelectedInv, ReaderKeeps
    PROVE  /\ reader' \in [pc : {reader'.pc}, requests : {reader'.requests}, result : {reader'.result},
                   program : Seq(Selections \X Kinds),
                   observation : [id : {reader'.observation.id}, revision : {reader'.observation.revision},
                                  from : {reader'.observation.from}],
                   observations : {reader'.observations}]
           /\ ProgramOrderly' /\ Asked'
<1> DEFINE S == Seq(Selections \X Kinds)
<1>1. reader.program \in S /\ reader.observation \in [id : {reader.observation.id},
          revision : {reader.observation.revision}, from : {reader.observation.from}]
    BY DEF SelectedInv, SelectedShapes
<1>2. /\ reader'.program = reader.program /\ reader'.observation = reader.observation
      /\ reader'.observations = reader.observations
    BY DEF ReaderKeeps
<1>3. reader' \in [pc : {reader'.pc}, requests : {reader'.requests}, result : {reader'.result},
                   program : S,
                   observation : [id : {reader'.observation.id}, revision : {reader'.observation.revision},
                                  from : {reader'.observation.from}],
                   observations : {reader'.observations}]
    <2> HIDE DEF S
    <2> QED BY <1>1, <1>2 DEF ReaderKeeps
<1>4. ProgramOrderly'
    BY <1>2 DEF SelectedInv, ProgramOrderly, Opens, NoneOpen, IsObject, IsMetadata, KindAt
<1>5. Asked'
    BY <1>2 DEF ReaderKeeps, Asked
<1> QED BY <1>3, <1>4, <1>5

LEMMA KeepingLawfully ==
    ASSUME SelectedInv, ReaderKeeps, Lawfully
    PROVE  SelectedInv'
<1>1. SelectedShapes'
    BY KeepingShapes DEF SelectedInv, SelectedShapes, Lawfully
<1>2. ServiceKnown'
    BY DEF SelectedInv, ServiceKnown, Lawfully
<1>3. ProgramOrderly' /\ Asked'
    BY KeepingShapes
<1>4. LateIsLast'
    BY DEF SelectedInv, LateIsLast, Lawfully
<1>5. reader'.observation = reader.observation /\ reader'.observations = reader.observations
    BY DEF ReaderKeeps
<1>6. OfOne(reader.observation)' /\ (\A o \in reader.observations : OfOne(o[2]))'
    BY <1>5 DEF SelectedInv, OfOne, Lawfully
<1> QED BY <1>1, <1>2, <1>3, <1>4, <1>6 DEF SelectedInv

LEMMA SendingSteps ==
    ASSUME SelectedInv, Prepare \/ Send \/ Unanswered \/ Finished
    PROVE  SelectedInv'
<1> SUFFICES ReaderKeeps /\ Lawfully
    BY KeepingLawfully
<1>1. CASE Prepare
    <2>1. host.late = 0 /\ UNCHANGED host /\ reader.pc # "done"
        BY <1>1 DEF Prepare, SelectedInv, LateIsLast, SelectedShapes
    <2>2. CASE Stop("failed")
        BY <2>1, <2>2, StopKeeps DEF Lawfully
    <2>3. CASE ~Stop("failed")
        <3> DEFINE n == reader.requests + 1
        <3>1. reader' = [reader EXCEPT !.pc = "send", !.requests = n] /\ reader.program # <<>>
            BY <1>1, <2>3 DEF Prepare, ReaderIs
        <3> HIDE DEF n
        <3>2. ReaderKeeps /\ reader'.pc = "send"
            BY <3>1 DEF SelectedInv, SelectedShapes, ReaderKeeps
        <3> QED BY <2>1, <3>2 DEF Lawfully
    <2> QED BY <2>2, <2>3
<1>2. CASE Send
    <2>1. host.late = 0 /\ UNCHANGED host /\ reader.pc = "send" /\ reader.program # <<>>
        BY <1>2 DEF Send, SelectedInv, LateIsLast, SelectedShapes, Asked
    <2>2. CASE Stop("failed")
        BY <2>1, <2>2, StopKeeps DEF Lawfully
    <2>3. CASE ~Stop("failed")
        BY <1>2, <2>1, <2>3
           DEF Send, ReaderIs, SelectedInv, SelectedShapes, ReaderKeeps, Lawfully
    <2> QED BY <2>2, <2>3
<1>3. CASE Unanswered
    BY <1>3, StopKeeps DEF Unanswered, Lawfully
<1>4. CASE Finished
    <2>1. host.late = 0 /\ UNCHANGED host /\ reader.pc # "done"
        BY <1>4 DEF Finished, SelectedInv, LateIsLast, SelectedShapes
    <2>2. PICK result : Stop(result)
        BY <1>4 DEF Finished
    <2> QED BY <2>1, <2>2, StopKeeps DEF Lawfully
<1> QED BY <1>1, <1>2, <1>3, <1>4

\* The request that leaves when the authority has gone is one.
LEMMA LeaveStep ==
    ASSUME SelectedInv, Leave
    PROVE  SelectedInv'
<1>1. /\ reader.pc = "sent" /\ reader' = [reader EXCEPT !.pc = "answer"]
      /\ host' = [host EXCEPT !.late = IF host.granted THEN 0 ELSE @ + 1]
    BY DEF Leave, ReaderIs
<1>2. host.late = 0 /\ reader.program # <<>>
    BY <1>1 DEF SelectedInv, SelectedShapes, LateIsLast, Asked
<1>3. reader'.pc = "answer" /\ ReaderKeeps
    BY <1>1, <1>2 DEF SelectedInv, SelectedShapes, ReaderKeeps
<1>4. host'.late = (IF host.granted THEN 0 ELSE 1) /\ host'.granted = host.granted
      /\ host'.denotes = host.denotes /\ host'.tip = host.tip /\ host'.tips = host.tips
    BY <1>1, <1>2 DEF SelectedInv, SelectedShapes
<1>5. host' \in [granted : BOOLEAN, late : Nat, edits : {host'.edits}, hidden : {host'.hidden},
                 denotes : {host'.denotes}, tip : {host'.tip}, tips : {host'.tips}]
    BY <1>1, <1>2 DEF SelectedInv, SelectedShapes
<1>6. SelectedShapes'
    BY <1>3, <1>5, KeepingShapes DEF SelectedShapes
<1>7. ServiceKnown'
    BY <1>1, <1>4 DEF SelectedInv, ServiceKnown
<1>8. ProgramOrderly' /\ Asked'
    BY <1>3, KeepingShapes
<1>9. LateIsLast'
    BY <1>3, <1>4 DEF LateIsLast
<1>10. reader'.observation = reader.observation /\ reader'.observations = reader.observations
    BY <1>3 DEF ReaderKeeps
<1>11. OfOne(reader.observation)' /\ (\A o \in reader.observations : OfOne(o[2]))'
    BY <1>4, <1>10 DEF SelectedInv, OfOne
<1> QED BY <1>6, <1>7, <1>8, <1>9, <1>11 DEF SelectedInv

\* A step of the reader that goes on to the next request of the program.
ReaderProceeds(observation, observations) ==
    /\ UNCHANGED host /\ reader.pc = "answer" /\ Granted
    /\ reader' = [pc |-> "prepare", requests |-> reader.requests, result |-> reader.result,
                  program |-> Tail(reader.program), observation |-> observation,
                  observations |-> observations]

LEMMA ProceedsWith ==
    ASSUME NEW observation, NEW observations, ReaderProceeds(observation, observations)
    PROVE  reader'.observation = observation
BY DEF ReaderProceeds

\* What the rest of the program asks for.
LEMMA RestOfProgram ==
    ASSUME SelectedInv, NEW observation, NEW observations,
           ReaderProceeds(observation, observations)
    PROVE  /\ reader'.program \in Seq(Selections \X Kinds)
           /\ \A i \in DOMAIN reader'.program :
                 /\ i \in Nat /\ i >= 1 /\ i + 1 \in DOMAIN reader.program
                 /\ KindAt(i)' = KindAt(i + 1)
           /\ \A i \in DOMAIN reader.program : i \in Nat /\ (i = 1 \/ i - 1 \in DOMAIN reader'.program)
           /\ 1 \in DOMAIN reader.program
<1> DEFINE S == Selections \X Kinds
           s == reader.program
           t == Tail(s)
<1> HIDE DEF S
<1>1. s \in Seq(S) /\ s # <<>>
    BY DEF SelectedInv, SelectedShapes, Asked, ReaderProceeds, S
<1> HIDE DEF s
<1>2. /\ t \in Seq(S) /\ Len(s) \in Nat /\ Len(s) > 0 /\ DOMAIN s = 1..Len(s)
      /\ DOMAIN t = 1..(Len(s) - 1)
      /\ \A i \in 1..(Len(s) - 1) : t[i] = s[i + 1]
    BY <1>1, HeadTailProperties, LenProperties, EmptySeq
<1>3. reader'.program = t
    BY DEF ReaderProceeds, s
<1> HIDE DEF t
<1>4. ASSUME NEW i \in DOMAIN t
      PROVE  /\ i \in Nat /\ i >= 1 /\ i + 1 \in DOMAIN s
             /\ t[i] = s[i + 1]
    BY <1>2
<1>5. \A i \in DOMAIN s : i \in Nat /\ (i = 1 \/ i - 1 \in DOMAIN t)
    BY <1>2
<1>6. 1 \in DOMAIN s
    BY <1>2
<1> QED BY <1>2, <1>3, <1>4, <1>5, <1>6 DEF S, s, KindAt

\* What holds of the observation from now on is what holds of the invariant.
LEMMA ProceedingKeeps ==
    ASSUME SelectedInv, NEW observation, NEW observations,
           ReaderProceeds(observation, observations),
           observation \in [id : {observation.id}, revision : {observation.revision},
                            from : {observation.from}],
           OfOne(observation), \A o \in observations : OfOne(o[2]),
           ProgramOrderly'
    PROVE  SelectedInv'
<1> DEFINE S == Seq(Selections \X Kinds)
<1>1. reader'.program \in S /\ UNCHANGED host
    BY RestOfProgram DEF ReaderProceeds
<1>2. /\ reader'.pc = "prepare" /\ reader'.requests = reader.requests
      /\ reader'.result = reader.result /\ reader'.observation = observation
      /\ reader'.observations = observations
      /\ reader' \in [pc : {reader'.pc}, requests : {reader'.requests}, result : {reader'.result},
                      program : {reader'.program}, observation : {observation},
                      observations : {reader'.observations}]
    BY DEF ReaderProceeds
<1>3. reader' \in [pc : {reader'.pc}, requests : {reader'.requests}, result : {reader'.result},
                   program : S,
                   observation : [id : {reader'.observation.id}, revision : {reader'.observation.revision},
                                  from : {reader'.observation.from}],
                   observations : {reader'.observations}]
    <2> HIDE DEF S
    <2> QED BY <1>1, <1>2
<1>4. SelectedShapes'
    BY <1>1, <1>3 DEF SelectedInv, SelectedShapes
<1>5. host.late = 0 /\ reader.pc = "answer"
    BY DEF SelectedInv, SelectedShapes, LateIsLast, ReaderProceeds, Granted
<1>6. ServiceKnown'
    BY <1>1, <1>5 DEF SelectedInv, ServiceKnown
<1>7. LateIsLast'
    BY <1>1, <1>5 DEF LateIsLast
<1>8. Asked'
    BY <1>2 DEF Asked
<1>9. OfOne(reader.observation)' /\ (\A o \in reader.observations : OfOne(o[2]))'
    BY <1>1, <1>2 DEF OfOne
<1> QED BY <1>4, <1>6, <1>7, <1>8, <1>9 DEF SelectedInv

\* After the name of the user and after an object the order of the rest stays.
LEMMA OrderlyRest ==
    ASSUME SelectedInv, NEW observation, NEW observations,
           ReaderProceeds(observation, observations), ~IsMetadata(1),
           \/ observation = reader.observation
           \/ reader.observation # NoObservation /\ observation # NoObservation
                /\ observation.id = reader.observation.id
    PROVE  ProgramOrderly'
<1>1. /\ \A i \in DOMAIN reader'.program :
             /\ i \in Nat /\ i >= 1 /\ i + 1 \in DOMAIN reader.program
             /\ KindAt(i)' = KindAt(i + 1)
      /\ \A i \in DOMAIN reader.program : i \in Nat /\ (i = 1 \/ i - 1 \in DOMAIN reader'.program)
    BY RestOfProgram
<1>2. reader'.observation = observation
    BY DEF ReaderProceeds
<1>3. \A i \in DOMAIN reader'.program :
          (IsObject(i)' <=> IsObject(i + 1)) /\ (IsMetadata(i)' <=> IsMetadata(i + 1))
    BY <1>1 DEF IsObject, IsMetadata
<1>4. CASE reader.observation # NoObservation
    <2>1. observation # NoObservation /\ observation.id = reader.observation.id
        BY <1>4
    <2>2. reader.observation.id \in Identifiers /\ NoneOpen
        BY <1>4 DEF SelectedInv, ProgramOrderly
    <2>3. NoneOpen'
        BY <1>1, <1>3, <2>2 DEF NoneOpen
    <2> QED BY <1>2, <2>1, <2>2, <2>3 DEF ProgramOrderly, NoObservation
<1>5. CASE reader.observation = NoObservation
    <2>1. observation = NoObservation
        BY <1>5
    <2>2. CASE \A i \in DOMAIN reader.program : ~IsObject(i)
        <3>1. \A i \in DOMAIN reader'.program : ~IsObject(i)'
            BY <1>1, <1>3, <2>2
        <3> QED BY <1>2, <2>1, <3>1 DEF ProgramOrderly, NoObservation
    <2>3. ASSUME NEW j \in DOMAIN reader.program, Opens(j) PROVE ProgramOrderly'
        <3>1. j \in Nat /\ j # 1 /\ j - 1 \in DOMAIN reader'.program /\ (j - 1) + 1 = j
            BY <1>1, <2>3 DEF Opens
        <3>2. IsMetadata(j - 1)'
            BY <1>3, <2>3, <3>1 DEF Opens
        <3>3. \A i \in DOMAIN reader'.program : IsObject(i)' => j - 1 < i
            BY <1>1, <1>3, <2>3, <3>1 DEF Opens
        <3>4. \A k \in DOMAIN reader'.program \ {j - 1} :
                 IsMetadata(k)' => \A i \in DOMAIN reader'.program : IsObject(i)' => i < k
            <4> SUFFICES ASSUME NEW k \in DOMAIN reader'.program \ {j - 1}, IsMetadata(k)',
                                NEW i \in DOMAIN reader'.program, IsObject(i)'
                         PROVE  i < k
                OBVIOUS
            <4>1. k + 1 \in DOMAIN reader.program \ {j} /\ IsMetadata(k + 1)
                BY <1>1, <1>3, <3>1
            <4>2. i + 1 \in DOMAIN reader.program /\ IsObject(i + 1) /\ i \in Nat /\ k \in Nat
                BY <1>1, <1>3
            <4>3. i + 1 < k + 1
                BY <2>3, <4>1, <4>2 DEF Opens
            <4> QED BY <4>2, <4>3
        <3>5. Opens(j - 1)'
            BY <3>2, <3>3, <3>4 DEF Opens
        <3> QED BY <1>2, <2>1, <3>1, <3>5 DEF ProgramOrderly, NoObservation
    <2> QED BY <1>5, <2>2, <2>3 DEF SelectedInv, ProgramOrderly
<1> QED BY <1>4, <1>5

\* What is asked for first is an object only when the repository is known.
LEMMA ObjectIsOfKnown ==
    ASSUME SelectedInv, 1 \in DOMAIN reader.program, IsObject(1)
    PROVE  reader.observation # NoObservation /\ reader.observation.id \in Identifiers
<1>1. \A j \in DOMAIN reader.program : ~Opens(j)
    <2>1. reader.program \in Seq(Selections \X Kinds)
        BY DEF SelectedInv, SelectedShapes
    <2>2. \A j \in DOMAIN reader.program : j \in Nat /\ ~(j < 1)
        BY <2>1, LenProperties
    <2> QED BY <2>2 DEF Opens
<1> QED BY <1>1 DEF SelectedInv, ProgramOrderly

LEMMA ObjectStep ==
    ASSUME SelectedInv, reader.pc = "answer", Granted, UNCHANGED host,
           1 \in DOMAIN reader.program, IsObject(1), NEW name, NEW kind, Object(name, kind)
    PROVE  SelectedInv'
<1> DEFINE known == reader.observation
           revision == IF kind = "ref" THEN host.tip[known.id] ELSE known.revision
           from == known.from \cup {known.id}
           observation == [id |-> known.id, revision |-> revision, from |-> from]
<1>1. known # NoObservation /\ known.id \in Identifiers
    BY ObjectIsOfKnown
<1>2. known \in [id : {known.id}, revision : {known.revision}, from : {known.from}]
    BY DEF SelectedInv, SelectedShapes
<1>3. reader' = [reader EXCEPT !.pc = "prepare", !.program = Tail(@),
                     !.observation.from = from, !.observation.revision = revision]
    BY DEF Object, ReaderIs, Target
<1>4. OfOne(observation)
    <2>1. <<known.id, host.tip[known.id]>> \in host.tips
        BY <1>1 DEF SelectedInv, ServiceKnown
    <2>2. OfOne(known)
        BY DEF SelectedInv
    <2> QED BY <2>1, <2>2 DEF OfOne
<1> HIDE DEF revision, from
<1>5. observation \in [id : {observation.id}, revision : {observation.revision}, from : {observation.from}]
      /\ observation.id = known.id
    OBVIOUS
<1>6. ReaderProceeds(observation, reader.observations)
    <2> DEFINE rest == Tail(reader.program)
    <2>1. reader \in [pc : {reader.pc}, requests : {reader.requests}, result : {reader.result},
                      program : {reader.program}, observation : {known},
                      observations : {reader.observations}]
        <3> DEFINE S == Seq(Selections \X Kinds)
        <3> HIDE DEF S
        <3>1. reader \in [pc : {reader.pc}, requests : {reader.requests}, result : {reader.result},
                      program : S,
                      observation : [id : {reader.observation.id}, revision : {reader.observation.revision},
                                     from : {reader.observation.from}],
                      observations : {reader.observations}]
            BY DEF SelectedInv, SelectedShapes, S
        <3> QED BY <3>1
    <2>2. reader' = [reader EXCEPT !.pc = "prepare", !.program = rest,
                     !.observation.from = from, !.observation.revision = revision]
        BY <1>3
    <2> HIDE DEF rest
    <2>3. reader' = [pc |-> "prepare", requests |-> reader.requests, result |-> reader.result,
                     program |-> rest, observation |-> observation,
                     observations |-> reader.observations]
        BY <1>2, <2>1, <2>2
    <2> QED BY <2>3 DEF ReaderProceeds, rest
<1> HIDE DEF observation
<1>7. observation # NoObservation
    BY <1>1, <1>5, SelectionAssumption DEF NoObservation
<1>8. ~IsMetadata(1)
    BY DEF IsMetadata, IsObject, ObjectKinds
<1>9. ProgramOrderly'
    BY <1>1, <1>5, <1>6, <1>7, <1>8, OrderlyRest
<1>10. \A o \in reader.observations : OfOne(o[2])
    BY DEF SelectedInv
<1> QED BY <1>4, <1>5, <1>6, <1>9, <1>10, ProceedingKeeps

\* The shape of the reader before a step to the next request.
LEMMA ReaderShape ==
    ASSUME SelectedInv
    PROVE  reader \in [pc : {reader.pc}, requests : {reader.requests}, result : {reader.result},
                       program : {reader.program}, observation : {reader.observation},
                       observations : {reader.observations}]
<1> DEFINE S == Seq(Selections \X Kinds)
<1> HIDE DEF S
<1>1. reader \in [pc : {reader.pc}, requests : {reader.requests}, result : {reader.result},
              program : S,
              observation : [id : {reader.observation.id}, revision : {reader.observation.revision},
                             from : {reader.observation.from}],
              observations : {reader.observations}]
    BY DEF SelectedInv, SelectedShapes, S
<1> QED BY <1>1

LEMMA FirstMetadataStep ==
    ASSUME SelectedInv, reader.pc = "answer", Granted, UNCHANGED host,
           1 \in DOMAIN reader.program, IsMetadata(1), reader.observation = NoObservation,
           NEW id \in Identifiers,
           reader' = [reader EXCEPT !.pc = "prepare", !.program = Tail(@), !.observation.id = id]
    PROVE  SelectedInv'
<1> DEFINE observation == [id |-> id, revision |-> 0, from |-> {}]
<1>1. ReaderProceeds(observation, reader.observations)
    <2> DEFINE rest == Tail(reader.program)
    <2>3. [reader.observation EXCEPT !.id = id] = observation
        BY DEF NoObservation
    <2>1. reader' = [reader EXCEPT !.pc = "prepare", !.program = rest, !.observation = observation]
        BY <2>3
    <2> HIDE DEF rest, observation
    <2>2. reader' = [pc |-> "prepare", requests |-> reader.requests, result |-> reader.result,
                     program |-> rest, observation |-> observation,
                     observations |-> reader.observations]
        BY <2>1, ReaderShape
    <2> QED BY <2>2 DEF ReaderProceeds, rest
<1>2. OfOne(observation)
    BY DEF OfOne
<1>3. observation \in [id : {observation.id}, revision : {observation.revision}, from : {observation.from}]
      /\ observation.id = id
    OBVIOUS
<1>9. observation.id = id
    OBVIOUS
<1> HIDE DEF observation
<1>4. observation # NoObservation /\ reader'.observation = observation
    <2>1. id # 0
        BY SelectionAssumption
    <2>2. observation # NoObservation
        <3>1. NoObservation.id = 0
            BY DEF NoObservation
        <3> QED BY <1>9, <2>1, <3>1
    <2>3. reader'.observation = observation
        BY <1>1, ProceedsWith
    <2> QED BY <2>2, <2>3
<1>5. /\ \A i \in DOMAIN reader'.program :
             /\ i \in Nat /\ i >= 1 /\ i + 1 \in DOMAIN reader.program
             /\ KindAt(i)' = KindAt(i + 1)
      /\ 1 \in DOMAIN reader.program
    BY <1>1, RestOfProgram
<1>6. NoneOpen'
    <2> SUFFICES ASSUME NEW k \in DOMAIN reader'.program, NEW i \in DOMAIN reader'.program,
                        IsMetadata(k)', IsObject(i)'
                 PROVE  i < k
        BY DEF NoneOpen
    <2>1. /\ i + 1 \in DOMAIN reader.program /\ k + 1 \in DOMAIN reader.program
          /\ IsObject(i + 1) /\ IsMetadata(k + 1)
          /\ i \in Nat /\ k \in Nat /\ k >= 1
        BY <1>5 DEF IsObject, IsMetadata
    <2>2. PICK j \in DOMAIN reader.program : Opens(j)
        BY <2>1 DEF SelectedInv, ProgramOrderly
    <2>3. CASE j = k + 1
        <3>1. 1 \in DOMAIN reader.program \ {j}
            BY <1>5, <2>1, <2>3
        <3>2. i + 1 < 1
            BY <2>1, <2>2, <3>1 DEF Opens
        <3> QED BY <2>1, <3>2
    <2>4. CASE j # k + 1
        <3>1. i + 1 < k + 1
            BY <2>1, <2>2, <2>4 DEF Opens
        <3> QED BY <2>1, <3>1
    <2> QED BY <2>3, <2>4
<1>7. ProgramOrderly'
    BY <1>3, <1>4, <1>6 DEF ProgramOrderly, NoObservation
<1>8. \A o \in reader.observations : OfOne(o[2])
    BY DEF SelectedInv
<1> QED BY <1>1, <1>2, <1>3, <1>7, <1>8, ProceedingKeeps

LEMMA LastMetadataStep ==
    ASSUME SelectedInv, reader.pc = "answer", Granted, UNCHANGED host,
           1 \in DOMAIN reader.program, IsMetadata(1), reader.observation # NoObservation, NEW name,
           reader' = [reader EXCEPT !.pc = "prepare", !.program = Tail(@),
                         !.observations = @ \cup {<<name, reader.observation>>},
                         !.observation = NoObservation]
    PROVE  SelectedInv'
<1> DEFINE observations == reader.observations \cup {<<name, reader.observation>>}
           none == NoObservation
<1>1. ReaderProceeds(none, observations)
    <2> DEFINE rest == Tail(reader.program)
    <2>1. reader' = [reader EXCEPT !.pc = "prepare", !.program = rest,
                         !.observations = observations, !.observation = none]
        OBVIOUS
    <2> HIDE DEF rest, observations, none
    <2>2. reader' = [pc |-> "prepare", requests |-> reader.requests, result |-> reader.result,
                     program |-> rest, observation |-> none,
                     observations |-> observations]
        BY <2>1, ReaderShape
    <2> QED BY <2>2 DEF ReaderProceeds, rest
<1>2. none \in [id : {none.id}, revision : {none.revision}, from : {none.from}] /\ OfOne(none)
    BY DEF NoObservation, OfOne
<1>3. \A o \in observations : OfOne(o[2])
    BY DEF SelectedInv
<1>4. reader'.observation = NoObservation
    BY <1>1 DEF ReaderProceeds
<1>5. \A i \in DOMAIN reader'.program :
             /\ i \in Nat /\ i >= 1 /\ i + 1 \in DOMAIN reader.program
             /\ KindAt(i)' = KindAt(i + 1)
    BY <1>1, RestOfProgram
<1>6. ASSUME NEW i \in DOMAIN reader'.program PROVE ~IsObject(i)'
    <2>1. i \in Nat /\ i >= 1 /\ i + 1 \in DOMAIN reader.program /\ (IsObject(i)' <=> IsObject(i + 1))
        BY <1>5 DEF IsObject
    <2>2. IsObject(i + 1) => i + 1 < 1
        BY <2>1 DEF SelectedInv, ProgramOrderly, NoneOpen
    <2> QED BY <2>1, <2>2
<1>7. ProgramOrderly'
    BY <1>4, <1>6 DEF ProgramOrderly, NoObservation
<1> HIDE DEF observations, none
<1> QED BY <1>1, <1>2, <1>3, <1>7, ProceedingKeeps

LEMMA ReceivedStep ==
    ASSUME SelectedInv, Received
    PROVE  SelectedInv'
<1> DEFINE name == Head(reader.program)[1]
           kind == Head(reader.program)[2]
<1>1. reader.pc = "answer" /\ UNCHANGED host
    BY DEF Received
<1>2. /\ 1 \in DOMAIN reader.program /\ reader.program[1] = Head(reader.program)
      /\ name \in Selections /\ kind \in Kinds /\ KindAt(1) = kind
    <2> DEFINE S == Selections \X Kinds
    <2> HIDE DEF S
    <2>1. reader.program \in Seq(S) /\ reader.program # <<>>
        BY <1>1 DEF SelectedInv, SelectedShapes, Asked, S
    <2>2. Head(reader.program) \in S /\ Head(reader.program) = reader.program[1]
          /\ 1 \in DOMAIN reader.program
        BY <2>1, HeadTailProperties, LenProperties, EmptySeq
    <2> QED BY <2>2 DEF S, KindAt
<1> HIDE DEF name
<1>3. CASE \E result : result # "ok" /\ Stop(result)
    <2>1. PICK result : result # "ok" /\ Stop(result)
        BY <1>3
    <2> QED BY <1>1, <2>1, StopKeeps, KeepingLawfully DEF Lawfully
<1>4. CASE ~\E result : result # "ok" /\ Stop(result)
    <2>1. ~Stop("failed") /\ Granted
        BY <1>4 DEF Received
    <2>2. CASE kind = "user"
        <3>1. reader' = [reader EXCEPT !.pc = "prepare", !.program = Tail(@)]
            BY <2>1, <2>2 DEF Received, ReaderIs
        <3>2. ReaderProceeds(reader.observation, reader.observations)
            <4> DEFINE rest == Tail(reader.program)
            <4>1. reader' = [reader EXCEPT !.pc = "prepare", !.program = rest]
                BY <3>1
            <4> HIDE DEF rest
            <4>2. reader' = [pc |-> "prepare", requests |-> reader.requests, result |-> reader.result,
                             program |-> rest, observation |-> reader.observation,
                             observations |-> reader.observations]
                BY <4>1, ReaderShape
            <4> QED BY <1>1, <2>1, <4>2 DEF ReaderProceeds, rest
        <3>3. ~IsMetadata(1)
            BY <1>2, <2>2 DEF IsMetadata
        <3>4. ProgramOrderly'
            BY <3>2, <3>3, OrderlyRest
        <3>5. /\ OfOne(reader.observation) /\ \A o \in reader.observations : OfOne(o[2])
              /\ reader.observation \in [id : {reader.observation.id},
                     revision : {reader.observation.revision}, from : {reader.observation.from}]
            BY DEF SelectedInv, SelectedShapes
        <3> QED BY <3>2, <3>4, <3>5, ProceedingKeeps
    <2>3. CASE kind = "metadata"
        <3> DEFINE id == host.denotes[name]
        <3>1. id \in Identifiers
            BY <1>1, <1>2 DEF SelectedInv, ServiceKnown
        <3>2. Metadata(name)
            BY <2>1, <2>3 DEF Received, name
        <3>3. IsMetadata(1)
            BY <1>2, <2>3 DEF IsMetadata
        <3>4. CASE reader.observation = NoObservation
            BY <1>1, <1>2, <2>1, <3>1, <3>2, <3>3, <3>4, FirstMetadataStep DEF Metadata, ReaderIs
        <3>5. CASE reader.observation # NoObservation
            BY <1>1, <1>2, <2>1, <3>2, <3>3, <3>5, LastMetadataStep DEF Metadata, ReaderIs
        <3> QED BY <3>4, <3>5
    <2>4. CASE kind \notin {"user", "metadata"}
        <3>1. Object(name, kind)
            BY <2>1, <2>4 DEF Received, name
        <3>2. IsObject(1)
            BY <1>2, <2>4 DEF IsObject, Kinds
        <3> QED BY <1>1, <1>2, <2>1, <3>1, <3>2, ObjectStep
    <2> QED BY <2>2, <2>3, <2>4
<1> QED BY <1>3, <1>4

\* What the owner and the service do while a read goes on.
HostEdits ==
    /\ UNCHANGED reader /\ reader.pc # "done"
    /\ host' \in [granted : BOOLEAN, late : Nat, edits : {host'.edits}, hidden : {host'.hidden},
                  denotes : [Selections -> Identifiers], tip : [Identifiers -> Nat],
                  tips : {host'.tips}]
    /\ host.tips \subseteq host'.tips
    /\ \A id \in Identifiers : <<id, host'.tip[id]>> \in host'.tips
    /\ host'.late > 0 => host'.late = host.late /\ ~host'.granted

LEMMA EditsKeepSelected ==
    ASSUME SelectedInv, HostEdits
    PROVE  SelectedInv'
<1> DEFINE D == [Selections -> Identifiers]
           T == [Identifiers -> Nat]
<1>1. host' \in [granted : BOOLEAN, late : Nat, edits : {host'.edits}, hidden : {host'.hidden},
                 denotes : {host'.denotes}, tip : {host'.tip}, tips : {host'.tips}]
      /\ host'.denotes \in D /\ host'.tip \in T
    <2> HIDE DEF D, T
    <2>1. host' \in [granted : BOOLEAN, late : Nat, edits : {host'.edits}, hidden : {host'.hidden},
                  denotes : D, tip : T, tips : {host'.tips}]
        BY DEF HostEdits, D, T
    <2> QED BY <2>1
<1>2. SelectedShapes'
    BY <1>1 DEF SelectedInv, SelectedShapes, HostEdits
<1>3. ServiceKnown'
    BY <1>1 DEF ServiceKnown, HostEdits
<1>4. Asked' /\ ProgramOrderly'
    BY DEF SelectedInv, Asked, ProgramOrderly, Opens, NoneOpen, IsObject, IsMetadata, KindAt, HostEdits
<1>5. LateIsLast'
    BY DEF SelectedInv, LateIsLast, HostEdits
<1>6. OfOne(reader.observation)' /\ (\A o \in reader.observations : OfOne(o[2]))'
    BY DEF SelectedInv, OfOne, HostEdits
<1> QED BY <1>2, <1>3, <1>4, <1>5, <1>6 DEF SelectedInv

LEMMA HostStep ==
    ASSUME SelectedInv,
           \/ Revoke \/ Restore
           \/ \E name \in Selections, id \in Identifiers : Rename(name, id)
           \/ \E id \in Identifiers : Hide(id) \/ Push(id)
    PROVE  HostEdits
<1> DEFINE edits == host.edits + 1
           D == [Selections -> Identifiers]
           T == [Identifiers -> Nat]
           Shape(h) == h \in [granted : BOOLEAN, late : Nat, edits : {h.edits}, hidden : {h.hidden},
                              denotes : D, tip : T, tips : {h.tips}]
<1>1. UNCHANGED reader /\ reader.pc # "done"
    BY DEF Revoke, Restore, Rename, Hide, Push, HostEdit
<1>2. host \in [granted : BOOLEAN, late : Nat, edits : {host.edits}, hidden : {host.hidden},
                denotes : D, tip : T, tips : {host.tips}]
    <2>1. host.denotes \in D /\ host.tip \in T
        BY <1>1 DEF SelectedInv, ServiceKnown
    <2> HIDE DEF D, T
    <2> QED BY <2>1 DEF SelectedInv, SelectedShapes
<1>3. \A id \in Identifiers : <<id, host.tip[id]>> \in host.tips
    BY <1>1 DEF SelectedInv, ServiceKnown
<1>4. host.late > 0 => ~host.granted
    BY DEF SelectedInv, LateIsLast
<1>5. ASSUME Shape(host'), host.tips \subseteq host'.tips,
             \A id \in Identifiers : <<id, host'.tip[id]>> \in host'.tips,
             host'.late > 0 => host'.late = host.late /\ ~host'.granted
      PROVE  HostEdits
    BY <1>1, <1>5 DEF HostEdits
<1>6. ASSUME Revoke PROVE HostEdits
    <2>1. host' = [host EXCEPT !.granted = FALSE, !.edits = edits]
        BY <1>6 DEF Revoke, HostEdit
    <2>2. host.late = 0
        BY <1>2, <1>4, <1>6 DEF Revoke
    <2> HIDE DEF D, T, edits
    <2>3. Shape(host') /\ host'.tips = host.tips /\ host'.tip = host.tip /\ host'.late = 0
        BY <1>2, <2>1, <2>2
    <2> QED BY <1>3, <1>5, <2>3
<1>7. ASSUME Restore PROVE HostEdits
    <2>1. host' = [host EXCEPT !.granted = TRUE, !.late = 0, !.edits = edits]
        BY <1>7 DEF Restore, HostEdit
    <2> HIDE DEF D, T, edits
    <2>2. Shape(host') /\ host'.tips = host.tips /\ host'.tip = host.tip /\ host'.late = 0
        BY <1>2, <2>1
    <2> QED BY <1>3, <1>5, <2>2
<1>8. ASSUME NEW name \in Selections, NEW id \in Identifiers, Rename(name, id) PROVE HostEdits
    <2> DEFINE denotes == [host.denotes EXCEPT ![name] = id]
    <2>1. host' = [host EXCEPT !.denotes = denotes, !.edits = edits] /\ denotes \in D
        BY <1>2, <1>8 DEF Rename, HostEdit
    <2> HIDE DEF D, T, edits, denotes
    <2>2. Shape(host') /\ host'.tips = host.tips /\ host'.tip = host.tip /\ host'.late = host.late
          /\ host'.granted = host.granted
        BY <1>2, <2>1
    <2> QED BY <1>3, <1>4, <1>5, <2>2
<1>9. ASSUME NEW id \in Identifiers, Hide(id) PROVE HostEdits
    <2> DEFINE hidden == host.hidden \cup {id}
    <2>1. host' = [host EXCEPT !.hidden = hidden, !.edits = edits]
        BY <1>9 DEF Hide, HostEdit
    <2> HIDE DEF D, T, edits, hidden
    <2>2. Shape(host') /\ host'.tips = host.tips /\ host'.tip = host.tip /\ host'.late = host.late
          /\ host'.granted = host.granted
        BY <1>2, <2>1
    <2> QED BY <1>3, <1>4, <1>5, <2>2
<1>10. ASSUME NEW id \in Identifiers, Push(id) PROVE HostEdits
    <2> DEFINE tip == [host.tip EXCEPT ![id] = @ + 1]
               known == host.tips \cup {<<id, host.tip[id] + 1>>}
    <2>1. host' = [host EXCEPT !.tip = tip, !.tips = known, !.edits = edits]
        BY <1>10 DEF Push, HostEdit
    <2>2. host.tip \in T
        BY <1>2
    <2>3. tip \in T /\ host.tips \subseteq known /\ \A i \in Identifiers : <<i, tip[i]>> \in known
        <3>1. host.tip[id] + 1 \in Nat
            BY <2>2
        <3>2. tip \in T /\ tip[id] = host.tip[id] + 1
              /\ \A i \in Identifiers \ {id} : tip[i] = host.tip[i]
            BY <2>2, <3>1
        <3> HIDE DEF tip
        <3> QED BY <1>3, <3>2
    <2> HIDE DEF D, T, edits, tip, known
    <2>4. Shape(host') /\ host'.tips = known /\ host'.tip = tip /\ host'.late = host.late
          /\ host'.granted = host.granted
        BY <1>2, <2>1, <2>3
    <2> QED BY <1>4, <1>5, <2>3, <2>4
<1> QED BY <1>6, <1>7, <1>8, <1>9, <1>10

LEMMA NextKeepsSelected ==
    ASSUME SelectedInv, [SelectedNext]_selectedVars
    PROVE  SelectedInv'
<1>1. CASE UNCHANGED selectedVars
    BY <1>1 DEF selectedVars, SelectedInv, SelectedShapes, ServiceKnown, Asked, ProgramOrderly,
                Opens, NoneOpen, IsObject, IsMetadata, KindAt, LateIsLast, OfOne
<1>2. CASE SelectedNext
    <2>1. CASE Prepare \/ Send \/ Unanswered \/ Finished
        BY <2>1, SendingSteps
    <2>2. CASE Leave
        BY <2>2, LeaveStep
    <2>3. CASE Received
        BY <2>3, ReceivedStep
    <2>4. CASE \/ Revoke \/ Restore
               \/ \E name \in Selections, id \in Identifiers : Rename(name, id)
               \/ \E id \in Identifiers : Hide(id) \/ Push(id)
        BY <2>4, HostStep, EditsKeepSelected
    <2> QED BY <1>2, <2>1, <2>2, <2>3, <2>4 DEF SelectedNext, ReaderStep
<1> QED BY <1>1, <1>2

LEMMA SelectedInvIsTrue == SelectedInv => SelectedReadIsTrue
BY DEF SelectedInv, SelectedShapes, LateIsLast, OfOne, SelectedReadIsTrue,
       ObservationsAreOneRepository, RevocationStops

\* However names change hands and whenever the owner revokes and restores the authority,
\* an observation is of one repository at a tip it had, one request at most leaves
\* without authority and none of it is reported (readSelectedGitHubSources).
THEOREM SelectedReadsAreTrue == Spec => []SelectedReadIsTrue
<1>1. Init => SelectedInv
    BY SelectedInitInv, SelectedRestsInv DEF Init
<1>2. SelectedInv /\ [Next]_collectionVars => SelectedInv'
    BY StepsOfCollectors, NextKeepsSelected
<1> QED BY <1>1, <1>2, SelectedInvIsTrue, PTL DEF Spec

-----------------------------------------------------------------------------
(* The walk of a history *)

\* A walk has read or has still to read what it met, each commit once, the head first,
\* and it met the parents of what it read and nothing else.
Unread(w) ==
    /\ w.pending \in Seq(Commits) /\ w.commits \in Seq(Commits)
    /\ IsInjective(w.pending) /\ IsInjective(w.commits)
    /\ w.scheduled = Range(w.pending) \cup Range(w.commits)
    /\ Range(w.pending) \cap Range(w.commits) = {}
FromHead(w, head) ==
    /\ head \in w.scheduled
    /\ w.commits = <<>> => w.pending = <<head>>
    /\ w.commits # <<>> => w.commits[1] = head
Followed(w, head, stop) ==
    /\ \A c \in Range(w.commits) \ stop : ParentsOf(c) \subseteq w.scheduled
    /\ \A p \in w.scheduled \ {head} : \E c \in Range(w.commits) : p \in ParentsOf(c)
WalkGood(w, head, stop) == Unread(w) /\ FromHead(w, head) /\ Followed(w, head, stop)

LEMMA StartedIsGood ==
    ASSUME NEW head \in Commits, NEW stop
    PROVE  WalkGood(Started(head), head, stop)
<1> DEFINE w == Started(head)
<1>1. w.pending = <<head>> /\ w.scheduled = {head} /\ w.commits = <<>>
    BY DEF Started
<1>2. <<>> \in Seq(Commits) /\ Range(<<>>) = {} /\ IsInjective(<<>>)
    BY DEF Range, IsInjective
<1>3. <<head>> \in Seq(Commits) /\ Range(<<head>>) = {head} /\ IsInjective(<<head>>)
    <2>1. <<head>> \in Seq(Commits) /\ DOMAIN <<head>> = {1} /\ <<head>>[1] = head
        OBVIOUS
    <2> QED BY <2>1 DEF Range, IsInjective
<1> HIDE DEF w
<1>4. Unread(w)
    BY <1>1, <1>2, <1>3 DEF Unread
<1>5. FromHead(w, head)
    BY <1>1 DEF FromHead
<1>6. Followed(w, head, stop)
    BY <1>1, <1>2 DEF Followed
<1> QED BY <1>4, <1>5, <1>6 DEF WalkGood, w

LEMMA MeetIsGood ==
    ASSUME NEW head \in Commits, NEW stop, NEW w, WalkGood(w, head, stop), w.pending # <<>>
    PROVE  WalkGood(Meet(w, stop), head, stop) /\ Meet(w, stop).commits # <<>>
<1> DEFINE c == Head(w.pending)
           met == IF c \in stop THEN <<>> ELSE Parents[c]
           rest == Tail(w.pending)
           new == Among(met, Commits \ w.scheduled)
           v == Meet(w, stop)
<1>1. /\ v.pending = rest \o new
      /\ v.scheduled = w.scheduled \cup Range(met)
      /\ v.commits = Append(w.commits, c)
    <2>1. v = [pending |-> rest \o new, scheduled |-> w.scheduled \cup Range(met),
               commits |-> Append(w.commits, c)]
        BY Zenon DEF Meet
    <2> HIDE DEF v, rest, new, met, c
    <2> QED BY <2>1
<1>2. /\ w.pending \in Seq(Commits) /\ w.commits \in Seq(Commits)
      /\ IsInjective(w.pending) /\ IsInjective(w.commits)
      /\ w.scheduled = Range(w.pending) \cup Range(w.commits)
      /\ Range(w.pending) \cap Range(w.commits) = {}
    BY DEF WalkGood, Unread
<1>3. /\ rest \in Seq(Commits) /\ c \in Range(w.pending) /\ c = w.pending[1]
      /\ Range(rest) = Range(w.pending) \ {c} /\ IsInjective(rest)
    BY <1>2, TailElements
<1> HIDE DEF c, rest
<1>4. c \in Commits
    BY <1>2, <1>3, Elements
<1>5. met \in Seq(Commits) /\ IsInjective(met) /\ Range(met) \subseteq ParentsOf(c)
      /\ (c \notin stop => Range(met) = ParentsOf(c))
    <2>1. Parents \in [Commits -> Seq(Commits)] /\ \A d \in Commits : IsInjective(Parents[d])
        BY HistoryAssumption DEF IsInjective
    <2>2. Parents[c] \in Seq(Commits) /\ IsInjective(Parents[c])
        BY <1>4, <2>1
    <2>3. <<>> \in Seq(Commits) /\ Range(<<>>) = {} /\ IsInjective(<<>>)
        BY DEF Range, IsInjective
    <2>4. CASE c \in stop
        <3>1. met = <<>>
            BY <2>4
        <3> HIDE DEF met
        <3> QED BY <2>3, <2>4, <3>1
    <2>5. CASE c \notin stop
        <3>1. met = Parents[c]
            BY <2>5
        <3> HIDE DEF met
        <3> QED BY <2>2, <2>5, <3>1 DEF ParentsOf
    <2> QED BY <2>4, <2>5
<1> HIDE DEF met, v
<1>6. /\ new \in Seq(Commits) /\ Range(new) = Range(met) \cap (Commits \ w.scheduled)
      /\ IsInjective(new)
    BY <1>5, AmongFacts
<1> HIDE DEF new
<1>7. Range(met) \subseteq Commits
    BY <1>5, Elements
<1>8. Range(new) = Range(met) \ w.scheduled
    BY <1>6, <1>7
<1>9. /\ v.pending \in Seq(Commits)
      /\ Range(v.pending) = Range(rest) \cup Range(new)
      /\ IsInjective(v.pending)
    <2>1. Range(rest) \cap Range(new) = {}
        BY <1>2, <1>3, <1>8
    <2> QED BY <1>1, <1>3, <1>6, <2>1, ConcatElements
<1>10. /\ v.commits \in Seq(Commits)
       /\ Range(v.commits) = Range(w.commits) \cup {c}
       /\ v.commits[1] = (IF w.commits = <<>> THEN c ELSE w.commits[1])
       /\ v.commits # <<>>
       /\ IsInjective(v.commits)
    <2>1. c \notin Range(w.commits)
        BY <1>2, <1>3
    <2> QED BY <1>1, <1>2, <1>4, <2>1, AppendElements
<1>11. Unread(v)
    <2>1. v.scheduled = Range(v.pending) \cup Range(v.commits)
        BY <1>1, <1>2, <1>3, <1>8, <1>9, <1>10
    <2>2. Range(v.pending) \cap Range(v.commits) = {}
        BY <1>2, <1>3, <1>8, <1>9, <1>10
    <2> QED BY <1>9, <1>10, <2>1, <2>2 DEF Unread
<1>12. FromHead(v, head)
    <2>1. w.commits = <<>> => c = head
        BY <1>3 DEF WalkGood, FromHead
    <2> QED BY <1>1, <1>10, <2>1 DEF WalkGood, FromHead
<1>13. Followed(v, head, stop)
    <2>1. \A d \in Range(v.commits) \ stop : ParentsOf(d) \subseteq v.scheduled
        BY <1>1, <1>5, <1>10 DEF WalkGood, Followed
    <2>2. \A p \in v.scheduled \ {head} : \E d \in Range(v.commits) : p \in ParentsOf(d)
        BY <1>1, <1>5, <1>10 DEF WalkGood, Followed
    <2> QED BY <2>1, <2>2 DEF Followed
<1> QED BY <1>10, <1>11, <1>12, <1>13 DEF WalkGood, v

\* A walk with nothing left to read is complete, and one with something left is not.
LEMMA GoodWalkTells ==
    ASSUME NEW head \in Commits, NEW w, WalkGood(w, head, {})
    PROVE  /\ w.pending = <<>> => Closed(Range(w.commits))
           /\ w.pending # <<>> /\ w.commits # <<>> => ~Closed(Range(w.commits))
<1>1. ASSUME w.pending = <<>> PROVE Closed(Range(w.commits))
    <2>1. Range(w.pending) = {}
        BY <1>1 DEF Range
    <2> QED BY <2>1 DEF WalkGood, Unread, Followed, Closed
<1>2. ASSUME w.pending # <<>>, w.commits # <<>>, Closed(Range(w.commits)) PROVE FALSE
    <2>1. PICK p : p \in Range(w.pending)
        BY <1>2, Elements DEF WalkGood, Unread
    <2>2. head \in Range(w.commits)
        <3>1. w.commits[1] \in Range(w.commits)
            BY <1>2, Elements DEF WalkGood, Unread
        <3> QED BY <1>2, <3>1 DEF WalkGood, FromHead
    <2>3. p \in w.scheduled \ {head}
        BY <2>1, <2>2 DEF WalkGood, Unread
    <2>4. PICK c \in Range(w.commits) : p \in ParentsOf(c)
        BY <2>3 DEF WalkGood, Followed
    <2>5. p \in Range(w.commits)
        BY <1>2, <2>4 DEF Closed
    <2> QED BY <2>1, <2>5 DEF WalkGood, Unread
<1> QED BY <1>1, <1>2

\* What Walked computes, commit by commit.
IsWalk(f, head, stop, n) ==
    f = [k \in 0..n |->
            IF k = 0 THEN Started(head)
            ELSE IF f[k - 1].pending = <<>> THEN f[k - 1]
            ELSE Meet(f[k - 1], stop)]

LEMMA WalkExists ==
    ASSUME NEW head, NEW stop, NEW n \in Nat
    PROVE  \E f : IsWalk(f, head, stop, n)
<1> DEFINE B == {m \in Nat : ~\E f : IsWalk(f, head, stop, m)}
<1>1. ASSUME B # {} PROVE FALSE
    <2>1. PICK m \in B : \A k \in B : m <= k
        BY <1>1, LeastExists
    <2>2. ~\E f : IsWalk(f, head, stop, m)
        BY <2>1
    <2>3. CASE m = 0
        <3> DEFINE f == [k \in 0..0 |-> Started(head)]
        <3>1. f = [k \in 0..0 |-> IF k = 0 THEN Started(head)
                     ELSE IF f[k - 1].pending = <<>> THEN f[k - 1] ELSE Meet(f[k - 1], stop)]
            OBVIOUS
        <3>2. IsWalk(f, head, stop, 0)
            BY <3>1 DEF IsWalk
        <3> QED BY <2>2, <2>3, <3>2
    <2>4. CASE m # 0
        <3>1. m \in Nat /\ m - 1 \in Nat /\ m - 1 \notin B
            BY <2>1, <2>4
        <3>2. PICK f : IsWalk(f, head, stop, m - 1)
            BY <3>1
        <3> DEFINE last == IF f[m - 1].pending = <<>> THEN f[m - 1] ELSE Meet(f[m - 1], stop)
                   g == [k \in 0..m |-> IF k = m THEN last ELSE f[k]]
        <3>3. \A k \in 0..(m - 1) :
                 f[k] = IF k = 0 THEN Started(head)
                        ELSE IF f[k - 1].pending = <<>> THEN f[k - 1] ELSE Meet(f[k - 1], stop)
            BY <3>2 DEF IsWalk
        <3>4. /\ \A k \in 0..(m - 1) : k \in 0..m /\ k # m
              /\ m \in 0..m
              /\ \A k \in 0..m : k # 0 => k - 1 \in 0..(m - 1) /\ k - 1 # m /\ k - 1 \in 0..m
            BY <3>1
        <3>5. /\ \A k \in 0..(m - 1) : g[k] = f[k]
              /\ g[m] = last
            BY <3>4
        <3>6. ASSUME NEW k \in 0..m
              PROVE  g[k] = IF k = 0 THEN Started(head)
                            ELSE IF g[k - 1].pending = <<>> THEN g[k - 1] ELSE Meet(g[k - 1], stop)
            <4> HIDE DEF g
            <4>1. k # 0 => g[k - 1] = f[k - 1]
                BY <3>4, <3>5
            <4>2. CASE k = m
                BY <2>4, <3>5, <4>1, <4>2
            <4>3. CASE k # m
                <5>1. k \in 0..(m - 1)
                    BY <3>1, <4>3
                <5>2. g[k] = f[k]
                    BY <3>5, <5>1
                <5> QED BY <3>3, <4>1, <5>1, <5>2
            <4> QED BY <4>2, <4>3
        <3>7. g = [k \in 0..m |-> g[k]]
            OBVIOUS
        <3> HIDE DEF g
        <3>8. IsWalk(g, head, stop, m)
            <4>1. [k \in 0..m |-> g[k]] =
                      [k \in 0..m |-> IF k = 0 THEN Started(head)
                            ELSE IF g[k - 1].pending = <<>> THEN g[k - 1] ELSE Meet(g[k - 1], stop)]
                BY <3>6
            <4> QED BY <3>7, <4>1 DEF IsWalk
        <3> QED BY <2>2, <3>8
    <2> QED BY <2>3, <2>4
<1> QED BY <1>1

\* git walks as the collector does.
LEMMA WalkedIsGood ==
    ASSUME NEW head \in Commits, NEW stop, NEW n \in Nat
    PROVE  WalkGood(Walked(head, stop, n), head, stop)
<1> DEFINE f == CHOOSE g : IsWalk(g, head, stop, n)
           Good(k) == WalkGood(f[k], head, stop)
           B == {k \in 0..n : ~Good(k)}
<1>1. IsWalk(f, head, stop, n)
    <2>1. \E g : IsWalk(g, head, stop, n)
        BY WalkExists
    <2> QED BY <2>1
<1>2. Walked(head, stop, n) = f[n]
    BY Zenon DEF Walked, IsWalk
<1> HIDE DEF f
<1>3. \A k \in 0..n : f[k] = IF k = 0 THEN Started(head)
                             ELSE IF f[k - 1].pending = <<>> THEN f[k - 1]
                             ELSE Meet(f[k - 1], stop)
    BY <1>1 DEF IsWalk
<1> HIDE DEF Good
<1>4. ASSUME B # {} PROVE FALSE
    <2>1. PICK k \in B : \A j \in B : k <= j
        <3>1. B \subseteq Nat
            OBVIOUS
        <3> HIDE DEF B
        <3> QED BY <1>4, <3>1, LeastExists
    <2>2. k \in 0..n /\ ~Good(k) /\ k \in Nat
        BY <2>1
    <2>3. \A j \in 0..n : j < k => Good(j)
        BY <2>1, <2>2
    <2>4. CASE k = 0
        BY <1>3, <2>2, <2>4, StartedIsGood DEF Good
    <2>5. CASE k # 0
        <3>1. k - 1 \in 0..n /\ k - 1 < k
            BY <2>2, <2>5
        <3>2. WalkGood(f[k - 1], head, stop)
            BY <2>3, <3>1 DEF Good
        <3>3. f[k] = IF f[k - 1].pending = <<>> THEN f[k - 1] ELSE Meet(f[k - 1], stop)
            BY <1>3, <2>2, <2>5
        <3>4. WalkGood(f[k], head, stop)
            BY <3>2, <3>3, MeetIsGood
        <3> QED BY <2>2, <3>4 DEF Good
    <2> QED BY <2>4, <2>5
<1>5. Good(n)
    BY <1>4
<1> QED BY <1>2, <1>5 DEF Good

-----------------------------------------------------------------------------
(* The history of a repository *)

\* The parts of the repository, of the local and of the remote collection.
HistoryShapes ==
    /\ repository \in [head : Branches, store : {repository.store}, edits : {repository.edits},
                       loose : [Branches -> Latest \cup {Absent}],
                       packed : [Branches -> Latest \cup {Absent}],
                       shallow : {repository.shallow}, lacks : {repository.lacks}]
    /\ local \in [pc : {local.pc}, branch : Branches, found : {local.found},
                  boundary : {local.boundary}, store : {local.store}, commits : {local.commits},
                  truncated : {local.truncated}, shallow : {local.shallow},
                  category : {local.category}]
    /\ remote \in [pc : {remote.pc}, policy : {remote.policy}, pinned : Latest \cup {Absent},
                   requests : Nat, walked : {remote.walked}, truncated : {remote.truncated},
                   source : {remote.source}, status : {remote.status}]

\* What the branches that HEAD named hold now is known.
TipsKnown ==
    /\ <<repository.head, Tip(repository, repository.head)>> \in tips
    /\ \A t \in tips : <<t[1], Tip(repository, t[1])>> \in tips

\* The local collection reads a branch that HEAD named; a loose reference that was absent
\* left the packed one to be the tip, and it stays one however references are packed.
LocalReads ==
    /\ local.pc \notin {"open", "head", "done"} =>
          <<local.branch, Tip(repository, local.branch)>> \in tips
    /\ local.pc = "packed" =>
          \/ repository.packed[local.branch] = Absent
          \/ <<local.branch, repository.packed[local.branch]>> \in tips
    /\ local.pc \in {"open", "head"} => local.found = Absent
    /\ HeadWasTip

\* A history without boundary that git did not cut is complete.
LocalTells ==
    /\ local.pc # "done" => local.category = "none"
    /\ local.pc \in {"shallow", "before", "rev-list", "cat-file"} \/ local.category = "ok" =>
          local.found \in Commits
    /\ local.pc = "cat-file" \/ local.category = "ok" =>
          (local.boundary = {} /\ ~local.truncated => Closed(local.commits))
    /\ local.category = "ok" => (local.shallow <=> local.boundary # {})

\* GitHub is asked after the local collection and for a reason that stays; what has been
\* walked begins with the expected head, and it is all there is when nothing is pending.
RemoteAsks ==
    /\ remote.pc # "local" => local.pc = "done"
    /\ remote.pc = "local" => remote.requests = 0
    /\ remote.pc \in {"local", "decide", "identify", "walk"} => remote.source = "none"
    /\ remote.requests > 0 => Refused = "none" /\ ExpectedHead \in Commits
    /\ remote.pc \in {"identify", "walk"} => remote.requests > 0
    /\ remote.pc = "walk" => WalkGood(remote.walked, ExpectedHead, {})
RemoteTells ==
    remote.source = "github" =>
        /\ remote.requests > 0 /\ WalkGood(remote.walked, ExpectedHead, {})
        /\ remote.walked.commits # <<>>
        /\ remote.truncated = (remote.walked.pending # <<>>)

HistoryInv ==
    HistoryShapes /\ TipsKnown /\ LocalReads /\ LocalTells /\ RemoteAsks /\ RemoteTells

LEMMA HistoryInitInv == HistoryInit => HistoryInv
<1> SUFFICES ASSUME HistoryInit PROVE HistoryInv
    OBVIOUS
<1> DEFINE L == [Branches -> Latest \cup {Absent}]
<1>1. PICK shallow \in BOOLEAN, head \in Branches, loose \in L, packed \in L :
         repository = [head |-> head, store |-> 0, edits |-> 0,
                       loose |-> loose, packed |-> packed,
                       shallow |-> IF shallow THEN Boundary ELSE {},
                       lacks |-> IF shallow THEN Deep ELSE {}]
    BY DEF HistoryInit
<1>2. /\ tips = {<<repository.head, Tip(repository, repository.head)>>}
      /\ local = [pc |-> "open", branch |-> repository.head, found |-> Absent, boundary |-> {},
                  store |-> 0, commits |-> {}, truncated |-> FALSE, shallow |-> FALSE,
                  category |-> "none"]
    BY DEF HistoryInit, NoLocal
<1>3. remote = NoRemote
    BY DEF HistoryInit
<1>4. repository.head \in Branches
    BY <1>1
<1>5. HistoryShapes
    <2>1. repository \in [head : Branches, store : {repository.store}, edits : {repository.edits},
                          loose : L, packed : L,
                          shallow : {repository.shallow}, lacks : {repository.lacks}]
        <3> HIDE DEF L
        <3> QED BY <1>1
    <2>2. local \in [pc : {local.pc}, branch : Branches, found : {local.found},
                     boundary : {local.boundary}, store : {local.store}, commits : {local.commits},
                     truncated : {local.truncated}, shallow : {local.shallow},
                     category : {local.category}]
        BY <1>2, <1>4
    <2>3. remote \in [pc : {remote.pc}, policy : {remote.policy}, pinned : Latest \cup {Absent},
                      requests : Nat, walked : {remote.walked}, truncated : {remote.truncated},
                      source : {remote.source}, status : {remote.status}]
        BY <1>3 DEF NoRemote
    <2> QED BY <2>1, <2>2, <2>3 DEF HistoryShapes
<1>6. TipsKnown
    BY <1>2 DEF TipsKnown
<1>7. LocalReads
    BY <1>2 DEF LocalReads, HeadWasTip
<1>8. LocalTells
    BY <1>2 DEF LocalTells
<1>9. RemoteAsks
    BY <1>3 DEF RemoteAsks, NoRemote
<1>10. RemoteTells
    BY <1>3 DEF RemoteTells, NoRemote
<1> QED BY <1>5, <1>6, <1>7, <1>8, <1>9, <1>10 DEF HistoryInv

\* Why GitHub is asked, and for which head, depends on the local collection, the policy
\* and the pinned head.
LEMMA ReasonsStay ==
    ASSUME local' = local, remote'.policy = remote.policy, remote'.pinned = remote.pinned
    PROVE  Refused' = Refused /\ ExpectedHead' = ExpectedHead
BY DEF Refused, ExpectedHead, Whole

LEMMA RemoteStays ==
    ASSUME HistoryInv, UNCHANGED remote, UNCHANGED local \/ remote.pc = "local"
    PROVE  (local'.pc = "done" \/ remote.pc = "local" => RemoteAsks') /\ RemoteTells'
<1>1. CASE UNCHANGED local
    <2>1. Refused' = Refused /\ ExpectedHead' = ExpectedHead
        BY <1>1, ReasonsStay
    <2> QED BY <2>1 DEF HistoryInv, RemoteAsks, RemoteTells
<1>2. CASE remote.pc = "local"
    <2>1. remote.requests = 0 /\ remote.source = "none" /\ remote' = remote
        BY <1>2 DEF HistoryInv, RemoteAsks
    <2>2. RemoteAsks'
        BY <1>2, <2>1 DEF RemoteAsks
    <2>3. RemoteTells'
        BY <2>1 DEF RemoteTells
    <2> QED BY <2>2, <2>3
<1> QED BY <1>1, <1>2

\* Whatever Git does in the repository, the tips remain known and what has been read of
\* them has been a tip.
LEMMA EditKeepsHistory ==
    ASSUME HistoryInv, NEW changed, RepositoryEdit(changed),
           changed \in [head : Branches, store : {changed.store}, edits : {changed.edits},
                        loose : [Branches -> Latest \cup {Absent}],
                        packed : [Branches -> Latest \cup {Absent}],
                        shallow : {changed.shallow}, lacks : {changed.lacks}],
           \A b \in Branches : changed.packed[b] \in {repository.packed[b], Tip(repository, b)}
    PROVE  HistoryInv'
<1> DEFINE L == [Branches -> Latest \cup {Absent}]
           new == <<changed.head, Tip(changed, changed.head)>>
           named == {t[1] : t \in tips}
           held == {<<b, Tip(changed, b)>> : b \in named}
<1>1. /\ UNCHANGED <<local, remote>> /\ local.pc # "done"
      /\ tips' = tips \cup {new} \cup held
      /\ repository' = [changed EXCEPT !.edits = @ + 1]
    BY DEF RepositoryEdit
<1>2. remote.pc = "local"
    BY <1>1 DEF HistoryInv, RemoteAsks
<1>3. /\ repository' \in [head : Branches, store : {repository'.store}, edits : {repository'.edits},
                          loose : L, packed : L,
                          shallow : {repository'.shallow}, lacks : {repository'.lacks}]
      /\ repository'.head = changed.head /\ repository'.loose = changed.loose
      /\ repository'.packed = changed.packed
    <2>1. changed \in [head : Branches, store : {changed.store}, edits : {changed.edits},
                       loose : L, packed : L,
                       shallow : {changed.shallow}, lacks : {changed.lacks}]
        OBVIOUS
    <2> HIDE DEF L
    <2> QED BY <1>1, <2>1
<1>4. \A b : Tip(repository', b) = Tip(changed, b)
    BY <1>3 DEF Tip
<1>5. HistoryShapes'
    BY <1>1, <1>3 DEF HistoryInv, HistoryShapes
<1>6. TipsKnown'
    <2>1. <<repository'.head, Tip(repository', repository'.head)>> = new
        BY <1>3, <1>4
    <2>2. ASSUME NEW t \in tips' PROVE <<t[1], Tip(repository', t[1])>> \in tips'
        <3>1. CASE t \in tips
            <4>1. <<t[1], Tip(changed, t[1])>> \in held
                BY <3>1
            <4> QED BY <1>1, <1>4, <4>1
        <3>2. CASE t = new
            <4>1. t[1] = changed.head
                BY <3>2
            <4> QED BY <1>1, <1>4, <4>1
        <3>3. CASE t \in held
            <4>1. PICK b \in named : t = <<b, Tip(changed, b)>>
                BY <3>3
            <4>2. t[1] = b
                BY <4>1
            <4> QED BY <1>4, <4>1, <4>2
        <3> QED BY <1>1, <2>2, <3>1, <3>2, <3>3
    <2> HIDE DEF new, held
    <2>3. new \in tips'
        BY <1>1
    <2> QED BY <2>1, <2>2, <2>3 DEF TipsKnown
<1>7. LocalReads'
    <2>1. tips \subseteq tips'
        BY <1>1
    <2>2. ASSUME local.pc \notin {"open", "head", "done"}
          PROVE  <<local.branch, Tip(repository', local.branch)>> \in tips'
        <3>1. <<local.branch, Tip(repository, local.branch)>> \in tips
            BY <2>2 DEF HistoryInv, LocalReads
        <3>2. local.branch \in named
            <4>1. <<local.branch, Tip(repository, local.branch)>>[1] = local.branch
                OBVIOUS
            <4> QED BY <3>1, <4>1
        <3>3. <<local.branch, Tip(changed, local.branch)>> \in held
            BY <3>2
        <3> QED BY <1>1, <1>4, <3>3
    <2>3. ASSUME local.pc = "packed"
          PROVE  \/ changed.packed[local.branch] = Absent
                 \/ <<local.branch, changed.packed[local.branch]>> \in tips
        <3>1. local.branch \in Branches
            BY DEF HistoryInv, HistoryShapes
        <3> QED BY <2>3, <3>1 DEF HistoryInv, LocalReads
    <2>4. HeadWasTip'
        BY <1>1, <2>1 DEF HistoryInv, LocalReads, HeadWasTip
    <2>5. local.pc \in {"open", "head"} => local.found = Absent
        BY DEF HistoryInv, LocalReads
    <2> HIDE DEF new, named, held
    <2> QED BY <1>1, <1>3, <2>1, <2>2, <2>3, <2>4, <2>5 DEF LocalReads
<1>8. LocalTells'
    BY <1>1 DEF HistoryInv, LocalTells
<1>9. RemoteAsks' /\ RemoteTells'
    BY <1>1, <1>2, RemoteStays
<1> QED BY <1>5, <1>6, <1>7, <1>8, <1>9 DEF HistoryInv

LEMMA EditsKeepHistory ==
    ASSUME HistoryInv,
           \/ \E b \in Branches : Checkout(b) \/ PackRefs(b) \/ PruneLoose(b)
           \/ \E b \in Branches, c \in Latest : MoveBranch(b, c)
           \/ Deepen \/ EndShallow \/ Repack
    PROVE  HistoryInv'
<1> DEFINE L == [Branches -> Latest \cup {Absent}]
           r == repository
           Good(changed) ==
               /\ changed \in [head : Branches, store : {changed.store}, edits : {changed.edits},
                               loose : L, packed : L,
                               shallow : {changed.shallow}, lacks : {changed.lacks}]
               /\ \A b \in Branches : changed.packed[b] \in {r.packed[b], Tip(r, b)}
<1>1. ASSUME NEW changed, RepositoryEdit(changed), Good(changed) PROVE HistoryInv'
    BY <1>1, EditKeepsHistory
<1>2. r \in [head : Branches, store : {r.store}, edits : {r.edits}, loose : L, packed : L,
             shallow : {r.shallow}, lacks : {r.lacks}]
    BY DEF HistoryInv, HistoryShapes
<1>3. \A b \in Branches : Tip(r, b) \in Latest \cup {Absent}
    BY <1>2 DEF Tip
<1>4. ASSUME NEW b \in Branches, Checkout(b) PROVE HistoryInv'
    <2> DEFINE changed == [r EXCEPT !.head = b]
    <2>1. RepositoryEdit(changed)
        BY <1>4 DEF Checkout
    <2>2. Good(changed)
        <3> HIDE DEF L, r
        <3> QED BY <1>2
    <2> QED BY <1>1, <2>1, <2>2
<1>5. ASSUME NEW b \in Branches, PackRefs(b) PROVE HistoryInv'
    <2> DEFINE packed == [r.packed EXCEPT ![b] = Tip(r, b)]
               changed == [r EXCEPT !.packed = packed]
    <2>1. RepositoryEdit(changed)
        BY <1>5 DEF PackRefs
    <2>2. packed \in L
        BY <1>2, <1>3
    <2>3. \A a \in Branches : packed[a] \in {r.packed[a], Tip(r, a)}
        BY <1>2
    <2>4. Good(changed)
        <3> HIDE DEF L, r, packed
        <3> QED BY <1>2, <2>2, <2>3
    <2> QED BY <1>1, <2>1, <2>4
<1>6. ASSUME NEW b \in Branches, NEW c \in Latest \cup {Absent},
             RepositoryEdit([r EXCEPT !.loose[b] = c])
      PROVE  HistoryInv'
    <2> DEFINE loose == [r.loose EXCEPT ![b] = c]
               changed == [r EXCEPT !.loose = loose]
    <2>1. RepositoryEdit(changed)
        BY <1>6
    <2>2. loose \in L
        BY <1>2
    <2>3. Good(changed)
        <3> HIDE DEF L, r, loose
        <3> QED BY <1>2, <2>2
    <2> QED BY <1>1, <2>1, <2>3
<1>7. ASSUME NEW b \in Branches, NEW c \in Latest, MoveBranch(b, c) PROVE HistoryInv'
    <2> DEFINE loose == [r.loose EXCEPT ![b] = c]
               store == r.store + 1
               changed == [r EXCEPT !.loose = loose, !.store = store]
    <2>1. RepositoryEdit(changed)
        BY <1>7 DEF MoveBranch
    <2>2. loose \in L
        BY <1>2
    <2>3. Good(changed)
        <3> HIDE DEF L, r, loose, store
        <3> QED BY <1>2, <2>2
    <2> QED BY <1>1, <2>1, <2>3
<1>8. ASSUME NEW lacks, NEW store, RepositoryEdit([r EXCEPT !.lacks = lacks, !.store = store])
      PROVE  HistoryInv'
    <2> DEFINE changed == [r EXCEPT !.lacks = lacks, !.store = store]
    <2>1. Good(changed)
        <3> HIDE DEF L, r
        <3> QED BY <1>2
    <2> QED BY <1>1, <1>8, <2>1
<1>9. ASSUME EndShallow PROVE HistoryInv'
    <2> DEFINE changed == [r EXCEPT !.shallow = {}]
    <2>1. Good(changed)
        <3> HIDE DEF L, r
        <3> QED BY <1>2
    <2> QED BY <1>1, <1>9, <2>1 DEF EndShallow
<1>10. ASSUME Repack PROVE HistoryInv'
    <2> DEFINE store == r.store + 1
               changed == [r EXCEPT !.store = store]
    <2>1. RepositoryEdit(changed)
        BY <1>10 DEF Repack
    <2>2. Good(changed)
        <3> HIDE DEF L, r, store
        <3> QED BY <1>2
    <2> QED BY <1>1, <2>1, <2>2
<1>11. ASSUME NEW b \in Branches, PruneLoose(b) PROVE HistoryInv'
    BY <1>6, <1>11 DEF PruneLoose
<1>12. ASSUME Deepen PROVE HistoryInv'
    <2> DEFINE store == r.store + 1
    <2>1. RepositoryEdit([r EXCEPT !.lacks = {}, !.store = store])
        BY <1>12 DEF Deepen
    <2> HIDE DEF store
    <2> QED BY <1>8, <2>1
<1> QED BY <1>4, <1>5, <1>7, <1>9, <1>10, <1>11, <1>12

\* A step of the local collection leaves the repository and the remote collection alone.
LEMMA LocalMoves ==
    ASSUME HistoryInv, UNCHANGED <<repository, remote, tips>>, local.pc # "done",
           local' \in [pc : {local'.pc}, branch : Branches, found : {local'.found},
                       boundary : {local'.boundary}, store : {local'.store},
                       commits : {local'.commits}, truncated : {local'.truncated},
                       shallow : {local'.shallow}, category : {local'.category}],
           LocalReads', LocalTells'
    PROVE  HistoryInv'
<1>1. remote.pc = "local"
    BY DEF HistoryInv, RemoteAsks
<1>2. RemoteAsks' /\ RemoteTells'
    BY <1>1, RemoteStays
<1>3. HistoryShapes'
    BY DEF HistoryInv, HistoryShapes
<1>4. TipsKnown'
    BY DEF HistoryInv, TipsKnown, Tip
<1> QED BY <1>2, <1>3, <1>4 DEF HistoryInv

LEMMA FailureKeepsHistory ==
    ASSUME HistoryInv, UNCHANGED <<repository, remote, tips>>, local.pc # "done",
           NEW category, category # "ok", LocalFails(category)
    PROVE  HistoryInv'
<1>1. local' = [pc |-> "done", branch |-> local.branch, found |-> Absent, boundary |-> {},
                store |-> 0, commits |-> {}, truncated |-> FALSE, shallow |-> FALSE,
                category |-> category]
    BY DEF LocalFails, LocalIs, NoLocal
<1>2. local.branch \in Branches
    BY DEF HistoryInv, HistoryShapes
<1>3. local' \in [pc : {local'.pc}, branch : Branches, found : {local'.found},
                  boundary : {local'.boundary}, store : {local'.store},
                  commits : {local'.commits}, truncated : {local'.truncated},
                  shallow : {local'.shallow}, category : {local'.category}]
    BY <1>1, <1>2
<1>4. LocalReads'
    BY <1>1 DEF LocalReads, HeadWasTip
<1>5. LocalTells'
    BY <1>1 DEF LocalTells
<1> QED BY <1>3, <1>4, <1>5, LocalMoves

\* The steps that read, each with what it reads.
LEMMA ReadingKeepsHistory ==
    ASSUME HistoryInv, OpenRepository \/ ReadHead \/ ReadLoose \/ ReadPacked
    PROVE  HistoryInv'
<1> USE DEF Reading, LocalIs
<1>1. /\ local \in [pc : {local.pc}, branch : Branches, found : {local.found},
                    boundary : {local.boundary}, store : {local.store}, commits : {local.commits},
                    truncated : {local.truncated}, shallow : {local.shallow},
                    category : {local.category}]
      /\ repository.head \in Branches
      /\ repository.loose \in [Branches -> Latest \cup {Absent}]
      /\ repository.packed \in [Branches -> Latest \cup {Absent}]
    BY DEF HistoryInv, HistoryShapes
<1>2. ASSUME OpenRepository PROVE HistoryInv'
    <2>1. UNCHANGED <<repository, remote, tips>> /\ local.pc = "open"
        BY <1>2 DEF OpenRepository
    <2>2. CASE local' = [local EXCEPT !.pc = "head"]
        <3>1. /\ local'.pc = "head" /\ local'.found = local.found /\ local'.category = local.category
              /\ local' \in [pc : {local'.pc}, branch : Branches, found : {local'.found},
                             boundary : {local'.boundary}, store : {local'.store},
                             commits : {local'.commits}, truncated : {local'.truncated},
                             shallow : {local'.shallow}, category : {local'.category}]
              /\ local'.branch = local.branch
            BY <1>1, <2>2
        <3>2. LocalReads'
            BY <2>1, <3>1 DEF HistoryInv, LocalReads, HeadWasTip
        <3>3. LocalTells'
            BY <2>1, <3>1 DEF HistoryInv, LocalTells
        <3> QED BY <2>1, <3>1, <3>2, <3>3, LocalMoves
    <2>3. CASE local' # [local EXCEPT !.pc = "head"]
        <3>1. PICK category \in {"unsupported-repository", "not-authorized", "path-unavailable"} :
                 LocalFails(category)
            BY <1>2, <2>3 DEF OpenRepository
        <3> QED BY <2>1, <3>1, FailureKeepsHistory
    <2> QED BY <2>2, <2>3
<1>3. ASSUME ReadHead PROVE HistoryInv'
    <2> DEFINE head == repository.head
    <2>1. /\ UNCHANGED <<repository, remote, tips>> /\ local.pc = "head"
          /\ local' = [local EXCEPT !.pc = "loose", !.branch = head]
          /\ head \in Branches
        BY <1>1, <1>3 DEF ReadHead
    <2>2. <<head, Tip(repository, head)>> \in tips
        BY DEF HistoryInv, TipsKnown
    <2> HIDE DEF head
    <2>3. /\ local'.pc = "loose" /\ local'.found = local.found /\ local'.category = local.category
          /\ local' \in [pc : {local'.pc}, branch : Branches, found : {local'.found},
                         boundary : {local'.boundary}, store : {local'.store},
                         commits : {local'.commits}, truncated : {local'.truncated},
                         shallow : {local'.shallow}, category : {local'.category}]
          /\ local'.branch = head
        BY <1>1, <2>1
    <2>4. local.found = Absent
        BY <2>1 DEF HistoryInv, LocalReads
    <2>5. LocalReads'
        BY <2>1, <2>2, <2>3, <2>4 DEF LocalReads, HeadWasTip, Tip
    <2>6. LocalTells'
        BY <2>1, <2>3 DEF HistoryInv, LocalTells
    <2> QED BY <2>1, <2>3, <2>5, <2>6, LocalMoves
<1>4. ASSUME NEW found \in Latest, UNCHANGED <<repository, remote, tips>>,
             local.pc \in {"loose", "packed"},
             <<local.branch, found>> \in tips,
             local' = [local EXCEPT !.pc = "shallow", !.found = found]
      PROVE  HistoryInv'
    <2>1. /\ local'.pc = "shallow" /\ local'.found = found /\ local'.category = local.category
          /\ local' \in [pc : {local'.pc}, branch : Branches, found : {local'.found},
                         boundary : {local'.boundary}, store : {local'.store},
                         commits : {local'.commits}, truncated : {local'.truncated},
                         shallow : {local'.shallow}, category : {local'.category}]
          /\ local'.branch = local.branch
        BY <1>1, <1>4
    <2>2. <<local.branch, Tip(repository, local.branch)>> \in tips
        BY <1>4 DEF HistoryInv, LocalReads
    <2>3. LocalReads'
        BY <1>4, <2>1, <2>2 DEF LocalReads, HeadWasTip, Tip
    <2>4. found \in Commits
        BY HistoryAssumption
    <2>5. LocalTells'
        BY <1>4, <2>1, <2>4 DEF HistoryInv, LocalTells
    <2> QED BY <1>4, <2>1, <2>3, <2>5, LocalMoves
<1>5. ASSUME ReadLoose PROVE HistoryInv'
    <2> DEFINE found == repository.loose[local.branch]
    <2>1. UNCHANGED <<repository, remote, tips>> /\ local.pc = "loose"
        BY <1>5 DEF ReadLoose
    <2>2. <<local.branch, Tip(repository, local.branch)>> \in tips /\ local.branch \in Branches
        BY <1>1, <2>1 DEF HistoryInv, LocalReads
    <2>3. CASE found = Absent
        <3>1. local' = [local EXCEPT !.pc = "packed"]
            BY <1>5, <2>3 DEF ReadLoose
        <3>2. /\ local'.pc = "packed" /\ local'.found = local.found /\ local'.category = local.category
              /\ local' \in [pc : {local'.pc}, branch : Branches, found : {local'.found},
                             boundary : {local'.boundary}, store : {local'.store},
                             commits : {local'.commits}, truncated : {local'.truncated},
                             shallow : {local'.shallow}, category : {local'.category}]
              /\ local'.branch = local.branch
            BY <1>1, <3>1
        <3>3. Tip(repository, local.branch) = repository.packed[local.branch]
            BY <2>3 DEF Tip
        <3>4. LocalReads'
            BY <2>1, <2>2, <3>2, <3>3 DEF HistoryInv, LocalReads, HeadWasTip, Tip
        <3>5. LocalTells'
            BY <2>1, <3>2 DEF HistoryInv, LocalTells
        <3> QED BY <2>1, <3>2, <3>4, <3>5, LocalMoves
    <2>4. CASE found # Absent
        <3>1. local' = [local EXCEPT !.pc = "shallow", !.found = found]
            BY <1>5, <2>4 DEF ReadLoose
        <3>2. found \in Latest
            BY <1>1, <2>2, <2>4
        <3>3. Tip(repository, local.branch) = found
            BY <2>4 DEF Tip
        <3> HIDE DEF found
        <3> QED BY <1>4, <2>1, <2>2, <3>1, <3>2, <3>3
    <2> QED BY <2>3, <2>4
<1>6. ASSUME ReadPacked PROVE HistoryInv'
    <2> DEFINE found == repository.packed[local.branch]
    <2>1. UNCHANGED <<repository, remote, tips>> /\ local.pc = "packed"
        BY <1>6 DEF ReadPacked
    <2>2. CASE found = Absent
        BY <1>6, <2>1, <2>2, FailureKeepsHistory DEF ReadPacked
    <2>3. CASE found # Absent
        <3>1. local' = [local EXCEPT !.pc = "shallow", !.found = found]
            BY <1>6, <2>3 DEF ReadPacked
        <3>2. <<local.branch, found>> \in tips
            BY <2>1, <2>3 DEF HistoryInv, LocalReads
        <3>3. found \in Latest
            BY <1>1, <2>3
        <3> HIDE DEF found
        <3> QED BY <1>4, <2>1, <3>1, <3>2, <3>3
    <2> QED BY <2>2, <2>3
<1> QED BY <1>2, <1>3, <1>5, <1>6

LEMMA HistoryCommandsKeep ==
    ASSUME HistoryInv, ReadShallow \/ SnapshotBefore \/ RevList \/ SnapshotAfter
    PROVE  HistoryInv'
<1> USE DEF Reading, LocalIs
<1>1. local \in [pc : {local.pc}, branch : Branches, found : {local.found},
                 boundary : {local.boundary}, store : {local.store}, commits : {local.commits},
                 truncated : {local.truncated}, shallow : {local.shallow},
                 category : {local.category}]
    BY DEF HistoryInv, HistoryShapes
<1>2. ASSUME UNCHANGED <<repository, remote, tips>>,
             local.pc \in {"shallow", "before", "rev-list", "cat-file"},
             local' \in [pc : {local'.pc}, branch : {local.branch}, found : {local.found},
                         boundary : {local'.boundary}, store : {local'.store},
                         commits : {local'.commits}, truncated : {local'.truncated},
                         shallow : {local'.shallow}, category : {local'.category}],
             local'.pc \in {"before", "rev-list", "cat-file", "done"},
             LocalTells'
      PROVE  HistoryInv'
    <2>1. local'.branch = local.branch /\ local'.found = local.found
        BY <1>2
    <2>2. LocalReads'
        BY <1>2, <2>1 DEF HistoryInv, LocalReads, HeadWasTip, Tip
    <2>3. local' \in [pc : {local'.pc}, branch : Branches, found : {local'.found},
                      boundary : {local'.boundary}, store : {local'.store},
                      commits : {local'.commits}, truncated : {local'.truncated},
                      shallow : {local'.shallow}, category : {local'.category}]
        BY <1>1, <1>2
    <2> QED BY <1>2, <2>2, <2>3, LocalMoves
<1>3. ASSUME ReadShallow PROVE HistoryInv'
    <2> DEFINE boundary == repository.shallow
    <2>1. /\ UNCHANGED <<repository, remote, tips>> /\ local.pc = "shallow"
          /\ local' = [local EXCEPT !.pc = "before", !.boundary = boundary]
        BY <1>3 DEF ReadShallow
    <2> HIDE DEF boundary
    <2>2. /\ local'.pc = "before" /\ local'.category = local.category
          /\ local' \in [pc : {local'.pc}, branch : {local.branch}, found : {local.found},
                         boundary : {local'.boundary}, store : {local'.store},
                         commits : {local'.commits}, truncated : {local'.truncated},
                         shallow : {local'.shallow}, category : {local'.category}]
        BY <1>1, <2>1
    <2>3. local'.found = local.found
        BY <2>2
    <2>4. LocalTells'
        BY <2>1, <2>2, <2>3 DEF HistoryInv, LocalTells
    <2> QED BY <1>2, <2>1, <2>2, <2>4
<1>4. ASSUME SnapshotBefore PROVE HistoryInv'
    <2> DEFINE store == repository.store
    <2>1. /\ UNCHANGED <<repository, remote, tips>> /\ local.pc = "before"
          /\ local' = [local EXCEPT !.pc = "rev-list", !.store = store]
        BY <1>4 DEF SnapshotBefore
    <2> HIDE DEF store
    <2>2. /\ local'.pc = "rev-list" /\ local'.category = local.category
          /\ local' \in [pc : {local'.pc}, branch : {local.branch}, found : {local.found},
                         boundary : {local'.boundary}, store : {local'.store},
                         commits : {local'.commits}, truncated : {local'.truncated},
                         shallow : {local'.shallow}, category : {local'.category}]
        BY <1>1, <2>1
    <2>3. local'.found = local.found
        BY <2>2
    <2>4. LocalTells'
        BY <2>1, <2>2, <2>3 DEF HistoryInv, LocalTells
    <2> QED BY <1>2, <2>1, <2>2, <2>4
<1>5. ASSUME RevList PROVE HistoryInv'
    <2> DEFINE walked == Walked(local.found, local.boundary, MaxCommits)
               commits == Range(walked.commits)
               truncated == walked.pending # <<>>
    <2>1. /\ UNCHANGED <<repository, remote, tips>> /\ local.pc = "rev-list"
          /\ local' = [local EXCEPT !.pc = "cat-file", !.commits = commits,
                                    !.truncated = truncated]
        BY <1>5 DEF RevList
    <2>2. local.found \in Commits
        BY <2>1 DEF HistoryInv, LocalTells
    <2>3. WalkGood(walked, local.found, local.boundary)
        <3>1. MaxCommits \in Nat
            BY HistoryAssumption
        <3> QED BY <2>2, <3>1, WalkedIsGood
    <2> HIDE DEF walked
    <2>4. ASSUME local.boundary = {}, ~truncated PROVE Closed(commits)
        <3>1. WalkGood(walked, local.found, {})
            BY <2>3, <2>4
        <3> QED BY <2>2, <2>4, <3>1, GoodWalkTells
    <2> HIDE DEF commits, truncated
    <2>5. /\ local'.pc = "cat-file" /\ local'.category = local.category
          /\ local'.boundary = local.boundary /\ local'.commits = commits
          /\ local'.truncated = truncated
          /\ local' \in [pc : {local'.pc}, branch : {local.branch}, found : {local.found},
                         boundary : {local'.boundary}, store : {local'.store},
                         commits : {local'.commits}, truncated : {local'.truncated},
                         shallow : {local'.shallow}, category : {local'.category}]
        BY <1>1, <2>1
    <2>6. local'.found = local.found
        BY <2>5
    <2>7. local'.category = "none"
        BY <2>1, <2>5 DEF HistoryInv, LocalTells
    <2>8. local'.boundary = {} /\ ~local'.truncated => Closed(local'.commits)
        BY <2>4, <2>5
    <2>9. LocalTells'
        BY <2>2, <2>5, <2>6, <2>7, <2>8 DEF LocalTells
    <2> QED BY <1>2, <2>1, <2>5, <2>9
<1>6. ASSUME SnapshotAfter PROVE HistoryInv'
    <2>1. UNCHANGED <<repository, remote, tips>> /\ local.pc = "cat-file"
        BY <1>6 DEF SnapshotAfter
    <2>2. CASE repository.store = local.store
        <3> DEFINE shallow == local.boundary # {}
        <3>1. local' = [local EXCEPT !.pc = "done", !.category = "ok", !.shallow = shallow]
            BY <1>6, <2>2 DEF SnapshotAfter
        <3>2. shallow <=> local.boundary # {}
            OBVIOUS
        <3> HIDE DEF shallow
        <3>3. /\ local'.pc = "done" /\ local'.category = "ok" /\ local'.shallow = shallow
              /\ local'.boundary = local.boundary /\ local'.commits = local.commits
              /\ local'.truncated = local.truncated
              /\ local' \in [pc : {local'.pc}, branch : {local.branch}, found : {local.found},
                             boundary : {local'.boundary}, store : {local'.store},
                             commits : {local'.commits}, truncated : {local'.truncated},
                             shallow : {local'.shallow}, category : {local'.category}]
            BY <1>1, <3>1
        <3>4. local'.found = local.found
            BY <3>3
        <3>5. /\ local.found \in Commits
              /\ local.boundary = {} /\ ~local.truncated => Closed(local.commits)
            BY <2>1 DEF HistoryInv, LocalTells
        <3>6. LocalTells'
            BY <3>2, <3>3, <3>4, <3>5 DEF LocalTells
        <3> QED BY <1>2, <2>1, <3>3, <3>6
    <2>3. CASE repository.store # local.store
        BY <1>6, <2>1, <2>3, FailureKeepsHistory DEF SnapshotAfter
    <2> QED BY <2>2, <2>3
<1> QED BY <1>3, <1>4, <1>5, <1>6

LEMMA HistoryFailuresKeep ==
    ASSUME HistoryInv,
           LateLocal \/ ControlFileRefused \/ CommandFails \/ OutputRefused \/ StoreRefused
    PROVE  HistoryInv'
<1>1. UNCHANGED <<repository, remote, tips>> /\ local.pc # "done"
    BY DEF LateLocal, ControlFileRefused, CommandFails, OutputRefused, StoreRefused, Reading
<1>2. \E category : category # "ok" /\ LocalFails(category)
    BY DEF LateLocal, ControlFileRefused, CommandFails, OutputRefused, StoreRefused
<1> QED BY <1>1, <1>2, FailureKeepsHistory

\* A step of the remote collection leaves the repository and the local history alone.
LEMMA RemoteMoves ==
    ASSUME HistoryInv, UNCHANGED <<repository, local, tips>>,
           remote' \in [pc : {remote'.pc}, policy : {remote'.policy}, pinned : Latest \cup {Absent},
                        requests : Nat, walked : {remote'.walked}, truncated : {remote'.truncated},
                        source : {remote'.source}, status : {remote'.status}],
           RemoteAsks', RemoteTells'
    PROVE  HistoryInv'
<1>1. HistoryShapes'
    BY DEF HistoryInv, HistoryShapes
<1>2. TipsKnown'
    BY DEF HistoryInv, TipsKnown, Tip
<1>3. LocalReads'
    BY DEF HistoryInv, LocalReads, HeadWasTip, Tip
<1>4. LocalTells'
    BY DEF HistoryInv, LocalTells
<1> QED BY <1>1, <1>2, <1>3, <1>4 DEF HistoryInv

\* GitHub is asked for a commit that is known.
LEMMA ReasonIsKnown ==
    ASSUME HistoryInv, Refused = "none"
    PROVE  /\ ExpectedHead \in Commits
           /\ \/ local.category = "ok" /\ local.shallow
              \/ local.category \in Eligible
           /\ remote.pinned \in {Absent, ExpectedHead}
<1>1. /\ ~Whole /\ local.category \in Eligible \cup {"ok"}
      /\ ExpectedHead # Absent /\ remote.pinned \in {Absent, ExpectedHead}
    BY Zenon DEF Refused
<1>2. CASE local.category = "ok"
    <2>1. ExpectedHead = local.found /\ local.found \in Commits
        BY <1>2 DEF HistoryInv, LocalTells, ExpectedHead
    <2> QED BY <1>1, <1>2, <2>1 DEF Whole
<1>3. CASE local.category # "ok"
    <2>1. remote.pinned \in Latest \cup {Absent} /\ ExpectedHead = remote.pinned
        BY <1>3 DEF HistoryInv, HistoryShapes, ExpectedHead
    <2>2. Latest \subseteq Commits
        BY HistoryAssumption
    <2> QED BY <1>1, <1>3, <2>1, <2>2
<1> QED BY <1>2, <1>3

LEMMA AnswerKeepsHistory ==
    ASSUME HistoryInv, NEW source, NEW status, NEW requests \in Nat,
           source # "github", remote.pc # "local",
           remote' = [remote EXCEPT !.pc = "done", !.requests = requests, !.source = source,
                                    !.status = status],
           requests > 0 => remote.requests > 0,
           UNCHANGED <<repository, local, tips>>
    PROVE  HistoryInv'
<1>1. /\ remote'.pc = "done" /\ remote'.requests = requests /\ remote'.source = source
      /\ remote'.policy = remote.policy /\ remote'.pinned = remote.pinned
      /\ remote' \in [pc : {remote'.pc}, policy : {remote'.policy}, pinned : Latest \cup {Absent},
                      requests : Nat, walked : {remote'.walked}, truncated : {remote'.truncated},
                      source : {remote'.source}, status : {remote'.status}]
    BY DEF HistoryInv, HistoryShapes
<1>2. Refused' = Refused /\ ExpectedHead' = ExpectedHead /\ local'.pc = "done"
    BY <1>1, ReasonsStay DEF HistoryInv, RemoteAsks
<1>3. RemoteAsks'
    BY <1>1, <1>2 DEF HistoryInv, RemoteAsks
<1>4. RemoteTells'
    BY <1>1 DEF RemoteTells
<1> QED BY <1>1, <1>3, <1>4, RemoteMoves

LEMMA DecisionsKeepHistory ==
    ASSUME HistoryInv, ReadPolicy \/ Decide \/ GiveUp \/ CommitRefused
    PROVE  HistoryInv'
<1> USE DEF RemoteIs
<1>1. /\ remote \in [pc : {remote.pc}, policy : {remote.policy}, pinned : Latest \cup {Absent},
                     requests : Nat, walked : {remote.walked}, truncated : {remote.truncated},
                     source : {remote.source}, status : {remote.status}]
      /\ remote.requests \in Nat
    BY DEF HistoryInv, HistoryShapes
<1>2. Kept # "github"
    BY DEF Kept
<1>3. ASSUME NEW source, NEW status, source # "github", remote.pc # "local", Answer(source, status)
      PROVE  HistoryInv'
    <2>1. /\ remote' = [remote EXCEPT !.pc = "done", !.source = source, !.status = status]
          /\ UNCHANGED <<repository, local, tips>>
        BY <1>3 DEF Answer
    <2>2. remote' = [remote EXCEPT !.pc = "done", !.requests = remote.requests,
                                   !.source = source, !.status = status]
        BY <1>1, <2>1
    <2> QED BY <1>1, <1>3, <2>1, <2>2, AnswerKeepsHistory
<1>4. ASSUME ReadPolicy PROVE HistoryInv'
    <2>1. PICK policy \in Policies, pinned \in Latest \cup {Absent} :
             /\ remote' = [remote EXCEPT !.pc = "decide", !.policy = policy, !.pinned = pinned]
             /\ UNCHANGED <<repository, local, tips>>
        BY <1>4 DEF ReadPolicy
    <2>2. local.pc = "done" /\ remote.requests = 0 /\ remote.source = "none"
        BY <1>4 DEF ReadPolicy, HistoryInv, RemoteAsks
    <2>3. /\ remote'.pc = "decide" /\ remote'.requests = 0 /\ remote'.source = "none"
          /\ remote' \in [pc : {remote'.pc}, policy : {remote'.policy}, pinned : Latest \cup {Absent},
                          requests : Nat, walked : {remote'.walked}, truncated : {remote'.truncated},
                          source : {remote'.source}, status : {remote'.status}]
        BY <1>1, <2>1, <2>2
    <2>4. RemoteAsks'
        BY <2>1, <2>2, <2>3 DEF RemoteAsks
    <2>5. RemoteTells'
        BY <2>3 DEF RemoteTells
    <2> QED BY <2>1, <2>3, <2>4, <2>5, RemoteMoves
<1>5. ASSUME Decide PROVE HistoryInv'
    <2>1. remote.pc = "decide"
        BY <1>5 DEF Decide
    <2>2. CASE Refused # "none"
        <3>1. PICK source : source # "github" /\ Answer(source, Refused)
            BY <1>2, <1>5, <2>2 DEF Decide
        <3> QED BY <1>3, <2>1, <3>1
    <2>3. CASE Refused = "none"
        <3>1. /\ remote' = [remote EXCEPT !.pc = "identify", !.requests = 1]
              /\ UNCHANGED <<repository, local, tips>>
            BY <1>5, <2>3 DEF Decide
        <3>2. /\ remote'.pc = "identify" /\ remote'.requests = 1 /\ remote'.source = remote.source
              /\ remote'.policy = remote.policy /\ remote'.pinned = remote.pinned
              /\ remote' \in [pc : {remote'.pc}, policy : {remote'.policy},
                              pinned : Latest \cup {Absent}, requests : Nat,
                              walked : {remote'.walked}, truncated : {remote'.truncated},
                              source : {remote'.source}, status : {remote'.status}]
            BY <1>1, <3>1
        <3>3. Refused' = "none" /\ ExpectedHead' = ExpectedHead
            BY <2>3, <3>1, <3>2, ReasonsStay
        <3>4. ExpectedHead \in Commits
            BY <2>3, ReasonIsKnown
        <3>5. local'.pc = "done" /\ remote'.source = "none"
            BY <2>1, <3>1, <3>2 DEF HistoryInv, RemoteAsks
        <3>6. RemoteAsks'
            BY <3>2, <3>3, <3>4, <3>5 DEF RemoteAsks
        <3>7. RemoteTells'
            BY <3>5 DEF RemoteTells
        <3> QED BY <3>1, <3>2, <3>6, <3>7, RemoteMoves
    <2> QED BY <2>2, <2>3
<1>6. ASSUME GiveUp PROVE HistoryInv'
    <2>1. PICK status : Answer(Kept, status)
        BY <1>6 DEF GiveUp
    <2> QED BY <1>2, <1>3, <1>6, <2>1 DEF GiveUp
<1>7. ASSUME CommitRefused PROVE HistoryInv'
    <2> DEFINE requests == remote.requests + 1
               source == Kept
               status == "rejected"
    <2>1. /\ remote' = [remote EXCEPT !.pc = "done", !.requests = requests, !.source = source,
                                      !.status = status]
          /\ UNCHANGED <<repository, local, tips>> /\ remote.pc = "walk"
        BY <1>1, <1>7 DEF CommitRefused, Asks
    <2>2. requests \in Nat
        BY <1>1
    <2>3. remote.requests > 0
        BY <2>1 DEF HistoryInv, RemoteAsks
    <2>4. source # "github"
        BY <1>2
    <2> HIDE DEF requests, source, status
    <2> QED BY <2>1, <2>2, <2>3, <2>4, AnswerKeepsHistory
<1> QED BY <1>4, <1>5, <1>6, <1>7

LEMMA WalkingKeepsHistory ==
    ASSUME HistoryInv, Identify \/ FetchCommit \/ EndOfWalk
    PROVE  HistoryInv'
<1> USE DEF RemoteIs
<1>1. remote \in [pc : {remote.pc}, policy : {remote.policy}, pinned : Latest \cup {Absent},
                  requests : Nat, walked : {remote.walked}, truncated : {remote.truncated},
                  source : {remote.source}, status : {remote.status}]
    BY DEF HistoryInv, HistoryShapes
<1>2. /\ remote.pc \in {"identify", "walk"} /\ remote.requests > 0 /\ remote.source = "none"
      /\ Refused = "none" /\ ExpectedHead \in Commits /\ local.pc = "done"
    BY DEF Identify, FetchCommit, Asks, EndOfWalk, HistoryInv, RemoteAsks
<1>3. ASSUME NEW requests \in Nat, requests > 0, NEW walked,
             UNCHANGED <<repository, local, tips>>,
             remote' = [remote EXCEPT !.pc = "walk", !.requests = requests, !.walked = walked],
             WalkGood(walked, ExpectedHead, {})
      PROVE  HistoryInv'
    <2>1. /\ remote'.pc = "walk" /\ remote'.requests = requests /\ remote'.source = "none"
          /\ remote'.walked = walked
          /\ remote'.policy = remote.policy /\ remote'.pinned = remote.pinned
          /\ remote' \in [pc : {remote'.pc}, policy : {remote'.policy},
                          pinned : Latest \cup {Absent}, requests : Nat,
                          walked : {remote'.walked}, truncated : {remote'.truncated},
                          source : {remote'.source}, status : {remote'.status}]
        BY <1>1, <1>2, <1>3
    <2>2. Refused' = "none" /\ ExpectedHead' = ExpectedHead
        BY <1>2, <1>3, <2>1, ReasonsStay
    <2>3. RemoteAsks'
        BY <1>2, <1>3, <2>1, <2>2 DEF RemoteAsks
    <2>4. RemoteTells'
        BY <2>1 DEF RemoteTells
    <2> QED BY <1>3, <2>1, <2>3, <2>4, RemoteMoves
<1>4. ASSUME Identify PROVE HistoryInv'
    <2> DEFINE walked == Started(ExpectedHead)
               requests == remote.requests
    <2>1. remote' = [remote EXCEPT !.pc = "walk", !.walked = walked]
          /\ UNCHANGED <<repository, local, tips>>
        BY <1>4 DEF Identify
    <2>2. WalkGood(walked, ExpectedHead, {})
        BY <1>2, StartedIsGood
    <2>3. requests \in Nat /\ requests > 0
        BY <1>1, <1>2
    <2> HIDE DEF walked
    <2>4. remote' = [remote EXCEPT !.pc = "walk", !.requests = requests, !.walked = walked]
        BY <1>1, <2>1
    <2> HIDE DEF requests
    <2> QED BY <1>3, <2>1, <2>2, <2>3, <2>4
<1>5. ASSUME FetchCommit PROVE HistoryInv'
    <2> DEFINE walked == Meet(remote.walked, {})
               requests == remote.requests + 1
    <2>1. /\ remote' = [remote EXCEPT !.requests = requests, !.walked = walked]
          /\ UNCHANGED <<repository, local, tips>>
          /\ remote.pc = "walk" /\ remote.walked.pending # <<>>
        BY <1>5 DEF FetchCommit, Asks
    <2>2. WalkGood(walked, ExpectedHead, {})
        <3>1. WalkGood(remote.walked, ExpectedHead, {})
            BY <2>1 DEF HistoryInv, RemoteAsks
        <3> QED BY <1>2, <2>1, <3>1, MeetIsGood
    <2>3. requests \in Nat /\ requests > 0
        BY <1>1, <1>2
    <2> HIDE DEF walked, requests
    <2>4. remote' = [remote EXCEPT !.pc = "walk", !.requests = requests, !.walked = walked]
        BY <1>1, <2>1
    <2> QED BY <1>3, <2>1, <2>2, <2>3, <2>4
<1>6. ASSUME EndOfWalk PROVE HistoryInv'
    <2> DEFINE truncated == remote.walked.pending # <<>>
    <2>1. /\ remote' = [remote EXCEPT !.pc = "done", !.source = "github", !.status = "used",
                                      !.truncated = truncated]
          /\ UNCHANGED <<repository, local, tips>>
          /\ remote.pc = "walk"
          /\ remote.walked.pending = <<>> \/ Len(remote.walked.commits) = MaxCommits
        BY <1>6 DEF EndOfWalk, Truncated
    <2>2. WalkGood(remote.walked, ExpectedHead, {})
        BY <2>1 DEF HistoryInv, RemoteAsks
    <2>3. remote.walked.commits # <<>>
        <3>1. CASE remote.walked.pending = <<>>
            BY <2>2, <3>1 DEF WalkGood, FromHead
        <3>2. CASE Len(remote.walked.commits) = MaxCommits
            <4>1. MaxCommits > 0
                BY HistoryAssumption
            <4>2. Len(<<>>) = 0
                OBVIOUS
            <4> QED BY <3>2, <4>1, <4>2
        <3> QED BY <2>1, <3>1, <3>2
    <2> HIDE DEF truncated
    <2>4. /\ remote'.pc = "done" /\ remote'.requests = remote.requests
          /\ remote'.source = "github" /\ remote'.walked = remote.walked
          /\ remote'.truncated = truncated
          /\ remote'.policy = remote.policy /\ remote'.pinned = remote.pinned
          /\ remote' \in [pc : {remote'.pc}, policy : {remote'.policy},
                          pinned : Latest \cup {Absent}, requests : Nat,
                          walked : {remote'.walked}, truncated : {remote'.truncated},
                          source : {remote'.source}, status : {remote'.status}]
        BY <1>1, <2>1
    <2>5. Refused' = "none" /\ ExpectedHead' = ExpectedHead
        BY <1>2, <2>1, <2>4, ReasonsStay
    <2>6. RemoteAsks'
        BY <1>2, <2>1, <2>4, <2>5 DEF RemoteAsks
    <2>7. remote'.truncated = (remote'.walked.pending # <<>>)
        BY <2>4, Zenon DEF truncated
    <2>8. RemoteTells'
        BY <1>2, <2>2, <2>3, <2>4, <2>5, <2>7 DEF RemoteTells
    <2> QED BY <2>1, <2>4, <2>6, <2>8, RemoteMoves
<1> QED BY <1>4, <1>5, <1>6

LEMMA NextKeepsHistory ==
    ASSUME HistoryInv, [HistoryNext]_historyVars
    PROVE  HistoryInv'
<1>1. CASE UNCHANGED historyVars
    <2>1. UNCHANGED <<repository, local, remote, tips>>
        BY <1>1 DEF historyVars
    <2>2. RemoteAsks' /\ RemoteTells'
        <3>1. remote.pc = "local" \/ local.pc = "done"
            BY DEF HistoryInv, RemoteAsks
        <3> QED BY <2>1, <3>1, RemoteStays
    <2>3. HistoryShapes' /\ TipsKnown'
        BY <2>1 DEF HistoryInv, HistoryShapes, TipsKnown, Tip
    <2>4. LocalReads' /\ LocalTells'
        BY <2>1 DEF HistoryInv, LocalReads, HeadWasTip, LocalTells, Tip
    <2> QED BY <2>2, <2>3, <2>4 DEF HistoryInv
<1>2. CASE LocalStep
    BY <1>2, ReadingKeepsHistory, HistoryCommandsKeep, HistoryFailuresKeep DEF LocalStep
<1>3. CASE RemoteStep
    BY <1>3, DecisionsKeepHistory, WalkingKeepsHistory DEF RemoteStep
<1>4. CASE HistoryNext /\ ~LocalStep /\ ~RemoteStep
    BY <1>4, EditsKeepHistory DEF HistoryNext
<1> QED BY <1>1, <1>2, <1>3, <1>4

\* What the collections give is true of the repository.
LEMMA HistoryInvIsTrue ==
    ASSUME HistoryInv
    PROVE  LocalHistoryIsTrue /\ RemoteHistoryIsTrue
<1>1. LocalHistoryIsTrue
    BY DEF HistoryInv, LocalReads, LocalTells, LocalHistoryIsTrue, LocalHistoryComplete
<1>2. RemoteHistoryIsTold
    <2> SUFFICES ASSUME remote.source = "github"
                 PROVE  /\ Len(remote.walked.commits) > 0
                        /\ remote.walked.commits[1] = ExpectedHead
                        /\ IsInjective(remote.walked.commits)
                        /\ remote.truncated = ~Closed(Range(remote.walked.commits))
        BY DEF RemoteHistoryIsTold
    <2>1. /\ WalkGood(remote.walked, ExpectedHead, {}) /\ remote.walked.commits # <<>>
          /\ remote.truncated = (remote.walked.pending # <<>>) /\ remote.requests > 0
        BY DEF HistoryInv, RemoteTells
    <2>2. ExpectedHead \in Commits
        BY <2>1 DEF HistoryInv, RemoteAsks
    <2>3. (remote.walked.pending # <<>>) = ~Closed(Range(remote.walked.commits))
        BY <2>1, <2>2, GoodWalkTells
    <2>4. remote.truncated = ~Closed(Range(remote.walked.commits))
        BY <2>1, <2>3, Zenon
    <2>5. Len(remote.walked.commits) > 0
        BY <2>1, Elements DEF WalkGood, Unread
    <2> QED BY <2>1, <2>4, <2>5 DEF WalkGood, Unread, FromHead
<1>3. FallbackKeepsHead
    <2>1. ASSUME remote.requests > 0
          PROVE  \/ local.category = "ok" /\ local.shallow
                 \/ local.category \in Eligible
        <3>1. Refused = "none"
            BY <2>1 DEF HistoryInv, RemoteAsks
        <3> QED BY <3>1, ReasonIsKnown
    <2>2. ASSUME remote.source = "github", local.category = "ok"
          PROVE  /\ remote.walked.commits[1] = local.found
                 /\ remote.pinned \in {Absent, local.found}
        <3>1. /\ WalkGood(remote.walked, ExpectedHead, {}) /\ remote.walked.commits # <<>>
              /\ Refused = "none" /\ ExpectedHead = local.found
            BY <2>2 DEF HistoryInv, RemoteTells, RemoteAsks, ExpectedHead
        <3> QED BY <3>1, ReasonIsKnown DEF WalkGood, FromHead
    <2> QED BY <2>1, <2>2 DEF FallbackKeepsHead
<1> QED BY <1>1, <1>2, <1>3 DEF RemoteHistoryIsTrue

LEMMA RestIsTrue ==
    ASSUME HistoryRests
    PROVE  LocalHistoryIsTrue /\ RemoteHistoryIsTrue
<1>1. local = NoLocal(Absent) /\ remote = NoRemote
    BY DEF HistoryRests
<1>2. local.found = Absent /\ local.category = "none"
    BY <1>1 DEF NoLocal
<1>3. remote.source = "none" /\ remote.requests = 0
    BY <1>1 DEF NoRemote
<1> QED BY <1>2, <1>3 DEF LocalHistoryIsTrue, HeadWasTip, LocalHistoryComplete,
           RemoteHistoryIsTrue, RemoteHistoryIsTold, FallbackKeepsHead

\* The collection of a history has the invariant, and without one nothing is collected.
HistoriesInv ==
    IF atWork = "history" THEN HistoryInv ELSE HistoryRests

LEMMA HistoriesInitInv == Init => HistoriesInv
BY HistoryInitInv DEF Init, HistoriesInv

LEMMA NextKeepsHistories ==
    ASSUME HistoriesInv, [Next]_collectionVars
    PROVE  HistoriesInv'
<1>1. atWork' = atWork
    BY DEF Next, collectionVars
<1>2. [HistoryNext]_historyVars
    BY StepsOfCollectors
<1>3. CASE atWork = "history"
    BY <1>1, <1>2, <1>3, NextKeepsHistory DEF HistoriesInv
<1>4. CASE atWork # "history"
    <2>1. UNCHANGED historyVars
        BY <1>4 DEF Next, Rest, Collectors, collectionVars
    <2> QED BY <1>1, <1>4, <2>1 DEF HistoriesInv, HistoryRests, historyVars
<1> QED BY <1>3, <1>4

LEMMA HistoriesAreTrue == HistoriesInv => LocalHistoryIsTrue /\ RemoteHistoryIsTrue
BY HistoryInvIsTrue, RestIsTrue DEF HistoriesInv

\* However Git moves, packs and prunes references, fetches and repacks under the
\* collection, a local history has as its head a tip of the branch that HEAD named, and
\* one that is called neither shallow nor truncated is complete (collectGitMetadata).
THEOREM LocalHistoriesAreTrue == Spec => []LocalHistoryIsTrue
<1>1. HistoriesInv /\ [Next]_collectionVars => HistoriesInv'
    BY NextKeepsHistories
<1> QED BY <1>1, HistoriesInitInv, HistoriesAreTrue, PTL DEF Spec

\* GitHub is asked only when the local history is shallow or could not be had; what it
\* gives begins with the expected head, names each commit once and is called truncated
\* exactly when a parent is missing (collectPublicHistory).
THEOREM RemoteHistoriesAreTrue == Spec => []RemoteHistoryIsTrue
<1>1. HistoriesInv /\ [Next]_collectionVars => HistoriesInv'
    BY NextKeepsHistories
<1> QED BY <1>1, HistoriesInitInv, HistoriesAreTrue, PTL DEF Spec

-----------------------------------------------------------------------------
(* The walk of the file system *)

Children(d) == {p \in Paths \ {Root} : Parent[p] = d}
Frames == [path : Paths, left : SUBSET Paths]

\* The parts of the tree and of the walk.
WalkShapes ==
    /\ tree \in [links : {tree.links}, removed : {tree.removed}, nested : {tree.nested},
                 version : [Files -> Nat], late : {tree.late}, edits : Nat]
    /\ walk \in [pc : {walk.pc}, path : Paths, stack : Seq(Frames), visited : Nat, bytes : Nat,
                 file : [version : Nat, read : {walk.file.read}, outside : {walk.file.outside}],
                 files : {walk.files}, result : {walk.result}]

\* A file that is being read has only gone on since it was first looked at, and what has
\* been read of it are versions of it since.
ReadsOnward ==
    /\ walk.pc \in {"stat", "open", "read", "close"} => walk.path \in Supported
    /\ walk.pc \in {"open", "read", "close"} => walk.file.version <= tree.version[walk.path]
    /\ walk.pc \in {"read", "close"} =>
          /\ walk.file.read # {} /\ ~walk.file.outside
          /\ walk.file.read \subseteq walk.file.version..tree.version[walk.path]

\* What has been collected.
IsWhole(file) ==
    /\ file.path \in Supported /\ ~file.outside
    /\ \E v \in Nat : file.content = {v} /\ SizeOf(v) <= MaxFileBytes
Collected ==
    /\ \A file \in walk.files : IsWhole(file)
    /\ walk.visited <= MaxFiles /\ walk.bytes <= MaxTotalBytes

\* Where nothing was edited the tree is as it was.
StandsStill ==
    tree.edits = 0 => tree.links = {} /\ tree.removed = {} /\ tree.nested = NestedAtStart

\* The walk is in directories that belong in a snapshot, collects what belongs there, and
\* each expected file has been collected or is below what the walk has still to visit.
Belongs(p) == Above[p] \cap (Ignored \cup (NestedAtStart \ {Root})) = {}
Left(stack) == UNION {frame.left : frame \in Range(stack)}
Ahead(w) ==
    Left(w.stack) \cup
    (IF w.pc \in {"authorize", "visit", "nested", "list", "stat", "open", "read", "close"}
     THEN {w.path} ELSE {})
Visits(w) ==
    /\ w.pc \in {"authorize", "visit", "nested", "list"} =>
          /\ w.path \in Directories \ Ignored
          /\ w.path # Root => Belongs(Parent[w.path])
    /\ w.pc = "nested" => w.path # Root
    /\ w.pc \in {"list", "stat", "open", "read", "close"} => Belongs(w.path)
Framed(w) ==
    \A frame \in Range(w.stack) :
        Belongs(frame.path) /\ frame.left \subseteq Children(frame.path)
CollectedPaths(w) == {file.path : file \in w.files}
Missing(w) ==
    {f \in Expected : f \notin CollectedPaths(w) /\ Above[f] \cap Ahead(w) = {}}
Follows(w) == Visits(w) /\ Framed(w) /\ CollectedPaths(w) \subseteq Expected /\ Missing(w) = {}
StillWalk ==
    tree.edits = 0 /\ (walk.pc # "done" \/ walk.result = "ok") => Follows(walk)

WalkInv ==
    /\ WalkShapes /\ ReadsOnward /\ Collected /\ StandsStill /\ StillWalk
    /\ walk.pc # "done" => walk.result = "none"
    /\ walk.result = "ok" => walk.stack = <<>>

\* What Above computes, path by path.
IsAbove(f) == f = [p \in Paths |-> IF p = Root THEN {p} ELSE f[Parent[p]] \cup {p}]

\* There is a least set of paths that has a path and the parents of what it has.
LEMMA AboveExists == \E f : IsAbove(f)
<1> DEFINE Up(S) == \A r \in S \ {Root} : Parent[r] \in S
           A(p) == {q \in Paths : \A S \in SUBSET Paths : p \in S /\ Up(S) => q \in S}
           f == [p \in Paths |-> A(p)]
<1>1. \A p \in Paths \ {Root} : Parent[p] \in Paths
    BY TreeAssumption
<1>2. Root \in Paths
    BY DEF Paths
<1>3. A(Root) = {Root}
    <2>1. {Root} \in SUBSET Paths /\ Up({Root})
        BY <1>2
    <2> QED BY <1>2, <2>1
<1>4. ASSUME NEW p \in Paths \ {Root} PROVE A(p) = A(Parent[p]) \cup {p}
    <2> DEFINE S == A(Parent[p]) \cup {p}
    <2>1. A(Parent[p]) \cup {p} \subseteq A(p)
        <3>1. ASSUME NEW q \in A(Parent[p]), NEW T \in SUBSET Paths, p \in T, Up(T) PROVE q \in T
            <4>1. Parent[p] \in T
                BY <1>4, <3>1
            <4> QED BY <3>1, <4>1
        <3> QED BY <3>1
    <2>2. Parent[p] \in A(Parent[p])
        BY <1>1
    <2>3. Up(S)
        <3> SUFFICES ASSUME NEW r \in S \ {Root} PROVE Parent[r] \in S
            OBVIOUS
        <3>1. CASE r = p
            BY <2>2, <3>1
        <3>2. CASE r # p
            <4>1. r \in A(Parent[p]) /\ Parent[r] \in Paths
                BY <1>1, <3>2
            <4>2. ASSUME NEW T \in SUBSET Paths, Parent[p] \in T, Up(T) PROVE Parent[r] \in T
                <5>1. r \in T
                    BY <4>1, <4>2
                <5> QED BY <4>2, <5>1
            <4> QED BY <4>1, <4>2
        <3> QED BY <3>1, <3>2
    <2>4. S \in SUBSET Paths /\ p \in S
        OBVIOUS
    <2>5. A(p) \subseteq S
        BY <2>3, <2>4
    <2> QED BY <2>1, <2>5
<1>5. \A p \in Paths : A(p) = IF p = Root THEN {p} ELSE A(Parent[p]) \cup {p}
    BY <1>3, <1>4
<1> HIDE DEF A
<1>6. \A p \in Paths : f[p] = IF p = Root THEN {p} ELSE f[Parent[p]] \cup {p}
    BY <1>1, <1>5
<1>7. f = [p \in Paths |-> f[p]]
    OBVIOUS
<1> HIDE DEF f
<1>8. [p \in Paths |-> f[p]] = [p \in Paths |-> IF p = Root THEN {p} ELSE f[Parent[p]] \cup {p}]
    BY <1>6
<1> QED BY <1>7, <1>8 DEF IsAbove

LEMMA AboveIs ==
    /\ Root \in Paths /\ Above[Root] = {Root}
    /\ \A p \in Paths \ {Root} : Parent[p] \in Paths /\ Above[p] = Above[Parent[p]] \cup {p}
    /\ \A p \in Paths : p \in Above[p]
<1> DEFINE f == CHOOSE g : IsAbove(g)
<1>1. IsAbove(f)
    BY AboveExists
<1>2. Above = f
    BY Zenon DEF Above, IsAbove
<1> HIDE DEF f
<1>3. \A p \in Paths : f[p] = IF p = Root THEN {p} ELSE f[Parent[p]] \cup {p}
    BY <1>1 DEF IsAbove
<1>4. Root \in Paths /\ \A p \in Paths \ {Root} : Parent[p] \in Paths
    BY TreeAssumption DEF Paths
<1> QED BY <1>2, <1>3, <1>4

\* What holds of the root and of a path whose parent has it holds of every path.
LEMMA PathInduction ==
    ASSUME NEW S, Root \in S, \A p \in Paths \ {Root} : Parent[p] \in S => p \in S
    PROVE  Paths \subseteq S
<1> DEFINE Others == Paths \ S
<1>1. Others \in SUBSET (Paths \ {Root})
    OBVIOUS
<1>2. ASSUME Others # {} PROVE FALSE
    <2>1. PICK p \in Others : Parent[p] \notin Others
        BY <1>1, <1>2, TreeAssumption
    <2>2. Parent[p] \in Paths
        BY <1>1, <2>1, AboveIs
    <2> QED BY <1>1, <2>1, <2>2
<1> QED BY <1>2

LEMMA RootIsAbove == \A p \in Paths : Root \in Above[p]
<1> DEFINE S == {p \in Paths : Root \in Above[p]}
<1>1. Root \in S
    BY AboveIs
<1>2. \A p \in Paths \ {Root} : Parent[p] \in S => p \in S
    BY AboveIs
<1> HIDE DEF S
<1>3. Paths \subseteq S
    BY <1>1, <1>2, PathInduction
<1> QED BY <1>3 DEF S

\* The way up from a path to another above it goes through a child of that.
LEMMA ThroughAChild ==
    ASSUME NEW d, NEW f \in Paths, d \in Above[f], f # d
    PROVE  \E c \in Children(d) : c \in Above[f]
<1> DEFINE S == {p \in Paths : d \in Above[p] /\ p # d => \E c \in Children(d) : c \in Above[p]}
<1>1. Root \in S
    BY AboveIs
<1>2. ASSUME NEW p \in Paths \ {Root}, Parent[p] \in S, d \in Above[p], p # d
      PROVE  \E c \in Children(d) : c \in Above[p]
    <2>1. Above[p] = Above[Parent[p]] \cup {p} /\ p \in Above[p]
        BY AboveIs
    <2>2. CASE Parent[p] = d
        <3>1. p \in Children(d)
            BY <2>2 DEF Children
        <3> QED BY <2>1, <3>1
    <2>3. CASE Parent[p] # d
        <3>1. d \in Above[Parent[p]]
            BY <1>2, <2>1
        <3>2. PICK c \in Children(d) : c \in Above[Parent[p]]
            BY <1>2, <2>3, <3>1
        <3> QED BY <2>1, <3>2
    <2> QED BY <2>2, <2>3
<1>3. \A p \in Paths \ {Root} : Parent[p] \in S => p \in S
    BY <1>2
<1> HIDE DEF S
<1>4. f \in S
    BY <1>1, <1>3, PathInduction
<1> QED BY <1>4 DEF S

\* A path above another is a directory or that path.
LEMMA AboveIsDirectory ==
    ASSUME NEW f \in Paths, NEW d \in Above[f], d \notin Directories
    PROVE  f = d
<1>1. ASSUME f # d PROVE FALSE
    <2>1. PICK c \in Children(d) : c \in Above[f]
        BY <1>1, ThroughAChild
    <2>2. c \in Paths \ {Root} /\ Parent[c] = d
        BY <2>1 DEF Children
    <2>3. d \in Directories
        BY <2>2, TreeAssumption
    <2> QED BY <2>3
<1> QED BY <1>1

\* What belongs in a snapshot, by the parent.
LEMMA BelongsIs ==
    /\ Belongs(Root)
    /\ \A p \in Paths \ {Root} :
          Belongs(p) <=> Belongs(Parent[p]) /\ p \notin Ignored /\ p \notin NestedAtStart
    /\ \A f \in Expected : f \in Paths /\ f \in Supported /\ f \notin Directories /\ Belongs(f)
    /\ \A f \in Supported : f \in Files /\ f \in Paths /\ (Belongs(f) => f \in Expected)
    /\ \A f \in Paths : Belongs(f) => \A d \in Above[f] :
          d \notin Ignored /\ (d # Root => d \notin NestedAtStart)
<1>1. Root \notin Ignored
    BY TreeAssumption
<1>2. Supported \subseteq Files
    BY TreeAssumption
<1>3. Belongs(Root)
    BY <1>1, AboveIs DEF Belongs
<1>4. ASSUME NEW p \in Paths \ {Root}
      PROVE  Belongs(p) <=> Belongs(Parent[p]) /\ p \notin Ignored /\ p \notin NestedAtStart
    BY AboveIs DEF Belongs
<1>5. \A f \in Expected : f \in Paths /\ f \in Supported /\ f \notin Directories /\ Belongs(f)
    BY <1>2 DEF Expected, Files, Belongs
<1>6. \A f \in Supported : f \in Files /\ f \in Paths /\ (Belongs(f) => f \in Expected)
    BY <1>2 DEF Expected, Files, Belongs
<1>7. \A f \in Paths : Belongs(f) => \A d \in Above[f] :
          d \notin Ignored /\ (d # Root => d \notin NestedAtStart)
    BY DEF Belongs
<1> QED BY <1>3, <1>4, <1>5, <1>6, <1>7

\* The tree that stands still shows what it has.
LEMMA StillShows ==
    ASSUME WalkInv, tree.edits = 0
    PROVE  /\ \A p \in Paths : Inspected(p)
           /\ \A d : Entries(d) = Children(d)
           /\ tree.nested = NestedAtStart
<1>1. tree.links = {} /\ tree.removed = {} /\ tree.nested = NestedAtStart
    BY DEF WalkInv, StandsStill
<1>2. \A p : Exists(p) /\ ~Foreign(p)
    BY <1>1 DEF Exists, Foreign
<1>3. DOMAIN Parent = Paths \ {Root}
    BY TreeAssumption
<1>4. \A d : Entries(d) = Children(d)
    BY <1>2, <1>3 DEF Entries, Children
<1> QED BY <1>1, <1>2, <1>4 DEF Inspected

\* The parts of a walk that goes on.
GoesOn(w) ==
    w \in [pc : {w.pc}, path : Paths, stack : Seq(Frames), visited : Nat, bytes : Nat,
           file : [version : Nat, read : {w.file.read}, outside : {w.file.outside}],
           files : {w.files}, result : {w.result}]

LEMMA GoingKeepsWalk ==
    ASSUME WalkInv, UNCHANGED tree, walk.pc # "done",
           GoesOn(walk'), walk'.pc # "done", walk'.result = walk.result,
           ReadsOnward', Collected', tree.edits = 0 => Follows(walk')
    PROVE  WalkInv'
<1>1. WalkShapes'
    BY DEF WalkInv, WalkShapes, GoesOn
<1>2. StandsStill' /\ StillWalk'
    BY DEF WalkInv, StandsStill, StillWalk
<1>3. walk'.result = "none"
    BY DEF WalkInv
<1> QED BY <1>1, <1>2, <1>3 DEF WalkInv

LEMMA GivingUpKeepsWalk ==
    ASSUME WalkInv, UNCHANGED tree, Give("failed")
    PROVE  WalkInv'
<1>1. /\ walk'.pc = "done" /\ walk'.result = "failed"
      /\ walk'.files = walk.files /\ walk'.visited = walk.visited /\ walk'.bytes = walk.bytes
      /\ GoesOn(walk')
    BY DEF WalkInv, WalkShapes, Give, WalkIs, GoesOn
<1>2. WalkShapes'
    BY <1>1 DEF WalkInv, WalkShapes, GoesOn
<1>3. ReadsOnward'
    BY <1>1 DEF ReadsOnward
<1>4. Collected'
    BY <1>1 DEF WalkInv, Collected
<1>5. StandsStill' /\ StillWalk'
    BY <1>1 DEF WalkInv, StandsStill, StillWalk
<1> QED BY <1>1, <1>2, <1>3, <1>4, <1>5 DEF WalkInv

\* What is ahead.
LEMMA AheadIs ==
    ASSUME NEW w
    PROVE  /\ w.pc = "entry" => Ahead(w) = Left(w.stack)
           /\ w.pc \in {"authorize", "visit", "nested", "list", "stat", "open", "read", "close"} =>
                 Ahead(w) = Left(w.stack) \cup {w.path}
BY DEF Ahead

\* The walk goes on with the same path.
LEMMA FollowsOn ==
    ASSUME NEW w, NEW v, Follows(w), Visits(v),
           v.stack = w.stack, v.files = w.files, v.path = w.path,
           w.pc \in {"authorize", "visit", "nested", "list", "stat", "open", "read", "close"},
           v.pc \in {"authorize", "visit", "nested", "list", "stat", "open", "read", "close"}
    PROVE  Follows(v)
<1>1. Ahead(v) = Ahead(w) /\ CollectedPaths(v) = CollectedPaths(w)
    BY DEF Ahead, CollectedPaths
<1>2. Missing(v) = Missing(w)
    BY <1>1 DEF Missing
<1>3. Framed(v)
    BY DEF Follows, Framed
<1> QED BY <1>1, <1>2, <1>3 DEF Follows

\* The phases that leave what is counted and collected alone.
LEMMA PhaseKeepsWalk ==
    ASSUME WalkInv, UNCHANGED tree,
           NEW pc \in {"visit", "nested", "list", "open", "read", "close"},
           NEW file, file \in [version : Nat, read : {file.read}, outside : {file.outside}],
           walk.pc \in {"authorize", "visit", "nested", "list", "stat", "open", "read"},
           walk' = [walk EXCEPT !.pc = pc, !.file = file],
           ReadsOnward', tree.edits = 0 => Visits(walk')
    PROVE  WalkInv'
<1> DEFINE S == Seq(Frames)
           F == [version : Nat, read : {file.read}, outside : {file.outside}]
<1>1. walk \in [pc : {walk.pc}, path : Paths, stack : S, visited : Nat, bytes : Nat,
                file : {walk.file}, files : {walk.files}, result : {walk.result}]
    BY DEF WalkInv, WalkShapes
<1>2. /\ walk'.pc = pc /\ walk'.path = walk.path /\ walk'.stack = walk.stack
      /\ walk'.visited = walk.visited /\ walk'.bytes = walk.bytes /\ walk'.file = file
      /\ walk'.files = walk.files /\ walk'.result = walk.result
      /\ walk' \in [pc : {pc}, path : Paths, stack : S, visited : Nat, bytes : Nat,
                    file : F, files : {walk.files}, result : {walk.result}]
    <2> HIDE DEF S, F
    <2>1. file \in F
        BY DEF F
    <2> QED BY <1>1, <2>1
<1>3. GoesOn(walk')
    BY <1>2 DEF GoesOn
<1>4. Collected'
    BY <1>2 DEF WalkInv, Collected
<1>5. ASSUME tree.edits = 0 PROVE Follows(walk')
    <2>1. Follows(walk)
        BY <1>5 DEF WalkInv, StillWalk
    <2>2. Visits(walk')
        BY <1>5
    <2>3. /\ walk'.pc \in {"authorize", "visit", "nested", "list", "stat", "open", "read", "close"}
          /\ walk.pc \in {"authorize", "visit", "nested", "list", "stat", "open", "read", "close"}
        BY <1>2
    <2> QED BY <1>2, <2>1, <2>2, <2>3, FollowsOn
<1> QED BY <1>2, <1>3, <1>4, <1>5, GoingKeepsWalk

LEMMA EnteringKeepsWalk ==
    ASSUME WalkInv, Authorize \/ EnterDirectory \/ EnterNested
    PROVE  WalkInv'
<1> DEFINE d == walk.path
<1> USE DEF Checked, WalkIs
<1>1. UNCHANGED tree /\ walk.pc # "done"
    BY DEF Authorize, EnterDirectory, EnterNested
<1>2. d \in Paths /\ walk.file \in [version : Nat, read : {walk.file.read},
                                     outside : {walk.file.outside}]
    BY DEF WalkInv, WalkShapes
<1>3. ASSUME NEW pc \in {"visit", "nested", "list"}, walk' = [walk EXCEPT !.pc = pc],
             walk.pc \in {"authorize", "visit", "nested"},
             tree.edits = 0 /\ pc = "list" => Belongs(d), pc = "nested" => d # Root
      PROVE  WalkInv'
    <2> DEFINE file == walk.file
    <2>1. walk' = [walk EXCEPT !.pc = pc, !.file = file] /\ walk'.pc = pc /\ walk'.path = d
        BY <1>3 DEF WalkInv, WalkShapes
    <2>2. ReadsOnward'
        BY <1>3, <2>1 DEF ReadsOnward
    <2>3. tree.edits = 0 => Visits(walk')
        BY <1>3, <2>1 DEF WalkInv, StillWalk, Follows, Visits
    <2>4. /\ pc \in {"visit", "nested", "list", "open", "read", "close"}
          /\ walk.pc \in {"authorize", "visit", "nested", "list", "stat", "open", "read"}
        BY <1>3
    <2>5. file \in [version : Nat, read : {file.read}, outside : {file.outside}]
        BY <1>2
    <2> HIDE DEF file
    <2> QED BY <1>1, <2>1, <2>2, <2>3, <2>4, <2>5, PhaseKeepsWalk
<1>4. ASSUME Authorize PROVE WalkInv'
    <2>1. CASE Give("failed")
        BY <1>1, <2>1, GivingUpKeepsWalk
    <2>2. CASE ~Give("failed")
        <3>1. walk' = [walk EXCEPT !.pc = "visit"] /\ walk.pc = "authorize"
            BY <1>4, <2>2 DEF Authorize
        <3> QED BY <1>3, <3>1
    <2> QED BY <2>1, <2>2
<1>5. ASSUME EnterDirectory, ~Give("failed") PROVE WalkInv'
    <2>1. walk.pc = "visit"
        BY <1>5 DEF EnterDirectory
    <2>2. ASSUME tree.edits = 0, d = Root PROVE Belongs(d)
        BY <1>2, <2>1, <2>2, BelongsIs DEF WalkInv, StillWalk, Follows, Visits
    <2>3. walk' = [walk EXCEPT !.pc = IF d = Root THEN "list" ELSE "nested"]
        BY <1>5 DEF EnterDirectory
    <2>4. CASE d = Root
        BY <1>3, <2>1, <2>2, <2>3, <2>4
    <2>5. CASE d # Root
        BY <1>3, <2>1, <2>3, <2>5
    <2> QED BY <2>4, <2>5
<1>7. ASSUME EnterNested, ~Give("failed"), walk' = [walk EXCEPT !.pc = "list"],
             tree.edits = 0 => ~IsNested(d)
      PROVE  WalkInv'
    <2>1. walk.pc = "nested"
        BY <1>7 DEF EnterNested
    <2>2. ASSUME tree.edits = 0 PROVE Belongs(d)
        <3>1. d \in Directories \ Ignored /\ (d # Root => Belongs(Parent[d]))
            BY <2>1, <2>2 DEF WalkInv, StillWalk, Follows, Visits
        <3>2. d \notin NestedAtStart
            BY <1>2, <1>7, <2>2, StillShows DEF IsNested, Inspected
        <3> QED BY <1>2, <3>1, <3>2, BelongsIs
    <2> QED BY <1>3, <1>7, <2>1, <2>2
<1>6. ASSUME EnterNested, ~Give("failed"), walk' = [walk EXCEPT !.pc = "entry"],
             tree.edits = 0 => IsNested(d)
      PROVE  WalkInv'
    <2> DEFINE w == walk'
    <2>1. w = [walk EXCEPT !.pc = "entry"] /\ walk.pc = "nested"
        BY <1>6 DEF EnterNested
    <2>2. /\ w.pc = "entry" /\ w.stack = walk.stack /\ w.files = walk.files
          /\ w.visited = walk.visited /\ w.bytes = walk.bytes /\ w.result = walk.result
          /\ GoesOn(w)
        BY <2>1 DEF WalkInv, WalkShapes, GoesOn
    <2>3. ReadsOnward' /\ Collected'
        BY <2>2 DEF WalkInv, ReadsOnward, Collected
    <2>4. ASSUME tree.edits = 0 PROVE Follows(w)
        <3>1. Follows(walk)
            BY <1>1, <2>4 DEF WalkInv, StillWalk
        <3>2. d \in NestedAtStart /\ d # Root
            BY <1>6, <2>1, <2>4, <3>1, StillShows DEF IsNested, Follows, Visits
        <3>3. \A f \in Expected : d \notin Above[f]
            BY <3>2, BelongsIs
        <3>4. Visits(w) /\ Framed(w)
            BY <2>2, <3>1 DEF Follows, Visits, Framed
        <3>5. CollectedPaths(w) = CollectedPaths(walk) /\ Ahead(walk) = Ahead(w) \cup {d}
            <4>1. CollectedPaths(w) = CollectedPaths(walk)
                <5>1. w.files = walk.files
                    BY <2>2
                <5> HIDE DEF w
                <5> QED BY <5>1 DEF CollectedPaths
            <4>2. Ahead(w) = Left(walk.stack)
                BY <2>2, AheadIs
            <4>3. Ahead(walk) = Left(walk.stack) \cup {d}
                BY <2>1, AheadIs
            <4>4. Ahead(walk) = Ahead(w) \cup {d}
                BY <4>2, <4>3
            <4> QED BY <4>1, <4>4
        <3>6. Missing(w) = {}
            BY <3>1, <3>3, <3>5 DEF Follows, Missing
        <3> QED BY <3>1, <3>4, <3>5, <3>6 DEF Follows
    <2> HIDE DEF w
    <2> QED BY <1>1, <2>2, <2>3, <2>4, GoingKeepsWalk DEF w
<1>8. ASSUME EnterNested, ~Give("failed") PROVE WalkInv'
    <2>1. PICK found \in IF Foreign(d) THEN BOOLEAN ELSE {IsNested(d)} :
             walk' = [walk EXCEPT !.pc = IF found THEN "entry" ELSE "list"]
        BY <1>8 DEF EnterNested
    <2>2. tree.edits = 0 => found = IsNested(d)
        BY <1>2, <2>1, StillShows DEF Inspected
    <2> QED BY <1>6, <1>7, <1>8, <2>1, <2>2
<1> QED BY <1>1, <1>4, <1>5, <1>8, GivingUpKeepsWalk

\* A sequence is its first element and the rest, also when the first is replaced.
LEMMA FirstAndRest ==
    ASSUME NEW T, NEW s \in Seq(T), s # <<>>, NEW x \in T
    PROVE  /\ Tail(s) \in Seq(T) /\ Head(s) \in T /\ Head(s) = s[1] /\ 1 \in DOMAIN s
           /\ Range(s) = {Head(s)} \cup Range(Tail(s))
           /\ [s EXCEPT ![1] = x] \in Seq(T)
           /\ Range([s EXCEPT ![1] = x]) = {x} \cup Range(Tail(s))
<1> DEFINE t == Tail(s)
           u == [s EXCEPT ![1] = x]
           m == Len(s)
<1>1. /\ t \in Seq(T) /\ m \in Nat /\ m > 0 /\ DOMAIN s = 1..m /\ Head(s) = s[1]
      /\ DOMAIN t = 1..(m - 1)
      /\ \A i \in 1..(m - 1) : t[i] = s[i + 1]
    BY HeadTailProperties, LenProperties, EmptySeq
<1>2. \A i \in 1..m : s[i] \in T
    BY <1>1, ElementOfSeq
<1>3. s = [i \in 1..m |-> s[i]]
    BY <1>1
<1> HIDE DEF t, m
<1>4. u = [i \in 1..m |-> IF i = 1 THEN x ELSE s[i]]
    BY <1>1, <1>3
<1>5. u \in Seq(T)
    <2>1. \A i \in 1..m : (IF i = 1 THEN x ELSE s[i]) \in T
        BY <1>2
    <2>2. u \in [1..m -> T]
        BY <1>4, <2>1
    <2> HIDE DEF u
    <2> QED BY <1>1, <2>2
<1>6. /\ Range(s) = {s[i] : i \in 1..m} /\ Range(t) = {t[i] : i \in 1..(m - 1)}
      /\ Range(u) = {u[i] : i \in 1..m}
    <2>1. DOMAIN u = 1..m
        BY <1>4
    <2> QED BY <1>1, <2>1 DEF Range
<1>7. u[1] = x /\ 1 \in 1..m
    BY <1>1, <1>4
<1>10. ASSUME NEW i \in 1..m, i # 1
       PROVE  i - 1 \in 1..(m - 1) /\ t[i - 1] = s[i] /\ u[i] = s[i]
    <2>1. i - 1 \in 1..(m - 1) /\ (i - 1) + 1 = i
        BY <1>1, <1>10
    <2>2. u[i] = s[i]
        BY <1>4, <1>10
    <2> QED BY <1>1, <2>1, <2>2
<1>11. ASSUME NEW i \in 1..(m - 1)
       PROVE  i + 1 \in 1..m /\ t[i] = s[i + 1] /\ t[i] = u[i + 1]
    <2>1. i + 1 \in 1..m /\ i + 1 # 1 /\ t[i] = s[i + 1]
        BY <1>1
    <2> QED BY <1>4, <2>1
<1> HIDE DEF u
<1>8. Range(s) = {s[1]} \cup Range(t)
    <2>1. Range(s) \subseteq {s[1]} \cup Range(t)
        BY <1>6, <1>7, <1>10, <1>11
    <2>2. {s[1]} \cup Range(t) \subseteq Range(s)
        BY <1>6, <1>7, <1>10, <1>11
    <2> QED BY <2>1, <2>2
<1>9. Range(u) = {x} \cup Range(t)
    <2>1. Range(u) \subseteq {x} \cup Range(t)
        BY <1>6, <1>7, <1>10, <1>11
    <2>2. {x} \cup Range(t) \subseteq Range(u)
        BY <1>6, <1>7, <1>10, <1>11
    <2> QED BY <2>1, <2>2
<1> QED BY <1>1, <1>2, <1>5, <1>7, <1>8, <1>9 DEF t, u

LEMMA PutFirst ==
    ASSUME NEW T, NEW s \in Seq(T), NEW x \in T
    PROVE  <<x>> \o s \in Seq(T) /\ Range(<<x>> \o s) = {x} \cup Range(s)
<1> DEFINE o == <<x>>
<1>1. o \in Seq(T) /\ DOMAIN o = {1} /\ o[1] = x
    OBVIOUS
<1> HIDE DEF o
<1>2. Range(o) = {x}
    BY <1>1 DEF Range
<1>3. o \o s \in Seq(T) /\ Range(o \o s) = Range(o) \cup Range(s)
    BY <1>1, ConcatElements
<1> QED BY <1>2, <1>3 DEF o

\* A directory that is listed is replaced by its children.
LEMMA ListingKeepsWalk ==
    ASSUME WalkInv, ListDirectory
    PROVE  WalkInv'
<1> DEFINE d == walk.path
           s == walk.stack
<1> USE DEF Checked, WalkIs
<1>1. UNCHANGED tree /\ walk.pc = "list" /\ d \in Paths
    BY DEF ListDirectory, WalkInv, WalkShapes
<1>2. CASE Give("failed")
    BY <1>1, <1>2, GivingUpKeepsWalk
<1>3. CASE ~Give("failed")
    <2>1. PICK names \in IF Foreign(d) THEN SUBSET Entries(d) ELSE {Entries(d)} :
             walk' = [walk EXCEPT !.pc = "entry",
                                  !.stack = <<[path |-> d, left |-> names]>> \o @]
        BY <1>3 DEF ListDirectory
    <2> DEFINE frame == [path |-> d, left |-> names]
               t == <<frame>> \o s
               w == walk'
    <2>2. w = [walk EXCEPT !.pc = "entry", !.stack = t]
        BY <2>1
    <2>3. names \subseteq Paths /\ (tree.edits = 0 => names = Children(d))
        <3>1. Entries(d) \subseteq Paths
            BY DEF Entries, Paths
        <3>2. tree.edits = 0 => ~Foreign(d) /\ Entries(d) = Children(d)
            BY <1>1, StillShows DEF Inspected
        <3> QED BY <2>1, <3>1, <3>2
    <2>4. frame \in Frames /\ frame.path = d /\ frame.left = names
        BY <1>1, <2>3 DEF Frames
    <2> HIDE DEF frame
    <2>5. t \in Seq(Frames) /\ Range(t) = {frame} \cup Range(s)
        <3>1. s \in Seq(Frames)
            BY DEF WalkInv, WalkShapes
        <3> QED BY <2>4, <3>1, PutFirst
    <2> HIDE DEF t
    <2>6. /\ w.pc = "entry" /\ w.stack = t /\ w.files = walk.files
          /\ w.visited = walk.visited /\ w.bytes = walk.bytes /\ w.result = walk.result
          /\ GoesOn(w)
        <3> DEFINE S == Seq(Frames)
        <3>1. walk \in [pc : {walk.pc}, path : Paths, stack : S, visited : Nat, bytes : Nat,
                        file : [version : Nat, read : {walk.file.read}, outside : {walk.file.outside}],
                        files : {walk.files}, result : {walk.result}]
            BY DEF WalkInv, WalkShapes
        <3>2. t \in S
            BY <2>5
        <3> HIDE DEF S
        <3>3. /\ w.pc = "entry" /\ w.stack = t /\ w.files = walk.files
              /\ w.visited = walk.visited /\ w.bytes = walk.bytes /\ w.result = walk.result
              /\ w \in [pc : {w.pc}, path : Paths, stack : S, visited : Nat, bytes : Nat,
                        file : [version : Nat, read : {w.file.read}, outside : {w.file.outside}],
                        files : {w.files}, result : {w.result}]
            BY <2>2, <3>1, <3>2
        <3> QED BY <3>3 DEF S, GoesOn
    <2>7. ReadsOnward' /\ Collected'
        BY <2>6 DEF WalkInv, ReadsOnward, Collected
    <2>8. ASSUME tree.edits = 0 PROVE Follows(w)
        <3>1. Follows(walk)
            BY <1>1, <2>8 DEF WalkInv, StillWalk
        <3>2. Belongs(d) /\ d \in Directories
            BY <1>1, <3>1 DEF Follows, Visits
        <3>3. Visits(w) /\ Framed(w)
            BY <2>3, <2>4, <2>5, <2>6, <2>8, <3>1, <3>2 DEF Follows, Visits, Framed
        <3>4. CollectedPaths(w) = CollectedPaths(walk)
            BY <2>6 DEF CollectedPaths
        <3>5. Ahead(walk) \subseteq Ahead(w) \cup {d} /\ Children(d) \subseteq Ahead(w)
            <4>1. Ahead(w) = Left(t)
                BY <2>6, AheadIs
            <4>2. Ahead(walk) = Left(s) \cup {d}
                <5>1. walk.pc \in {"authorize", "visit", "nested", "list", "stat", "open", "read",
                                   "close"}
                    BY <1>1
                <5> QED BY <5>1, AheadIs
            <4>3. Left(t) = Left(s) \cup names
                BY <2>4, <2>5 DEF Left
            <4> QED BY <2>3, <2>8, <4>1, <4>2, <4>3
        <3>6. ASSUME NEW f \in Expected, Above[f] \cap Ahead(w) = {} PROVE d \notin Above[f]
            <4>1. f \in Paths /\ f # d
                BY <3>2, <3>6, BelongsIs
            <4> QED BY <3>5, <3>6, <4>1, ThroughAChild
        <3>7. Missing(w) = {}
            BY <3>1, <3>4, <3>5, <3>6 DEF Follows, Missing
        <3> QED BY <3>1, <3>3, <3>4, <3>7 DEF Follows
    <2> HIDE DEF w
    <2> QED BY <1>1, <2>6, <2>7, <2>8, GoingKeepsWalk DEF w
<1> QED BY <1>2, <1>3

LEMMA FramesAre ==
    /\ \E x : x \in Frames
    /\ \A x \in Frames : x.path \in Paths /\ x.left \subseteq Paths
    /\ \A x \in Frames : \A p :
          /\ [path |-> x.path, left |-> x.left \ {p}] \in Frames
          /\ [path |-> x.path, left |-> x.left \ {p}] = [x EXCEPT !.left = @ \ {p}]
<1>1. [path |-> Root, left |-> {}] \in Frames
    BY AboveIs DEF Frames
<1>2. \A x \in Frames : x.path \in Paths /\ x.left \subseteq Paths
    BY DEF Frames
<1>3. ASSUME NEW x \in Frames, NEW p
      PROVE  /\ [path |-> x.path, left |-> x.left \ {p}] \in Frames
             /\ [path |-> x.path, left |-> x.left \ {p}] = [x EXCEPT !.left = @ \ {p}]
    BY DEF Frames
<1> QED BY <1>1, <1>2, <1>3

\* An entry is taken from the innermost directory, and visited, read or passed over.
LEMMA TakingKeepsWalk ==
    ASSUME WalkInv, UNCHANGED tree, walk.pc = "entry", walk.stack # <<>>,
           NEW p \in Head(walk.stack).left,
           NEW pc \in {"entry", "visit", "stat"}, NEW path \in Paths, NEW visited \in Nat,
           walk' = [walk EXCEPT !.pc = pc, !.path = path, !.visited = visited,
                                !.stack[1].left = @ \ {p}],
           visited <= MaxFiles,
           pc # "entry" => path = p,
           pc = "visit" => p \in Directories \ Ignored,
           pc = "stat" => p \in Supported,
           pc = "entry" /\ tree.edits = 0 => \A f \in Expected : p \notin Above[f]
    PROVE  WalkInv'
<1> DEFINE s == walk.stack
           top == Head(s)
           frame == [path |-> top.path, left |-> top.left \ {p}]
           t == [s EXCEPT ![1] = frame]
           w == walk'
           S == Seq(Frames)
<1>1. walk \in [pc : {walk.pc}, path : Paths, stack : S, visited : Nat, bytes : Nat,
                file : [version : Nat, read : {walk.file.read}, outside : {walk.file.outside}],
                files : {walk.files}, result : {walk.result}]
    BY DEF WalkInv, WalkShapes
<1>2. s \in Seq(Frames)
    BY DEF WalkInv, WalkShapes
<1>3. top \in Frames /\ top = s[1] /\ 1 \in DOMAIN s
    <2>1. PICK x : x \in Frames
        BY FramesAre
    <2> QED BY <1>2, <2>1, FirstAndRest
<1>4. /\ frame \in Frames /\ frame.path = top.path /\ frame.left = top.left \ {p}
      /\ top.path \in Paths /\ p \in Paths /\ frame = [top EXCEPT !.left = @ \ {p}]
    <2>1. /\ top.path \in Paths /\ top.left \subseteq Paths /\ frame \in Frames
          /\ frame = [top EXCEPT !.left = @ \ {p}]
        BY <1>3, FramesAre
    <2>2. frame.path = top.path /\ frame.left = top.left \ {p}
        OBVIOUS
    <2>3. p \in top.left
        OBVIOUS
    <2> QED BY <2>1, <2>2, <2>3
<1>5. w = [walk EXCEPT !.pc = pc, !.path = path, !.visited = visited, !.stack = t]
    <2>1. w = [walk EXCEPT !.pc = pc, !.path = path, !.visited = visited,
                           !.stack = [s EXCEPT ![1] = [s[1] EXCEPT !.left = @ \ {p}]]]
        <3> HIDE DEF S
        <3> QED BY <1>1, <1>3
    <2>2. t = [s EXCEPT ![1] = [s[1] EXCEPT !.left = @ \ {p}]]
        BY <1>3, <1>4
    <2> HIDE DEF t, w
    <2> QED BY <2>1, <2>2
<1> HIDE DEF frame
<1>6. /\ t \in S /\ Range(t) = {frame} \cup Range(Tail(s))
      /\ Range(s) = {top} \cup Range(Tail(s))
    <2>1. frame \in Frames
        BY <1>4
    <2>2. /\ t \in Seq(Frames) /\ Range(t) = {frame} \cup Range(Tail(s))
          /\ Range(s) = {Head(s)} \cup Range(Tail(s))
        BY <1>2, <2>1, FirstAndRest
    <2> QED BY <2>2
<1> HIDE DEF t, S, top
<1>7. /\ w.pc = pc /\ w.path = path /\ w.stack = t /\ w.files = walk.files
      /\ w.visited = visited /\ w.bytes = walk.bytes /\ w.result = walk.result
      /\ w \in [pc : {w.pc}, path : Paths, stack : S, visited : Nat, bytes : Nat,
                file : [version : Nat, read : {w.file.read}, outside : {w.file.outside}],
                files : {w.files}, result : {w.result}]
    BY <1>1, <1>5, <1>6
<1>8. GoesOn(w)
    BY <1>7 DEF GoesOn, S
<1>9. ReadsOnward' /\ Collected'
    BY <1>7 DEF WalkInv, ReadsOnward, Collected
<1>10. ASSUME tree.edits = 0 PROVE Follows(w)
    <2>1. Follows(walk)
        BY <1>10 DEF WalkInv, StillWalk
    <2>2. Belongs(top.path) /\ top.left \subseteq Children(top.path)
        BY <1>6, <2>1 DEF Follows, Framed
    <2>3. p \in Paths \ {Root} /\ Parent[p] = top.path
        BY <2>2, <1>4 DEF Children, top
    <2>4. Framed(w)
        <3>1. ASSUME NEW f \in Range(w.stack)
              PROVE  Belongs(f.path) /\ f.left \subseteq Children(f.path)
            <4>1. CASE f = frame
                BY <1>4, <2>2, <4>1
            <4>2. CASE f \in Range(s)
                BY <2>1, <4>2 DEF Follows, Framed
            <4> QED BY <1>6, <1>7, <4>1, <4>2
        <3> QED BY <3>1 DEF Framed
    <2>5. pc = "stat" => Belongs(p)
        <3>1. Supported \cap Directories = {} /\ Ignored \subseteq Directories
              /\ NestedAtStart \subseteq Directories
            BY TreeAssumption DEF Files
        <3> QED BY <2>2, <2>3, <3>1, BelongsIs
    <2>6. Visits(w)
        BY <1>7, <2>2, <2>3, <2>5 DEF Visits
    <2>7. CollectedPaths(w) = CollectedPaths(walk)
        <3>1. w.files = walk.files
            BY <1>7
        <3> HIDE DEF w
        <3> QED BY <3>1 DEF CollectedPaths
    <2>8. Left(s) \subseteq Left(t) \cup {p}
        BY <1>4, <1>6 DEF Left
    <2>9. Ahead(walk) = Left(s)
        BY AheadIs
    <2>10. Left(t) \subseteq Ahead(w) /\ (pc # "entry" => p \in Ahead(w))
        <3>1. CASE pc = "entry"
            <4>1. Ahead(w) = Left(t)
                BY <1>7, <3>1, AheadIs
            <4> QED BY <3>1, <4>1
        <3>2. CASE pc # "entry"
            <4>1. /\ w.pc \in {"authorize", "visit", "nested", "list", "stat", "open", "read",
                               "close"}
                  /\ w.stack = t /\ w.path = p
                BY <1>7, <3>2
            <4>2. Ahead(w) = Left(t) \cup {p}
                <5> HIDE DEF w
                <5> QED BY <4>1, AheadIs
            <4> QED BY <4>2
        <3> QED BY <3>1, <3>2
    <2>11. Missing(w) = {}
        <3> SUFFICES ASSUME NEW f \in Expected, f \notin CollectedPaths(w),
                            Above[f] \cap Ahead(w) = {}
                     PROVE  FALSE
            BY DEF Missing
        <3>1. p \notin Above[f]
            BY <1>10, <2>10
        <3>2. Above[f] \cap Ahead(walk) = {}
            BY <2>8, <2>9, <2>10, <3>1
        <3> QED BY <2>1, <2>7, <3>2 DEF Follows, Missing
    <2> QED BY <2>1, <2>4, <2>6, <2>7, <2>11 DEF Follows
<1> HIDE DEF w
<1> QED BY <1>7, <1>8, <1>9, <1>10, GoingKeepsWalk DEF w

LEMMA VisitingKeepsWalk ==
    ASSUME WalkInv, VisitEntry
    PROVE  WalkInv'
<1> DEFINE s == walk.stack
           p == CHOOSE p \in Head(s).left : TRUE
           path == walk.path
           visited == walk.visited
           next == visited + 1
           pc == walk.pc
<1>1. UNCHANGED tree /\ walk.pc = "entry" /\ s # <<>> /\ Head(s).left # {}
    BY DEF VisitEntry, Checked
<1>2. p \in Head(s).left
    BY <1>1
<1>3. /\ path \in Paths /\ visited \in Nat /\ next \in Nat /\ visited <= MaxFiles
      /\ walk = [walk EXCEPT !.pc = pc, !.path = path, !.visited = visited]
    <2>1. path \in Paths /\ visited \in Nat
        BY DEF WalkInv, WalkShapes
    <2>2. visited <= MaxFiles
        BY DEF WalkInv, Collected
    <2>3. walk = [walk EXCEPT !.pc = pc, !.path = path, !.visited = visited]
        <3> DEFINE S == Seq(Frames)
        <3>1. walk \in [pc : {walk.pc}, path : Paths, stack : S, visited : Nat, bytes : Nat,
                        file : {walk.file}, files : {walk.files}, result : {walk.result}]
            BY DEF WalkInv, WalkShapes
        <3> HIDE DEF S
        <3> QED BY <3>1
    <2> QED BY <2>1, <2>2, <2>3
<1>4. p \in Paths
    <2>1. Head(s) \in Frames
        <3>1. \E x : x \in Frames
            BY FramesAre
        <3>2. s \in Seq(Frames)
            BY DEF WalkInv, WalkShapes
        <3> QED BY <1>1, <3>1, <3>2, FirstAndRest
    <2> QED BY <1>2, <2>1, FramesAre
<1>5. MaxFiles \in Nat
    BY TreeAssumption
<1> HIDE DEF p
<1>6. CASE Give("failed")
    BY <1>1, <1>6, GivingUpKeepsWalk
<1>7. CASE p \in Ignored /\ ~Give("failed")
    <2>1. walk' = [walk EXCEPT !.stack[1].left = @ \ {p}]
        BY <1>7 DEF VisitEntry, WalkIs, p
    <2>2. walk' = [walk EXCEPT !.pc = pc, !.path = path, !.visited = visited,
                               !.stack[1].left = @ \ {p}]
        BY <1>3, <2>1
    <2>3. \A f \in Expected : p \notin Above[f]
        BY <1>7, BelongsIs
    <2>4. pc \in {"entry", "visit", "stat"} /\ pc = "entry"
        BY <1>1
    <2> HIDE DEF pc, path, visited
    <2> QED BY <1>1, <1>2, <1>3, <2>2, <2>3, <2>4, TakingKeepsWalk
<1>8. CASE p \notin Ignored /\ ~Give("failed")
    <2>1. /\ walk.visited # MaxFiles
          /\ \/ p \in Directories
                /\ walk' = [[[walk EXCEPT !.stack[1].left = @ \ {p}]
                            EXCEPT !.visited = @ + 1, !.path = p] EXCEPT !.pc = "visit"]
             \/ p \notin Directories /\ ~Classified(p)
                /\ walk' = [[walk EXCEPT !.stack[1].left = @ \ {p}]
                           EXCEPT !.visited = @ + 1, !.path = p]
             \/ Classified(p)
                /\ walk' = [[[walk EXCEPT !.stack[1].left = @ \ {p}]
                            EXCEPT !.visited = @ + 1, !.path = p] EXCEPT !.pc = "stat"]
        BY <1>8 DEF VisitEntry, WalkIs, p
    <2>2. next <= MaxFiles
        BY <1>3, <1>5, <2>1
    <2>3. CASE p \in Directories /\ walk' = [[[walk EXCEPT !.stack[1].left = @ \ {p}]
                            EXCEPT !.visited = @ + 1, !.path = p] EXCEPT !.pc = "visit"]
        <3>1. walk' = [walk EXCEPT !.pc = "visit", !.path = p, !.visited = next,
                                   !.stack[1].left = @ \ {p}]
            BY <2>3 DEF WalkInv, WalkShapes
        <3> HIDE DEF next
        <3> QED BY <1>1, <1>2, <1>3, <1>4, <1>8, <2>2, <2>3, <3>1, TakingKeepsWalk
    <2>4. CASE p \notin Directories /\ ~Classified(p)
               /\ walk' = [[walk EXCEPT !.stack[1].left = @ \ {p}]
                          EXCEPT !.visited = @ + 1, !.path = p]
        <3>1. walk' = [walk EXCEPT !.pc = "entry", !.path = p, !.visited = next,
                                   !.stack[1].left = @ \ {p}]
            BY <1>1, <2>4 DEF WalkInv, WalkShapes
        <3>2. \A f \in Expected : p \notin Above[f]
            BY <2>4, AboveIsDirectory, BelongsIs DEF Classified
        <3> HIDE DEF next
        <3> QED BY <1>1, <1>2, <1>3, <1>4, <2>2, <3>1, <3>2, TakingKeepsWalk
    <2>5. CASE Classified(p) /\ walk' = [[[walk EXCEPT !.stack[1].left = @ \ {p}]
                            EXCEPT !.visited = @ + 1, !.path = p] EXCEPT !.pc = "stat"]
        <3>1. walk' = [walk EXCEPT !.pc = "stat", !.path = p, !.visited = next,
                                   !.stack[1].left = @ \ {p}]
            BY <2>5 DEF WalkInv, WalkShapes
        <3>2. p \in Supported
            BY <2>5 DEF Classified
        <3> HIDE DEF next
        <3> QED BY <1>1, <1>2, <1>3, <1>4, <2>2, <3>1, <3>2, TakingKeepsWalk
    <2> QED BY <2>1, <2>3, <2>4, <2>5
<1> QED BY <1>6, <1>7, <1>8

LEMMA LeavingKeepsWalk ==
    ASSUME WalkInv, LeaveDirectory
    PROVE  WalkInv'
<1> DEFINE s == walk.stack
           w == walk'
           S == Seq(Frames)
<1>1. UNCHANGED tree /\ walk.pc = "entry"
    BY DEF LeaveDirectory, Checked
<1>2. walk \in [pc : {walk.pc}, path : Paths, stack : S, visited : Nat, bytes : Nat,
                file : [version : Nat, read : {walk.file.read}, outside : {walk.file.outside}],
                files : {walk.files}, result : {walk.result}]
    BY DEF WalkInv, WalkShapes
<1>3. CASE s = <<>>
    <2>1. w = [walk EXCEPT !.pc = "done", !.result = "ok"]
        BY <1>3 DEF LeaveDirectory, Give, WalkIs
    <2>2. /\ w.pc = "done" /\ w.result = "ok" /\ w.stack = s
          /\ w.files = walk.files /\ w.visited = walk.visited /\ w.bytes = walk.bytes
          /\ w \in [pc : {w.pc}, path : Paths, stack : S, visited : Nat, bytes : Nat,
                    file : [version : Nat, read : {w.file.read}, outside : {w.file.outside}],
                    files : {w.files}, result : {w.result}]
        <3> HIDE DEF S
        <3> QED BY <1>2, <2>1
    <2>3. WalkShapes'
        BY <1>1, <2>2 DEF WalkInv, WalkShapes
    <2>4. ReadsOnward' /\ Collected'
        BY <2>2 DEF WalkInv, ReadsOnward, Collected
    <2>5. ASSUME tree.edits = 0 PROVE Follows(w)
        <3>1. Follows(walk)
            BY <1>1, <2>5 DEF WalkInv, StillWalk
        <3>2. CollectedPaths(w) = CollectedPaths(walk)
            <4>1. w.files = walk.files
                BY <2>2
            <4> HIDE DEF w
            <4> QED BY <4>1 DEF CollectedPaths
        <3>3. Ahead(walk) \subseteq Ahead(w)
            <4>1. Ahead(walk) = Left(s)
                BY <1>1, AheadIs
            <4>2. w.stack = s
                BY <2>2
            <4> HIDE DEF w
            <4> QED BY <4>1, <4>2 DEF Ahead
        <3>4. Missing(w) = {}
            BY <3>1, <3>2, <3>3 DEF Follows, Missing
        <3>5. Visits(w) /\ Framed(w)
            BY <2>2, <3>1 DEF Follows, Visits, Framed
        <3> QED BY <3>1, <3>2, <3>4, <3>5 DEF Follows
    <2>6. StandsStill' /\ StillWalk'
        BY <1>1, <2>5 DEF WalkInv, StandsStill, StillWalk
    <2> QED BY <1>3, <2>2, <2>3, <2>4, <2>6 DEF WalkInv
<1>4. CASE s # <<>>
    <2> DEFINE t == Tail(s)
    <2>1. w = [walk EXCEPT !.stack = t] /\ Head(s).left = {}
        BY <1>4 DEF LeaveDirectory, WalkIs
    <2>2. t \in S /\ Range(s) = {Head(s)} \cup Range(t)
        <3>1. s \in Seq(Frames)
            BY <1>2
        <3>2. \E x : x \in Frames
            BY FramesAre
        <3> QED BY <1>4, <3>1, <3>2, FirstAndRest
    <2> HIDE DEF t, S
    <2>3. /\ w.pc = "entry" /\ w.path = walk.path /\ w.stack = t /\ w.files = walk.files
          /\ w.visited = walk.visited /\ w.bytes = walk.bytes /\ w.result = walk.result
          /\ w \in [pc : {w.pc}, path : Paths, stack : S, visited : Nat, bytes : Nat,
                    file : [version : Nat, read : {w.file.read}, outside : {w.file.outside}],
                    files : {w.files}, result : {w.result}]
        BY <1>1, <1>2, <2>1, <2>2
    <2>4. GoesOn(w)
        BY <2>3 DEF GoesOn, S
    <2>5. ReadsOnward' /\ Collected'
        BY <2>3 DEF WalkInv, ReadsOnward, Collected
    <2>6. ASSUME tree.edits = 0 PROVE Follows(w)
        <3>1. Follows(walk)
            BY <1>1, <2>6 DEF WalkInv, StillWalk
        <3>2. CollectedPaths(w) = CollectedPaths(walk)
            <4>1. w.files = walk.files
                BY <2>3
            <4> HIDE DEF w
            <4> QED BY <4>1 DEF CollectedPaths
        <3>3. Ahead(walk) = Ahead(w)
            <4>1. Ahead(walk) = Left(s)
                BY <1>1, AheadIs
            <4>2. Ahead(w) = Left(t)
                BY <2>3, AheadIs
            <4>3. Left(s) = Left(t)
                BY <2>1, <2>2 DEF Left
            <4> QED BY <4>1, <4>2, <4>3
        <3>4. Missing(w) = {}
            BY <3>1, <3>2, <3>3 DEF Follows, Missing
        <3>5. Visits(w) /\ Framed(w)
            BY <2>2, <2>3, <3>1 DEF Follows, Visits, Framed
        <3> QED BY <3>1, <3>2, <3>4, <3>5 DEF Follows
    <2> HIDE DEF w
    <2> QED BY <1>1, <2>3, <2>4, <2>5, <2>6, GoingKeepsWalk DEF w
<1> QED BY <1>3, <1>4

\* A file that is looked at, opened and read.
LEMMA ReadingKeepsWalk ==
    ASSUME WalkInv, StatFile \/ OpenFile \/ ReadFile
    PROVE  WalkInv'
<1> DEFINE p == walk.path
           v == tree.version[p]
           seen == walk.file.version
           read == walk.file.read
           outside == walk.file.outside
<1> USE DEF Checked, WalkIs
<1>1. UNCHANGED tree /\ walk.pc \in {"stat", "open", "read"}
    BY DEF StatFile, OpenFile, ReadFile
<1>2. /\ walk.file \in [version : Nat, read : {read}, outside : {outside}]
      /\ seen \in Nat /\ walk.file = [version |-> seen, read |-> read, outside |-> outside]
    BY DEF WalkInv, WalkShapes
<1>3. p \in Supported
    BY <1>1 DEF WalkInv, ReadsOnward
<1>4. v \in Nat
    <2>1. tree.version \in [Files -> Nat]
        BY DEF WalkInv, WalkShapes
    <2> QED BY <1>3, <2>1, BelongsIs
<1>5. CASE Give("failed")
    BY <1>1, <1>5, GivingUpKeepsWalk
<1>6. ASSUME NEW pc \in {"open", "read", "close"}, NEW version \in Nat, NEW content, NEW away,
             walk' = [walk EXCEPT !.pc = pc, !.file = [version |-> version, read |-> content,
                                                      outside |-> away]],
             version <= v,
             pc \in {"read", "close"} => content # {} /\ content \subseteq version..v /\ ~away
      PROVE  WalkInv'
    <2> DEFINE file == [version |-> version, read |-> content, outside |-> away]
    <2>1. /\ file \in [version : Nat, read : {file.read}, outside : {file.outside}]
          /\ file.version = version /\ file.read = content
        OBVIOUS
    <2>2. ~file.outside <=> ~away
        BY Zenon
    <2>3. walk' = [walk EXCEPT !.pc = pc, !.file = file]
        BY <1>6
    <2> HIDE DEF file
    <2>4. walk'.pc = pc /\ walk'.file = file /\ walk'.path = p
        BY <2>3 DEF WalkInv, WalkShapes
    <2>5. ReadsOnward'
        BY <1>1, <1>3, <1>6, <2>1, <2>2, <2>4 DEF ReadsOnward
    <2>6. ASSUME tree.edits = 0 PROVE Visits(walk')
        BY <1>1, <1>6, <2>4, <2>6 DEF WalkInv, StillWalk, Follows, Visits
    <2>7. /\ pc \in {"visit", "nested", "list", "open", "read", "close"}
          /\ walk.pc \in {"authorize", "visit", "nested", "list", "stat", "open", "read"}
        BY <1>1, <1>6
    <2> QED BY <1>1, <2>1, <2>3, <2>5, <2>6, <2>7, PhaseKeepsWalk
<1>7. ASSUME StatFile, ~Give("failed") PROVE WalkInv'
    <2>1. walk' = [walk EXCEPT !.pc = "open", !.file = [NoFile EXCEPT !.version = v]]
        BY <1>7 DEF StatFile
    <2>2. [NoFile EXCEPT !.version = v] = [version |-> v, read |-> {}, outside |-> FALSE]
        <3> DEFINE none == FALSE
                   empty == {}
        <3>1. NoFile = [version |-> 0, read |-> empty, outside |-> none]
            BY DEF NoFile
        <3> HIDE DEF v, none, empty
        <3>2. [[version |-> 0, read |-> empty, outside |-> none] EXCEPT !.version = v]
                = [version |-> v, read |-> empty, outside |-> none]
            OBVIOUS
        <3>3. [NoFile EXCEPT !.version = v] = [version |-> v, read |-> empty, outside |-> none]
            BY <3>1, <3>2, Zenon
        <3> QED BY <3>3, Zenon DEF none, empty
    <2>3. walk' = [walk EXCEPT !.pc = "open",
                               !.file = [version |-> v, read |-> {}, outside |-> FALSE]]
        BY <2>1, <2>2
    <2>4. v <= v
        BY <1>4
    <2> HIDE DEF v
    <2> QED BY <1>4, <1>6, <2>3, <2>4
<1>8. ASSUME OpenFile, ~Give("failed") PROVE WalkInv'
    <2> DEFINE away == Foreign(p)
    <2>1. /\ SameState(p)
          /\ walk' = [walk EXCEPT !.pc = "read", !.file.read = {v}, !.file.outside = away]
        BY <1>8 DEF OpenFile
    <2>2. seen = v /\ ~away
        BY <2>1 DEF SameState, Inspected
    <2> HIDE DEF away
    <2>3. walk' = [walk EXCEPT !.pc = "read",
                               !.file = [version |-> seen, read |-> {v}, outside |-> away]]
        <3>1. [walk.file EXCEPT !.read = {v}, !.outside = away]
                = [version |-> seen, read |-> {v}, outside |-> away]
            <4> DEFINE content == {v}
            <4>1. walk.file = [version |-> seen, read |-> read, outside |-> outside]
                BY <1>2
            <4> HIDE DEF v, seen, read, outside, content
            <4> DEFINE filled == [version |-> seen, read |-> content, outside |-> outside]
            <4>2. [walk.file EXCEPT !.read = content] = filled
                BY <4>1
            <4>3. [filled EXCEPT !.outside = away]
                    = [version |-> seen, read |-> content, outside |-> away]
                OBVIOUS
            <4>4. [walk.file EXCEPT !.read = content, !.outside = away]
                    = [[walk.file EXCEPT !.read = content] EXCEPT !.outside = away]
                BY Zenon
            <4> HIDE DEF filled
            <4> QED BY <4>2, <4>3, <4>4, Zenon DEF content
        <3>2. walk' = [walk EXCEPT !.pc = "read",
                                   !.file = [walk.file EXCEPT !.read = {v}, !.outside = away]]
            BY <2>1 DEF WalkInv, WalkShapes
        <3> QED BY <3>1, <3>2
    <2>4. {v} # {} /\ {v} \subseteq seen..v /\ seen <= v
        BY <1>2, <1>4, <2>2
    <2> HIDE DEF v, seen
    <2> QED BY <1>2, <1>6, <2>2, <2>3, <2>4
<1>9. ASSUME ReadFile, ~Give("failed") PROVE WalkInv'
    <2> DEFINE content == read \cup {v}
    <2>1. /\ walk' = [walk EXCEPT !.pc = "close", !.file.read = content]
          /\ walk.pc = "read"
        BY <1>9 DEF ReadFile
    <2>2. read # {} /\ read \subseteq seen..v /\ ~outside /\ seen <= v
        BY <2>1 DEF WalkInv, ReadsOnward
    <2>3. content # {} /\ content \subseteq seen..v
        BY <1>2, <1>4, <2>2
    <2> HIDE DEF content
    <2>4. walk' = [walk EXCEPT !.pc = "close",
                               !.file = [version |-> seen, read |-> content, outside |-> outside]]
        <3>1. [walk.file EXCEPT !.read = content]
                = [version |-> seen, read |-> content, outside |-> outside]
            <4> HIDE DEF v, seen, read, outside
            <4> QED BY <1>2
        <3>2. walk' = [walk EXCEPT !.pc = "close", !.file = [walk.file EXCEPT !.read = content]]
            BY <2>1 DEF WalkInv, WalkShapes
        <3> QED BY <3>1, <3>2
    <2> HIDE DEF v, seen, outside
    <2> QED BY <1>2, <1>6, <2>2, <2>3, <2>4
<1> QED BY <1>5, <1>7, <1>8, <1>9

\* A file that is what it was has been read in one version.
LEMMA ClosingKeepsWalk ==
    ASSUME WalkInv, CloseFile
    PROVE  WalkInv'
<1> DEFINE p == walk.path
           v == tree.version[p]
           record == [path |-> p, content |-> walk.file.read, outside |-> walk.file.outside]
           bytes == walk.bytes + SizeOf(v)
           files == walk.files \cup {record}
           w == walk'
<1>1. UNCHANGED tree /\ walk.pc = "close"
    BY DEF CloseFile, Checked
<1>2. CASE Give("failed")
    BY <1>1, <1>2, GivingUpKeepsWalk
<1>3. CASE ~Give("failed")
    <2>1. /\ SameState(p) /\ SizeOf(v) <= ReadLimit
          /\ w = [walk EXCEPT !.pc = "entry", !.bytes = bytes, !.file = NoFile, !.files = files]
        BY <1>3 DEF CloseFile, WalkIs
    <2>2. p \in Supported /\ p \in Paths
        BY <1>1, BelongsIs DEF WalkInv, ReadsOnward
    <2>3. v \in Nat /\ walk.bytes \in Nat /\ walk.bytes <= MaxTotalBytes
        <3>1. tree.version \in [Files -> Nat] /\ walk.bytes \in Nat
            BY DEF WalkInv, WalkShapes
        <3> QED BY <2>2, <3>1, BelongsIs DEF WalkInv, Collected
    <2>4. walk.file.read = {v} /\ ~walk.file.outside
        <3>1. /\ walk.file.read # {} /\ ~walk.file.outside
              /\ walk.file.read \subseteq walk.file.version..v
            BY <1>1 DEF WalkInv, ReadsOnward
        <3>2. walk.file.version = v
            BY <2>1 DEF SameState
        <3>3. walk.file.version..v = {v}
            BY <2>3, <3>2
        <3> QED BY <3>1, <3>3
    <2>5. SizeOf(v) <= MaxFileBytes /\ bytes <= MaxTotalBytes /\ bytes \in Nat
        <3>1. MaxFileBytes \in Nat /\ MaxTotalBytes \in Nat
            BY TreeAssumption
        <3>2. SizeOf(v) = v + 1
            BY DEF SizeOf
        <3> QED BY <2>1, <2>3, <3>1, <3>2 DEF ReadLimit
    <2>6. IsWhole(record) /\ record.path = p
        <3>1. record.path = p /\ record.content = {v}
            BY <2>4
        <3>2. ~record.outside
            BY <2>4, Zenon
        <3> HIDE DEF record, v
        <3> QED BY <2>2, <2>3, <2>5, <3>1, <3>2 DEF IsWhole
    <2> HIDE DEF record, bytes
    <2>7. /\ w.pc = "entry" /\ w.path = p /\ w.stack = walk.stack /\ w.files = files
          /\ w.visited = walk.visited /\ w.bytes = bytes /\ w.result = walk.result
          /\ GoesOn(w)
        <3> DEFINE S == Seq(Frames)
        <3>1. walk \in [pc : {walk.pc}, path : Paths, stack : S, visited : Nat, bytes : Nat,
                        file : {walk.file}, files : {walk.files}, result : {walk.result}]
            BY DEF WalkInv, WalkShapes
        <3>2. NoFile \in [version : Nat, read : {NoFile.read}, outside : {NoFile.outside}]
            BY DEF NoFile
        <3> HIDE DEF S, files
        <3>3. /\ w.pc = "entry" /\ w.path = p /\ w.stack = walk.stack /\ w.files = files
              /\ w.visited = walk.visited /\ w.bytes = bytes /\ w.result = walk.result
              /\ w \in [pc : {w.pc}, path : Paths, stack : S, visited : Nat, bytes : Nat,
                        file : {NoFile}, files : {w.files}, result : {w.result}]
            BY <2>1, <2>5, <3>1
        <3>4. w.file = NoFile
            BY <3>3
        <3> QED BY <3>2, <3>3, <3>4 DEF S, GoesOn
    <2>8. ReadsOnward'
        BY <2>7 DEF ReadsOnward
    <2>9. Collected'
        <3>1. \A file \in files : IsWhole(file)
            BY <2>6 DEF WalkInv, Collected
        <3>2. walk.visited <= MaxFiles
            BY DEF WalkInv, Collected
        <3> QED BY <2>5, <2>7, <3>1, <3>2 DEF Collected
    <2>10. ASSUME tree.edits = 0 PROVE Follows(w)
        <3>1. Follows(walk)
            BY <1>1, <2>10 DEF WalkInv, StillWalk
        <3>2. p \in Expected
            <4>1. Belongs(p)
                BY <1>1, <3>1 DEF Follows, Visits
            <4> QED BY <2>2, <4>1, BelongsIs
        <3>3. CollectedPaths(w) = CollectedPaths(walk) \cup {p}
            <4>1. w.files = walk.files \cup {record}
                BY <2>7
            <4> HIDE DEF w
            <4> QED BY <2>6, <4>1 DEF CollectedPaths
        <3>4. Ahead(walk) = Ahead(w) \cup {p}
            <4>1. Ahead(walk) = Left(walk.stack) \cup {p}
                <5>1. walk.pc \in {"authorize", "visit", "nested", "list", "stat", "open", "read",
                                   "close"}
                    BY <1>1
                <5> QED BY <5>1, AheadIs
            <4>2. Ahead(w) = Left(walk.stack)
                <5>1. w.pc = "entry" /\ w.stack = walk.stack
                    BY <2>7
                <5> HIDE DEF w
                <5> QED BY <5>1, AheadIs
            <4> QED BY <4>1, <4>2
        <3>5. \A f \in Expected : p \in Above[f] => f = p
            <4>1. p \notin Directories
                BY <3>2, BelongsIs
            <4> QED BY <4>1, AboveIsDirectory, BelongsIs
        <3>6. Missing(w) = {}
            <4> SUFFICES ASSUME NEW f \in Expected, f \notin CollectedPaths(w),
                                Above[f] \cap Ahead(w) = {}
                         PROVE  FALSE
                BY DEF Missing
            <4>1. f # p /\ f \notin CollectedPaths(walk)
                BY <3>3
            <4>2. Above[f] \cap Ahead(walk) = {}
                BY <3>4, <3>5, <4>1
            <4> QED BY <3>1, <4>1, <4>2 DEF Follows, Missing
        <3>7. Visits(w) /\ Framed(w)
            BY <2>7, <3>1 DEF Follows, Visits, Framed
        <3> QED BY <3>1, <3>2, <3>3, <3>6, <3>7 DEF Follows
    <2> HIDE DEF w
    <2> QED BY <1>1, <2>7, <2>8, <2>9, <2>10, GoingKeepsWalk DEF w
<1> QED BY <1>2, <1>3

\* The owner's edits leave the walk alone and only add to the versions of a file.
LEMMA TreeEditsKeepWalk ==
    ASSUME WalkInv, UNCHANGED walk,
           tree' \in [links : {tree'.links}, removed : {tree'.removed}, nested : {tree'.nested},
                      version : [Files -> Nat], late : {tree'.late}, edits : Nat],
           \A f \in Files : tree.version[f] <= tree'.version[f],
           tree'.edits > 0 \/
              UNCHANGED <<tree.links, tree.removed, tree.nested, tree.edits>>
    PROVE  WalkInv'
<1>1. WalkShapes'
    BY DEF WalkInv, WalkShapes
<1>2. ReadsOnward'
    <2>1. walk.path \in Supported =>
              /\ tree.version[walk.path] \in Nat /\ tree'.version[walk.path] \in Nat
              /\ tree.version[walk.path] <= tree'.version[walk.path]
        BY BelongsIs DEF WalkInv, WalkShapes
    <2>2. walk.file.version \in Nat
        BY DEF WalkInv, WalkShapes
    <2>3. walk.path \in Supported =>
              walk.file.version..tree.version[walk.path] \subseteq
              walk.file.version..tree'.version[walk.path]
        BY <2>1, <2>2
    <2> QED BY <2>1, <2>2, <2>3 DEF WalkInv, ReadsOnward
<1>3. Collected'
    BY DEF WalkInv, Collected
<1>4. StandsStill' /\ StillWalk'
    <2>1. tree'.edits \in Nat
        OBVIOUS
    <2> QED BY <2>1 DEF WalkInv, StandsStill, StillWalk
<1> QED BY <1>1, <1>2, <1>3, <1>4 DEF WalkInv

LEMMA NextKeepsWalk ==
    ASSUME WalkInv, [WalkNext]_walkVars
    PROVE  WalkInv'
<1> DEFINE V == [Files -> Nat]
<1>1. /\ tree \in [links : {tree.links}, removed : {tree.removed}, nested : {tree.nested},
                   version : V, late : {tree.late}, edits : Nat]
      /\ tree.edits \in Nat /\ tree.version \in V
    BY DEF WalkInv, WalkShapes
<1>2. \A f \in Files : tree.version[f] \in Nat /\ tree.version[f] <= tree.version[f]
    BY <1>1
<1>3. CASE UNCHANGED walkVars
    BY <1>1, <1>2, <1>3, TreeEditsKeepWalk DEF walkVars
<1>4. CASE WalkStep
    <2>1. CASE RefuseContent
        BY <2>1, GivingUpKeepsWalk DEF RefuseContent, Checked
    <2> QED BY <1>4, <2>1, EnteringKeepsWalk, ListingKeepsWalk, VisitingKeepsWalk,
               LeavingKeepsWalk, ReadingKeepsWalk, ClosingKeepsWalk DEF WalkStep
<1>5. ASSUME NEW f \in Files, WriteFile(f) PROVE WalkInv'
    <2> DEFINE version == [tree.version EXCEPT ![f] = @ + 1]
               edits == tree.edits + 1
    <2>1. tree' = [tree EXCEPT !.version = version, !.edits = edits] /\ UNCHANGED walk
        BY <1>1, <1>5 DEF WriteFile, EditTree
    <2>2. version \in V /\ \A g \in Files : tree.version[g] <= version[g]
        BY <1>1, <1>2
    <2>3. edits \in Nat /\ edits > 0
        BY <1>1
    <2> HIDE DEF version, edits, V
    <2>4. /\ tree' \in [links : {tree'.links}, removed : {tree'.removed}, nested : {tree'.nested},
                        version : V, late : {tree'.late}, edits : Nat]
          /\ tree'.version = version /\ tree'.edits = edits
        BY <1>1, <2>1, <2>2, <2>3
    <2> QED BY <2>1, <2>2, <2>3, <2>4, TreeEditsKeepWalk DEF V
<1>6. ASSUME NEW changed, EditTree(changed),
             changed \in [links : {changed.links}, removed : {changed.removed},
                          nested : {changed.nested}, version : {tree.version},
                          late : {tree.late}, edits : {tree.edits}]
      PROVE  WalkInv'
    <2> DEFINE edits == tree.edits + 1
    <2>1. tree' = [changed EXCEPT !.edits = edits] /\ UNCHANGED walk
        BY <1>6 DEF EditTree
    <2>2. edits \in Nat /\ edits > 0
        BY <1>1
    <2> HIDE DEF edits, V
    <2>3. /\ tree' \in [links : {tree'.links}, removed : {tree'.removed}, nested : {tree'.nested},
                        version : V, late : {tree'.late}, edits : Nat]
          /\ tree'.version = tree.version /\ tree'.edits = edits
        BY <1>1, <1>6, <2>1, <2>2
    <2> QED BY <1>2, <2>1, <2>2, <2>3, TreeEditsKeepWalk DEF V
<1>7. ASSUME NEW p \in DOMAIN Parent, ReplacePath(p) \/ RemovePath(p) PROVE WalkInv'
    <2> DEFINE linked == tree.links \cup {p}
               removed == tree.removed \cup {p}
    <2>1. EditTree([tree EXCEPT !.links = linked]) \/ EditTree([tree EXCEPT !.removed = removed])
        BY <1>7 DEF ReplacePath, RemovePath
    <2> HIDE DEF linked, removed, V
    <2> QED BY <1>1, <1>6, <2>1
<1>8. ASSUME NEW d \in Directories, InitRepository(d) PROVE WalkInv'
    <2> DEFINE nested == tree.nested \cup {d}
    <2>1. EditTree([tree EXCEPT !.nested = nested])
        BY <1>8 DEF InitRepository
    <2> HIDE DEF nested, V
    <2> QED BY <1>1, <1>6, <2>1
<1>9. CASE MissDeadline
    <2>1. tree' = [tree EXCEPT !.late = TRUE] /\ UNCHANGED walk
        BY <1>9 DEF MissDeadline
    <2>2. /\ tree' \in [links : {tree'.links}, removed : {tree'.removed}, nested : {tree'.nested},
                        version : V, late : {tree'.late}, edits : Nat]
          /\ tree'.version = tree.version
          /\ UNCHANGED <<tree.links, tree.removed, tree.nested, tree.edits>>
        <3> HIDE DEF V
        <3> QED BY <1>1, <2>1
    <2> QED BY <1>2, <2>1, <2>2, TreeEditsKeepWalk
<1> QED BY <1>3, <1>4, <1>5, <1>7, <1>8, <1>9 DEF WalkNext

LEMMA WalkInitInv == WalkInit => WalkInv
<1> SUFFICES ASSUME WalkInit PROVE WalkInv
    OBVIOUS
<1>1. tree = [links |-> {}, removed |-> {}, nested |-> NestedAtStart,
              version |-> [f \in Files |-> 0], late |-> FALSE, edits |-> 0]
    BY DEF WalkInit
<1>2. walk = [pc |-> "authorize", path |-> Root, stack |-> <<>>, visited |-> 0, bytes |-> 0,
              file |-> NoFile, files |-> {}, result |-> "none"]
    BY DEF WalkInit
<1>3. WalkShapes
    <2> DEFINE S == Seq(Frames)
               V == [Files -> Nat]
    <2>1. <<>> \in S /\ [f \in Files |-> 0] \in V
        OBVIOUS
    <2>2. NoFile \in [version : Nat, read : {NoFile.read}, outside : {NoFile.outside}]
        BY DEF NoFile
    <2>3. Root \in Paths
        BY AboveIs
    <2> HIDE DEF S, V
    <2>4. tree \in [links : {tree.links}, removed : {tree.removed}, nested : {tree.nested},
                    version : V, late : {tree.late}, edits : Nat]
        BY <1>1, <2>1
    <2>5. /\ walk \in [pc : {walk.pc}, path : Paths, stack : S, visited : Nat, bytes : Nat,
                       file : {NoFile}, files : {walk.files}, result : {walk.result}]
          /\ walk.file = NoFile
        BY <1>2, <2>1, <2>3
    <2> QED BY <2>2, <2>4, <2>5 DEF S, V, WalkShapes
<1>4. ReadsOnward
    BY <1>2 DEF ReadsOnward
<1>5. Collected
    <2>1. MaxFiles \in Nat /\ MaxTotalBytes \in Nat
        BY TreeAssumption
    <2> QED BY <1>2, <2>1 DEF Collected
<1>6. StandsStill
    BY <1>1 DEF StandsStill
<1>7. Follows(walk)
    <2>1. Visits(walk)
        <3>1. Root \in Directories \ Ignored
            BY TreeAssumption
        <3> QED BY <1>2, <3>1 DEF Visits
    <2>2. Range(<<>>) = {}
        BY DEF Range
    <2>3. Framed(walk)
        BY <1>2, <2>2 DEF Framed
    <2>4. CollectedPaths(walk) = {}
        <3>1. walk.files = {}
            BY <1>2
        <3> QED BY <3>1 DEF CollectedPaths
    <2>5. Root \in Ahead(walk)
        <3>1. /\ walk.pc \in {"authorize", "visit", "nested", "list", "stat", "open", "read",
                              "close"}
              /\ walk.path = Root
            BY <1>2
        <3> QED BY <3>1, AheadIs
    <2>6. Missing(walk) = {}
        BY <2>5, RootIsAbove, BelongsIs DEF Missing
    <2> QED BY <2>1, <2>3, <2>4, <2>6 DEF Follows
<1> QED BY <1>2, <1>3, <1>4, <1>5, <1>6, <1>7 DEF WalkInv, StillWalk

LEMMA WalkInvIsSound == WalkInv => WalkIsSound
<1> SUFFICES ASSUME WalkInv PROVE WalkIsSound
    OBVIOUS
<1>1. FilesAreOneVersion
    <2> SUFFICES ASSUME NEW file \in walk.files
                 PROVE  Cardinality(file.content) = 1 /\ ~file.outside
        BY DEF FilesAreOneVersion
    <2>1. PICK v \in Nat : file.content = {v}
        BY DEF WalkInv, Collected, IsWhole
    <2>2. Cardinality(file.content) = 1
        BY <2>1, FS_Singleton
    <2> QED BY <2>2 DEF WalkInv, Collected, IsWhole
<1>2. WalkWithinLimits
    BY DEF WalkInv, Collected, IsWhole, WalkWithinLimits
<1>3. StillTreeIsComplete
    <2> SUFFICES ASSUME walk.result = "ok", tree.edits = 0
                 PROVE  CollectedPaths(walk) = Expected
        BY DEF StillTreeIsComplete, CollectedPaths
    <2>1. Follows(walk) /\ walk.stack = <<>> /\ walk.pc = "done"
        BY DEF WalkInv, StillWalk
    <2>2. Ahead(walk) = {}
        <3>1. Range(<<>>) = {}
            BY DEF Range
        <3>2. Left(walk.stack) = {}
            BY <2>1, <3>1 DEF Left
        <3> QED BY <2>1, <3>2 DEF Ahead
    <2>3. Expected \subseteq CollectedPaths(walk)
        BY <2>1, <2>2 DEF Follows, Missing
    <2> QED BY <2>1, <2>3 DEF Follows
<1> QED BY <1>1, <1>2, <1>3 DEF WalkIsSound

\* Whatever its owner writes, removes or replaces by a link under the walk, each file of
\* a snapshot is one version of a file inside the repository and within the limits; of a
\* tree that stands still the snapshot is complete (collectFilesystemMetadata).
THEOREM WalksAreSound == Spec => []WalkIsSound
<1>1. Init => WalkInv
    BY WalkInitInv DEF Init
<1>2. WalkInv /\ [Next]_collectionVars => WalkInv'
    BY StepsOfCollectors, NextKeepsWalk
<1> QED BY <1>1, <1>2, WalkInvIsSound, PTL DEF Spec
=============================================================================
