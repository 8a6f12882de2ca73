---------------------- MODULE IncrementalRefreshProofs ----------------------
(***************************************************************************)
(* IncrementalRefresh: what is cached is one version of its repository,    *)
(* what is published was the state of every repository during the refresh, *)
(* a disposed session holds nothing, and no derivation blocks the next.    *)
(***************************************************************************)
EXTENDS IncrementalRefresh, OrderLemmas

-----------------------------------------------------------------------------
(* The inductive invariant *)

Below(a, b) == a.files <= b.files /\ a.history <= b.history
Here == source[run.repository]
Seen == moments[run.repository]
Running == run.pc # "idle"

\* Which readings a refresh holds at which label.
Labelled ==
    /\ Running => run.outcome = "none" /\ \A r \in run.fresh : r < run.repository
    /\ run.before # Blank => run.before \in Present
    /\ run.pc = "walk" => run.probe.history \in Version
    /\ run.pc \in {"collect", "log"} => run.before # Blank
    /\ run.pc = "log" => run.content.files \in Version
    /\ run.pc \in {"probe", "walk"} /\ run.before # Blank => run.content \in Present

\* The first walk, in order: its two parts were present together when it ended,
\* if the history did not change during it.
FirstWalk ==
    run.pc = "walk" /\ run.before = Blank =>
        /\ run.probe.history <= Here.history
        /\ \E m \in Seen : /\ m.history = run.probe.history /\ Below(m, Here)
                           /\ session.cache[run.repository] # Missing
                              => Below(session.cache[run.repository].content, m)

\* The readings after it, each between the first walk and now.
Bracketed ==
    Running /\ run.before # Blank =>
        /\ Below(run.before, Here)
        /\ run.pc = "log" => run.before.files <= run.content.files /\ run.content.files <= Here.files
        /\ run.pc \in {"probe", "walk"} =>
              Below(run.before, run.content) /\ Below(run.content, Here)
        /\ run.pc = "walk" =>
              run.content.history <= run.probe.history /\ run.probe.history <= Here.history
        /\ \E m \in Seen : /\ m.files = run.before.files /\ run.before.history <= m.history
                           /\ Below(m, Here)
                           /\ run.pc = "walk" => m.history <= run.probe.history

\* Cached entries: one version each, not from the future, between the sources of
\* the previous derivation and the last refresh.
Sound(cache) ==
    \A r \in Cached(cache) :
        /\ cache[r].content = cache[r].fingerprint
        /\ Below(cache[r].content, source[r])
        /\ session.previous.sourceObservedAt <= cache[r].collectedAt
        /\ cache[r].collectedAt <= session.lastObservedAt

\* Repositories reported fresh have an entry that they were during this refresh, and it
\* is young enough.
Confirmed(cache, fresh) ==
    \A r \in fresh : r \in Cached(cache) /\ cache[r].content \in moments[r] /\ Young(cache[r])

Clocked ==
    /\ session.previous.sourceObservedAt <= session.lastObservedAt
    /\ session.previous.derivedAt <= session.lastObservedAt
    /\ Running => run.at = session.lastObservedAt

RefreshInv ==
    /\ TypeOK /\ Labelled /\ FirstWalk /\ Bracketed /\ Clocked /\ DisposedHoldsNothing
    /\ Sound(session.cache)
    /\ Running => \A r \in Repositories : source[r] \in moments[r]
    /\ Running /\ Live => Confirmed(session.cache, run.fresh)

-----------------------------------------------------------------------------
(* How a refresh goes on or ends *)

LEMMA IdleTypes == \A o \in {"none", "published", "withheld", "failed"} : Idle(o) \in Runs
BY RefreshAssumption DEF Idle, Runs, Repositories, Times, Reading, Blank, Unread

\* A refresh that has ended leaves only the session to be checked.
LEMMA IdleSuffices ==
    ASSUME NEW o \in {"none", "published", "withheld", "failed"}, run' = Idle(o),
           (source \in [Repositories -> Present])', (session \in SessionState)',
           (moments \in [Repositories -> SUBSET Present])',
           DisposedHoldsNothing', Sound(session.cache)',
           session'.previous.sourceObservedAt <= session'.lastObservedAt,
           session'.previous.derivedAt <= session'.lastObservedAt
    PROVE  RefreshInv'
<1>1. run' \in Runs
    BY IdleTypes
<1>2. run'.pc = "idle" /\ run'.before = Blank
    BY DEF Idle
<1>. QED BY <1>1, <1>2 DEF RefreshInv, TypeOK, Labelled, FirstWalk, Bracketed, Clocked, Running

\* What is published was the state of every repository at some moment, and is young.
Current == run'.outcome = "published" =>
              \A r \in Repositories : session'.cache[r].content \in moments[r]
                                       /\ Young(session'.cache[r])

LEMMA SettleKeepsInv ==
    ASSUME RefreshInv, Running, Live, Observed,
           NEW cache \in Caches, NEW fresh \in SUBSET Repositories,
           \A r \in fresh : r <= run.repository,
           Sound(cache), Confirmed(cache, fresh), Settle(cache, fresh)
    PROVE  RefreshInv' /\ (~Running' => Current)
<1>. USE RefreshAssumption
<1>1. /\ TypeOK /\ source' = source /\ moments' = moments /\ ~session.disposed
      /\ \A r \in Repositories : source[r] \in moments[r]
      /\ Clocked
    BY DEF RefreshInv, Live, Observed
<1>2. ASSUME run.repository < Count, Keeps(cache),
             run' = [run EXCEPT !.pc = "probe", !.repository = @ + 1, !.fresh = fresh,
                                !.before = Blank, !.probe = Blank, !.content = Blank]
      PROVE  RefreshInv' /\ Running'
    <2>1. session' \in SessionState /\ ~session'.disposed /\ session'.cache = cache
          /\ session'.previous = session.previous
          /\ session'.lastObservedAt = session.lastObservedAt
        BY <1>1, <1>2 DEF Keeps, TypeOK, SessionState
    <2>2. run.repository + 1 \in Repositories
        BY <1>1, <1>2 DEF TypeOK, Runs, Repositories
    <2>3. Blank \in Reading
        BY DEF Blank, Reading
    <2>4. run' \in Runs /\ run'.pc = "probe" /\ run'.before = Blank /\ run'.fresh = fresh
          /\ run'.at = run.at /\ run'.repository = run.repository + 1
          /\ run'.outcome = run.outcome
        BY <1>1, <1>2, <2>2, <2>3 DEF TypeOK, Runs
    <2>5. TypeOK'
        BY <1>1, <2>1, <2>4 DEF TypeOK
    <2>6. run.outcome = "none"
        BY DEF RefreshInv, Labelled
    <2>6b. Labelled' /\ FirstWalk' /\ Bracketed'
        BY <1>1, <2>4, <2>6 DEF TypeOK, Runs, Repositories, Running, Labelled, FirstWalk, Bracketed
    <2>7. Clocked' /\ DisposedHoldsNothing'
        BY <1>1, <2>1, <2>4 DEF Clocked, DisposedHoldsNothing, Running
    <2>8. Sound(session.cache)'
        BY <1>1, <2>1 DEF Sound, Cached
    <2>9. Confirmed(session.cache, run.fresh)'
        BY <1>1, <2>1, <2>4 DEF Confirmed, Cached, Young
    <2>. QED BY <1>1, <2>4, <2>5, <2>6b, <2>7, <2>8, <2>9 DEF RefreshInv, Running
<1>3. ASSUME fresh = Repositories, Publish(cache)
      PROVE  RefreshInv' /\ Current
    <2> DEFINE times == {cache[r].collectedAt : r \in Cached(cache)}
    <2>1. Cached(cache) = Repositories /\ \A r \in Repositories : cache[r] \in Entry
        BY <1>3 DEF Confirmed, Cached, Caches
    <2>2. times \subseteq Times /\ times # {}
        <3>1. 1 \in Repositories
            BY DEF Repositories
        <3>. QED BY <2>1, <3>1 DEF Entry
    <2>3. sourceObservedAt(cache) \in times /\ \A t \in times : sourceObservedAt(cache) <= t
        <3>1. times \subseteq Nat
            BY <2>2 DEF Times
        <3>. HIDE DEF times
        <3>2. Min(times) \in times /\ \A t \in times : Min(times) <= t
            BY <2>2, <3>1, MinFacts
        <3>. QED BY <3>2 DEF times, sourceObservedAt
    <2>4. \A r \in Repositories : cache[r].collectedAt \in times
        BY <2>1
    <2>. HIDE DEF times
    <2>5. sourceObservedAt(cache) \in Times
        BY <2>2, <2>3
    <2> DEFINE derivation == [sourceObservedAt |-> sourceObservedAt(cache),
                              derivedAt |-> run.at, bytes |-> DerivedBytes]
    <2>6. derivation \in Derivation
        BY <1>1, <2>5 DEF Derivation, TypeOK, Runs
    <2>7. session' = [session EXCEPT !.cache = cache, !.previous = derivation]
          /\ run' = Idle("published")
        BY <1>3 DEF Publish
    <2>8. derivation.sourceObservedAt = sourceObservedAt(cache) /\ derivation.derivedAt = run.at
        OBVIOUS
    <2>. HIDE DEF derivation
    <2>9. session' \in SessionState /\ ~session'.disposed /\ session'.cache = cache
          /\ session'.previous = derivation
          /\ session'.lastObservedAt = session.lastObservedAt
        BY <1>1, <2>6, <2>7 DEF TypeOK, SessionState
    <2>10. PICK r \in Repositories : sourceObservedAt(cache) = cache[r].collectedAt
        BY <2>1, <2>3 DEF times
    <2>11. sourceObservedAt(cache) <= session.lastObservedAt
        BY <2>1, <2>10 DEF Sound
    <2>12. session'.previous.sourceObservedAt <= session'.lastObservedAt
           /\ session'.previous.derivedAt <= session'.lastObservedAt
        <3>1. run.at = session.lastObservedAt /\ run.at \in Nat
            BY <1>1 DEF Clocked, TypeOK, Runs, Times
        <3>. QED BY <2>8, <2>9, <2>11, <3>1
    <2>13. Sound(session.cache)'
        BY <1>1, <2>3, <2>4, <2>8, <2>9, <2>1 DEF Sound, Cached
    <2>14. DisposedHoldsNothing'
        BY <2>9 DEF DisposedHoldsNothing
    <2>15. RefreshInv'
        BY <1>1, <2>7, <2>9, <2>12, <2>13, <2>14, IdleSuffices DEF TypeOK
    <2>16. Current
        BY <1>3, <2>9 DEF Current, Confirmed
    <2>. QED BY <2>15, <2>16
<1>4. ASSUME Keeps(cache), run' = Idle("withheld")
      PROVE  RefreshInv' /\ Current
    <2>1. session' \in SessionState /\ ~session'.disposed /\ session'.cache = cache
          /\ session'.previous = session.previous
          /\ session'.lastObservedAt = session.lastObservedAt
        BY <1>1, <1>4 DEF Keeps, TypeOK, SessionState
    <2>2. Sound(session.cache)' /\ DisposedHoldsNothing'
        BY <1>1, <2>1 DEF Sound, Cached, DisposedHoldsNothing
    <2>3. RefreshInv'
        BY <1>1, <1>4, <2>1, <2>2, IdleSuffices DEF TypeOK, Clocked
    <2>4. Current
        BY <1>4 DEF Current, Idle
    <2>. QED BY <2>3, <2>4
<1>. QED BY <1>2, <1>3, <1>4 DEF Settle

\* A repository that is given up keeps the invariant, with or without its entry.
LEMMA UnavailableKeepsInv ==
    ASSUME RefreshInv, Running, Live, Observed, NEW evict \in BOOLEAN, Unavailable(evict)
    PROVE  RefreshInv' /\ (~Running' => Current)
<1> DEFINE cache == IF evict THEN [session.cache EXCEPT ![run.repository] = Missing]
                    ELSE session.cache
<1>1. session.cache \in Caches /\ run.fresh \in SUBSET Repositories /\ run.repository \in Repositories
    BY DEF RefreshInv, TypeOK, SessionState, Runs
<1>2. cache \in Caches
    BY <1>1 DEF Caches
<1>3. \A r \in Repositories : cache[r] = session.cache[r] \/ (cache[r] = Missing /\ r = run.repository)
    BY <1>1 DEF Caches
<1>4. Sound(cache)
    BY <1>3 DEF RefreshInv, Sound, Cached
<1>5. Confirmed(cache, run.fresh)
    <2>1. run.repository \notin run.fresh
        BY <1>1 DEF RefreshInv, Labelled, Repositories
    <2>2. \A r \in run.fresh : cache[r] = session.cache[r]
        BY <1>1, <1>3, <2>1
    <2>. QED BY <1>1, <2>2 DEF RefreshInv, Confirmed, Cached
<1>6. Settle(cache, run.fresh)
    BY DEF Unavailable
<1>7. \A r \in run.fresh : r <= run.repository
    BY <1>1 DEF RefreshInv, Labelled, Repositories
<1>. HIDE DEF cache
<1>. QED BY <1>1, <1>2, <1>4, <1>5, <1>6, <1>7, SettleKeepsInv

-----------------------------------------------------------------------------
(* The steps of a refresh *)

\* The hit: an entry that was there before the walk and equals what the walk found
\* was the repository when the walk began.
LEMMA HitIsCurrent ==
    ASSUME RefreshInv, run.pc = "walk", run.before = Blank, NEW fingerprint,
           fingerprint = [run.probe EXCEPT !.files = Here.files],
           session.cache[run.repository] # Missing,
           session.cache[run.repository].fingerprint = fingerprint
    PROVE  session.cache[run.repository].content \in Seen
<1> DEFINE e == session.cache[run.repository].content
<1>1. run.repository \in Repositories /\ run.probe \in Reading /\ Here \in Present
      /\ Seen \subseteq Present
    BY DEF RefreshInv, TypeOK, Runs, Here, Seen
<1>2. e \in Present /\ e = fingerprint
    <2>1. session.cache[run.repository] \in Entry
        BY <1>1 DEF RefreshInv, TypeOK, SessionState, Caches
    <2>. QED BY <1>1, <2>1 DEF RefreshInv, Sound, Cached, Entry
<1>3. PICK m \in Seen : m.history = run.probe.history /\ Below(m, Here) /\ Below(e, m)
    BY DEF RefreshInv, FirstWalk
<1>4. e.files = Here.files /\ e.history = run.probe.history
    BY <1>1, <1>2 DEF Reading
<1>5. m \in Present
    BY <1>1
<1>6. e.files = m.files /\ e.history = m.history
    <2>1. m.files \in Int /\ Here.files \in Int /\ e.files \in Int
        BY <1>1, <1>2, <1>5 DEF Present, Version
    <2>. QED BY <1>3, <1>4, <2>1 DEF Below
<1>7. e = m
    BY <1>2, <1>5, <1>6 DEF Present
<1>. QED BY <1>7

LEMMA DecideKeepsInv ==
    ASSUME RefreshInv, run.pc = "walk", run.before = Blank, Live, Observed, NEW fingerprint,
           fingerprint = [run.probe EXCEPT !.files = Here.files], Decide(fingerprint)
    PROVE  RefreshInv' /\ (~Running' => Current)
<1> DEFINE r == run.repository
           entry == session.cache[r]
           kept == IF entry.fingerprint = fingerprint
                   THEN session.cache ELSE [session.cache EXCEPT ![r] = Missing]
<1>1. /\ session.cache \in Caches /\ run \in Runs /\ r \in Repositories /\ Running
      /\ run.fresh \in SUBSET Repositories /\ run.probe.history \in Version
      /\ Here \in Present /\ run.probe \in Reading
    BY DEF RefreshInv, TypeOK, SessionState, Runs, Labelled, Here, Running
<1>2. \A q \in run.fresh : q < r
    BY <1>1 DEF RefreshInv, Labelled
<1>3. CASE Unchanged(entry, fingerprint)
    <2>1. Settle(session.cache, run.fresh \cup {r})
        BY <1>3 DEF Decide
    <2>2. Confirmed(session.cache, run.fresh \cup {r})
        <3>1. session.cache[r] # Missing /\ session.cache[r].fingerprint = fingerprint
            BY <1>3 DEF Unchanged
        <3>2. session.cache[r].content \in moments[r]
            BY <3>1, HitIsCurrent DEF Seen
        <3>3. Young(session.cache[r])
            BY <1>3 DEF Unchanged, Young
        <3>. QED BY <1>1, <3>1, <3>2, <3>3 DEF RefreshInv, Confirmed, Cached
    <2>3. \A q \in run.fresh \cup {r} : q <= r
        BY <1>1, <1>2 DEF Repositories
    <2>. QED BY <1>1, <2>1, <2>2, <2>3, SettleKeepsInv DEF RefreshInv
<1>4. CASE ~Unchanged(entry, fingerprint)
    <2>1. kept \in Caches
        BY <1>1 DEF Caches
    <2>2. \A q \in Repositories : kept[q] = session.cache[q] \/ (kept[q] = Missing /\ q = r)
        BY <1>1 DEF Caches
    <2>3. Sound(kept)
        BY <2>2 DEF RefreshInv, Sound, Cached
    <2>4. Confirmed(kept, run.fresh)
        <3>1. \A q \in run.fresh : q # r
            BY <1>1, <1>2 DEF Repositories
        <3>2. \A q \in run.fresh : kept[q] = session.cache[q]
            BY <1>1, <2>2, <3>1
        <3>. QED BY <1>1, <3>2 DEF RefreshInv, Confirmed, Cached
    <2>5. \/ Settle(kept, run.fresh)
          \/ /\ Keeps(kept)
             /\ run' = [run EXCEPT !.pc = "collect", !.before = fingerprint, !.probe = Blank]
        BY <1>4 DEF Decide
    <2>. HIDE DEF kept
    <2>6. CASE Settle(kept, run.fresh)
        <3>1. \A q \in run.fresh : q <= r
            BY <1>1, <1>2 DEF Repositories
        <3>. QED BY <1>1, <2>1, <2>3, <2>4, <2>6, <3>1, SettleKeepsInv
    <2>7. ASSUME Keeps(kept),
                 run' = [run EXCEPT !.pc = "collect", !.before = fingerprint, !.probe = Blank]
          PROVE  RefreshInv' /\ Running'
        <3>1. session' \in SessionState /\ ~session'.disposed /\ session'.cache = kept
              /\ session'.previous = session.previous
              /\ session'.lastObservedAt = session.lastObservedAt
            BY <2>1, <2>7 DEF Keeps, RefreshInv, TypeOK, SessionState, Live
        <3>2. fingerprint \in Present /\ fingerprint.files = Here.files
              /\ fingerprint.history = run.probe.history
            BY <1>1 DEF Reading, Present
        <3>3. fingerprint \in Reading /\ Blank \in Reading
            BY <3>2 DEF Blank, Reading, Present
        <3>4. run' \in Runs /\ run'.pc = "collect" /\ run'.before = fingerprint
              /\ run'.fresh = run.fresh /\ run'.at = run.at /\ run'.repository = r
              /\ run'.outcome = run.outcome
            BY <1>1, <2>7, <3>3 DEF Runs
        <3>5. source' = source /\ moments' = moments
            BY DEF Observed
        <3>6. TypeOK'
            BY <3>1, <3>4, <3>5 DEF RefreshInv, TypeOK
        <3>7. fingerprint # Blank
            <4>1. fingerprint.files # Unread
                BY <3>2 DEF Present, Version, Unread
            <4>. QED BY <4>1 DEF Blank
        <3>8. Labelled' /\ FirstWalk'
            BY <1>1, <1>2, <3>2, <3>4, <3>7 DEF RefreshInv, Labelled, FirstWalk, Running
        <3>9. Bracketed'
            <4>1. run.probe.history <= Here.history /\ Here \in Seen
                BY <1>1 DEF RefreshInv, FirstWalk, Here, Seen
            <4>2. Here' = Here /\ Seen' = Seen
                BY <3>4, <3>5 DEF Here, Seen
            <4>3. Below(Here, Here) /\ Below(fingerprint, Here)
                BY <1>1, <3>2, <4>1 DEF Below, Present, Version
            <4>. QED BY <3>2, <3>4, <4>1, <4>2, <4>3 DEF Bracketed, Below
        <3>10. Clocked' /\ DisposedHoldsNothing'
            BY <1>1, <3>1, <3>4 DEF RefreshInv, Clocked, DisposedHoldsNothing, Running
        <3>11. Sound(session.cache)'
            BY <2>3, <3>1, <3>5 DEF Sound, Cached
        <3>12. Confirmed(session.cache, run.fresh)'
            BY <2>4, <3>1, <3>4, <3>5 DEF Confirmed, Cached, Young
        <3>13. \A q \in Repositories : source'[q] \in moments'[q]
            BY <1>1, <3>5 DEF RefreshInv
        <3>. QED BY <3>4, <3>6, <3>8, <3>9, <3>10, <3>11, <3>12, <3>13 DEF RefreshInv, Running
    <2>. QED BY <2>5, <2>6, <2>7
<1>. QED BY <1>3, <1>4

\* The second walk: a collection between two equal fingerprints is what both name,
\* and the repository was that at the moment both walks bracket.
LEMMA BracketedIsOneVersion ==
    ASSUME RefreshInv, run.pc = "walk", run.before # Blank, NEW fingerprint,
           fingerprint = [run.probe EXCEPT !.files = Here.files], fingerprint = run.before
    PROVE  run.content = run.before /\ run.before \in Seen
<1>1. /\ run.repository \in Repositories /\ run.probe \in Reading /\ Here \in Present
      /\ Seen \subseteq Present /\ run.before \in Present /\ run.content \in Present
    BY DEF RefreshInv, TypeOK, Runs, Here, Seen, Labelled
<1>2. run.before.files = Here.files /\ run.before.history = run.probe.history
    BY <1>1 DEF Reading
<1>3. /\ Below(run.before, run.content) /\ Below(run.content, Here)
      /\ run.content.history <= run.probe.history
    BY DEF RefreshInv, Bracketed, Running
<1>4. PICK m \in Seen : m.files = run.before.files /\ run.before.history <= m.history
                        /\ m.history <= run.probe.history
    BY DEF RefreshInv, Bracketed, Running
<1>5. m \in Present
    BY <1>1
<1>6. run.content.files = run.before.files /\ run.content.history = run.before.history
    BY <1>1, <1>2, <1>3 DEF Below, Present, Version
<1>7. m.history = run.before.history
    BY <1>1, <1>2, <1>4, <1>5 DEF Present, Version
<1>8. run.content = run.before
    BY <1>1, <1>6 DEF Present
<1>9. m = run.before
    BY <1>1, <1>4, <1>5, <1>7 DEF Present
<1>. QED BY <1>8, <1>9

LEMMA AcceptKeepsInv ==
    ASSUME RefreshInv, run.pc = "walk", run.before # Blank, Live, Observed, NEW fingerprint,
           fingerprint = [run.probe EXCEPT !.files = Here.files], Accept(fingerprint)
    PROVE  RefreshInv' /\ (~Running' => Current)
<1> DEFINE r == run.repository
           entry == [fingerprint |-> fingerprint, content |-> run.content, collectedAt |-> run.at]
           cache == [session.cache EXCEPT ![r] = entry]
<1>1. /\ session.cache \in Caches /\ r \in Repositories /\ Running
      /\ run.fresh \in SUBSET Repositories /\ \A q \in run.fresh : q < r
      /\ run.before \in Present /\ run.at \in Times
    BY DEF RefreshInv, TypeOK, SessionState, Runs, Labelled, Running
<1>2. CASE Unavailable(TRUE)
    BY <1>1, <1>2, UnavailableKeepsInv
<1>3. ASSUME fingerprint = run.before, Settle(cache, run.fresh \cup {r})
      PROVE  RefreshInv' /\ (~Running' => Current)
    <2>1. run.content = run.before /\ run.before \in Seen
        BY <1>3, BracketedIsOneVersion
    <2>2. entry \in Entry /\ entry.content = run.before /\ entry.fingerprint = run.before
          /\ entry.collectedAt = run.at
        BY <1>1, <1>3, <2>1 DEF Entry
    <2>3. Below(run.before, source[r])
        BY <1>1 DEF RefreshInv, Bracketed, Here
    <2>4. /\ session.previous.sourceObservedAt <= run.at
          /\ run.at <= session.lastObservedAt
        BY <1>1 DEF RefreshInv, Clocked, TypeOK, SessionState, Times
    <2>. HIDE DEF entry
    <2>5. cache \in Caches
        BY <1>1, <2>2 DEF Caches
    <2>6. cache[r] = entry /\ \A q \in Repositories : q # r => cache[q] = session.cache[q]
        BY <1>1 DEF Caches
    <2>. HIDE DEF cache
    <2>7. Sound(cache)
        BY <2>2, <2>3, <2>4, <2>6 DEF RefreshInv, Sound, Cached
    <2>8. Confirmed(cache, run.fresh \cup {r})
        <3>1. entry # Missing
            BY <1>1, <2>2 DEF Missing, Present, Version, Blank, Unread
        <3>2. \A q \in run.fresh : q # r /\ q \in Repositories
            BY <1>1 DEF Repositories
        <3>3. Young(entry)
            BY <2>2 DEF Young
        <3>. QED BY <1>1, <2>1, <2>2, <2>6, <3>1, <3>2, <3>3 DEF RefreshInv, Confirmed, Cached, Seen
    <2>9. \A q \in run.fresh \cup {r} : q <= r
        BY <1>1 DEF Repositories
    <2>. QED BY <1>1, <1>3, <2>5, <2>7, <2>8, <2>9, SettleKeepsInv
<1>. QED BY <1>2, <1>3 DEF Accept

\* A step that only reads the sources leaves the readings to be checked.
LEMMA ReadingSuffices ==
    ASSUME RefreshInv, Running, Observed, UNCHANGED session, run' \in Runs, Running',
           run'.fresh = run.fresh, run'.at = run.at, run'.repository = run.repository,
           Labelled', FirstWalk', Bracketed'
    PROVE  RefreshInv'
BY DEF RefreshInv, TypeOK, Clocked, Running, Observed, DisposedHoldsNothing, Sound, Confirmed,
       Cached, Live, Young

LEMMA ProbeHistoryKeepsInv == RefreshInv /\ ProbeHistory => RefreshInv' /\ Running'
<1> SUFFICES ASSUME RefreshInv, ProbeHistory PROVE RefreshInv' /\ Running'
    OBVIOUS
<1>1. /\ run \in Runs /\ run.repository \in Repositories /\ Here \in Present
      /\ Here \in Seen /\ Running /\ run.pc = "probe" /\ Seen \subseteq Present
    BY DEF RefreshInv, TypeOK, Runs, Here, Seen, Running, ProbeHistory, At
<1>2. run' = [run EXCEPT !.pc = "walk", !.probe = [run.probe EXCEPT !.history = Here.history]]
    BY DEF ProbeHistory, Here
<1>3. [run.probe EXCEPT !.history = Here.history] \in Reading
      /\ [run.probe EXCEPT !.history = Here.history].history = Here.history
    BY <1>1 DEF Runs, Reading, Present
<1>4. /\ run' \in Runs /\ run'.pc = "walk" /\ run'.probe.history = Here.history
      /\ run'.fresh = run.fresh /\ run'.at = run.at /\ run'.repository = run.repository
      /\ run'.before = run.before /\ run'.content = run.content /\ run'.outcome = run.outcome
    BY <1>1, <1>2, <1>3 DEF Runs
<1>5. Observed /\ session' = session /\ Here' = Here /\ Seen' = Seen
    BY <1>4 DEF ProbeHistory, Observed, Here, Seen
<1>6. Labelled'
    BY <1>1, <1>4 DEF RefreshInv, Labelled, Running, Present
<1>7. FirstWalk'
    <2>1. Below(Here, Here) /\ Here.history <= Here.history
        BY <1>1 DEF Below, Present, Version
    <2>2. session.cache[run.repository] # Missing
             => Below(session.cache[run.repository].content, Here)
        BY <1>1 DEF RefreshInv, Sound, Cached, Here
    <2>. QED BY <1>1, <1>4, <1>5, <2>1, <2>2 DEF FirstWalk
<1>8. Bracketed'
    <2>1. SUFFICES ASSUME run.before # Blank PROVE Bracketed'
        BY <1>4 DEF Bracketed
    <2>2. PICK m \in Seen : m.files = run.before.files /\ run.before.history <= m.history
                            /\ Below(m, Here)
        BY <1>1, <2>1 DEF RefreshInv, Bracketed
    <2>3. m.history <= run'.probe.history
        BY <1>4, <2>2 DEF Below
    <2>4. /\ Below(run.before, Here) /\ Below(run.before, run.content) /\ Below(run.content, Here)
        BY <1>1, <2>1 DEF RefreshInv, Bracketed
    <2>5. run.content.history <= run'.probe.history /\ run'.probe.history <= Here.history
        BY <1>1, <1>4, <2>4 DEF Below, Present, Version
    <2>. QED BY <1>4, <1>5, <2>2, <2>3, <2>4, <2>5 DEF Bracketed
<1>9. Running'
    BY <1>4 DEF Running
<1>. QED BY <1>1, <1>4, <1>5, <1>6, <1>7, <1>8, <1>9, ReadingSuffices

LEMMA CollectFilesKeepsInv == RefreshInv /\ CollectFiles => RefreshInv' /\ Running'
<1> SUFFICES ASSUME RefreshInv, CollectFiles PROVE RefreshInv' /\ Running'
    OBVIOUS
<1>1. /\ run \in Runs /\ run.repository \in Repositories /\ Here \in Present
      /\ Running /\ run.pc = "collect" /\ run.before # Blank
    BY DEF RefreshInv, TypeOK, Runs, Here, Running, CollectFiles, At, Labelled
<1>2. run' = [run EXCEPT !.pc = "log", !.content = [run.content EXCEPT !.files = Here.files]]
    BY DEF CollectFiles, Here
<1>3. [run.content EXCEPT !.files = Here.files] \in Reading
      /\ [run.content EXCEPT !.files = Here.files].files = Here.files
    BY <1>1 DEF Runs, Reading, Present
<1>4. /\ run' \in Runs /\ run'.pc = "log" /\ run'.content.files = Here.files
      /\ run'.fresh = run.fresh /\ run'.at = run.at /\ run'.repository = run.repository
      /\ run'.before = run.before /\ run'.outcome = run.outcome
    BY <1>1, <1>2, <1>3 DEF Runs
<1>5. Observed /\ session' = session /\ Here' = Here /\ Seen' = Seen
    BY <1>4 DEF CollectFiles, Observed, Here, Seen
<1>6. Labelled' /\ FirstWalk'
    BY <1>1, <1>4 DEF RefreshInv, Labelled, FirstWalk, Running, Present
<1>7. Bracketed'
    <2>1. run.before.files <= Here.files /\ Here.files <= Here.files
        BY <1>1 DEF RefreshInv, Bracketed, Below, Present, Version
    <2>. QED BY <1>1, <1>4, <1>5, <2>1 DEF RefreshInv, Bracketed
<1>8. Running'
    BY <1>4 DEF Running
<1>. QED BY <1>1, <1>4, <1>5, <1>6, <1>7, <1>8, ReadingSuffices

LEMMA CollectHistoryKeepsInv == RefreshInv /\ CollectHistory => RefreshInv' /\ Running'
<1> SUFFICES ASSUME RefreshInv, CollectHistory PROVE RefreshInv' /\ Running'
    OBVIOUS
<1>1. /\ run \in Runs /\ run.repository \in Repositories /\ Here \in Present
      /\ Running /\ run.pc = "log" /\ run.before # Blank /\ run.content \in Reading
      /\ run.content.files \in Version
    BY DEF RefreshInv, TypeOK, Runs, Here, Running, CollectHistory, At, Labelled
<1> DEFINE content == [run.content EXCEPT !.history = Here.history]
<1>2. run' = [run EXCEPT !.pc = "probe", !.content = content]
    BY DEF CollectHistory, Here
<1>3. content \in Present /\ content.history = Here.history /\ content.files = run.content.files
    BY <1>1 DEF Reading, Present
<1>3b. content \in Reading
    BY <1>3 DEF Reading, Present
<1>. HIDE DEF content
<1>4. /\ run' \in Runs /\ run'.pc = "probe" /\ run'.content = content
      /\ run'.fresh = run.fresh /\ run'.at = run.at /\ run'.repository = run.repository
      /\ run'.before = run.before /\ run'.outcome = run.outcome
    BY <1>1, <1>2, <1>3b DEF Runs
<1>5. Observed /\ session' = session /\ Here' = Here /\ Seen' = Seen
    BY <1>4 DEF CollectHistory, Observed, Here, Seen
<1>6. Labelled' /\ FirstWalk'
    BY <1>1, <1>3, <1>4 DEF RefreshInv, Labelled, FirstWalk, Running
<1>7. Bracketed'
    <2>1. /\ run.before.files <= run.content.files /\ run.content.files <= Here.files
          /\ Below(run.before, Here)
        BY <1>1 DEF RefreshInv, Bracketed
    <2>2. Below(run.before, content) /\ Below(content, Here)
        BY <1>1, <1>3, <2>1 DEF Below, Present, Version
    <2>. QED BY <1>1, <1>4, <1>5, <2>1, <2>2 DEF RefreshInv, Bracketed
<1>8. Running'
    BY <1>4 DEF Running
<1>. QED BY <1>1, <1>4, <1>5, <1>6, <1>7, <1>8, ReadingSuffices

\* A refresh that throws leaves nothing behind.
LEMMA ThrowKeepsInv ==
    ASSUME RefreshInv, Observed, Throw
    PROVE  RefreshInv' /\ Current
<1>. USE RefreshAssumption
<1>1. Empty \in Caches /\ Cached(Empty) = {} /\ NoDerivation \in Derivation
    BY DEF Empty, Caches, Cached, NoDerivation, Derivation, Times
<1>2. /\ session' \in SessionState /\ session'.cache = Empty
      /\ session'.disposed = session.disposed
      /\ session'.lastObservedAt = session.lastObservedAt
      /\ session'.previous = IF session.disposed THEN NoDerivation ELSE session.previous
    BY <1>1 DEF RefreshInv, TypeOK, SessionState, Throw
<1>3. NoDerivation.sourceObservedAt = 0 /\ NoDerivation.derivedAt = 0
    BY DEF NoDerivation
<1>4. /\ session'.previous.sourceObservedAt <= session'.lastObservedAt
      /\ session'.previous.derivedAt <= session'.lastObservedAt
    BY <1>2, <1>3 DEF RefreshInv, Clocked, TypeOK, SessionState, Times
<1>5. Sound(session.cache)' /\ DisposedHoldsNothing'
    BY <1>1, <1>2 DEF Sound, DisposedHoldsNothing, Cached
<1>6. run' = Idle("failed")
    BY DEF Throw
<1>7. RefreshInv'
    BY <1>2, <1>4, <1>5, <1>6, IdleSuffices DEF RefreshInv, TypeOK, Observed
<1>. QED BY <1>6, <1>7 DEF Current, Idle
\* A refresh ends in the session that was disposed under it.
LEMMA InterruptedKeepsInv ==
    ASSUME RefreshInv, Interrupted
    PROVE  RefreshInv' /\ Current
<1>1. CASE Throw
    BY <1>1, ThrowKeepsInv DEF Interrupted
<1>2. CASE UNCHANGED session /\ run' = Idle("withheld")
    <2>1. RefreshInv'
        BY <1>2, IdleSuffices
           DEF RefreshInv, TypeOK, Interrupted, Observed, DisposedHoldsNothing, Clocked, Sound, Cached
    <2>. QED BY <1>2, <2>1 DEF Current, Idle
<1>. QED BY <1>1, <1>2 DEF Interrupted

LEMMA RefreshStepKeepsInv ==
    ASSUME RefreshInv, RefreshStep
    PROVE  RefreshInv' /\ (~Running' => Current)
<1>1. ASSUME ProbeFiles PROVE RefreshInv' /\ (~Running' => Current)
    <2> DEFINE fingerprint == [run.probe EXCEPT !.files = Here.files]
    <2>1. run.pc = "walk" /\ Live /\ Observed
        BY <1>1 DEF ProbeFiles, At
    <2>2. IF run.before = Blank THEN Decide(fingerprint) ELSE Accept(fingerprint)
        BY <1>1 DEF ProbeFiles, Here
    <2>. QED BY <2>1, <2>2, DecideKeepsInv, AcceptKeepsInv
<1>2. ASSUME SourceFails PROVE RefreshInv' /\ (~Running' => Current)
    <2>1. Running /\ Live /\ Observed /\ \E evict \in BOOLEAN : Unavailable(evict)
        BY <1>2 DEF SourceFails, At, Running
    <2>. QED BY <2>1, UnavailableKeepsInv
<1>3. ASSUME ClockFails PROVE RefreshInv' /\ (~Running' => Current)
    BY <1>3, ThrowKeepsInv DEF ClockFails
<1>. QED BY <1>1, <1>2, <1>3, ProbeHistoryKeepsInv, CollectFilesKeepsInv, CollectHistoryKeepsInv,
            InterruptedKeepsInv DEF RefreshStep

-----------------------------------------------------------------------------
(* The steps of the owner *)

LEMMA DisposeKeepsInv == RefreshInv /\ Dispose => RefreshInv'
<1> SUFFICES ASSUME RefreshInv, Dispose PROVE RefreshInv'
    OBVIOUS
<1>. USE RefreshAssumption
<1>1. Empty \in Caches /\ Cached(Empty) = {} /\ NoDerivation \in Derivation
      /\ \A r \in Repositories : Empty[r] = Missing
    BY DEF Empty, Caches, Cached, NoDerivation, Derivation, Times
<1>2. /\ session' \in SessionState /\ session'.cache = Empty /\ session'.disposed
      /\ session'.lastObservedAt = session.lastObservedAt /\ session'.previous = NoDerivation
    BY <1>1 DEF RefreshInv, TypeOK, SessionState, Dispose
<1>3. source' = source /\ run' = run /\ moments' = moments /\ run.repository \in Repositories
    BY DEF Dispose, RefreshInv, TypeOK, Runs
<1>4. TypeOK' /\ DisposedHoldsNothing' /\ ~Live'
    BY <1>2, <1>3 DEF RefreshInv, TypeOK, DisposedHoldsNothing, Live
<1>5. Labelled' /\ Bracketed'
    BY <1>3 DEF RefreshInv, Labelled, Bracketed, Running, Here, Seen
<1>6. FirstWalk'
    BY <1>1, <1>2, <1>3 DEF RefreshInv, FirstWalk, Here, Seen
<1>7. Clocked'
    <2>1. NoDerivation.sourceObservedAt = 0 /\ NoDerivation.derivedAt = 0
        BY DEF NoDerivation
    <2>. QED BY <1>2, <1>3, <2>1 DEF RefreshInv, Clocked, Running, TypeOK, SessionState, Times
<1>8. Sound(session.cache)'
    BY <1>1, <1>2 DEF Sound, Cached
<1>. QED BY <1>3, <1>4, <1>5, <1>6, <1>7, <1>8 DEF RefreshInv, Running

LEMMA CreateKeepsInv == RefreshInv /\ Create => RefreshInv'
<1> SUFFICES ASSUME RefreshInv, Create PROVE RefreshInv'
    OBVIOUS
<1>. USE RefreshAssumption
<1>1. Empty \in Caches /\ Cached(Empty) = {} /\ NoDerivation \in Derivation
      /\ NoDerivation.sourceObservedAt = 0 /\ NoDerivation.derivedAt = 0
    BY DEF Empty, Caches, Cached, NoDerivation, Derivation, Times
<1>2. session' = [cache |-> Empty, previous |-> NoDerivation, lastObservedAt |-> 0,
                  disposed |-> FALSE]
      /\ source' = source /\ moments' = moments /\ run' = Idle("none")
    BY DEF Create, Observed
<1>3. session' \in SessionState
    BY <1>1, <1>2 DEF SessionState, Times
<1>4. Sound(session.cache)' /\ DisposedHoldsNothing'
    BY <1>1, <1>2 DEF Sound, Cached, DisposedHoldsNothing
<1>. QED BY <1>1, <1>2, <1>3, <1>4, IdleSuffices DEF RefreshInv, TypeOK

LEMMA RefreshKeepsInv ==
    ASSUME RefreshInv, NEW at \in Times, NEW force \in BOOLEAN, Refresh(at, force)
    PROVE  RefreshInv' /\ run'.outcome = "none"
<1>. USE RefreshAssumption
<1>1. /\ session' \in SessionState /\ session'.lastObservedAt = at
      /\ session'.cache = session.cache /\ session'.previous = session.previous
      /\ session'.disposed = session.disposed /\ ~session.disposed
      /\ session.lastObservedAt <= at
    BY DEF RefreshInv, TypeOK, SessionState, Refresh, Live
<1>2. Idle("none") \in Runs
    BY IdleTypes
<1>3. /\ run' \in Runs /\ run'.pc = "probe" /\ run'.at = at /\ run'.fresh = {}
      /\ run'.before = Blank /\ run'.outcome = "none"
    BY <1>2 DEF Refresh, Runs, Idle
<1>4. source' = source /\ moments' = [r \in Repositories |-> {source[r]}]
    BY DEF Refresh
<1>5. TypeOK'
    BY <1>1, <1>3, <1>4 DEF RefreshInv, TypeOK
<1>6. Labelled' /\ FirstWalk' /\ Bracketed' /\ Confirmed(session.cache, run.fresh)'
    BY <1>3 DEF Labelled, FirstWalk, Bracketed, Confirmed
<1>7. Clocked' /\ DisposedHoldsNothing' /\ Sound(session.cache)'
    <2>1. at \in Nat /\ session.lastObservedAt \in Nat
          /\ session.previous.sourceObservedAt \in Nat /\ session.previous.derivedAt \in Nat
        BY DEF RefreshInv, TypeOK, SessionState, Derivation, Times
    <2>2. \A r \in Cached(session.cache) : session.cache[r].collectedAt \in Nat
        BY DEF RefreshInv, TypeOK, SessionState, Caches, Cached, Entry, Times
    <2>3. Clocked' /\ DisposedHoldsNothing'
        BY <1>1, <1>3, <2>1 DEF RefreshInv, Clocked, DisposedHoldsNothing
    <2>4. \A r \in Cached(session.cache) : session.cache[r].collectedAt <= at
        BY <1>1, <2>1, <2>2 DEF RefreshInv, Sound
    <2>5. Sound(session.cache)'
        BY <1>1, <1>4, <2>4 DEF RefreshInv, Sound, Cached
    <2>. QED BY <2>3, <2>5
<1>. QED BY <1>3, <1>4, <1>5, <1>6, <1>7 DEF RefreshInv

LEMMA ChangeKeepsInv ==
    ASSUME RefreshInv, NEW c \in Repositories, Change(c)
    PROVE  RefreshInv'
<1>. USE RefreshAssumption
<1>1. session' = session /\ run' = run
    BY DEF Change
<1>2. /\ source' \in [Repositories -> Present]
      /\ \A r \in Repositories : Below(source[r], source'[r])
    <2>1. PICK part \in {"files", "history"} :
              source[c][part] < MaxChanges
              /\ source' = [source EXCEPT ![c] = [source[c] EXCEPT ![part] = source[c][part] + 1]]
        BY DEF Change
    <2>2. source[c] \in Present /\ source \in [Repositories -> Present]
        BY DEF RefreshInv, TypeOK
    <2> DEFINE next == [source[c] EXCEPT ![part] = source[c][part] + 1]
    <2>3. next \in Present /\ Below(source[c], next)
        <3>1. CASE part = "files"
            BY <2>1, <2>2, <3>1, SMTT(30) DEF Present, Version, Below
        <3>2. CASE part = "history"
            <4>0. next = [source[c] EXCEPT !.history = source[c].history + 1]
                BY <3>2
            <4>1. next = [files |-> source[c].files, history |-> source[c].history + 1]
                BY <2>2, <4>0 DEF Present
            <4>2. source[c].history + 1 \in Version /\ source[c].files \in Version
                BY <2>1, <2>2, <3>2 DEF Present, Version
            <4>. QED BY <2>2, <4>1, <4>2 DEF Present, Version, Below
        <3>. QED BY <2>1, <3>1, <3>2
    <2>4. \A r \in Repositories : Below(source[r], source[r])
        BY <2>2 DEF Present, Version, Below
    <2>5. source' = [source EXCEPT ![c] = next]
        BY <2>1
    <2>. HIDE DEF next
    <2>. QED BY <2>2, <2>3, <2>4, <2>5
<1>3. /\ moments' \in [Repositories -> SUBSET Present]
      /\ \A r \in Repositories : moments[r] \subseteq moments'[r]
      /\ Running => \A r \in Repositories : source'[r] \in moments'[r]
    <2>1. moments \in [Repositories -> SUBSET Present]
          /\ moments' = IF At("idle") THEN moments
                        ELSE [moments EXCEPT ![c] = moments[c] \cup {source'[c]}]
        BY DEF Change, RefreshInv, TypeOK
    <2>2. \A r \in Repositories : r # c => source'[r] = source[r]
        BY DEF Change, RefreshInv, TypeOK
    <2>3. Running => \A r \in Repositories : source[r] \in moments[r]
        BY DEF RefreshInv
    <2>. QED BY <1>2, <2>1, <2>2, <2>3 DEF At, Running
<1>4. TypeOK'
    BY <1>1, <1>2, <1>3 DEF RefreshInv, TypeOK
<1>5. /\ run.repository \in Repositories /\ Seen \subseteq Seen' /\ Below(Here, Here')
      /\ Here \in Present /\ Here' \in Present /\ Seen \subseteq Present
    BY <1>1, <1>2, <1>3 DEF RefreshInv, TypeOK, Runs, Here, Seen
<1>5b. \A v \in Version : /\ v <= Here.files => v <= Here'.files
                          /\ v <= Here.history => v <= Here'.history
    BY <1>5 DEF Below, Present, Version
<1>6. \A m \in Present : Below(m, Here) => Below(m, Here')
    BY <1>5 DEF Below, Present, Version
<1>7. Labelled' /\ Clocked' /\ DisposedHoldsNothing'
    BY <1>1 DEF RefreshInv, Labelled, Clocked, DisposedHoldsNothing, Running
<1>8. FirstWalk'
    <2>1. SUFFICES ASSUME run.pc = "walk", run.before = Blank PROVE FirstWalk'
        BY <1>1 DEF FirstWalk
    <2>2. run.probe.history <= Here'.history
        BY <1>5, <2>1 DEF RefreshInv, Labelled, FirstWalk, Below, Present, Version
    <2>3. PICK m \in Seen :
              /\ m.history = run.probe.history /\ Below(m, Here)
              /\ session.cache[run.repository] # Missing
                    => Below(session.cache[run.repository].content, m)
        BY <2>1 DEF RefreshInv, FirstWalk
    <2>4. m \in Seen' /\ Below(m, Here')
        BY <1>5, <1>6, <2>3
    <2>. QED BY <1>1, <2>2, <2>3, <2>4 DEF FirstWalk
<1>9. Bracketed'
    <2>1. SUFFICES ASSUME Running, run.before # Blank PROVE Bracketed'
        BY <1>1 DEF Bracketed, Running
    <2>2. PICK m \in Seen : /\ m.files = run.before.files /\ run.before.history <= m.history
                            /\ Below(m, Here)
                            /\ run.pc = "walk" => m.history <= run.probe.history
        BY <2>1 DEF RefreshInv, Bracketed
    <2>3. m \in Seen' /\ Below(m, Here')
        BY <1>5, <1>6, <2>2
    <2>4. run.before \in Present /\ Below(run.before, Here')
        BY <1>6, <2>1 DEF RefreshInv, Bracketed, Labelled
    <2>5. run.pc = "log" => run.before.files <= run.content.files
                            /\ run.content.files <= Here'.files
        <3>1. SUFFICES ASSUME run.pc = "log"
                       PROVE  run.before.files <= run.content.files
                              /\ run.content.files <= Here'.files
            OBVIOUS
        <3>2. run.content.files \in Version /\ run.content.files <= Here.files
              /\ run.before.files <= run.content.files
            BY <2>1, <3>1 DEF RefreshInv, Bracketed, Labelled
        <3>. QED BY <1>5b, <3>2
    <2>6. run.pc \in {"probe", "walk"} =>
              Below(run.before, run.content) /\ Below(run.content, Here')
        BY <1>6, <2>1 DEF RefreshInv, Bracketed, Labelled
    <2>7. run.pc = "walk" =>
              run.content.history <= run.probe.history /\ run.probe.history <= Here'.history
        <3>1. SUFFICES ASSUME run.pc = "walk"
                       PROVE  run.content.history <= run.probe.history
                              /\ run.probe.history <= Here'.history
            OBVIOUS
        <3>2. run.probe.history \in Version /\ run.probe.history <= Here.history
              /\ run.content.history <= run.probe.history
            BY <2>1, <3>1 DEF RefreshInv, Bracketed, Labelled
        <3>. QED BY <1>5b, <3>2
    <2>. QED BY <1>1, <2>2, <2>3, <2>4, <2>5, <2>6, <2>7 DEF Bracketed
<1>10. Sound(session.cache)'
    <2>1. \A r \in Cached(session.cache) :
              session.cache[r].content \in Present /\ source[r] \in Present
              /\ source'[r] \in Present /\ Below(source[r], source'[r])
        BY <1>2 DEF RefreshInv, TypeOK, SessionState, Caches, Cached, Entry
    <2>2. \A a, b, d \in Present : Below(a, b) /\ Below(b, d) => Below(a, d)
        BY DEF Below, Present, Version
    <2>3. \A r \in Cached(session.cache) : Below(session.cache[r].content, source[r])
        BY DEF RefreshInv, Sound
    <2>4. \A r \in Cached(session.cache) : Below(session.cache[r].content, source'[r])
        BY <2>1, <2>2, <2>3
    <2>. QED BY <1>1, <2>4 DEF RefreshInv, Sound, Cached
<1>11. Running /\ Live => Confirmed(session.cache, run.fresh)'
    <2>1. run.fresh \subseteq Repositories
        BY DEF RefreshInv, TypeOK, Runs
    <2>. QED BY <1>1, <1>3, <2>1 DEF RefreshInv, Confirmed, Cached, Young
<1>. QED BY <1>1, <1>3, <1>4, <1>7, <1>8, <1>9, <1>10, <1>11 DEF RefreshInv, Running, Live

-----------------------------------------------------------------------------
(* The theorems *)

LEMMA InitInv == RefreshInit => RefreshInv
<1> SUFFICES ASSUME RefreshInit PROVE RefreshInv
    OBVIOUS
<1>. USE RefreshAssumption
<1>1. Empty \in Caches /\ Cached(Empty) = {} /\ NoDerivation \in Derivation
      /\ NoDerivation.sourceObservedAt = 0 /\ NoDerivation.derivedAt = 0
    BY DEF Empty, Caches, Cached, NoDerivation, Derivation, Times
<1>2. run \in Runs /\ run.pc = "idle" /\ run.before = Blank
    BY IdleTypes DEF RefreshInit, Idle
<1>3. TypeOK
    BY <1>1, <1>2 DEF RefreshInit, TypeOK, SessionState, Present, Version, Times
<1>. QED BY <1>1, <1>2, <1>3 DEF RefreshInit, RefreshInv, Labelled, FirstWalk, Bracketed, Clocked,
            DisposedHoldsNothing, Sound, Running

LEMMA NextKeepsInv ==
    ASSUME RefreshInv, [RefreshNext]_refreshVars
    PROVE  RefreshInv' /\ (Publishes => Current)
<1>1. ASSUME RefreshStep PROVE RefreshInv' /\ (Publishes => Current)
    <2>1. RefreshInv' /\ (~Running' => Current)
        BY <1>1, RefreshStepKeepsInv
    <2>2. Running' => run'.outcome = "none"
        BY <2>1 DEF RefreshInv, Labelled
    <2>. QED BY <2>1, <2>2 DEF Publishes
<1>2. ASSUME Dispose PROVE RefreshInv' /\ ~Publishes
    <2>1. run' = run
        BY <1>2 DEF Dispose
    <2>. QED BY <1>2, <2>1, DisposeKeepsInv DEF Publishes, RefreshInv, Labelled, Running, At
<1>3. ASSUME Create PROVE RefreshInv' /\ ~Publishes
    BY <1>3, CreateKeepsInv DEF Create, Publishes
<1>4. ASSUME NEW at \in Times, NEW force \in BOOLEAN, Refresh(at, force)
      PROVE  RefreshInv' /\ ~Publishes
    BY <1>4, RefreshKeepsInv DEF Publishes
<1>5. ASSUME NEW r \in Repositories, Change(r) PROVE RefreshInv' /\ ~Publishes
    <2>1. run' = run
        BY <1>5 DEF Change
    <2>. QED BY <1>5, <2>1, ChangeKeepsInv DEF Publishes, RefreshInv, Labelled, Running, At
<1>6. ASSUME UNCHANGED refreshVars PROVE RefreshInv' /\ ~Publishes
    <2>1. source' = source /\ session' = session /\ run' = run /\ moments' = moments
        BY <1>6 DEF refreshVars
    <2>2. RefreshInv'
        BY <2>1 DEF RefreshInv, TypeOK, Labelled, FirstWalk, Bracketed, Clocked,
              DisposedHoldsNothing, Sound, Cached, Confirmed, Running, Live, Here, Seen, Young
    <2>. QED BY <2>1, <2>2 DEF Publishes, RefreshInv, Labelled, Running, At
<1>. QED BY <1>1, <1>2, <1>3, <1>4, <1>5, <1>6 DEF RefreshNext

\* The inductive invariant holds of every session, for any number of repositories,
\* changes and limits.
THEOREM RefreshInvHolds == RefreshSpec => []RefreshInv
<1>1. RefreshInv /\ [RefreshNext]_refreshVars => RefreshInv'
    BY NextKeepsInv
<1>. QED BY InitInv, <1>1, PTL DEF RefreshSpec

\* Every variable of a session (incremental-refresh.ts) stays in its type.
THEOREM RefreshTypeCorrect == RefreshSpec => []TypeOK
<1>1. RefreshInv => TypeOK
    BY DEF RefreshInv
<1>. QED BY RefreshInvHolds, <1>1, PTL

\* The two probes around a collection guarantee that what is cached is one version.
THEOREM OneVersionCorrect == RefreshSpec => []CachedIsOneVersion
<1>1. RefreshInv => CachedIsOneVersion
    BY DEF RefreshInv, Sound, CachedIsOneVersion
<1>. QED BY RefreshInvHolds, <1>1, PTL

\* What refreshLocalRepositories publishes, collected or reused, every repository was
\* at a moment of that refresh, and it was collected recently enough.
THEOREM CurrentCorrect == RefreshSpec => PublishedIsCurrent
<1>1. RefreshInv /\ [RefreshNext]_refreshVars
         => [Publishes => \A r \in Repositories :
                session'.cache[r].content \in moments[r] /\ Young(session'.cache[r])]_refreshVars
    BY NextKeepsInv DEF Current, Publishes
<1>. QED BY RefreshInvHolds, <1>1, PTL DEF RefreshSpec, PublishedIsCurrent

\* disposeIncrementalRefreshSessions leaves nothing that a refresh in progress could
\* bring back.
THEOREM DisposedCorrect == RefreshSpec => []DisposedHoldsNothing
<1>1. RefreshInv => DisposedHoldsNothing
    BY DEF RefreshInv
<1>. QED BY RefreshInvHolds, <1>1, PTL

\* The cache of a session is sound (incremental-refresh.ts): whole entries, and none
\* behind disposal.
THEOREM CacheCorrect == RefreshSpec => []CacheIsSound
<1>1. CachedIsOneVersion /\ DisposedHoldsNothing => CacheIsSound
    BY DEF CacheIsSound
<1>. QED BY OneVersionCorrect, DisposedCorrect, <1>1, PTL

\* The previous derivation never makes a later one of the same session impossible.
THEOREM NeverBlocksCorrect == RefreshSpec => []PreviousNeverBlocks
<1>1. RefreshInv => PreviousNeverBlocks
    <2>1. SUFFICES ASSUME RefreshInv PROVE PreviousNeverBlocks
        OBVIOUS
    <2>2. \A r \in Cached(session.cache) :
              session.cache[r].collectedAt \in Nat /\ session.previous.sourceObservedAt \in Nat
        BY <2>1 DEF RefreshInv, TypeOK, SessionState, Caches, Cached, Entry, Derivation, Times
    <2>. QED BY <2>1, <2>2 DEF RefreshInv, Sound, Clocked, PreviousNeverBlocks
<1>. QED BY RefreshInvHolds, <1>1, PTL
=============================================================================
