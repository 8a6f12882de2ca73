------------------------- MODULE ProfileStoreProofs -------------------------
(***************************************************************************)
(* Theorems about ProfileStore, for any number of processes, generations,  *)
(* nonces, requests and incidents: types, mutual exclusion, no             *)
(* resurrection behind the deletion barrier and complete deletions; what   *)
(* commits build on, remove and leave behind, and what loads report; that  *)
(* the store implements ProfileRegister; and that what ProfileStoreDurable *)
(* reported to a caller survives every power failure.                      *)
(***************************************************************************)
EXTENDS ProfileStoreRegister, ProfileStoreDurable, OrderLemmas

-----------------------------------------------------------------------------
(* Types *)

\* The newest of a set of generations is one of them, or None.
LEMMA NewestFacts ==
    ASSUME NEW S, S \subseteq Generations
    PROVE  /\ Newest(S) \in S \cup {None}
           /\ \A g \in S : g <= Newest(S)
           /\ S = {} <=> Newest(S) = None
<1>1. CASE S = {}
    BY <1>1 DEF Newest
<1>2. CASE S # {}
    <2>1. Max(S) \in S /\ \A g \in S : g <= Max(S)
        BY <1>2, ConstantsAssumption, MaxFacts DEF Generations
    <2>2. Newest(S) = Max(S)
        BY <1>2 DEF Newest
    <2>3. None \notin Generations
        BY DEF None, Generations
    <2>. QED BY <1>2, <2>1, <2>2, <2>3
<1>. QED BY <1>1, <1>2

\* The scan sets are sets of generations.
LEMMA ScanSets ==
    ASSUME NEW p
    PROVE  /\ Seen(p) \subseteq Generations /\ Unread(p) \subseteq Generations
           /\ Valid(p) \subseteq Generations /\ Invalid(p) \subseteq Generations
           /\ Selected(p) \in Generations \cup {None}
<1>1. Valid(p) \subseteq Generations
    BY DEF Valid, Marked
<1>2. Selected(p) \in Generations \cup {None}
    BY <1>1, NewestFacts DEF Selected
<1>. QED BY <1>1, <1>2 DEF Seen, Unread, Invalid, Marked

LEMMA NothingType == Nothing \in [Generations -> Marks]
BY DEF Nothing, Marks

LEMMA ListingType == Listing \in [Generations -> Marks]
BY DEF Listing, Marks

\* The labels a call of each kind passes through.
MutationLabels == {"authorize", "acquire", "authorizeHeld", "release"}
ScanLabels == {"authorizeScan", "list", "stat", "read"}
LabelsOf(op) ==
    CASE op = "idle" -> {"idle"}
      [] op = "load" -> ScanLabels \cup {"authorizeResult"}
      [] op = "migrate" -> MutationLabels \cup ScanLabels \cup {"authorizeResult"}
                             \cup (CommitLabels \ {"check"})
      [] op = "write" -> MutationLabels \cup ScanLabels \cup CommitLabels
      [] OTHER -> MutationLabels \cup {"inventory", "raiseBarrier", "verifyBarrier"}
                    \cup DeletionLabels

\* Call records whose label fits the call and whose candidate has a generation.
GoodCalls ==
    {c \in Calls : /\ c.pc \in LabelsOf(c.op)
                   /\ c.op = "write" => c.target \in Generations
                   /\ c.pc \in CommitLabels => c.target \in Generations}

GoodStates ==
    /\ dir \in Directories
    /\ call \in [Procs -> GoodCalls]
    /\ spent \in [Incidents -> Nat]
    /\ \A i \in Incidents : spent[i] <= Budget[i]

LEMMA UpdateGood ==
    ASSUME call \in [Procs -> GoodCalls], NEW p \in Procs, NEW c \in GoodCalls,
           call' = [call EXCEPT ![p] = c]
    PROVE  call' \in [Procs -> GoodCalls]
OBVIOUS

\* A returned call is a good one.
LEMMA ReturnGood ==
    ASSUME call \in [Procs -> GoodCalls], NEW p \in Procs,
           NEW r \in Successes \cup Failures \cup {"pending"},
           NEW g \in Generations \cup {None}, NEW d \in BOOLEAN, Return(p, r, g, d)
    PROVE  call' \in [Procs -> GoodCalls]
<1> DEFINE c == Outcome("idle", r, g, d)
<1>1. c \in Calls
    BY NothingType DEF Outcome, Calls, Labels, Operations
<1>2. c.pc = "idle" /\ c.op = "idle"
    BY DEF Outcome
<1>3. c \in GoodCalls
    BY <1>1, <1>2 DEF GoodCalls, LabelsOf, CommitLabels, ActivationLabels
<1>. QED BY <1>3, UpdateGood DEF Return

\* A step to another label of the same call keeps it good.
LEMMA GotoGood ==
    ASSUME call \in [Procs -> GoodCalls], NEW p \in Procs, NEW l \in Labels, Goto(p, l),
           l \in LabelsOf(call[p].op),
           l \in CommitLabels => call[p].target \in Generations
    PROVE  call' \in [Procs -> GoodCalls]
<1> DEFINE c == [call[p] EXCEPT !.pc = l]
<1>1. c \in Calls /\ c.pc = l /\ c.op = call[p].op /\ c.target = call[p].target
    BY DEF Calls, GoodCalls
<1>2. c \in GoodCalls
    BY <1>1 DEF GoodCalls
<1>3. call' = [call EXCEPT ![p] = c]
    BY DEF Goto
<1>. QED BY <1>2, <1>3, UpdateGood

\* Only mutations hold the gate.
LEMMA GateOps ==
    ASSUME call \in [Procs -> GoodCalls], NEW p \in Procs, HoldsGate(p)
    PROVE  /\ call[p].op \in {"write", "migrate", "delete"}
           /\ "release" \in LabelsOf(call[p].op) /\ "release" \notin CommitLabels
           /\ "release" \in Labels
<1>1. call[p].op # "idle"
    BY DEF HoldsGate, GoodCalls, LabelsOf
<1>2. call[p].op \in {"write", "migrate", "delete"}
    BY <1>1 DEF HoldsGate, GoodCalls, Calls, Operations
<1>. QED BY <1>2 DEF LabelsOf, MutationLabels, CommitLabels, ActivationLabels, Labels

LEMMA SucceedGood ==
    ASSUME call \in [Procs -> GoodCalls], NEW p \in Procs, NEW r \in Successes,
           NEW g \in Generations \cup {None}, NEW d \in BOOLEAN, Succeed(p, r, g, d),
           call[p].op = "write" => g \in Generations
    PROVE  call' \in [Procs -> GoodCalls]
<1>1. CASE HoldsGate(p)
    <2> DEFINE c == [call[p] EXCEPT !.pc = "release", !.result = r, !.target = g, !.debt = d]
    <2>0. call[p] \in Calls /\ "release" \in Labels
        BY <1>1, GateOps DEF GoodCalls
    <2>1. c \in Calls /\ c.pc = "release" /\ c.op = call[p].op /\ c.target = g
        BY <2>0 DEF Calls
    <2>2. c \in GoodCalls
        BY <1>1, <2>1, GateOps DEF GoodCalls
    <2>3. call' = [call EXCEPT ![p] = c]
        BY <1>1 DEF Succeed
    <2>. QED BY <2>2, <2>3, UpdateGood
<1>2. CASE ~HoldsGate(p)
    BY <1>2, ReturnGood DEF Succeed
<1>. QED BY <1>1, <1>2

LEMMA FailGood ==
    ASSUME call \in [Procs -> GoodCalls], NEW p \in Procs, NEW f \in Failures, Fail(p, f)
    PROVE  call' \in [Procs -> GoodCalls]
<1>1. CASE HoldsGate(p)
    <2> DEFINE l == IF call[p].pc \in ActivationLabels THEN "unstage" ELSE "release"
               c == [call[p] EXCEPT !.pc = l, !.result = f]
    <2>0. call[p] \in Calls /\ l \in Labels
        BY <1>1, GateOps DEF GoodCalls, Labels, CommitLabels
    <2>1. c \in Calls /\ c.pc = l /\ c.op = call[p].op /\ c.target = call[p].target
        BY <2>0 DEF Calls
    <2>2. call[p].pc \in LabelsOf(call[p].op)
        BY DEF GoodCalls
    <2>3. ASSUME call[p].pc \in ActivationLabels
          PROVE  "unstage" \in LabelsOf(call[p].op) /\ call[p].target \in Generations
        <3>1. call[p].op \in {"write", "migrate"}
            BY <1>1, <2>2, <2>3, GateOps
               DEF LabelsOf, ActivationLabels, MutationLabels, DeletionLabels
        <3>2. "unstage" \in LabelsOf(call[p].op)
            BY <3>1 DEF LabelsOf, CommitLabels
        <3>3. call[p].target \in Generations
            BY <2>3 DEF GoodCalls, CommitLabels
        <3>. QED BY <3>2, <3>3
    <2>4. c \in GoodCalls
        BY <1>1, <2>1, <2>3, GateOps DEF GoodCalls
    <2>5. call' = [call EXCEPT ![p] = c]
        BY <1>1 DEF Fail
    <2>. QED BY <2>4, <2>5, UpdateGood
<1>2. CASE ~HoldsGate(p)
    BY <1>2, ReturnGood DEF Fail, Successes, Failures
<1>. QED BY <1>1, <1>2

\* What a step does to the incident counters.
SpentGood == spent \in [Incidents -> Nat] /\ \A i \in Incidents : spent[i] <= Budget[i]

LEMMA CalmGood == ASSUME SpentGood, Calm PROVE SpentGood'
BY DEF SpentGood, Calm

LEMMA IncidentGood ==
    ASSUME SpentGood, NEW k \in Incidents, Incident(k)
    PROVE  SpentGood'
<1>1. /\ spent[k] \in Nat /\ Budget[k] \in Nat /\ spent[k] < Budget[k]
      /\ spent' = [spent EXCEPT ![k] = spent[k] + 1]
    BY ConstantsAssumption DEF SpentGood, Incident
<1>2. spent[k] + 1 \in Nat /\ spent[k] + 1 <= Budget[k]
    BY <1>1
<1>3. spent' \in [Incidents -> Nat]
    BY <1>1, <1>2 DEF SpentGood
<1>4. ASSUME NEW i \in Incidents PROVE spent'[i] <= Budget[i]
    BY <1>1, <1>2, <1>4 DEF SpentGood
<1>. QED BY <1>3, <1>4 DEF SpentGood

LEMMA InitGood == Init => GoodStates
<1> SUFFICES ASSUME Init PROVE GoodStates
    OBVIOUS
<1>1. dir \in Directories
    BY ConstantsAssumption DEF Init, Directories
<1>2. Outcome("idle", "absent", None, FALSE) \in GoodCalls
    <2> DEFINE c == Outcome("idle", "absent", None, FALSE)
    <2>1. c \in Calls
        BY NothingType DEF Outcome, Calls, Labels, Operations, Successes
    <2>2. c.pc = "idle" /\ c.op = "idle"
        BY DEF Outcome
    <2>. QED BY <2>1, <2>2 DEF GoodCalls, LabelsOf, CommitLabels, ActivationLabels
<1>3. call \in [Procs -> GoodCalls]
    BY <1>2 DEF Init
<1>4. spent \in [Incidents -> Nat] /\ \A i \in Incidents : spent[i] <= Budget[i]
    BY ConstantsAssumption DEF Init
<1>. QED BY <1>1, <1>3, <1>4 DEF GoodStates

\* A call starts.
LEMMA StartGood ==
    ASSUME call \in [Procs -> GoodCalls], NEW p \in Procs,
           NEW op \in Operations \ {"idle"}, NEW l \in {"authorize", "authorizeScan"},
           l \in LabelsOf(op), NEW e \in Generations \cup {None},
           NEW g \in Generations \cup {None}, op = "write" => g \in Generations,
           Start(p, op, l, e, g)
    PROVE  call' \in [Procs -> GoodCalls]
<1> DEFINE f == IF op = "load" THEN Newest(Intact) ELSE None
           b == Outcome(op, "pending", g, FALSE)
           c == [b EXCEPT !.pc = l, !.expected = e, !.floor = f]
<1>1. f \in Generations \cup {None}
    BY NewestFacts DEF Intact
<1>2. b \in Calls
    BY NothingType DEF Outcome, Calls, Labels
<1>3. l \in Labels /\ l \notin CommitLabels
    BY DEF Labels, Reauthorizations, CommitLabels, ActivationLabels
<1>4. b.op = op /\ b.target = g
    BY DEF Outcome
<1>5. c \in Calls /\ c.pc = l /\ c.op = op /\ c.target = g
    BY <1>1, <1>2, <1>3, <1>4, ZenonT(30) DEF Calls
<1>6. c \in GoodCalls
    BY <1>3, <1>5 DEF GoodCalls
<1>7. call' = [call EXCEPT ![p] = c]
    BY DEF Start
<1>. QED BY <1>6, <1>7, UpdateGood

LEMMA CallGood == ASSUME GoodStates, NEW p \in Procs, Call(p) PROVE GoodStates'
<1>1. SpentGood' /\ dir' \in Directories
    BY CalmGood DEF GoodStates, SpentGood, Call, CallLoad, CallMigrate, CallWrite, CallDelete,
                    Start, Local
<1>2. call' \in [Procs -> GoodCalls]
    <2>1. CASE CallLoad(p)
        BY <2>1, StartGood DEF CallLoad, GoodStates, LabelsOf, ScanLabels, Operations
    <2>2. CASE CallMigrate(p)
        BY <2>2, StartGood DEF CallMigrate, GoodStates, LabelsOf, MutationLabels, Operations
    <2>3. CASE CallWrite(p)
        <3>1. PICK r \in Requests : Start(p, "write", "authorize", r[1], r[2])
            BY <2>3 DEF CallWrite
        <3>2. r[1] \in Generations \cup {None} /\ r[2] \in Generations
            BY ConstantsAssumption
        <3>. QED BY <3>1, <3>2, StartGood DEF GoodStates, LabelsOf, MutationLabels, Operations
    <2>4. CASE CallDelete(p)
        BY <2>4, StartGood DEF CallDelete, GoodStates, LabelsOf, MutationLabels, Operations
    <2>. QED BY <2>1, <2>2, <2>3, <2>4 DEF Call
<1>. QED BY <1>1, <1>2 DEF GoodStates, SpentGood
-----------------------------------------------------------------------------
\* Gate and scan

\* The labels from which the steps of a mutation are reached.
LEMMA OpOfLabel ==
    ASSUME call \in [Procs -> GoodCalls], NEW p \in Procs
    PROVE  /\ call[p] \in Calls
           /\ call[p].pc \in LabelsOf(call[p].op)
           /\ call[p].op \in Operations
           /\ call[p].pc # "idle" => call[p].op # "idle"
           /\ call[p].pc \in MutationLabels => call[p].op \in {"write", "migrate", "delete"}
           /\ call[p].pc \in ScanLabels => call[p].op \in {"load", "write", "migrate"}
           /\ call[p].pc = "authorizeResult" => call[p].op \in {"load", "migrate"}
           /\ call[p].pc = "check" => call[p].op = "write"
           /\ call[p].pc \in CommitLabels => call[p].op \in {"write", "migrate"}
           /\ call[p].pc \in DeletionLabels \cup {"inventory", "raiseBarrier", "verifyBarrier"}
              => call[p].op = "delete"
<1>1. call[p] \in Calls /\ call[p].pc \in LabelsOf(call[p].op) /\ call[p].op \in Operations
    BY DEF GoodCalls, Calls
<1>. QED BY <1>1 DEF LabelsOf, Operations, MutationLabels, ScanLabels, CommitLabels,
                     ActivationLabels, DeletionLabels

LEMMA AuthorizeGood == ASSUME GoodStates, NEW p \in Procs, Authorize(p) PROVE GoodStates'
<1>1. SpentGood' /\ dir' \in Directories
    BY CalmGood DEF GoodStates, SpentGood, Authorize, Local
<1>2. call' \in [Procs -> GoodCalls]
    <2>0. call \in [Procs -> GoodCalls] /\ call[p].pc \in {"authorize", "authorizeHeld", "authorizeScan"}
        BY DEF GoodStates, Authorize, Reauthorizations
    <2>1. CASE Admitted(p)
        <3> DEFINE l == AfterAuthorize(p)
        <3>1. l \in LabelsOf(call[p].op) /\ l \notin CommitLabels /\ l \in Labels
            BY <2>0, OpOfLabel DEF AfterAuthorize, At, LabelsOf, MutationLabels, ScanLabels,
               CommitLabels, ActivationLabels, Labels, Reauthorizations
        <3>. QED BY <2>0, <2>1, <3>1, GotoGood DEF Authorize
    <2>2. CASE ~Admitted(p)
        BY <2>0, <2>2, FailGood DEF Authorize, Failures
    <2>. QED BY <2>1, <2>2
<1>. QED BY <1>1, <1>2 DEF GoodStates, SpentGood

LEMMA MarksGood ==
    ASSUME dir \in Directories, NEW S \in SUBSET {"gate", "barrier"},
           dir' = [dir EXCEPT !.marks = S]
    PROVE  dir' \in Directories
BY DEF Directories

LEMMA MarksOfDir == ASSUME dir \in Directories PROVE dir.marks \in SUBSET {"gate", "barrier"}
BY DEF Directories

LEMMA AcquireGood == ASSUME GoodStates, NEW p \in Procs, Acquire(p) PROVE GoodStates'
<1>0. call \in [Procs -> GoodCalls] /\ dir \in Directories /\ call[p].pc = "acquire"
    BY DEF GoodStates, Acquire, At
<1>1. SpentGood'
    BY CalmGood DEF GoodStates, SpentGood, Acquire
<1>2. CASE Gated
    BY <1>0, <1>1, <1>2, FailGood DEF Acquire, Failures, GoodStates, SpentGood
<1>3. CASE ~Gated
    <2>1. dir' \in Directories
        BY <1>0, <1>3, MarksGood, MarksOfDir DEF Acquire
    <2>2. call[p].op \in {"write", "migrate", "delete"}
        BY <1>0, OpOfLabel DEF MutationLabels
    <2>3. call' \in [Procs -> GoodCalls]
        BY <1>0, <1>3, <2>2, GotoGood DEF Acquire, LabelsOf, MutationLabels, Labels,
           Reauthorizations, CommitLabels, ActivationLabels
    <2>. QED BY <1>1, <2>1, <2>3 DEF GoodStates, SpentGood
<1>. QED BY <1>2, <1>3

\* What a good call record holds.
LEMMA FieldsOfCall ==
    ASSUME call \in [Procs -> GoodCalls], NEW p \in Procs
    PROVE  /\ call[p].target \in Generations \cup {None}
           /\ call[p].expected \in Generations \cup {None}
           /\ call[p].result \in Successes \cup Failures \cup {"pending"}
           /\ call[p].debt \in BOOLEAN
           /\ call[p].scan \in [Generations -> Marks]
           /\ call[p].temps \in SUBSET TempNames
           /\ call[p].nonce \in Nonces \cup {None}
           /\ call[p].pc \in Labels
BY DEF GoodCalls, Calls
LEMMA ReleaseGood == ASSUME GoodStates, NEW p \in Procs, Release(p) PROVE GoodStates'
<1>0. call \in [Procs -> GoodCalls] /\ dir \in Directories /\ SpentGood
    BY DEF GoodStates, SpentGood
<1>1. SpentGood'
    BY <1>0, CalmGood, IncidentGood DEF Release, Incidents
<1>2. dir' \in Directories
    BY <1>0, MarksGood, MarksOfDir DEF Release
<1>3. call' \in [Procs -> GoodCalls]
    <2>1. /\ call[p].result \in Successes \cup Failures \cup {"pending"}
          /\ call[p].target \in Generations \cup {None} /\ call[p].debt \in BOOLEAN
        BY <1>0, FieldsOfCall
    <2>2. \E r \in Successes \cup Failures \cup {"pending"}, g \in Generations \cup {None},
             d \in BOOLEAN : Return(p, r, g, d)
        BY <2>1 DEF Release, Failures
    <2>. QED BY <1>0, <2>2, ReturnGood
<1>. QED BY <1>1, <1>2, <1>3 DEF GoodStates, SpentGood

LEMMA AfterScanGood ==
    ASSUME call \in [Procs -> GoodCalls], NEW p \in Procs,
           call[p].pc \in {"list", "read"}
    PROVE  /\ AfterScan(p) \in Labels /\ AfterScan(p) \in LabelsOf(call[p].op)
           /\ AfterScan(p) \in CommitLabels => call[p].target \in Generations
           /\ "stat" \in LabelsOf(call[p].op) /\ "stat" \in Labels /\ "stat" \notin CommitLabels
<1>1. call[p].op \in {"load", "write", "migrate"}
    BY OpOfLabel DEF ScanLabels
<1>2. AfterScan(p) = "check" => call[p].target \in Generations
    BY DEF AfterScan, GoodCalls
<1>3. AfterScan(p) \in {"check", "authorizeResult"}
    BY DEF AfterScan
<1>. QED BY <1>1, <1>2, <1>3 DEF AfterScan, LabelsOf, ScanLabels, CommitLabels, ActivationLabels,
            Labels, Reauthorizations

LEMMA ListGood == ASSUME GoodStates, NEW p \in Procs, List(p) PROVE GoodStates'
<1>0. call \in [Procs -> GoodCalls] /\ dir \in Directories /\ SpentGood /\ call[p].pc = "list"
    BY DEF GoodStates, SpentGood, List, At
<1>1. SpentGood' /\ dir' \in Directories
    BY <1>0, CalmGood DEF List, Local
<1>2. CASE ScanFits
    <2> DEFINE l == IF Present = {} THEN AfterScan(p) ELSE "stat"
               c == [call[p] EXCEPT !.scan = Listing, !.temps = dir.temps, !.pc = l]
    <2>1. dir.temps \in SUBSET TempNames /\ call[p] \in Calls
        BY <1>0, OpOfLabel DEF Directories
    <2>2. l \in Labels /\ l \in LabelsOf(call[p].op)
          /\ (l \in CommitLabels => call[p].target \in Generations)
        BY <1>0, AfterScanGood
    <2>3. c \in Calls /\ c.pc = l /\ c.op = call[p].op /\ c.target = call[p].target
        BY <2>1, <2>2, ListingType DEF Calls
    <2>4. c \in GoodCalls
        BY <1>0, <2>2, <2>3 DEF GoodCalls
    <2>5. call' = [call EXCEPT ![p] = c]
        BY <1>2 DEF List
    <2>. QED BY <1>0, <1>1, <2>4, <2>5, UpdateGood DEF GoodStates, SpentGood
<1>3. CASE ~ScanFits
    BY <1>0, <1>1, <1>3, FailGood DEF List, Failures, GoodStates, SpentGood
<1>. QED BY <1>2, <1>3

LEMMA StatGood == ASSUME GoodStates, NEW p \in Procs, Stat(p) PROVE GoodStates'
<1>0. call \in [Procs -> GoodCalls] /\ dir \in Directories /\ SpentGood /\ call[p].pc = "stat"
    BY DEF GoodStates, SpentGood, Stat, At
<1>1. SpentGood' /\ dir' \in Directories
    BY <1>0, CalmGood DEF Stat, Local
<1>2. Goto(p, "read") \/ Fail(p, "persistence-failed")
    BY DEF Stat
<1>3. call[p].op \in {"load", "write", "migrate"}
    BY <1>0, OpOfLabel DEF ScanLabels
<1>4. call' \in [Procs -> GoodCalls]
    BY <1>0, <1>2, <1>3, GotoGood, FailGood
       DEF LabelsOf, ScanLabels, Labels, CommitLabels, ActivationLabels, Failures
<1>. QED BY <1>1, <1>4 DEF GoodStates, SpentGood

LEMMA ReadGood == ASSUME GoodStates, NEW p \in Procs, Read(p) PROVE GoodStates'
<1>0. call \in [Procs -> GoodCalls] /\ dir \in Directories /\ SpentGood /\ call[p].pc = "read"
    BY DEF GoodStates, SpentGood, Read, At
<1>1. SpentGood' /\ dir' \in Directories
    BY <1>0, CalmGood, IncidentGood DEF Read, Incidents
<1>2. PICK m \in Marks : Classify(p, m)
    BY DEF Read, MarkOf, Marks
<1>3. call' \in [Procs -> GoodCalls]
    <2> DEFINE s == [call[p].scan EXCEPT ![Cursor(p)] = m]
               l == IF Unread(p) = {Cursor(p)} THEN AfterScan(p) ELSE "stat"
               c == [call[p] EXCEPT !.scan = s, !.pc = l]
    <2>1. call[p] \in Calls /\ s \in [Generations -> Marks]
        BY <1>0, FieldsOfCall, OpOfLabel
    <2>2. l \in Labels /\ l \in LabelsOf(call[p].op)
          /\ (l \in CommitLabels => call[p].target \in Generations)
        BY <1>0, AfterScanGood
    <2>3. c \in Calls /\ c.pc = l /\ c.op = call[p].op /\ c.target = call[p].target
        BY <2>1, <2>2 DEF Calls
    <2>4. c \in GoodCalls
        BY <1>0, <2>2, <2>3 DEF GoodCalls
    <2>5. call' = [call EXCEPT ![p] = c]
        BY <1>0, <1>2, <2>1 DEF Classify, GoodCalls, Calls
    <2>. QED BY <1>0, <2>4, <2>5, UpdateGood
<1>. QED BY <1>1, <1>3 DEF GoodStates, SpentGood

LEMMA SelectGood == ASSUME GoodStates, NEW p \in Procs, Select(p) PROVE GoodStates'
<1>0. /\ call \in [Procs -> GoodCalls] /\ dir \in Directories /\ SpentGood
      /\ call[p].pc = "authorizeResult"
    BY DEF GoodStates, SpentGood, Select, At
<1>1. SpentGood' /\ dir' \in Directories
    BY <1>0, CalmGood DEF Select, Local
<1>2. call[p].op \in {"load", "migrate"} /\ call[p] \in Calls
    BY <1>0, OpOfLabel
<1>3. ASSUME NEW f \in Failures, Fail(p, f) PROVE call' \in [Procs -> GoodCalls]
    BY <1>0, <1>3, FailGood
<1>4. ASSUME NEW r \in Successes, NEW g \in Generations \cup {None}, NEW d \in BOOLEAN,
             Succeed(p, r, g, d)
      PROVE  call' \in [Procs -> GoodCalls]
    BY <1>0, <1>2, <1>4, SucceedGood
<1>5. ASSUME call[p].op = "migrate", ~Exhausted(p), Prepare(p, NextGeneration(p))
      PROVE  call' \in [Procs -> GoodCalls]
    <2> DEFINE g == NextGeneration(p)
               c == [call[p] EXCEPT !.pc = "stage", !.target = g]
    <2>1. g \in Generations
        <3>1. Newest(Seen(p)) \in Generations \cup {None}
            BY ScanSets, NewestFacts
        <3>2. Newest(Seen(p)) + 1 <= MaxGeneration
            BY <1>5, <3>1, ConstantsAssumption DEF Exhausted, NextGeneration, Generations, None
        <3>. QED BY <3>1, <3>2, ConstantsAssumption DEF NextGeneration, Generations, None
    <2>2. "stage" \in Labels /\ "stage" \in LabelsOf("migrate")
        BY DEF Labels, LabelsOf, CommitLabels
    <2>3. c \in Calls /\ c.pc = "stage" /\ c.op = "migrate" /\ c.target = g
        BY <1>2, <1>5, <2>1, <2>2 DEF Calls
    <2>4. c \in GoodCalls
        BY <2>1, <2>2, <2>3 DEF GoodCalls
    <2>. QED BY <1>0, <1>5, <2>4, UpdateGood DEF Prepare
<1>6. call' \in [Procs -> GoodCalls]
    <2>1. Selected(p) \in Generations \cup {None} /\ Valid(p) \subseteq Generations
        BY ScanSets
    <2>2. CASE Fail(p, "profile-deleted")
        BY <1>3, <2>2 DEF Failures
    <2>3. CASE SelectNothing(p)
        BY <1>3, <1>4, <2>3 DEF SelectNothing, Failures, Successes
    <2>4. CASE SelectLegacy(p)
        BY <1>2, <1>3, <1>5, <2>4 DEF SelectLegacy, Failures
    <2>5. CASE SelectCurrent(p)
        BY <1>3, <1>4, <2>1, <2>5 DEF SelectCurrent, Failures, Successes
    <2>. QED BY <2>2, <2>3, <2>4, <2>5 DEF Select
<1>. QED BY <1>1, <1>6 DEF GoodStates, SpentGood

LEMMA CheckWriteGood == ASSUME GoodStates, NEW p \in Procs, CheckWrite(p) PROVE GoodStates'
<1>0. /\ call \in [Procs -> GoodCalls] /\ dir \in Directories /\ SpentGood
      /\ call[p].pc = "check" /\ call[p].op = "write" /\ call[p].target \in Generations
    <2>1. /\ call \in [Procs -> GoodCalls] /\ dir \in Directories /\ SpentGood
          /\ call[p].pc = "check"
        BY DEF GoodStates, SpentGood, CheckWrite, At
    <2>. QED BY <2>1, OpOfLabel DEF GoodCalls
<1>1. SpentGood' /\ dir' \in Directories
    BY <1>0, CalmGood DEF CheckWrite, Local
<1>2. Goto(p, "stage") \/ \E f \in Failures : Fail(p, f)
    BY DEF CheckWrite, WriteVerdicts, Failures
<1>3. call' \in [Procs -> GoodCalls]
    BY <1>0, <1>2, GotoGood, FailGood DEF LabelsOf, Labels, CommitLabels
<1>. QED BY <1>1, <1>3 DEF GoodStates, SpentGood
-----------------------------------------------------------------------------
\* Commit

LEMMA TempsGood ==
    ASSUME dir \in Directories, NEW S \in SUBSET TempNames, dir' = [dir EXCEPT !.temps = S]
    PROVE  dir' \in Directories
BY DEF Directories

LEMMA FinalsGood ==
    ASSUME dir \in Directories, NEW g \in Generations, NEW k \in DocumentKinds,
           dir' = [dir EXCEPT !.finals[g] = k]
    PROVE  dir' \in Directories
BY DEF Directories, Stores

\* In the middle of a commit the candidate has a generation.
LEMMA InCommit ==
    ASSUME call \in [Procs -> GoodCalls], NEW p \in Procs, call[p].pc \in CommitLabels
    PROVE  /\ call[p].target \in Generations /\ call[p] \in Calls
           /\ call[p].op \in {"write", "migrate"}
           /\ CommitLabels \ {"check"} \subseteq LabelsOf(call[p].op)
           /\ "release" \in LabelsOf(call[p].op)
BY OpOfLabel DEF GoodCalls, LabelsOf, MutationLabels

LEMMA StageGood == ASSUME GoodStates, NEW p \in Procs, Stage(p) PROVE GoodStates'
<1>0. /\ call \in [Procs -> GoodCalls] /\ dir \in Directories /\ SpentGood
      /\ call[p].pc = "stage" /\ "stage" \in CommitLabels
    BY DEF GoodStates, SpentGood, Stage, At, CommitLabels
<1>1. SpentGood'
    BY <1>0, CalmGood DEF Stage
<1>2. PICK n \in Nonces :
          \/ UNCHANGED dir /\ Fail(p, "conflict")
          \/ /\ dir' = [dir EXCEPT !.temps = @ \cup {<<call[p].target, n>>}]
             /\ call' = [call EXCEPT ![p].nonce = n, ![p].pc = "verifyStaged"]
    BY DEF Stage
<1>3. CASE UNCHANGED dir /\ Fail(p, "conflict")
    BY <1>0, <1>1, <1>3, FailGood DEF Failures, GoodStates, SpentGood
<1>4. CASE /\ dir' = [dir EXCEPT !.temps = @ \cup {<<call[p].target, n>>}]
           /\ call' = [call EXCEPT ![p].nonce = n, ![p].pc = "verifyStaged"]
    <2> DEFINE c == [call[p] EXCEPT !.nonce = n, !.pc = "verifyStaged"]
    <2>1. dir.temps \cup {<<call[p].target, n>>} \in SUBSET TempNames
        BY <1>0, InCommit DEF Directories, TempNames
    <2>2. dir' \in Directories
        BY <1>0, <1>4, <2>1, TempsGood
    <2>3. "verifyStaged" \in Labels /\ "verifyStaged" \in CommitLabels \ {"check"}
        BY DEF Labels, CommitLabels, ActivationLabels
    <2>4. c \in Calls /\ c.pc = "verifyStaged" /\ c.op = call[p].op /\ c.target = call[p].target
        BY <1>0, <2>3, InCommit DEF Calls
    <2>5. c \in GoodCalls
        BY <1>0, <2>3, <2>4, InCommit DEF GoodCalls
    <2>6. call' = [call EXCEPT ![p] = c]
        BY <1>4
    <2>7. call' \in [Procs -> GoodCalls]
        BY <1>0, <2>5, <2>6, UpdateGood
    <2>. QED BY <1>1, <2>2, <2>7 DEF GoodStates, SpentGood
<1>. QED BY <1>2, <1>3, <1>4

\* A commit moves on to one of its labels or fails.
LEMMA CommitGotoGood ==
    ASSUME call \in [Procs -> GoodCalls], NEW p \in Procs, call[p].pc \in CommitLabels,
           NEW l \in CommitLabels \ {"check"}, Goto(p, l)
    PROVE  call' \in [Procs -> GoodCalls]
<1>1. l \in Labels
    BY DEF Labels
<1>. QED BY <1>1, InCommit, GotoGood

LEMMA ActivationGood ==
    ASSUME GoodStates, NEW p \in Procs,
           VerifyStaged(p) \/ Link(p) \/ Sync(p) \/ VerifyFinal(p)
    PROVE  GoodStates'
<1>0. /\ call \in [Procs -> GoodCalls] /\ dir \in Directories /\ SpentGood
      /\ call[p].pc \in CommitLabels
    BY DEF GoodStates, SpentGood, VerifyStaged, Link, Sync, VerifyFinal, At, CommitLabels,
           ActivationLabels
<1>1. SpentGood'
    BY <1>0, CalmGood DEF VerifyStaged, Link, Sync, VerifyFinal, Local
<1>2. dir' \in Directories
    <2>1. CASE Link(p)
        BY <1>0, <2>1, InCommit, FinalsGood DEF Link, DocumentKinds
    <2>. QED BY <1>0, <2>1 DEF VerifyStaged, Sync, VerifyFinal, Local
<1>3. \/ \E l \in CommitLabels \ {"check"} : Goto(p, l)
      \/ \E f \in Failures : Fail(p, f)
    BY DEF VerifyStaged, Link, Sync, VerifyFinal, CommitLabels, ActivationLabels, Failures
<1>4. call' \in [Procs -> GoodCalls]
    BY <1>0, <1>3, CommitGotoGood, FailGood
<1>. QED BY <1>1, <1>2, <1>4 DEF GoodStates, SpentGood

\* Replacing the record of a call keeps it good when its operation, its
\* candidate and the kind of its label stay.
LEMMA RemoveTempGood ==
    ASSUME GoodStates, NEW p \in Procs, NEW c \in GoodCalls, NEW t, RemoveTemp(p, t, c)
    PROVE  GoodStates'
<1>0. call \in [Procs -> GoodCalls] /\ dir \in Directories /\ SpentGood
    BY DEF GoodStates, SpentGood
<1>1. SpentGood'
    BY <1>0, CalmGood, IncidentGood DEF RemoveTemp, Incidents
<1>2. dir.temps \ {t} \in SUBSET TempNames
    BY <1>0 DEF Directories
<1>3. dir' \in Directories
    BY <1>0, <1>2, TempsGood DEF RemoveTemp
<1>4. ASSUME NEW d \in BOOLEAN PROVE [c EXCEPT !.debt = d] \in GoodCalls
    BY DEF GoodCalls, Calls
<1>5. c.debt \in BOOLEAN
    BY DEF GoodCalls, Calls
<1>6. PICK d \in BOOLEAN : call' = [call EXCEPT ![p] = [c EXCEPT !.debt = d]]
    BY <1>5 DEF RemoveTemp
<1>7. call' \in [Procs -> GoodCalls]
    BY <1>0, <1>4, <1>6, UpdateGood
<1>. QED BY <1>1, <1>3, <1>7 DEF GoodStates, SpentGood

LEMMA RemoveFinalGood ==
    ASSUME GoodStates, NEW p \in Procs, NEW c \in GoodCalls, NEW g \in Generations,
           RemoveFinal(p, g, c)
    PROVE  GoodStates'
<1>0. call \in [Procs -> GoodCalls] /\ dir \in Directories /\ SpentGood
    BY DEF GoodStates, SpentGood
<1>1. SpentGood'
    BY <1>0, CalmGood, IncidentGood DEF RemoveFinal, Incidents
<1>2. dir' \in Directories
    BY <1>0, FinalsGood DEF RemoveFinal, DocumentKinds
<1>3. ASSUME NEW d \in BOOLEAN PROVE [c EXCEPT !.debt = d] \in GoodCalls
    BY DEF GoodCalls, Calls
<1>4. c.debt \in BOOLEAN
    BY DEF GoodCalls, Calls
<1>5. PICK d \in BOOLEAN : call' = [call EXCEPT ![p] = [c EXCEPT !.debt = d]]
    BY <1>4 DEF RemoveFinal
<1>6. call' \in [Procs -> GoodCalls]
    BY <1>0, <1>3, <1>5, UpdateGood
<1>. QED BY <1>1, <1>2, <1>6 DEF GoodStates, SpentGood

LEMMA UnstageGood == ASSUME GoodStates, NEW p \in Procs, Unstage(p) PROVE GoodStates'
<1> DEFINE l == IF call[p].result = "pending" THEN "cleanup" ELSE "release"
           c == [call[p] EXCEPT !.pc = l]
<1>0. call \in [Procs -> GoodCalls] /\ call[p].pc = "unstage" /\ "unstage" \in CommitLabels
    BY DEF GoodStates, Unstage, At, CommitLabels
<1>1. l \in Labels /\ l \in LabelsOf(call[p].op)
    <2>1. "cleanup" \in CommitLabels \ {"check"} /\ "cleanup" \in Labels /\ "release" \in Labels
        BY DEF Labels, CommitLabels
    <2>. QED BY <1>0, <2>1, InCommit
<1>2. c \in Calls /\ c.pc = l /\ c.op = call[p].op /\ c.target = call[p].target
    BY <1>0, <1>1, InCommit DEF Calls
<1>3. c \in GoodCalls
    BY <1>0, <1>1, <1>2, InCommit DEF GoodCalls
<1>. QED BY <1>3, RemoveTempGood DEF Unstage
LEMMA LeastGeneration ==
    ASSUME NEW S, S \subseteq Generations, S # {}
    PROVE  Min(S) \in S /\ Min(S) \in Generations /\ \A g \in S : Min(S) <= g
<1>1. S \subseteq Nat
    BY ConstantsAssumption DEF Generations
<1>2. Min(S) \in S /\ \A g \in S : Min(S) <= g
    BY <1>1, MinFacts
<1>. QED BY <1>2

LEMMA CleanupGood == ASSUME GoodStates, NEW p \in Procs, Cleanup(p) PROVE GoodStates'
<1>0. call \in [Procs -> GoodCalls] /\ call[p].pc = "cleanup" /\ "cleanup" \in CommitLabels
    BY DEF GoodStates, Cleanup, At, CommitLabels
<1>1. ASSUME NEW t \in call[p].temps, RemoveTemp(p, t, [call[p] EXCEPT !.temps = @ \ {t}])
      PROVE  GoodStates'
    <2> DEFINE c == [call[p] EXCEPT !.temps = @ \ {t}]
    <2>1. c \in GoodCalls
        BY <1>0 DEF GoodCalls, Calls
    <2>. QED BY <1>1, <2>1, RemoveTempGood
<1>2. ASSUME Removable(p) # {},
             RemoveFinal(p, Min(Removable(p)),
                         [call[p] EXCEPT !.scan[Min(Removable(p))] = "unlisted"])
      PROVE  GoodStates'
    <2> DEFINE g == Min(Removable(p))
               s == [call[p].scan EXCEPT ![g] = "unlisted"]
               c == [call[p] EXCEPT !.scan = s]
    <2>1. g \in Generations
        BY <1>2, ScanSets, LeastGeneration DEF Removable
    <2>2. s \in [Generations -> Marks] /\ call[p] \in Calls
        BY <1>0, FieldsOfCall, InCommit DEF Marks
    <2>3. c \in Calls /\ c.pc = call[p].pc /\ c.op = call[p].op /\ c.target = call[p].target
        BY <2>2 DEF Calls
    <2>4. c \in GoodCalls
        BY <1>0, <2>3 DEF GoodCalls
    <2>5. c = [call[p] EXCEPT !.scan[g] = "unlisted"]
        BY <2>2 DEF Calls
    <2>. QED BY <1>2, <2>1, <2>4, <2>5, RemoveFinalGood
<1>3. ASSUME Goto(p, "syncCleanup"), Local PROVE GoodStates'
    <2>1. "syncCleanup" \in CommitLabels \ {"check"}
        BY DEF CommitLabels
    <2>. QED BY <1>0, <1>3, <2>1, CommitGotoGood, CalmGood DEF GoodStates, SpentGood, Local
<1>. QED BY <1>1, <1>2, <1>3 DEF Cleanup

LEMMA SyncCleanupGood == ASSUME GoodStates, NEW p \in Procs, SyncCleanup(p) PROVE GoodStates'
<1>0. /\ call \in [Procs -> GoodCalls] /\ dir \in Directories /\ SpentGood
      /\ call[p].pc = "syncCleanup" /\ "syncCleanup" \in CommitLabels
    BY DEF GoodStates, SpentGood, SyncCleanup, At, CommitLabels
<1>1. SpentGood' /\ dir' \in Directories
    BY <1>0, CalmGood, IncidentGood DEF SyncCleanup, Incidents
<1>2. call[p].debt \in BOOLEAN /\ call[p].target \in Generations
    BY <1>0, FieldsOfCall, InCommit
<1>3. PICK d \in BOOLEAN : Committed(p, d)
    BY <1>2 DEF SyncCleanup
<1>4. \/ Fail(p, "limit-exceeded")
      \/ \E r \in Successes : Succeed(p, r, call[p].target, d)
    BY <1>3 DEF Committed, Successes
<1>5. call' \in [Procs -> GoodCalls]
    BY <1>0, <1>2, <1>4, FailGood, SucceedGood DEF Failures
<1>. QED BY <1>1, <1>5 DEF GoodStates, SpentGood

-----------------------------------------------------------------------------
\* Deletion

DeletionSteps == {"inventory", "raiseBarrier", "verifyBarrier"} \cup DeletionLabels

LEMMA DeletionCallGood ==
    ASSUME call \in [Procs -> GoodCalls], NEW p \in Procs, call[p].pc \in DeletionSteps,
           NEW l \in DeletionSteps, NEW s \in [Generations -> Marks],
           NEW S \in SUBSET TempNames,
           call' = [call EXCEPT ![p] = [call[p] EXCEPT !.pc = l, !.scan = s, !.temps = S]]
    PROVE  call' \in [Procs -> GoodCalls]
<1> DEFINE c == [call[p] EXCEPT !.pc = l, !.scan = s, !.temps = S]
<1>1. call[p].op = "delete" /\ call[p] \in Calls
    BY OpOfLabel DEF DeletionSteps
<1>2. l \in Labels /\ l \notin CommitLabels /\ l \in LabelsOf("delete")
    BY DEF DeletionSteps, DeletionLabels, Labels, CommitLabels, ActivationLabels, LabelsOf
<1>3. c \in Calls /\ c.pc = l /\ c.op = "delete"
    BY <1>1, <1>2 DEF Calls
<1>4. c \in GoodCalls
    BY <1>2, <1>3 DEF GoodCalls
<1>. QED BY <1>4, UpdateGood

LEMMA DeletionGotoGood ==
    ASSUME call \in [Procs -> GoodCalls], NEW p \in Procs, call[p].pc \in DeletionSteps,
           NEW l \in DeletionSteps, Goto(p, l)
    PROVE  call' \in [Procs -> GoodCalls]
<1>1. call[p].op = "delete"
    BY OpOfLabel DEF DeletionSteps
<1>2. l \in Labels /\ l \notin CommitLabels /\ l \in LabelsOf("delete")
    BY DEF DeletionSteps, DeletionLabels, Labels, CommitLabels, ActivationLabels, LabelsOf
<1>. QED BY <1>1, <1>2, GotoGood

LEMMA InventoryGood == ASSUME GoodStates, NEW p \in Procs, Inventory(p) PROVE GoodStates'
<1>0. /\ call \in [Procs -> GoodCalls] /\ dir \in Directories /\ SpentGood
      /\ call[p].pc = "inventory" /\ dir.temps \in SUBSET TempNames
    BY DEF GoodStates, SpentGood, Inventory, At, Directories
<1>1. SpentGood' /\ dir' \in Directories
    BY <1>0, CalmGood DEF Inventory, Local
<1>2. \/ Fail(p, "not-authorized")
      \/ call' = [call EXCEPT ![p] = [call[p] EXCEPT !.pc = "raiseBarrier", !.scan = Listing,
                                                     !.temps = dir.temps]]
    BY <1>0 DEF Inventory, GoodCalls, Calls
<1>3. call' \in [Procs -> GoodCalls]
    BY <1>0, <1>2, FailGood, DeletionCallGood, ListingType DEF DeletionSteps, Failures
<1>. QED BY <1>1, <1>3 DEF GoodStates, SpentGood

LEMMA RemoveGood == ASSUME GoodStates, NEW p \in Procs, Remove(p) PROVE GoodStates'
<1>0. /\ call \in [Procs -> GoodCalls] /\ dir \in Directories /\ SpentGood
      /\ call[p].pc = "remove" /\ "remove" \in DeletionSteps /\ dir.temps \in SUBSET TempNames
    BY DEF GoodStates, SpentGood, Remove, At, Directories, DeletionSteps, DeletionLabels
<1>1. SpentGood'
    BY <1>0, CalmGood DEF Remove
<1>2. call[p] \in Calls /\ call[p].scan \in [Generations -> Marks] /\ call[p].temps \in SUBSET TempNames
    BY <1>0, OpOfLabel, FieldsOfCall
<1>3. ASSUME NEW t, dir' = [dir EXCEPT !.temps = @ \ {t}],
             call' = [call EXCEPT ![p].temps = @ \ {t}]
      PROVE  GoodStates'
    <2>1. dir' \in Directories
        BY <1>0, <1>3, TempsGood
    <2>2. [call[p] EXCEPT !.temps = @ \ {t}]
          = [call[p] EXCEPT !.pc = "remove", !.scan = call[p].scan, !.temps = call[p].temps \ {t}]
        BY <1>0, <1>2 DEF Calls
    <2>3. call[p].temps \ {t} \in SUBSET TempNames
        BY <1>2
    <2>4. call' = [call EXCEPT ![p] = [call[p] EXCEPT !.pc = "remove", !.scan = call[p].scan,
                                                      !.temps = call[p].temps \ {t}]]
        BY <1>3, <2>2
    <2>5. call' \in [Procs -> GoodCalls]
        BY <1>0, <1>2, <2>3, <2>4, DeletionCallGood
    <2>. QED BY <1>1, <2>1, <2>5 DEF GoodStates, SpentGood
<1>4. ASSUME Seen(p) # {}, dir' = [dir EXCEPT !.finals[Min(Seen(p))] = "none"],
             call' = [call EXCEPT ![p].scan[Min(Seen(p))] = "unlisted"]
      PROVE  GoodStates'
    <2> DEFINE g == Min(Seen(p))
               s == [call[p].scan EXCEPT ![g] = "unlisted"]
    <2>1. g \in Generations
        BY <1>4, ScanSets, LeastGeneration
    <2>2. dir' \in Directories
        BY <1>0, <1>4, <2>1, FinalsGood DEF DocumentKinds
    <2>3. s \in [Generations -> Marks]
        BY <1>2 DEF Marks
    <2>4. call' = [call EXCEPT ![p] = [call[p] EXCEPT !.pc = "remove", !.scan = s,
                                                      !.temps = call[p].temps]]
        BY <1>0, <1>2, <1>4 DEF Calls
    <2>5. call' \in [Procs -> GoodCalls]
        BY <1>0, <1>2, <2>3, <2>4, DeletionCallGood
    <2>. QED BY <1>1, <2>2, <2>5 DEF GoodStates, SpentGood
<1>5. ASSUME UNCHANGED dir, Goto(p, "syncRemoved") PROVE GoodStates'
    <2>1. "syncRemoved" \in DeletionSteps
        BY DEF DeletionSteps, DeletionLabels
    <2>. QED BY <1>0, <1>1, <1>5, <2>1, DeletionGotoGood DEF GoodStates, SpentGood
<1>. QED BY <1>3, <1>4, <1>5 DEF Remove

LEMMA DeletionGood == ASSUME GoodStates, NEW p \in Procs, Deletion(p) PROVE GoodStates'
<1>0. call \in [Procs -> GoodCalls] /\ dir \in Directories /\ SpentGood
    BY DEF GoodStates, SpentGood
<1>1. CASE Inventory(p)
    BY <1>1, InventoryGood
<1>2. CASE RaiseBarrier(p)
    <2>1. call[p].pc \in DeletionSteps /\ "verifyBarrier" \in DeletionSteps
        BY <1>2 DEF RaiseBarrier, At, DeletionSteps
    <2>2. dir' \in Directories
        BY <1>0, <1>2, MarksGood, MarksOfDir DEF RaiseBarrier
    <2>3. call' \in [Procs -> GoodCalls]
        BY <1>0, <1>2, <2>1, DeletionGotoGood DEF RaiseBarrier
    <2>. QED BY <1>0, <1>2, <2>2, <2>3, CalmGood DEF RaiseBarrier, GoodStates, SpentGood
<1>3. CASE VerifyBarrier(p) \/ SyncBarrier(p) \/ SyncRemoved(p)
    <2>1. call[p].pc \in DeletionSteps
        BY <1>3 DEF VerifyBarrier, SyncBarrier, SyncRemoved, At, DeletionSteps, DeletionLabels
    <2>2. (\E l \in DeletionSteps : Goto(p, l)) \/ Fail(p, "deletion-incomplete")
        BY <1>3 DEF VerifyBarrier, SyncBarrier, SyncRemoved, DeletionSteps, DeletionLabels
    <2>3. call' \in [Procs -> GoodCalls]
        BY <1>0, <2>1, <2>2, DeletionGotoGood, FailGood DEF Failures
    <2>. QED BY <1>0, <1>3, <2>3, CalmGood
             DEF VerifyBarrier, SyncBarrier, SyncRemoved, Local, GoodStates, SpentGood
<1>4. CASE Remove(p)
    BY <1>4, RemoveGood
<1>5. CASE Relist(p)
    <2>1. call[p].op = "delete"
        BY <1>0, <1>5, OpOfLabel DEF Relist, At, DeletionLabels
    <2>2. call' \in [Procs -> GoodCalls]
        BY <1>0, <1>5, <2>1, SucceedGood, FailGood DEF Relist, Failures, Successes
    <2>. QED BY <1>0, <1>5, <2>2, CalmGood DEF Relist, Local, GoodStates, SpentGood
<1>. QED BY <1>1, <1>2, <1>3, <1>4, <1>5 DEF Deletion

-----------------------------------------------------------------------------
\* Failures and the environment

LEMMA OperationFailsGood == ASSUME GoodStates, NEW p \in Procs, OperationFails(p) PROVE GoodStates'
<1>0. call \in [Procs -> GoodCalls] /\ dir \in Directories /\ SpentGood
    BY DEF GoodStates, SpentGood
<1>1. FailureAt(call[p].pc) \in Failures
    BY DEF FailureAt, Failures
<1>2. call' \in [Procs -> GoodCalls]
    BY <1>0, <1>1, FailGood DEF OperationFails
<1>. QED BY <1>0, <1>2, IncidentGood DEF OperationFails, Incidents, GoodStates, SpentGood

LEMMA CreationFailsGood == ASSUME GoodStates, NEW p \in Procs, CreationFails(p) PROVE GoodStates'
<1>0. call \in [Procs -> GoodCalls] /\ dir \in Directories /\ SpentGood
    BY DEF GoodStates, SpentGood
<1>1. call' \in [Procs -> GoodCalls] /\ SpentGood'
    BY <1>0, FailGood, IncidentGood DEF CreationFails, Failures, Incidents
<1>2. dir.marks \cup {"gate"} \in SUBSET {"gate", "barrier"}
      /\ dir.marks \cup {"barrier"} \in SUBSET {"gate", "barrier"}
    BY <1>0, MarksOfDir
<1>3. ASSUME At(p, "stage"), NEW n \in Nonces
      PROVE  dir.temps \cup {<<call[p].target, n>>} \in SUBSET TempNames
    <2>1. call[p].target \in Generations
        BY <1>0, <1>3, InCommit DEF At, CommitLabels
    <2>. QED BY <1>0, <2>1 DEF Directories, TempNames
<1>4. dir' \in Directories
    BY <1>0, <1>2, <1>3, MarksGood, TempsGood DEF CreationFails
<1>. QED BY <1>1, <1>4 DEF GoodStates, SpentGood

LEMMA EnvironmentGood ==
    ASSUME GoodStates, OwnerClearsGate \/ \E g \in Generations : Damage(g)
    PROVE  GoodStates'
<1>0. call \in [Procs -> GoodCalls] /\ dir \in Directories /\ SpentGood
    BY DEF GoodStates, SpentGood
<1>1. SpentGood' /\ call' \in [Procs -> GoodCalls]
    BY <1>0, CalmGood, IncidentGood DEF OwnerClearsGate, Damage, Incidents
<1>2. dir' \in Directories
    BY <1>0, MarksGood, MarksOfDir, FinalsGood DEF OwnerClearsGate, Damage, DocumentKinds
<1>. QED BY <1>1, <1>2 DEF GoodStates, SpentGood

LEMMA CrashGood == ASSUME GoodStates, NEW p \in Procs, Crash(p) PROVE GoodStates'
<1>0. call \in [Procs -> GoodCalls] /\ dir \in Directories /\ SpentGood
    BY DEF GoodStates, SpentGood
<1>1. call' \in [Procs -> GoodCalls]
    BY <1>0, ReturnGood DEF Crash, Failures
<1>. QED BY <1>0, <1>1, IncidentGood DEF Crash, Incidents, GoodStates, SpentGood

LEMMA NextGood == GoodStates /\ [Next]_vars => GoodStates'
<1> SUFFICES ASSUME GoodStates, [Next]_vars PROVE GoodStates'
    OBVIOUS
<1>1. ASSUME NEW p \in Procs, Call(p) \/ Step(p) \/ Crash(p) PROVE GoodStates'
    <2>1. CASE Gate(p)
        BY <2>1, AcquireGood, ReleaseGood DEF Gate
    <2>2. CASE Scan(p)
        BY <2>2, AuthorizeGood, ListGood, StatGood, ReadGood, SelectGood, CheckWriteGood DEF Scan
    <2>3. CASE Commit(p)
        BY <2>3, StageGood, ActivationGood, UnstageGood, CleanupGood, SyncCleanupGood DEF Commit
    <2>4. CASE Deletion(p)
        BY <2>4, DeletionGood
    <2>5. CASE OperationFails(p) \/ CreationFails(p)
        BY <2>5, OperationFailsGood, CreationFailsGood
    <2>. QED BY <1>1, <2>1, <2>2, <2>3, <2>4, <2>5, CallGood, CrashGood DEF Step
<1>2. CASE UNCHANGED vars
    BY <1>2 DEF vars, GoodStates
<1>. QED BY <1>1, <1>2, EnvironmentGood DEF Next

THEOREM GoodCorrect == Spec => []GoodStates
BY InitGood, NextGood, PTL DEF Spec

\* TypeOK holds in every reachable state: the record a call keeps across its
\* awaits (commitCandidate, cleanupAfterCommit) is always well-formed.
THEOREM TypeCorrect == Spec => []TypeOK
<1>1. GoodStates => TypeOK
    BY DEF GoodStates, TypeOK, GoodCalls
<1>. QED BY <1>1, GoodCorrect, PTL

-----------------------------------------------------------------------------
(* What the ways to end a step do to the call that takes it *)

\* Another call is untouched.
Alone(p) == \A q \in Procs : q # p => call'[q] = call[q]

LEMMA GotoEffect ==
    ASSUME GoodStates, NEW p \in Procs, NEW l, Goto(p, l)
    PROVE  /\ call'[p].pc = l /\ call'[p].op = call[p].op
           /\ call'[p].result = call[p].result /\ Alone(p)
BY DEF Goto, GoodStates, GoodCalls, Calls, Alone

LEMMA ReturnEffect ==
    ASSUME GoodStates, NEW p \in Procs, NEW r, NEW g, NEW d, Return(p, r, g, d)
    PROVE  call'[p].pc = "idle" /\ call'[p].op = "idle" /\ call'[p].result = r /\ Alone(p)
BY DEF Return, Outcome, GoodStates, Alone

LEMMA SucceedEffect ==
    ASSUME GoodStates, NEW p \in Procs, NEW r, NEW g, NEW d, Succeed(p, r, g, d)
    PROVE  /\ call'[p].pc = IF HoldsGate(p) THEN "release" ELSE "idle"
           /\ call'[p].op = IF HoldsGate(p) THEN call[p].op ELSE "idle"
           /\ call'[p].result = r /\ Alone(p)
<1>1. CASE HoldsGate(p)
    BY <1>1 DEF Succeed, GoodStates, GoodCalls, Calls, Alone
<1>2. CASE ~HoldsGate(p)
    BY <1>2, ReturnEffect DEF Succeed
<1>. QED BY <1>1, <1>2

LEMMA FailEffect ==
    ASSUME GoodStates, NEW p \in Procs, NEW f, Fail(p, f)
    PROVE  /\ call'[p].pc = IF ~HoldsGate(p) THEN "idle"
                            ELSE IF call[p].pc \in ActivationLabels THEN "unstage" ELSE "release"
           /\ call'[p].op = IF HoldsGate(p) THEN call[p].op ELSE "idle"
           /\ call'[p].result = f /\ Alone(p)
<1>1. CASE HoldsGate(p)
    BY <1>1 DEF Fail, GoodStates, GoodCalls, Calls, Alone
<1>2. CASE ~HoldsGate(p)
    BY <1>2, ReturnEffect DEF Fail
<1>. QED BY <1>1, <1>2

-----------------------------------------------------------------------------
(* The gate *)

\* What a step of p does to the gate: it may take a free gate, give its own
\* back, or leave the gate alone.
GateStep(p) ==
    /\ Alone(p)
    /\ HoldsGate(p)' => HoldsGate(p) \/ (~Gated /\ Gated')
    /\ Gated /\ ~Gated' => HoldsGate(p) /\ ~HoldsGate(p)'

\* A step that keeps the marks and ends in one of the usual ways.
LEMMA QuietGateStep ==
    ASSUME GoodStates, NEW p \in Procs, call[p].pc # "idle", dir'.marks = dir.marks,
           \/ \E l : Goto(p, l) /\ (HoldsGate(p) \/ l = "acquire" \/ call[p].op = "load")
           \/ \E f : Fail(p, f)
           \/ \E r, g, d : Succeed(p, r, g, d)
    PROVE  GateStep(p)
<1>1. CASE \E l : Goto(p, l) /\ (HoldsGate(p) \/ l = "acquire" \/ call[p].op = "load")
    BY <1>1, GotoEffect DEF GateStep, HoldsGate, Gated
<1>2. CASE \E f : Fail(p, f)
    BY <1>2, FailEffect DEF GateStep, HoldsGate, Gated
<1>3. CASE \E r, g, d : Succeed(p, r, g, d)
    BY <1>3, SucceedEffect DEF GateStep, HoldsGate, Gated
<1>. QED BY <1>1, <1>2, <1>3

\* A step that replaces the record of p, keeping its operation.
LEMMA RecordGateStep ==
    ASSUME GoodStates, NEW p \in Procs, HoldsGate(p), NEW c,
           call' = [call EXCEPT ![p] = c], Gated => Gated'
    PROVE  GateStep(p)
BY DEF GateStep, GoodStates, Alone, Gated

LEMMA CallGateStep == ASSUME GoodStates, NEW p \in Procs, Call(p) PROVE GateStep(p)
<1>1. ASSUME NEW op, NEW l, NEW e, NEW g, Start(p, op, l, e, g), op = "load" \/ l = "authorize"
      PROVE  GateStep(p)
    <2> DEFINE c == [Outcome(op, "pending", g, FALSE) EXCEPT
                     !.pc = l, !.expected = e, !.floor = IF op = "load" THEN Newest(Intact) ELSE None]
    <2>1. c.pc = l /\ c.op = op
        BY DEF Outcome
    <2>2. call' = [call EXCEPT ![p] = c] /\ UNCHANGED dir
        BY <1>1 DEF Start, Local
    <2>3. call'[p] = c /\ Alone(p)
        BY <2>2 DEF GoodStates, Alone
    <2>4. ~HoldsGate(p)'
        BY <1>1, <2>1, <2>3 DEF HoldsGate
    <2>. QED BY <2>2, <2>3, <2>4 DEF GateStep, Gated
<1>. QED BY <1>1 DEF Call, CallLoad, CallMigrate, CallWrite, CallDelete

LEMMA GateGateStep == ASSUME GoodStates, NEW p \in Procs, Gate(p) PROVE GateStep(p)
<1>0. dir \in Directories /\ call \in [Procs -> GoodCalls]
    BY DEF GoodStates
<1>1. CASE Acquire(p)
    <2>1. CASE Gated
        BY <1>1, <2>1, QuietGateStep DEF Acquire, At
    <2>2. CASE ~Gated
        <3>1. Gated'
            BY <1>0, <1>1, <2>2 DEF Acquire, Gated, Directories
        <3>2. Alone(p)
            BY <1>1, <2>2, GotoEffect DEF Acquire
        <3>. QED BY <2>2, <3>1, <3>2 DEF GateStep
    <2>. QED BY <2>1, <2>2
<1>2. CASE Release(p)
    <2>1. \E r, g, d : Return(p, r, g, d)
        BY <1>2 DEF Release
    <2>2. call[p].op \in {"write", "migrate", "delete"}
        BY <1>0, <1>2, OpOfLabel DEF Release, At, MutationLabels
    <2>3. HoldsGate(p)
        BY <1>2, <2>2 DEF Release, At, HoldsGate
    <2>4. ~HoldsGate(p)' /\ Alone(p)
        BY <2>1, ReturnEffect DEF HoldsGate
    <2>. QED BY <2>3, <2>4 DEF GateStep
<1>. QED BY <1>1, <1>2 DEF Gate

LEMMA ScanGateStep == ASSUME GoodStates, NEW p \in Procs, Scan(p) PROVE GateStep(p)
<1>0. call \in [Procs -> GoodCalls] /\ UNCHANGED dir
    BY DEF GoodStates, Scan, Authorize, List, Stat, Read, Select, CheckWrite, Local
<1>1. CASE Authorize(p)
    <2>1. \E f : Fail(p, f) \/ Goto(p, AfterAuthorize(p))
        BY <1>1 DEF Authorize
    <2>2. call[p].pc \in {"authorize", "authorizeHeld", "authorizeScan"}
        BY <1>1 DEF Authorize, Reauthorizations
    <2>3. call[p].pc = "authorize" => AfterAuthorize(p) = "acquire"
        BY DEF AfterAuthorize, At
    <2>. QED BY <1>0, <2>1, <2>2, <2>3, QuietGateStep DEF HoldsGate
<1>2. ASSUME call[p].pc \in {"list", "stat", "read", "authorizeResult", "check"},
             NEW c, call' = [call EXCEPT ![p] = c], c.op = call[p].op
      PROVE  GateStep(p)
    BY <1>0, <1>2 DEF GateStep, HoldsGate, Alone, Gated
<1>3. CASE List(p)
    <2>1. CASE ScanFits
        <3> DEFINE l == IF Present = {} THEN AfterScan(p) ELSE "stat"
                   c == [call[p] EXCEPT !.scan = Listing, !.temps = dir.temps, !.pc = l]
        <3>1. call' = [call EXCEPT ![p] = c]
            BY <1>3, <2>1 DEF List
        <3>2. c.op = call[p].op
            BY <1>0 DEF GoodCalls, Calls
        <3>. QED BY <1>2, <1>3, <3>1, <3>2 DEF List, At
    <2>2. CASE ~ScanFits
        BY <1>0, <1>3, <2>2, QuietGateStep DEF List, At
    <2>. QED BY <2>1, <2>2
<1>4. CASE Stat(p)
    <2>1. Fail(p, "persistence-failed") \/ Goto(p, "read")
        BY <1>4 DEF Stat
    <2>. QED BY <1>0, <1>4, <2>1, QuietGateStep DEF Stat, At, HoldsGate
<1>5. CASE Read(p)
    <2>1. PICK m \in Marks : Classify(p, m)
        BY <1>5 DEF Read, MarkOf, Marks
    <2> DEFINE s == [call[p].scan EXCEPT ![Cursor(p)] = m]
               l == IF Unread(p) = {Cursor(p)} THEN AfterScan(p) ELSE "stat"
               c == [call[p] EXCEPT !.scan = s, !.pc = l]
    <2>2. call' = [call EXCEPT ![p] = c]
        <3>1. call' = [call EXCEPT ![p].scan[Cursor(p)] = m, ![p].pc = l]
            BY <2>1 DEF Classify
        <3>. QED BY <1>0, <3>1
    <2>3. c.op = call[p].op
        BY <1>0 DEF GoodCalls, Calls
    <2>. QED BY <1>2, <1>5, <2>2, <2>3 DEF Read, At
<1>6. CASE Select(p)
    <2>1. CASE Prepare(p, NextGeneration(p))
        <3> DEFINE c == [call[p] EXCEPT !.pc = "stage", !.target = NextGeneration(p)]
        <3>1. call' = [call EXCEPT ![p] = c] /\ c.op = call[p].op
            BY <1>0, <2>1 DEF Prepare, GoodCalls, Calls
        <3>. QED BY <1>2, <1>6, <3>1 DEF Select, At
    <2>2. \/ Prepare(p, NextGeneration(p)) \/ (\E f : Fail(p, f))
          \/ (\E r, g, d : Succeed(p, r, g, d))
        BY <1>6 DEF Select, SelectNothing, SelectLegacy, SelectCurrent
    <2>. QED BY <1>0, <1>6, <2>1, <2>2, QuietGateStep DEF Select, At
<1>7. CASE CheckWrite(p)
    <2>1. Goto(p, "stage") \/ \E f : Fail(p, f)
        BY <1>7 DEF CheckWrite
    <2>2. HoldsGate(p)
        BY <1>0, <1>7, OpOfLabel DEF CheckWrite, At, HoldsGate
    <2>. QED BY <1>0, <1>7, <2>1, <2>2, QuietGateStep DEF CheckWrite, At
<1>. QED BY <1>1, <1>3, <1>4, <1>5, <1>6, <1>7 DEF Scan
\* Removing entries keeps the operation of the call and the marks.
LEMMA CommitGateStep == ASSUME GoodStates, NEW p \in Procs, Commit(p) PROVE GateStep(p)
<1>0. call \in [Procs -> GoodCalls] /\ dir \in Directories
    BY DEF GoodStates
<1>1. call[p].pc \in CommitLabels
    BY DEF Commit, Stage, VerifyStaged, Link, Sync, VerifyFinal, Unstage, Cleanup, SyncCleanup, At,
           CommitLabels, ActivationLabels
<1>2. HoldsGate(p) /\ call[p].pc # "idle"
    BY <1>0, <1>1, OpOfLabel DEF HoldsGate, CommitLabels, ActivationLabels
<1>3. dir'.marks = dir.marks
    BY <1>0 DEF Directories, Commit, Stage, VerifyStaged, Link, Sync, VerifyFinal, Unstage, Cleanup,
           SyncCleanup, RemoveTemp, RemoveFinal, Local
<1>4. ASSUME NEW t, NEW c, RemoveTemp(p, t, c) PROVE GateStep(p)
    BY <1>2, <1>3, <1>4, RecordGateStep DEF RemoveTemp, Gated
<1>5. ASSUME NEW g, NEW c, RemoveFinal(p, g, c) PROVE GateStep(p)
    BY <1>2, <1>3, <1>5, RecordGateStep DEF RemoveFinal, Gated
<1>6. CASE Stage(p)
    <2>1. ASSUME NEW n, call' = [call EXCEPT ![p].nonce = n, ![p].pc = "verifyStaged"]
          PROVE  GateStep(p)
        BY <1>2, <1>3, <2>1, RecordGateStep DEF Gated
    <2>. QED BY <1>2, <1>3, <1>6, <2>1, QuietGateStep DEF Stage
<1>7. CASE VerifyStaged(p) \/ Link(p) \/ Sync(p) \/ VerifyFinal(p)
    BY <1>2, <1>3, <1>7, QuietGateStep DEF VerifyStaged, Link, Sync, VerifyFinal
<1>8. CASE Unstage(p)
    BY <1>4, <1>8 DEF Unstage
<1>9. CASE Cleanup(p)
    BY <1>2, <1>3, <1>4, <1>5, <1>9, QuietGateStep DEF Cleanup
<1>10. CASE SyncCleanup(p)
    BY <1>2, <1>3, <1>10, QuietGateStep DEF SyncCleanup, Committed
<1>. QED BY <1>6, <1>7, <1>8, <1>9, <1>10 DEF Commit

LEMMA DeletionGateStep == ASSUME GoodStates, NEW p \in Procs, Deletion(p) PROVE GateStep(p)
<1>0. call \in [Procs -> GoodCalls] /\ dir \in Directories
    BY DEF GoodStates
<1>1. call[p].pc \in DeletionSteps
    BY DEF Deletion, Inventory, RaiseBarrier, VerifyBarrier, SyncBarrier, Remove, SyncRemoved,
           Relist, At, DeletionSteps, DeletionLabels
<1>2. HoldsGate(p) /\ call[p].pc # "idle"
    BY <1>0, <1>1, OpOfLabel DEF HoldsGate, DeletionSteps, DeletionLabels
<1>3. CASE RaiseBarrier(p)
    <2>1. Gated => Gated'
        BY <1>0, <1>3 DEF RaiseBarrier, Gated, Directories
    <2>. QED BY <1>2, <1>3, <2>1, RecordGateStep DEF RaiseBarrier, Goto
<1>4. CASE Inventory(p)
    BY <1>2, <1>4, QuietGateStep, RecordGateStep DEF Inventory, Local, Gated
<1>5. CASE Remove(p)
    <2>1. dir'.marks = dir.marks
        BY <1>0, <1>5 DEF Remove, Directories
    <2>2. \E c : call' = [call EXCEPT ![p] = c]
        BY <1>5 DEF Remove, Goto
    <2>. QED BY <1>2, <2>1, <2>2, RecordGateStep DEF Gated
<1>6. CASE VerifyBarrier(p) \/ SyncBarrier(p) \/ SyncRemoved(p) \/ Relist(p)
    BY <1>2, <1>6, QuietGateStep DEF VerifyBarrier, SyncBarrier, SyncRemoved, Relist, Local
<1>. QED BY <1>3, <1>4, <1>5, <1>6 DEF Deletion

LEMMA FailureGateStep ==
    ASSUME GoodStates, NEW p \in Procs, OperationFails(p) \/ CreationFails(p)
    PROVE  GateStep(p)
<1>0. dir \in Directories
    BY DEF GoodStates
<1>1. CASE OperationFails(p)
    BY <1>1, QuietGateStep DEF OperationFails
<1>2. CASE CreationFails(p)
    <2>1. PICK f : Fail(p, f)
        BY <1>2 DEF CreationFails
    <2>2. Gated => Gated'
        BY <1>0, <1>2 DEF CreationFails, Directories, Gated
    <2>3. Alone(p) /\ (HoldsGate(p)' => HoldsGate(p))
        BY <2>1, FailEffect DEF HoldsGate
    <2>. QED BY <2>2, <2>3 DEF GateStep
<1>. QED BY <1>1, <1>2

LEMMA GateStepPreserves ==
    ASSUME GateExclusive, NEW p \in Procs, GateStep(p)
    PROVE  GateExclusive'
<1>1. ASSUME NEW q \in Procs, q # p PROVE HoldsGate(q)' <=> HoldsGate(q)
    BY <1>1 DEF GateStep, Alone, HoldsGate
<1>2. ASSUME NEW q \in Procs, HoldsGate(q)' PROVE Gated'
    BY <1>1, <1>2 DEF GateStep, GateExclusive
<1>3. ASSUME NEW q \in Procs, NEW r \in Procs, HoldsGate(q)', HoldsGate(r)' PROVE q = r
    BY <1>1, <1>3 DEF GateStep, GateExclusive
<1>. QED BY <1>2, <1>3 DEF GateExclusive

LEMMA NextGateExclusive == GoodStates /\ GateExclusive /\ [Next]_vars => GateExclusive'
<1> SUFFICES ASSUME GoodStates, GateExclusive, [Next]_vars PROVE GateExclusive'
    OBVIOUS
<1>1. ASSUME NEW p \in Procs, Call(p) \/ Step(p) PROVE GateExclusive'
    BY <1>1, GateStepPreserves, CallGateStep, GateGateStep, ScanGateStep, CommitGateStep,
       DeletionGateStep, FailureGateStep DEF Step
<1>2. ASSUME NEW p \in Procs, Crash(p) PROVE GateExclusive'
    <2>1. Alone(p) /\ ~HoldsGate(p)' /\ UNCHANGED dir
        BY <1>2, ReturnEffect DEF Crash, HoldsGate
    <2>2. ASSUME NEW q \in Procs, HoldsGate(q)' PROVE HoldsGate(q)
        BY <2>1, <2>2 DEF Alone, HoldsGate
    <2>. QED BY <2>1, <2>2 DEF GateExclusive, Gated
<1>3. CASE OwnerClearsGate
    BY <1>3 DEF OwnerClearsGate, GateExclusive, HoldsGate, At
<1>4. ASSUME NEW g \in Generations, Damage(g) PROVE GateExclusive'
    <2>1. dir'.marks = dir.marks /\ UNCHANGED call
        BY <1>4 DEF Damage, GoodStates, Directories
    <2>. QED BY <2>1 DEF GateExclusive, HoldsGate, Gated
<1>5. CASE UNCHANGED vars
    BY <1>5 DEF vars, GateExclusive, HoldsGate, Gated
<1>. QED BY <1>1, <1>2, <1>3, <1>4, <1>5 DEF Next

LEMMA InitGateExclusive == Init => GateExclusive
BY DEF Init, Outcome, GateExclusive, HoldsGate

\* Mutual exclusion of the mutations of one directory, through crashes and the
\* owner's recovery (guardedMutation).
THEOREM GateCorrect == Spec => []GateExclusive
BY InitGood, NextGood, InitGateExclusive, NextGateExclusive, PTL DEF Spec

-----------------------------------------------------------------------------
(* The deletion barrier *)

\* Where a write or a migration may be once the barrier stands.
Blocked == {"authorize", "acquire", "authorizeHeld", "release"}

\* No commit is under way behind the barrier; a deletion that removes entries
\* works behind it.
BarrierHolds ==
    /\ \A p \in Procs : Barred /\ call[p].op \in {"write", "migrate"} => call[p].pc \in Blocked
    /\ \A p \in Procs : call[p].pc \in DeletionLabels => Barred

Shrinks == Barred => /\ Barred'
                     /\ dir'.temps \subseteq dir.temps
                     /\ Present' \subseteq Present

Empty == Barred /\ Present = {} /\ dir.temps = {}

\* What a step of p does to the barrier and to the outcome of p.
BarrierStep(p) ==
    /\ Alone(p) /\ Shrinks
    /\ Barred' /\ call'[p].op \in {"write", "migrate"} => call'[p].pc \in Blocked
    /\ Barred' /\ ~Barred => HoldsGate(p) /\ call[p].op = "delete"
    /\ call'[p].pc \in DeletionLabels => Barred'
    /\ call'[p].result = "deleted" => call[p].result = "deleted" \/ Empty

LEMMA BarrierStepPreserves ==
    ASSUME GoodStates, GateExclusive, BarrierHolds, DeletedIsEmpty,
           NEW p \in Procs, BarrierStep(p)
    PROVE  BarrierHolds' /\ DeletedIsEmpty'
<1>1. ASSUME NEW q \in Procs, Barred', call'[q].op \in {"write", "migrate"}
      PROVE  call'[q].pc \in Blocked
    <2>1. CASE q = p
        BY <1>1, <2>1 DEF BarrierStep
    <2>2. CASE q # p
        <3>1. call'[q] = call[q]
            BY <2>2 DEF BarrierStep, Alone
        <3>2. CASE Barred
            BY <1>1, <3>1, <3>2 DEF BarrierHolds
        <3>3. CASE ~Barred
            <4>1. ~HoldsGate(q)
                BY <1>1, <2>2, <3>3 DEF BarrierStep, GateExclusive
            <4>2. call[q].pc # "idle"
                BY <1>1, <3>1 DEF GoodStates, GoodCalls, LabelsOf, MutationLabels, ScanLabels,
                   CommitLabels, ActivationLabels
            <4>. QED BY <1>1, <3>1, <4>1, <4>2 DEF HoldsGate, Blocked
        <3>. QED BY <3>2, <3>3
    <2>. QED BY <2>1, <2>2
<1>2. ASSUME NEW q \in Procs, call'[q].pc \in DeletionLabels PROVE Barred'
    BY <1>2 DEF BarrierStep, BarrierHolds, Alone, Shrinks
<1>3. ASSUME NEW q \in Procs, call'[q].result = "deleted" PROVE Empty'
    <2>1. Empty
        BY <1>3 DEF BarrierStep, Alone, DeletedIsEmpty, Empty
    <2>. QED BY <2>1 DEF BarrierStep, Shrinks, Empty
<1>. QED BY <1>1, <1>2, <1>3 DEF BarrierHolds, DeletedIsEmpty, Empty

-----------------------------------------------------------------------------
\* The steps that leave the directory alone, or touch only the gate.

LEMMA SameFiles ==
    ASSUME dir'.finals = dir.finals, dir'.temps = dir.temps, Barred <=> Barred'
    PROVE  Shrinks /\ Present' = Present
BY DEF Shrinks, Present

\* A failing call.
LEMMA FailBarrierStep ==
    ASSUME GoodStates, BarrierHolds, NEW p \in Procs, NEW f \in Failures, Fail(p, f), Shrinks,
           Barred' /\ ~Barred => HoldsGate(p) /\ call[p].op = "delete"
    PROVE  BarrierStep(p)
<1>1. f # "deleted"
    BY DEF Failures
<1>2. /\ call'[p].pc \in {"idle", "unstage", "release"} /\ call'[p].result = f /\ Alone(p)
      /\ call'[p].op = "idle" \/ call'[p].op = call[p].op
      /\ call'[p].pc = "unstage" => call[p].pc \in ActivationLabels
    BY FailEffect
<1>3. call[p].pc \in ActivationLabels => call[p].op \in {"write", "migrate"}
    BY OpOfLabel DEF GoodStates, CommitLabels
<1>4. call'[p].pc = "unstage" => ~Barred'
    BY <1>2, <1>3 DEF BarrierHolds, Blocked, ActivationLabels
<1>5. call'[p].pc = "idle" => call'[p].op = "idle"
    <2>1. HoldsGate(p) => call[p].pc # "idle" /\ call'[p].pc # "idle"
        BY FailEffect DEF HoldsGate
    <2>. QED BY <2>1, FailEffect
<1>. QED BY <1>1, <1>2, <1>4, <1>5 DEF BarrierStep, Blocked, DeletionLabels

LEMMA SucceedBarrierStep ==
    ASSUME GoodStates, NEW p \in Procs, NEW r, NEW g, NEW d, Succeed(p, r, g, d), UNCHANGED dir,
           r = "deleted" => Empty
    PROVE  BarrierStep(p)
<1>1. Shrinks /\ (Barred <=> Barred')
    BY DEF Shrinks, Barred, Present
<1>. QED BY <1>1, SucceedEffect DEF BarrierStep, Blocked, DeletionLabels

LEMMA GotoBarrierStep ==
    ASSUME GoodStates, BarrierHolds, NEW p \in Procs, NEW l, Goto(p, l), UNCHANGED dir,
           call[p].pc # "idle",
           l \in DeletionLabels => Barred,
           Barred => l \in Blocked \/ call[p].pc \notin Blocked
    PROVE  BarrierStep(p)
<1>1. Shrinks /\ (Barred <=> Barred')
    BY DEF Shrinks, Barred, Present
<1>2. Barred /\ call[p].op \in {"write", "migrate"} => call[p].pc \in Blocked
    BY DEF BarrierHolds
<1>. QED BY <1>1, <1>2, GotoEffect DEF BarrierStep

LEMMA CallBarrierStep == ASSUME GoodStates, NEW p \in Procs, Call(p) PROVE BarrierStep(p)
<1>1. ASSUME NEW op, NEW l \in {"authorize", "authorizeScan"}, NEW e, NEW g, Start(p, op, l, e, g),
             op \in {"load", "delete"} \/ l = "authorize"
      PROVE  BarrierStep(p)
    <2> DEFINE c == [Outcome(op, "pending", g, FALSE) EXCEPT
                     !.pc = l, !.expected = e, !.floor = IF op = "load" THEN Newest(Intact) ELSE None]
    <2>1. c.pc = l /\ c.op = op /\ c.result = "pending"
        BY DEF Outcome
    <2>2. call' = [call EXCEPT ![p] = c] /\ UNCHANGED dir
        BY <1>1 DEF Start, Local
    <2>3. call'[p] = c /\ Alone(p)
        BY <2>2 DEF GoodStates, Alone
    <2>4. Shrinks /\ (Barred <=> Barred')
        BY <2>2 DEF Shrinks, Barred, Present
    <2>. QED BY <1>1, <2>1, <2>3, <2>4 DEF BarrierStep, Blocked, DeletionLabels
<1>. QED BY <1>1 DEF Call, CallLoad, CallMigrate, CallWrite, CallDelete

LEMMA GateBarrierStep ==
    ASSUME GoodStates, BarrierHolds, NEW p \in Procs, Gate(p)
    PROVE  BarrierStep(p)
<1>0. dir \in Directories
    BY DEF GoodStates
<1>1. dir'.finals = dir.finals /\ dir'.temps = dir.temps /\ (Barred <=> Barred')
    BY <1>0 DEF Gate, Acquire, Release, Directories, Barred
<1>2. Shrinks
    BY <1>1, SameFiles
<1>3. CASE Acquire(p)
    <2>1. CASE Gated
        BY <1>1, <1>2, <1>3, <2>1, FailBarrierStep DEF Acquire, Failures
    <2>2. CASE ~Gated
        BY <1>1, <1>2, <1>3, <2>2, GotoEffect DEF Acquire, BarrierStep, Blocked, DeletionLabels
    <2>. QED BY <2>1, <2>2
<1>4. CASE Release(p)
    <2>1. \E r, g, d : Return(p, r, g, d) /\ (r = "deleted" => call[p].result = "deleted")
        BY <1>4 DEF Release
    <2>. QED BY <1>1, <1>2, <2>1, ReturnEffect DEF BarrierStep, DeletionLabels
<1>. QED BY <1>3, <1>4 DEF Gate

\* A scanning call that changes its record and not its operation.
LEMMA ScanRecordBarrierStep ==
    ASSUME GoodStates, BarrierHolds, NEW p \in Procs, UNCHANGED dir, NEW c,
           call' = [call EXCEPT ![p] = c], c.op = call[p].op, c.result = call[p].result,
           c.pc \notin DeletionLabels,
           call[p].pc \in {"list", "stat", "read", "authorizeResult", "check"}
    PROVE  BarrierStep(p)
<1>1. Shrinks /\ (Barred <=> Barred')
    BY DEF Shrinks, Barred, Present
<1>2. call'[p] = c /\ Alone(p)
    BY DEF GoodStates, Alone
<1>. QED BY <1>1, <1>2 DEF BarrierStep, BarrierHolds, Blocked

LEMMA ScanBarrierStep ==
    ASSUME GoodStates, BarrierHolds, NEW p \in Procs, Scan(p)
    PROVE  BarrierStep(p)
<1>0. call \in [Procs -> GoodCalls] /\ UNCHANGED dir
    BY DEF GoodStates, Scan, Authorize, List, Stat, Read, Select, CheckWrite, Local
<1>1. Shrinks /\ (Barred <=> Barred')
    BY <1>0 DEF Shrinks, Barred, Present
<1>2. ASSUME NEW f \in Failures, Fail(p, f) PROVE BarrierStep(p)
    BY <1>1, <1>2, FailBarrierStep
<1>3. AfterScan(p) \notin DeletionLabels
    BY DEF AfterScan, DeletionLabels
<1>4. CASE Authorize(p)
    <2>1. call[p].pc \in {"authorize", "authorizeHeld", "authorizeScan"}
        BY <1>4 DEF Authorize, Reauthorizations
    <2>2. CASE Admitted(p)
        <3> DEFINE l == AfterAuthorize(p)
        <3>1. l \notin DeletionLabels
            BY DEF AfterAuthorize, DeletionLabels
        <3>2. Barred => call[p].op = "delete"
            BY <2>2 DEF Admitted
        <3>. QED BY <1>1, <1>4, <2>1, <2>2, <3>1, <3>2, GotoEffect DEF Authorize, BarrierStep
    <2>3. CASE ~Admitted(p)
        BY <1>2, <1>4, <2>3 DEF Authorize, Failures
    <2>. QED BY <2>2, <2>3
<1>5. CASE List(p)
    <2>1. CASE ScanFits
        <3> DEFINE l == IF Present = {} THEN AfterScan(p) ELSE "stat"
                   c == [call[p] EXCEPT !.scan = Listing, !.temps = dir.temps, !.pc = l]
        <3>1. call' = [call EXCEPT ![p] = c]
            BY <1>5, <2>1 DEF List
        <3>2. c.op = call[p].op /\ c.result = call[p].result /\ c.pc = l
            BY <1>0 DEF GoodCalls, Calls
        <3>3. l \notin DeletionLabels
            BY <1>3 DEF DeletionLabels
        <3>. QED BY <1>0, <1>5, <3>1, <3>2, <3>3, ScanRecordBarrierStep DEF List, At
    <2>2. CASE ~ScanFits
        BY <1>2, <1>5, <2>2 DEF List, Failures
    <2>. QED BY <2>1, <2>2
<1>6. CASE Stat(p)
    <2>1. Fail(p, "persistence-failed") \/ Goto(p, "read")
        BY <1>6 DEF Stat
    <2>. QED BY <1>0, <1>2, <1>6, <2>1, GotoBarrierStep DEF Stat, At, Failures, DeletionLabels, Blocked
<1>7. CASE Read(p)
    <2>1. PICK m \in Marks : Classify(p, m)
        BY <1>7 DEF Read, MarkOf, Marks
    <2> DEFINE s == [call[p].scan EXCEPT ![Cursor(p)] = m]
               l == IF Unread(p) = {Cursor(p)} THEN AfterScan(p) ELSE "stat"
               c == [call[p] EXCEPT !.scan = s, !.pc = l]
    <2>2. call' = [call EXCEPT ![p] = c]
        <3>1. call' = [call EXCEPT ![p].scan[Cursor(p)] = m, ![p].pc = l]
            BY <2>1 DEF Classify
        <3>. QED BY <1>0, <3>1
    <2>3. c.op = call[p].op /\ c.result = call[p].result /\ c.pc = l
        BY <1>0 DEF GoodCalls, Calls
    <2>4. l \notin DeletionLabels
        BY <1>3 DEF DeletionLabels
    <2>. QED BY <1>0, <1>7, <2>2, <2>3, <2>4, ScanRecordBarrierStep DEF Read, At
<1>8. CASE Select(p)
    <2>1. ASSUME NEW g, Prepare(p, g) PROVE BarrierStep(p)
        <3> DEFINE c == [call[p] EXCEPT !.pc = "stage", !.target = g]
        <3>1. call' = [call EXCEPT ![p] = c]
            BY <2>1 DEF Prepare
        <3>2. c.op = call[p].op /\ c.result = call[p].result /\ c.pc = "stage"
            BY <1>0 DEF GoodCalls, Calls
        <3>. QED BY <1>0, <1>8, <3>1, <3>2, ScanRecordBarrierStep DEF Select, At, DeletionLabels
    <2>2. ASSUME NEW r \in {"absent", "active", "recovered"}, NEW g, NEW d, Succeed(p, r, g, d)
          PROVE  BarrierStep(p)
        BY <1>0, <2>2, SucceedBarrierStep
    <2>. QED BY <1>2, <1>8, <2>1, <2>2
             DEF Select, SelectNothing, SelectLegacy, SelectCurrent, Failures
<1>9. CASE CheckWrite(p)
    <2>1. Goto(p, "stage") \/ \E f \in Failures : Fail(p, f)
        BY <1>9 DEF CheckWrite, WriteVerdicts, Failures
    <2>. QED BY <1>0, <1>2, <1>9, <2>1, GotoBarrierStep DEF CheckWrite, At, DeletionLabels, Blocked
<1>. QED BY <1>4, <1>5, <1>6, <1>7, <1>8, <1>9 DEF Scan

\* A commit step is not taken behind the barrier, so only the barrier, the call
\* and its outcome matter.
LEMMA CommitBarrierStep ==
    ASSUME GoodStates, BarrierHolds, NEW p \in Procs, Commit(p)
    PROVE  BarrierStep(p)
<1>0. call \in [Procs -> GoodCalls] /\ dir \in Directories
    BY DEF GoodStates
<1>1. call[p].pc \in CommitLabels
    BY DEF Commit, Stage, VerifyStaged, Link, Sync, VerifyFinal, Unstage, Cleanup, SyncCleanup, At,
           CommitLabels, ActivationLabels
<1>2. ~Barred
    <2>1. call[p].op \in {"write", "migrate"} /\ call[p].pc \notin Blocked
        BY <1>0, <1>1, OpOfLabel DEF Blocked, CommitLabels, ActivationLabels
    <2>. QED BY <2>1 DEF BarrierHolds
<1>3. dir'.marks = dir.marks
    BY <1>0 DEF Directories, Commit, Stage, VerifyStaged, Link, Sync, VerifyFinal, Unstage, Cleanup,
           SyncCleanup, RemoveTemp, RemoveFinal, Local
<1>4. ~Barred' /\ Shrinks
    BY <1>2, <1>3 DEF Barred, Shrinks
<1>5. ASSUME Alone(p), call'[p].pc \notin DeletionLabels,
             call'[p].result \in {call[p].result, "committed", "migrated"} \cup Failures
      PROVE  BarrierStep(p)
    BY <1>4, <1>5 DEF BarrierStep, Failures
<1>6. ASSUME NEW l \in CommitLabels \cup {"release"}, Goto(p, l) PROVE BarrierStep(p)
    BY <1>5, <1>6, GotoEffect DEF CommitLabels, ActivationLabels, DeletionLabels
<1>7. ASSUME NEW f \in Failures, Fail(p, f) PROVE BarrierStep(p)
    BY <1>4, <1>7, FailBarrierStep
<1>8. ASSUME NEW c, c.pc \notin DeletionLabels, c.result = call[p].result,
             call' = [call EXCEPT ![p] = c]
      PROVE  BarrierStep(p)
    <2>1. call'[p] = c /\ Alone(p)
        BY <1>0, <1>8 DEF Alone
    <2>. QED BY <1>5, <1>8, <2>1
<1>9. ASSUME NEW c \in Calls, c.pc \notin DeletionLabels, c.result = call[p].result,
             NEW t, RemoveTemp(p, t, c)
      PROVE  BarrierStep(p)
    <2>1. ASSUME NEW d PROVE [c EXCEPT !.debt = d].pc = c.pc /\ [c EXCEPT !.debt = d].result = c.result
        BY <1>9 DEF Calls
    <2>2. c.debt \in BOOLEAN
        BY DEF Calls
    <2>3. PICK d \in BOOLEAN : call' = [call EXCEPT ![p] = [c EXCEPT !.debt = d]]
        BY <1>9, <2>2 DEF RemoveTemp
    <2>. QED BY <1>8, <1>9, <2>1, <2>3
<1>10. ASSUME NEW c \in Calls, c.pc \notin DeletionLabels, c.result = call[p].result,
              NEW g, RemoveFinal(p, g, c)
       PROVE  BarrierStep(p)
    <2>1. ASSUME NEW d PROVE [c EXCEPT !.debt = d].pc = c.pc /\ [c EXCEPT !.debt = d].result = c.result
        BY <1>10 DEF Calls
    <2>2. c.debt \in BOOLEAN
        BY DEF Calls
    <2>3. PICK d \in BOOLEAN : call' = [call EXCEPT ![p] = [c EXCEPT !.debt = d]]
        BY <1>10, <2>2 DEF RemoveFinal
    <2>. QED BY <1>8, <1>10, <2>1, <2>3
<1>11. call[p] \in Calls
    BY <1>0 DEF GoodCalls
<1>12. CASE Stage(p)
    <2>1. ASSUME NEW n, call' = [call EXCEPT ![p].nonce = n, ![p].pc = "verifyStaged"]
          PROVE  BarrierStep(p)
        <3> DEFINE c == [call[p] EXCEPT !.nonce = n, !.pc = "verifyStaged"]
        <3>1. c.pc = "verifyStaged" /\ c.result = call[p].result
            BY <1>11 DEF Calls
        <3>2. call' = [call EXCEPT ![p] = c]
            BY <2>1
        <3>. QED BY <1>8, <3>1, <3>2 DEF DeletionLabels
    <2>. QED BY <1>7, <1>12, <2>1 DEF Stage, Failures
<1>13. CASE VerifyStaged(p) \/ Link(p) \/ Sync(p) \/ VerifyFinal(p)
    BY <1>6, <1>7, <1>13 DEF VerifyStaged, Link, Sync, VerifyFinal, Failures, CommitLabels,
       ActivationLabels
<1>14. CASE Unstage(p)
    <2> DEFINE l == IF call[p].result = "pending" THEN "cleanup" ELSE "release"
               c == [call[p] EXCEPT !.pc = l]
    <2>1. l \in Labels /\ l \notin DeletionLabels
        BY DEF Labels, CommitLabels, DeletionLabels
    <2>2. c \in Calls /\ c.pc = l /\ c.result = call[p].result
        BY <1>11, <2>1 DEF Calls
    <2>. QED BY <1>9, <1>14, <2>1, <2>2 DEF Unstage
<1>15. CASE Cleanup(p)
    <2>0. call[p].pc \notin DeletionLabels
        BY <1>1 DEF CommitLabels, ActivationLabels, DeletionLabels
    <2>1. ASSUME NEW t, RemoveTemp(p, t, [call[p] EXCEPT !.temps = @ \ {t}]) PROVE BarrierStep(p)
        <3> DEFINE c == [call[p] EXCEPT !.temps = @ \ {t}]
        <3>1. c \in Calls /\ c.pc = call[p].pc /\ c.result = call[p].result
            BY <1>11 DEF Calls
        <3>2. RemoveTemp(p, t, c)
            BY <2>1
        <3> HIDE DEF c
        <3>. QED BY <1>9, <2>0, <3>1, <3>2
    <2>2. ASSUME NEW g, RemoveFinal(p, g, [call[p] EXCEPT !.scan[g] = "unlisted"])
          PROVE  BarrierStep(p)
        <3> DEFINE c == [call[p] EXCEPT !.scan[g] = "unlisted"]
        <3>1. [call[p].scan EXCEPT ![g] = "unlisted"] \in [Generations -> Marks]
            BY <1>11 DEF Calls, Marks
        <3>2. c \in Calls /\ c.pc = call[p].pc /\ c.result = call[p].result
            BY <1>11, <3>1 DEF Calls
        <3>3. RemoveFinal(p, g, c)
            BY <2>2
        <3> HIDE DEF c
        <3>. QED BY <1>10, <2>0, <3>2, <3>3
    <2>. QED BY <1>6, <1>15, <2>1, <2>2 DEF Cleanup, CommitLabels
<1>16. CASE SyncCleanup(p)
    <2>1. ASSUME NEW r \in {"committed", "migrated"}, NEW g, NEW d, Succeed(p, r, g, d)
          PROVE  BarrierStep(p)
        BY <1>5, <2>1, SucceedEffect DEF DeletionLabels
    <2>. QED BY <1>7, <1>16, <2>1 DEF SyncCleanup, Committed, Failures
<1>. QED BY <1>12, <1>13, <1>14, <1>15, <1>16 DEF Commit
LEMMA DeletionBarrierStep ==
    ASSUME GoodStates, BarrierHolds, NEW p \in Procs, Deletion(p)
    PROVE  BarrierStep(p)
<1>0. call \in [Procs -> GoodCalls] /\ dir \in Directories
    BY DEF GoodStates
<1>1. call[p].pc \in DeletionSteps
    BY DEF Deletion, Inventory, RaiseBarrier, VerifyBarrier, SyncBarrier, Remove, SyncRemoved,
           Relist, At, DeletionSteps, DeletionLabels
<1>2. HoldsGate(p) /\ call[p].op = "delete" /\ call[p] \in Calls
    BY <1>0, <1>1, OpOfLabel DEF HoldsGate, DeletionSteps, DeletionLabels
<1>3. ASSUME NEW f \in Failures, Fail(p, f), UNCHANGED dir PROVE BarrierStep(p)
    BY <1>2, <1>3, FailBarrierStep DEF Shrinks, Barred, Present
<1>4. ASSUME NEW c, call' = [call EXCEPT ![p] = c], c.op = "delete", c.result = call[p].result,
             Shrinks, c.pc \in DeletionLabels => Barred'
      PROVE  BarrierStep(p)
    <2>1. call'[p] = c /\ Alone(p)
        BY <1>0, <1>4 DEF Alone
    <2>. QED BY <1>2, <1>4, <2>1 DEF BarrierStep
<1>5. ASSUME NEW l, Goto(p, l), Shrinks, l \in DeletionLabels => Barred' PROVE BarrierStep(p)
    BY <1>2, <1>5, GotoEffect DEF BarrierStep
<1>6. CASE Inventory(p)
    <2> DEFINE c == [call[p] EXCEPT !.scan = Listing, !.temps = dir.temps, !.pc = "raiseBarrier"]
    <2>1. c.op = "delete" /\ c.result = call[p].result /\ c.pc = "raiseBarrier"
        BY <1>2 DEF Calls
    <2>2. call' = [call EXCEPT ![p] = c] \/ Fail(p, "not-authorized")
        BY <1>6 DEF Inventory
    <2>3. UNCHANGED dir /\ Shrinks
        BY <1>6 DEF Inventory, Local, Shrinks, Barred, Present
    <2>. QED BY <1>3, <1>4, <2>1, <2>2, <2>3 DEF DeletionLabels, Failures
<1>7. CASE RaiseBarrier(p)
    <2>1. Shrinks
        BY <1>0, <1>7 DEF RaiseBarrier, Shrinks, Barred, Present, Directories
    <2>. QED BY <1>5, <1>7, <2>1 DEF RaiseBarrier, DeletionLabels
<1>8. CASE VerifyBarrier(p) \/ SyncBarrier(p) \/ SyncRemoved(p)
    <2>1. UNCHANGED dir /\ Shrinks /\ (Barred <=> Barred')
        BY <1>8 DEF VerifyBarrier, SyncBarrier, SyncRemoved, Local, Shrinks, Barred, Present
    <2>2. call[p].pc \in DeletionLabels => Barred
        BY DEF BarrierHolds
    <2>. QED BY <1>3, <1>5, <1>8, <2>1, <2>2
             DEF VerifyBarrier, SyncBarrier, SyncRemoved, At, DeletionLabels, Failures
<1>9. CASE Remove(p)
    <2>1. Barred /\ call[p].pc = "remove"
        BY <1>9 DEF Remove, At, BarrierHolds, DeletionLabels
    <2>2. Barred' /\ Shrinks
        BY <1>0, <1>9, <2>1 DEF Remove, Barred, Shrinks, Present, Directories, Stores
    <2>3. ASSUME NEW t, call' = [call EXCEPT ![p].temps = @ \ {t}] PROVE BarrierStep(p)
        <3> DEFINE c == [call[p] EXCEPT !.temps = @ \ {t}]
        <3>1. c.op = "delete" /\ c.result = call[p].result /\ c.pc = "remove"
            BY <1>2, <2>1 DEF Calls
        <3>2. call' = [call EXCEPT ![p] = c]
            BY <2>3
        <3>. QED BY <1>4, <2>2, <3>1, <3>2
    <2>4. ASSUME NEW g, call' = [call EXCEPT ![p].scan[g] = "unlisted"] PROVE BarrierStep(p)
        <3> DEFINE c == [call[p] EXCEPT !.scan[g] = "unlisted"]
        <3>1. c.op = "delete" /\ c.result = call[p].result /\ c.pc = "remove"
            BY <1>2, <2>1 DEF Calls
        <3>2. call' = [call EXCEPT ![p] = c]
            BY <2>4
        <3>. QED BY <1>4, <2>2, <3>1, <3>2
    <2>. QED BY <1>5, <1>9, <2>2, <2>3, <2>4 DEF Remove
<1>10. CASE Relist(p)
    <2>1. Barred
        BY <1>10 DEF Relist, At, BarrierHolds, DeletionLabels
    <2>2. CASE Succeed(p, "deleted", None, FALSE) /\ Empty
        BY <1>10, <2>2, SucceedBarrierStep DEF Relist, Local
    <2>. QED BY <1>3, <1>10, <2>1, <2>2 DEF Relist, Local, Empty, Failures
<1>. QED BY <1>6, <1>7, <1>8, <1>9, <1>10 DEF Deletion

LEMMA FailureBarrierStep ==
    ASSUME GoodStates, BarrierHolds, NEW p \in Procs,
           OperationFails(p) \/ CreationFails(p) \/ Crash(p)
    PROVE  BarrierStep(p)
<1>0. call \in [Procs -> GoodCalls] /\ dir \in Directories
    BY DEF GoodStates
<1>1. CASE OperationFails(p)
    <2>1. FailureAt(call[p].pc) \in Failures
        BY DEF FailureAt, Failures
    <2>. QED BY <1>1, <2>1, FailBarrierStep DEF OperationFails, Shrinks, Barred, Present
<1>2. CASE CreationFails(p)
    <2>1. Fail(p, "persistence-failed") /\ "persistence-failed" \in Failures
        BY <1>2 DEF CreationFails, Failures
    <2>2. CASE At(p, "acquire") /\ dir' = [dir EXCEPT !.marks = @ \cup {"gate"}]
        <3>1. Shrinks /\ (Barred <=> Barred')
            BY <1>0, <2>2 DEF Directories, Shrinks, Barred, Present
        <3>. QED BY <2>1, <3>1, FailBarrierStep
    <2>3. CASE At(p, "raiseBarrier") /\ dir' = [dir EXCEPT !.marks = @ \cup {"barrier"}]
        <3>1. Shrinks
            BY <1>0, <2>3 DEF Directories, Shrinks, Barred, Present
        <3>2. HoldsGate(p) /\ call[p].op = "delete"
            BY <1>0, <2>3, OpOfLabel DEF At, HoldsGate
        <3>. QED BY <2>1, <3>1, <3>2, FailBarrierStep
    <2>4. CASE At(p, "stage") /\ \E n : dir' = [dir EXCEPT !.temps = @ \cup {<<call[p].target, n>>}]
        <3>1. call[p].op \in {"write", "migrate"}
            BY <1>0, <2>4, OpOfLabel DEF At, CommitLabels
        <3>2. ~Barred
            BY <2>4, <3>1 DEF At, BarrierHolds, Blocked
        <3>3. ~Barred' /\ Shrinks
            BY <1>0, <2>4, <3>2 DEF Directories, Shrinks, Barred
        <3>. QED BY <2>1, <3>3, FailBarrierStep
    <2>. QED BY <1>2, <2>2, <2>3, <2>4 DEF CreationFails
<1>3. CASE Crash(p)
    <2>1. Shrinks
        BY <1>3 DEF Crash, Shrinks, Barred, Present
    <2>2. UNCHANGED dir /\ (Barred <=> Barred')
        BY <1>3 DEF Crash, Barred
    <2>3. /\ call'[p].pc = "idle" /\ call'[p].op = "idle" /\ call'[p].result = "crashed"
          /\ Alone(p)
        BY <1>3, ReturnEffect DEF Crash
    <2>. QED BY <2>1, <2>2, <2>3 DEF BarrierStep, DeletionLabels
<1>. QED BY <1>1, <1>2, <1>3

-----------------------------------------------------------------------------
\* The inductive invariant.
BarrierInv == GoodStates /\ GateExclusive /\ BarrierHolds /\ DeletedIsEmpty

LEMMA InitBarrierInv == Init => BarrierInv
<1>1. Init => BarrierHolds /\ DeletedIsEmpty
    BY DEF Init, Outcome, BarrierHolds, DeletedIsEmpty, Barred, DeletionLabels
<1>. QED BY <1>1, InitGood, InitGateExclusive DEF BarrierInv

LEMMA NextBarrier ==
    BarrierInv /\ [Next]_vars => BarrierInv' /\ Shrinks
<1> SUFFICES ASSUME BarrierInv, [Next]_vars PROVE BarrierHolds' /\ DeletedIsEmpty' /\ Shrinks
    BY NextGood, NextGateExclusive DEF BarrierInv
<1>0. GoodStates /\ GateExclusive /\ BarrierHolds /\ DeletedIsEmpty
    BY DEF BarrierInv
<1>1. ASSUME NEW p \in Procs, Call(p) \/ Step(p) \/ Crash(p)
      PROVE  BarrierHolds' /\ DeletedIsEmpty' /\ Shrinks
    <2>1. BarrierStep(p)
        BY <1>0, <1>1, CallBarrierStep, GateBarrierStep, ScanBarrierStep, CommitBarrierStep,
           DeletionBarrierStep, FailureBarrierStep DEF Step
    <2>. QED BY <1>0, <2>1, BarrierStepPreserves DEF BarrierStep
<1>2. ASSUME UNCHANGED call, Present' = Present, dir'.temps = dir.temps, Barred <=> Barred'
      PROVE  BarrierHolds' /\ DeletedIsEmpty' /\ Shrinks
    BY <1>0, <1>2 DEF BarrierHolds, DeletedIsEmpty, Shrinks
<1>3. CASE OwnerClearsGate
    BY <1>0, <1>2, <1>3 DEF OwnerClearsGate, GoodStates, Directories, Present, Barred
<1>4. ASSUME NEW g \in Generations, Damage(g) PROVE BarrierHolds' /\ DeletedIsEmpty' /\ Shrinks
    <2>1. Present' = Present
        BY <1>0, <1>4 DEF Damage, GoodStates, Directories, Stores, Present, Intact
    <2>. QED BY <1>0, <1>2, <1>4, <2>1 DEF Damage, GoodStates, Directories, Barred
<1>5. CASE UNCHANGED vars
    BY <1>2, <1>5 DEF vars, Present, Barred
<1>. QED BY <1>1, <1>3, <1>4, <1>5 DEF Next

\* A reported deletion is complete and stays complete (deleteLocalProfileStore).
THEOREM DeletionCorrect == Spec => []DeletedIsEmpty
<1>1. BarrierInv => DeletedIsEmpty
    BY DEF BarrierInv
<1>. QED BY <1>1, InitBarrierInv, NextBarrier, PTL DEF Spec

\* Behind the barrier no call resurrects the profile (reauthorize under the gate).
THEOREM BarrierCorrect == Spec => NoResurrection
<1>1. BarrierInv /\ [Next]_vars
      => [Barred => Barred' /\ dir'.temps \subseteq dir.temps /\ Present' \subseteq Present]_vars
    BY NextBarrier DEF Shrinks
<1>. QED BY <1>1, InitBarrierInv, NextBarrier, PTL DEF Spec, NoResurrection

\* No interleaving, failure, crash or recovery undoes a deletion
\* (deleteLocalProfileStore, reauthorize).
THEOREM DeletionFinal == Spec => DeletionIsFinal
BY BarrierCorrect, DeletionCorrect, PTL DEF DeletionIsFinal

-----------------------------------------------------------------------------
(* Commits and loads: the inductive invariant *)

\* No stored document is damaged: then what a scan found valid stays intact.
Undamaged == Budget["damage"] = 0

\* A mutation that has scanned, before and after the link that activates its candidate.
Scanned == {"stat", "read", "authorizeResult", "check", "stage", "verifyStaged", "link"}
Preparing(p) == call[p].op \in {"write", "migrate"} /\ call[p].pc \in Scanned
Committing(p) ==
    /\ call[p].op \in {"write", "migrate"}
    /\ \/ call[p].pc \in {"sync", "verifyFinal", "cleanup", "syncCleanup"}
       \/ At(p, "unstage") /\ call[p].result = "pending"
       \/ At(p, "release") /\ call[p].result \in {"committed", "migrated"}
OwnTemp(p) ==
    IF call[p].pc \in {"verifyStaged", "link", "sync", "verifyFinal", "unstage"} THEN {Staged(p)} ELSE {}

\* What the scan of a mutation says of the directory while nobody else can change it.
ScanGood(p) ==
    /\ ~ReadFaults => Invalid(p) \cap Intact = {}
    /\ Undamaged => Valid(p) \subseteq Intact
    /\ call[p].pc \notin {"stat", "read"} => Unread(p) = {}

\* Before the link it lists the directory, and the candidate follows all of it.
PreparedGood(p) ==
    /\ Seen(p) = Present
    /\ dir.temps \subseteq call[p].temps \cup OwnTemp(p)
    /\ call[p].pc \in {"stage", "verifyStaged", "link"} =>
          /\ call[p].target = NextGeneration(p)
          /\ call[p].op = "write" => Selected(p) = call[p].expected

\* After the link the candidate is the newest document; while there is no
\* maintenance debt, everything else is still to be removed.
CommittedGood(p) ==
    /\ call[p].target \in Present
    /\ Undamaged => call[p].target \in Intact
    /\ \A g \in Seen(p) : g < call[p].target
    /\ ~call[p].debt => /\ Present \subseteq Seen(p) \cup {call[p].target}
                        /\ dir.temps \subseteq call[p].temps \cup OwnTemp(p)
    /\ call[p].pc \in {"syncCleanup", "release"} => call[p].temps = {} /\ Removable(p) = {}

ResultGood(p) ==
    /\ call[p].pc \notin {"idle", "release"} => call[p].result \notin Successes
    /\ call[p].pc \notin {"idle", "release", "unstage"} => call[p].result = "pending"
    /\ call[p].op = "delete" => call[p].result \notin {"committed", "migrated"}

\* A scan that is under way has entries to read.
CommitGood(p) ==
    /\ ResultGood(p)
    /\ call[p].pc \in {"stat", "read"} => Unread(p) # {}
    /\ Preparing(p) \/ Committing(p) => ScanGood(p)
    /\ Preparing(p) => PreparedGood(p)
    /\ Committing(p) => CommittedGood(p)

\* A load that was called when generation n was the newest intact one will find it,
\* or a newer document in its place.
Reaches(S, n) == n = None \/ \E g \in S : g >= n
LoadGood(p) ==
    call[p].op = "load" =>
        /\ call[p].pc \in {"authorizeScan", "list"} => Barred \/ Reaches(Present, call[p].floor)
        /\ call[p].pc \in {"stat", "read", "authorizeResult"} => Reaches(Seen(p), call[p].floor) \/ Barred
        /\ call[p].pc = "authorizeResult" => Unread(p) = {}

CommitInv == \A p \in Procs : CommitGood(p) /\ LoadGood(p)

-----------------------------------------------------------------------------
(* What a step of p has to establish *)

\* The directory lists the same entries.
Kept == dir'.finals = dir.finals /\ dir'.temps = dir.temps

\* Unless the store is barred, no document is removed that a newer one does not replace.
Grows == Barred' \/ \A g \in Present : Reaches(Present', g)

CommitStep(p) ==
    /\ Alone(p)
    /\ HoldsGate(p) \/ Kept
    /\ Grows
    /\ CommitGood(p)' /\ LoadGood(p)'

LEMMA KeptSets ==
    ASSUME Kept
    PROVE  Present' = Present /\ Intact' = Intact /\ Grows
<1>1. Present' = Present /\ Intact' = Intact
    BY DEF Kept, Present, Intact
<1>2. \A g \in Present : g >= g
    BY ConstantsAssumption DEF Present, Generations
<1>. QED BY <1>1, <1>2 DEF Grows, Reaches

\* The sets of a scan depend on the scan only.
LEMMA SameScan ==
    ASSUME NEW p, call'[p].scan = call[p].scan
    PROVE  /\ Seen(p)' = Seen(p) /\ Unread(p)' = Unread(p)
           /\ Valid(p)' = Valid(p) /\ Invalid(p)' = Invalid(p)
           /\ Selected(p)' = Selected(p) /\ NextGeneration(p)' = NextGeneration(p)
           /\ Removable(p)' = Removable(p)
<1>1. /\ Seen(p)' = Seen(p) /\ Unread(p)' = Unread(p)
      /\ Valid(p)' = Valid(p) /\ Invalid(p)' = Invalid(p)
    BY DEF Seen, Unread, Valid, Invalid, Marked
<1>2. Selected(p)' = Selected(p) /\ NextGeneration(p)' = NextGeneration(p)
    BY <1>1 DEF Selected, NextGeneration
<1>. QED BY <1>1, <1>2 DEF Removable

\* A mutation that has listed the directory holds the gate.
LEMMA CommitterHolds ==
    ASSUME NEW p, Preparing(p) \/ Committing(p)
    PROVE  HoldsGate(p)
BY DEF Preparing, Committing, Scanned, HoldsGate, At

\* A generation that could be reached still can.
LEMMA ReachesLater ==
    ASSUME NEW n \in Generations \cup {None}, Grows, Reaches(Present, n)
    PROVE  Barred' \/ Reaches(Present', n)
<1>1. CASE n = None \/ Barred'
    BY <1>1 DEF Reaches
<1>2. CASE n # None /\ ~Barred'
    <2>1. PICK g \in Present : g >= n
        BY <1>2 DEF Reaches
    <2>2. g \in Nat /\ n \in Nat
        BY <1>2, <2>1, ConstantsAssumption DEF Present, Generations
    <2>3. Reaches(Present', g) /\ g # None
        BY <1>2, <2>2 DEF Grows, None
    <2>4. PICK h \in Present' : h >= g
        BY <2>3 DEF Reaches
    <2>5. h \in Nat
        BY <2>4, ConstantsAssumption DEF Present, Generations
    <2>6. h >= n
        BY <2>1, <2>2, <2>4, <2>5
    <2>. QED BY <2>4, <2>6 DEF Reaches
<1>. QED BY <1>1, <1>2

\* The invariant of a call that did not move.
LEMMA OtherKept ==
    ASSUME GoodStates, GateExclusive, CommitInv, Shrinks, NEW p \in Procs, CommitStep(p),
           NEW q \in Procs, q # p
    PROVE  CommitGood(q)' /\ LoadGood(q)'
<1>0. CommitGood(q) /\ LoadGood(q) /\ call'[q] = call[q]
    BY DEF CommitInv, CommitStep, Alone
<1>1. /\ Seen(q)' = Seen(q) /\ Unread(q)' = Unread(q)
      /\ Valid(q)' = Valid(q) /\ Invalid(q)' = Invalid(q)
      /\ Selected(q)' = Selected(q) /\ NextGeneration(q)' = NextGeneration(q)
      /\ Removable(q)' = Removable(q)
    BY <1>0, SameScan
<1>2. /\ Preparing(q)' <=> Preparing(q)
      /\ Committing(q)' <=> Committing(q)
      /\ OwnTemp(q)' = OwnTemp(q)
      /\ ResultGood(q)' <=> ResultGood(q)
    BY <1>0 DEF Preparing, Committing, At, OwnTemp, Staged, ResultGood
<1>3. ASSUME Preparing(q) \/ Committing(q)
      PROVE  Present' = Present /\ Intact' = Intact /\ dir'.temps = dir.temps
    <2>1. HoldsGate(q)
        BY <1>3, CommitterHolds
    <2>2. Kept
        BY <2>1 DEF CommitStep, GateExclusive
    <2>. QED BY <2>2, KeptSets DEF Kept
<1>4. ASSUME Preparing(q) \/ Committing(q) PROVE ScanGood(q)'
    BY <1>0, <1>1, <1>3, <1>4 DEF CommitGood, ScanGood, Undamaged
<1>5. ASSUME Preparing(q) PROVE PreparedGood(q)'
    BY <1>0, <1>1, <1>2, <1>3, <1>5 DEF CommitGood, PreparedGood
<1>6. ASSUME Committing(q) PROVE CommittedGood(q)'
    BY <1>0, <1>1, <1>2, <1>3, <1>6 DEF CommitGood, CommittedGood, Undamaged
<1>7. CommitGood(q)'
    BY <1>0, <1>1, <1>2, <1>4, <1>5, <1>6 DEF CommitGood
<1>8. LoadGood(q)'
    <2>1. Barred \/ Reaches(Present, call[q].floor) => Barred' \/ Reaches(Present', call[q].floor)
        <3>1. call[q].floor \in Generations \cup {None}
            BY DEF GoodStates, GoodCalls, Calls
        <3>. QED BY <3>1, ReachesLater DEF CommitStep, Shrinks
    <2>. QED BY <1>0, <1>1, <2>1 DEF LoadGood, Shrinks
<1>. QED BY <1>7, <1>8

LEMMA CommitStepPreserves ==
    ASSUME GoodStates, GateExclusive, CommitInv, Shrinks, NEW p \in Procs, CommitStep(p)
    PROVE  CommitInv'
BY OtherKept DEF CommitInv, CommitStep

-----------------------------------------------------------------------------
(* Steps that end a call or a phase *)

LEMMA EndedGood ==
    ASSUME NEW p, call'[p].pc = "idle", call'[p].op = "idle"
    PROVE  CommitGood(p)' /\ LoadGood(p)'
<1>1. ResultGood(p)'
    BY DEF ResultGood
<1>2. ~Preparing(p)' /\ ~Committing(p)'
    BY DEF Preparing, Committing
<1>. QED BY <1>1, <1>2 DEF CommitGood, LoadGood

\* Call p waits to release its gate or to remove its staging file.
LEMMA WindingDownGood ==
    ASSUME NEW p, call'[p].op # "load", call'[p].result \notin {"committed", "migrated"},
           \/ call'[p].pc = "release"
           \/ call'[p].pc = "unstage" /\ call'[p].result \in Failures
    PROVE  CommitGood(p)' /\ LoadGood(p)'
<1>1. ResultGood(p)'
    BY DEF ResultGood, Failures, Successes
<1>2. ~Preparing(p)' /\ ~Committing(p)'
    BY DEF Preparing, Committing, Scanned, At, Failures
<1>. QED BY <1>1, <1>2 DEF CommitGood, LoadGood

LEMMA FailCommitGood ==
    ASSUME GoodStates, NEW p \in Procs, NEW f \in Failures, Fail(p, f)
    PROVE  CommitGood(p)' /\ LoadGood(p)' /\ Alone(p)
<1>1. CASE HoldsGate(p)
    BY <1>1, FailEffect, WindingDownGood DEF HoldsGate, Failures
<1>2. CASE ~HoldsGate(p)
    BY <1>2, FailEffect, EndedGood
<1>. QED BY <1>1, <1>2

LEMMA SucceedCommitGood ==
    ASSUME GoodStates, NEW p \in Procs, NEW r, r \notin {"committed", "migrated"},
           NEW g, NEW d, Succeed(p, r, g, d)
    PROVE  CommitGood(p)' /\ LoadGood(p)' /\ Alone(p)
<1>1. CASE HoldsGate(p)
    BY <1>1, SucceedEffect, WindingDownGood DEF HoldsGate
<1>2. CASE ~HoldsGate(p)
    BY <1>2, SucceedEffect, EndedGood
<1>. QED BY <1>1, <1>2

\* A step to another label keeps every other field of the call.
LEMMA GotoKeeps ==
    ASSUME GoodStates, NEW p \in Procs, NEW l, Goto(p, l)
    PROVE  /\ call'[p].pc = l /\ call'[p].op = call[p].op /\ call'[p].result = call[p].result
           /\ call'[p].expected = call[p].expected /\ call'[p].target = call[p].target
           /\ call'[p].nonce = call[p].nonce /\ call'[p].scan = call[p].scan
           /\ call'[p].temps = call[p].temps /\ call'[p].floor = call[p].floor
           /\ call'[p].debt = call[p].debt /\ Alone(p)
BY DEF Goto, GoodStates, GoodCalls, Calls, Alone

\* A deletion says nothing of the directory here.
LEMMA DeletingGood ==
    ASSUME NEW p, call'[p].op = "delete", ResultGood(p)', call'[p].pc \notin {"stat", "read"}
    PROVE  CommitGood(p)' /\ LoadGood(p)'
<1>1. ~Preparing(p)' /\ ~Committing(p)'
    BY DEF Preparing, Committing
<1>. QED BY <1>1 DEF CommitGood, LoadGood

LEMMA FailCommitStep ==
    ASSUME GoodStates, NEW p \in Procs, NEW f \in Failures, Fail(p, f), Kept
    PROVE  CommitStep(p)
BY FailCommitGood, KeptSets DEF CommitStep

LEMMA SucceedCommitStep ==
    ASSUME GoodStates, NEW p \in Procs, NEW r, r \notin {"committed", "migrated"},
           NEW g, NEW d, Succeed(p, r, g, d), Kept
    PROVE  CommitStep(p)
BY SucceedCommitGood, KeptSets DEF CommitStep

LEMMA ReturnCommitStep ==
    ASSUME GoodStates, NEW p \in Procs, NEW r, NEW g, NEW d, Return(p, r, g, d), Kept
    PROVE  CommitStep(p)
BY ReturnEffect, EndedGood, KeptSets DEF CommitStep

-----------------------------------------------------------------------------
(* Calls, the gate and the scan *)

\* A call that has not listed the directory yet.
Unlisted == {"authorize", "acquire", "authorizeHeld", "authorizeScan", "list", "inventory"}

LEMMA UnlistedGood ==
    ASSUME NEW p, call'[p].pc \in Unlisted, call'[p].result = "pending",
           call'[p].op = "load" => Barred' \/ Reaches(Present', call'[p].floor)
    PROVE  CommitGood(p)' /\ LoadGood(p)'
<1>1. ResultGood(p)'
    BY DEF ResultGood, Successes
<1>2. ~Preparing(p)' /\ ~Committing(p)'
    BY DEF Preparing, Committing, Scanned, At, Unlisted
<1>. QED BY <1>1, <1>2 DEF CommitGood, LoadGood, Unlisted

LEMMA CallCommitStep ==
    ASSUME GoodStates, NEW p \in Procs, Call(p)
    PROVE  CommitStep(p)
<1>1. ASSUME NEW op, NEW l \in Unlisted, NEW e, NEW g, Start(p, op, l, e, g)
      PROVE  CommitStep(p)
    <2> DEFINE f == IF op = "load" THEN Newest(Intact) ELSE None
               c == [Outcome(op, "pending", g, FALSE) EXCEPT !.pc = l, !.expected = e, !.floor = f]
    <2>1. c.pc = l /\ c.op = op /\ c.result = "pending" /\ c.floor = f
        BY DEF Outcome
    <2>2. call' = [call EXCEPT ![p] = c] /\ UNCHANGED dir
        BY <1>1 DEF Start, Local
    <2>3. call'[p] = c /\ Alone(p)
        BY <2>2 DEF GoodStates, Alone
    <2>4. Kept
        BY <2>2 DEF Kept
    <2>5. Reaches(Present, f)
        <3>1. Newest(Intact) \in Intact \cup {None}
            BY NewestFacts DEF Intact
        <3>2. \A g1 \in Present : g1 >= g1
            BY ConstantsAssumption DEF Present, Generations
        <3>. QED BY <3>1, <3>2 DEF Reaches, Intact, Present
    <2> HIDE DEF c, f
    <2>6. CommitGood(p)' /\ LoadGood(p)'
        BY <2>1, <2>3, <2>4, <2>5, KeptSets, UnlistedGood
    <2>. QED BY <2>3, <2>4, <2>6, KeptSets DEF CommitStep
<1>. QED BY <1>1 DEF Call, CallLoad, CallMigrate, CallWrite, CallDelete, Unlisted

LEMMA GateCommitStep ==
    ASSUME GoodStates, CommitInv, NEW p \in Procs, Gate(p)
    PROVE  CommitStep(p)
<1>0. /\ dir \in Directories /\ call \in [Procs -> GoodCalls]
      /\ CommitGood(p)
    BY DEF GoodStates, CommitInv
<1>1. Kept
    BY <1>0 DEF Gate, Acquire, Release, Kept, Directories
<1>2. CASE Acquire(p)
    <2>1. CASE Goto(p, "authorizeHeld")
        <3>1. call[p].op # "load" /\ call[p].result = "pending"
            BY <1>0, <1>2, OpOfLabel DEF Acquire, At, MutationLabels, CommitGood, ResultGood
        <3>2. CommitGood(p)' /\ LoadGood(p)' /\ Alone(p)
            BY <2>1, <3>1, GotoKeeps, UnlistedGood DEF Unlisted
        <3>. QED BY <1>1, <3>2, KeptSets DEF CommitStep
    <2>. QED BY <1>1, <1>2, <2>1, FailCommitStep DEF Acquire, Failures
<1>3. CASE Release(p)
    <2>1. \E r, g, d : Return(p, r, g, d)
        BY <1>3 DEF Release
    <2>. QED BY <1>1, <2>1, ReturnCommitStep
<1>. QED BY <1>2, <1>3 DEF Gate

LEMMA AuthorizeCommitStep ==
    ASSUME GoodStates, CommitInv, NEW p \in Procs, Authorize(p)
    PROVE  CommitStep(p)
<1>0. /\ Kept /\ call \in [Procs -> GoodCalls] /\ CommitGood(p) /\ LoadGood(p)
      /\ call[p].pc \in {"authorize", "authorizeHeld", "authorizeScan"}
    BY DEF GoodStates, Authorize, Local, Kept, CommitInv, Reauthorizations
<1>1. CASE Admitted(p)
    <2> DEFINE l == AfterAuthorize(p)
    <2>1. Goto(p, l) /\ l \in Unlisted
        BY <1>0, <1>1 DEF Authorize, AfterAuthorize, At, Unlisted
    <2>2. call[p].result = "pending"
        BY <1>0 DEF CommitGood, ResultGood
    <2>3. call[p].op = "load" => Reaches(Present, call[p].floor)
        <3>1. call[p].op = "load" => call[p].pc = "authorizeScan"
            BY <1>0, OpOfLabel DEF MutationLabels
        <3>. QED BY <1>0, <1>1, <3>1 DEF LoadGood, Admitted
    <2> HIDE DEF l
    <2>4. CommitGood(p)' /\ LoadGood(p)' /\ Alone(p)
        BY <1>0, <2>1, <2>2, <2>3, GotoKeeps, UnlistedGood, KeptSets
    <2>. QED BY <1>0, <2>4, KeptSets DEF CommitStep
<1>2. CASE ~Admitted(p)
    BY <1>0, <1>2, FailCommitStep DEF Authorize, Failures
<1>. QED BY <1>1, <1>2

LEMMA ListCommitStep ==
    ASSUME GoodStates, CommitInv, NEW p \in Procs, List(p)
    PROVE  CommitStep(p)
<1>0. /\ UNCHANGED dir /\ Kept /\ call \in [Procs -> GoodCalls] /\ CommitGood(p) /\ LoadGood(p)
      /\ call[p].pc = "list"
    BY DEF GoodStates, List, At, Local, Kept, CommitInv
<1>1. CASE ScanFits
    <2> DEFINE l == IF Present = {} THEN AfterScan(p) ELSE "stat"
               c == [call[p] EXCEPT !.scan = Listing, !.temps = dir.temps, !.pc = l]
    <2>1. call' = [call EXCEPT ![p] = c]
        BY <1>1 DEF List
    <2>2. /\ c.pc = l /\ c.op = call[p].op /\ c.result = call[p].result
          /\ c.scan = Listing /\ c.temps = dir.temps /\ c.floor = call[p].floor
        BY <1>0 DEF GoodCalls, Calls
    <2>3. call'[p] = c /\ Alone(p)
        BY <1>0, <2>1 DEF Alone
    <2>4. Present' = Present /\ Intact' = Intact /\ Grows
        BY <1>0, KeptSets
    <2>5. Seen(p)' = Present /\ Unread(p)' = Present /\ Valid(p)' = {} /\ Invalid(p)' = {}
        BY <2>2, <2>3 DEF Seen, Unread, Valid, Invalid, Marked, Listing, Present
    <2>6. l \in {"stat", "check", "authorizeResult"} /\ (l = "stat" <=> Present # {})
        BY DEF AfterScan
    <2>7. call[p].result = "pending"
        BY <1>0 DEF CommitGood, ResultGood
    <2> HIDE DEF l, c
    <2>8. ResultGood(p)'
        BY <2>2, <2>3, <2>7 DEF ResultGood, Successes
    <2>9. ~Committing(p)'
        BY <2>2, <2>3, <2>6 DEF Committing, At
    <2>10. ScanGood(p)' /\ PreparedGood(p)'
        BY <1>0, <2>2, <2>3, <2>4, <2>5, <2>6 DEF ScanGood, PreparedGood, Kept
    <2>11. LoadGood(p)'
        BY <1>0, <2>2, <2>3, <2>4, <2>5, <2>6 DEF LoadGood, Barred
    <2>. QED BY <1>0, <2>2, <2>3, <2>4, <2>5, <2>6, <2>8, <2>9, <2>10, <2>11
             DEF CommitStep, CommitGood
<1>2. CASE ~ScanFits
    BY <1>0, <1>2, FailCommitStep DEF List, Failures
<1>. QED BY <1>1, <1>2

\* A mutation that moves on within its preparation.
LEMMA PreparingGood ==
    ASSUME NEW p \in Procs, Kept, CommitGood(p), Preparing(p),
           call'[p].op = call[p].op, call'[p].result = call[p].result,
           call'[p].scan = call[p].scan, call'[p].temps = call[p].temps,
           call'[p].pc \in Scanned,
           call[p].pc \in {"stat", "read"} <=> call'[p].pc \in {"stat", "read"},
           OwnTemp(p) \subseteq OwnTemp(p)',
           call'[p].pc \in {"stage", "verifyStaged", "link"}
              => /\ call'[p].target = NextGeneration(p)
                 /\ call[p].op = "write" => Selected(p) = call'[p].expected
    PROVE  CommitGood(p)' /\ LoadGood(p)'
<1>0. ResultGood(p) /\ ScanGood(p) /\ PreparedGood(p)
    BY DEF CommitGood
<1>1. /\ Seen(p)' = Seen(p) /\ Unread(p)' = Unread(p)
      /\ Valid(p)' = Valid(p) /\ Invalid(p)' = Invalid(p)
      /\ Selected(p)' = Selected(p) /\ NextGeneration(p)' = NextGeneration(p)
    BY SameScan
<1>2. Present' = Present /\ Intact' = Intact /\ dir'.temps = dir.temps
    BY KeptSets DEF Kept
<1>3. call[p].pc \in Scanned /\ call[p].op \in {"write", "migrate"}
    BY DEF Preparing
<1>4. call[p].result = "pending"
    BY <1>0, <1>3 DEF ResultGood, Scanned
<1>5. ResultGood(p)'
    BY <1>4 DEF ResultGood, Successes
<1>6. ~Committing(p)'
    BY DEF Committing, Scanned, At
<1>7. ScanGood(p)'
    BY <1>0, <1>1, <1>2 DEF ScanGood, Undamaged
<1>8. PreparedGood(p)'
    BY <1>0, <1>1, <1>2 DEF PreparedGood
<1>9. call'[p].pc \in {"stat", "read"} => Unread(p)' # {}
    BY <1>1 DEF CommitGood
<1>10. LoadGood(p)'
    BY <1>3 DEF LoadGood
<1>. QED BY <1>5, <1>6, <1>7, <1>8, <1>9, <1>10 DEF CommitGood

LEMMA StatCommitStep ==
    ASSUME GoodStates, CommitInv, NEW p \in Procs, Stat(p)
    PROVE  CommitStep(p)
<1>0. /\ UNCHANGED dir /\ Kept /\ call \in [Procs -> GoodCalls] /\ CommitGood(p) /\ LoadGood(p)
      /\ call[p].pc = "stat"
    BY DEF GoodStates, Stat, At, Local, Kept, CommitInv
<1>1. CASE Goto(p, "read")
    <2>1. /\ call'[p].pc = "read" /\ call'[p].op = call[p].op /\ call'[p].result = call[p].result
          /\ call'[p].scan = call[p].scan /\ call'[p].temps = call[p].temps
          /\ call'[p].floor = call[p].floor /\ Alone(p)
        BY <1>1, GotoKeeps
    <2>2. call[p].op \in {"load", "write", "migrate"}
        BY <1>0, OpOfLabel DEF ScanLabels
    <2>3. CASE call[p].op = "load"
        <3>1. Seen(p)' = Seen(p) /\ Unread(p)' = Unread(p)
            BY <2>1, SameScan
        <3>2. call[p].result = "pending" /\ Unread(p) # {}
            BY <1>0 DEF CommitGood, ResultGood
        <3>3. CommitGood(p)'
            BY <2>1, <2>3, <3>1, <3>2
               DEF CommitGood, ResultGood, Successes, Preparing, Committing, At
        <3>4. LoadGood(p)'
            BY <1>0, <2>1, <2>3, <3>1 DEF LoadGood, Barred
        <3>. QED BY <1>0, <2>1, <3>3, <3>4, KeptSets DEF CommitStep
    <2>4. CASE call[p].op # "load"
        <3>1. Preparing(p)
            BY <1>0, <2>2, <2>4 DEF Preparing, Scanned
        <3>2. OwnTemp(p) = {}
            BY <1>0 DEF OwnTemp
        <3>3. CommitGood(p)' /\ LoadGood(p)'
            BY <1>0, <2>1, <3>1, <3>2, PreparingGood DEF Scanned
        <3>. QED BY <1>0, <2>1, <3>3, KeptSets DEF CommitStep
    <2>. QED BY <2>3, <2>4
<1>2. CASE ~Goto(p, "read")
    BY <1>0, <1>2, FailCommitStep DEF Stat, Failures
<1>. QED BY <1>1, <1>2

LEMMA ReadCommitStep ==
    ASSUME GoodStates, CommitInv, NEW p \in Procs, Read(p)
    PROVE  CommitStep(p)
<1>0. /\ UNCHANGED dir /\ Kept /\ call \in [Procs -> GoodCalls] /\ dir \in Directories
      /\ CommitGood(p) /\ LoadGood(p) /\ call[p].pc = "read"
    BY DEF GoodStates, Read, At, Kept, CommitInv
<1>1. Cursor(p) \in Unread(p) /\ Cursor(p) \in Generations
    <2>1. Unread(p) # {} /\ Unread(p) \subseteq Nat
        BY <1>0, ScanSets, ConstantsAssumption DEF CommitGood, Generations
    <2>2. Min(Unread(p)) \in Unread(p)
        BY <2>1, MinFacts
    <2>. QED BY <2>2, ScanSets DEF Cursor
<1>2. PICK m \in {"current", "legacy", "unsupported", "invalid"} :
         /\ Classify(p, m)
         /\ m \in {"current", "legacy"} => Cursor(p) \in Intact
         /\ ~ReadFaults => (m \in {"unsupported", "invalid"} => Cursor(p) \notin Intact)
    BY <1>1 DEF Read, MarkOf, Intact
<1> DEFINE x == Cursor(p)
           s == [call[p].scan EXCEPT ![x] = m]
           l == IF Unread(p) = {x} THEN AfterScan(p) ELSE "stat"
           c == [call[p] EXCEPT !.scan = s, !.pc = l]
<1>3. call' = [call EXCEPT ![p] = c]
    <2>1. call' = [call EXCEPT ![p].scan[x] = m, ![p].pc = l]
        BY <1>2 DEF Classify
    <2>. QED BY <1>0, <2>1
<1>4. /\ c.pc = l /\ c.op = call[p].op /\ c.result = call[p].result
      /\ c.scan = s /\ c.temps = call[p].temps /\ c.floor = call[p].floor
    BY <1>0 DEF GoodCalls, Calls
<1>5. call'[p] = c /\ Alone(p)
    BY <1>0, <1>3 DEF Alone
<1>6. call[p].scan \in [Generations -> Marks] /\ x \in Generations /\ call[p].scan[x] = "listed"
    BY <1>0, <1>1, FieldsOfCall DEF Unread, Marked
<1>7. l \in {"stat", "check", "authorizeResult"} /\ (l = "stat" <=> Unread(p) # {x})
    BY DEF AfterScan
<1> HIDE DEF x, l, c
<1>8. /\ Seen(p)' = Seen(p) /\ Unread(p)' = Unread(p) \ {x}
      /\ Valid(p)' = Valid(p) \cup (IF m \in {"current", "legacy"} THEN {x} ELSE {})
      /\ Invalid(p)' = Invalid(p) \cup (IF m \in {"unsupported", "invalid"} THEN {x} ELSE {})
    BY <1>4, <1>5, <1>6 DEF Seen, Unread, Valid, Invalid, Marked
<1>9. Present' = Present /\ Intact' = Intact /\ Grows /\ dir'.temps = dir.temps
    BY <1>0, KeptSets
<1>10. call[p].result = "pending" /\ Unread(p) # {} /\ x \in Unread(p)
    BY <1>0, <1>1 DEF CommitGood, ResultGood, x
<1>11. ResultGood(p)' /\ ~Committing(p)'
    BY <1>4, <1>5, <1>7, <1>10 DEF ResultGood, Successes, Committing, At
<1>12. /\ call'[p].pc = "stat" => Unread(p)' # {}
       /\ call'[p].pc # "stat" => Unread(p)' = {}
    BY <1>4, <1>5, <1>7, <1>8, <1>10
<1>13. ASSUME Preparing(p)' PROVE ScanGood(p)' /\ PreparedGood(p)'
    <2>1. Preparing(p) /\ ScanGood(p) /\ PreparedGood(p)
        BY <1>0, <1>4, <1>5, <1>13 DEF Preparing, Scanned, CommitGood
    <2>2. ScanGood(p)'
        BY <1>2, <1>7, <1>8, <1>9, <1>12, <1>4, <1>5, <2>1 DEF ScanGood, Undamaged, x
    <2>3. OwnTemp(p) = {}
        BY <1>0 DEF OwnTemp
    <2>4. PreparedGood(p)'
        BY <1>4, <1>5, <1>7, <1>8, <1>9, <2>1, <2>3 DEF PreparedGood
    <2>. QED BY <2>2, <2>4
<1>14. LoadGood(p)'
    BY <1>0, <1>4, <1>5, <1>7, <1>8, <1>12 DEF LoadGood, Barred
<1>. QED BY <1>0, <1>4, <1>5, <1>7, <1>9, <1>11, <1>12, <1>13, <1>14 DEF CommitStep, CommitGood

\* Every listed generation is unread, valid or invalid.
LEMMA SeenParts ==
    ASSUME GoodStates, NEW p \in Procs
    PROVE  Seen(p) = Unread(p) \cup Valid(p) \cup Invalid(p)
<1>1. call[p].scan \in [Generations -> Marks]
    BY FieldsOfCall DEF GoodStates
<1>. QED BY <1>1 DEF Seen, Unread, Valid, Invalid, Marked, Marks

\* The next generation exceeds everything that was listed.
LEMMA NextExceeds ==
    ASSUME NEW p
    PROVE  /\ NextGeneration(p) \in Int
           /\ \A g \in Seen(p) : g < NextGeneration(p)
           /\ Seen(p) = {} => NextGeneration(p) = 0
<1>1. /\ Newest(Seen(p)) \in Generations \cup {None}
      /\ \A g \in Seen(p) : g <= Newest(Seen(p))
      /\ Seen(p) = {} <=> Newest(Seen(p)) = None
    BY ScanSets, NewestFacts
<1>2. Seen(p) \subseteq Int /\ Generations \cup {None} \subseteq Int
    BY ScanSets, ConstantsAssumption DEF Generations, None
<1>. QED BY <1>1, <1>2 DEF NextGeneration, None

LEMMA SelectCommitStep ==
    ASSUME GoodStates, CommitInv, NEW p \in Procs, Select(p)
    PROVE  CommitStep(p)
<1>0. /\ Kept /\ call \in [Procs -> GoodCalls] /\ CommitGood(p) /\ call[p].pc = "authorizeResult"
    BY DEF GoodStates, Select, At, Local, Kept, CommitInv
<1>1. ASSUME NEW f \in Failures, Fail(p, f) PROVE CommitStep(p)
    BY <1>0, <1>1, FailCommitStep
<1>2. ASSUME NEW r \in {"absent", "active", "recovered"}, NEW g, NEW d, Succeed(p, r, g, d)
      PROVE  CommitStep(p)
    BY <1>0, <1>2, SucceedCommitStep
<1>3. ASSUME call[p].op # "load", Prepare(p, NextGeneration(p)) PROVE CommitStep(p)
    <2> DEFINE g == NextGeneration(p)
               c == [call[p] EXCEPT !.pc = "stage", !.target = g]
    <2>1. call' = [call EXCEPT ![p] = c]
        BY <1>3 DEF Prepare
    <2>2. /\ c.pc = "stage" /\ c.op = call[p].op /\ c.result = call[p].result
          /\ c.scan = call[p].scan /\ c.temps = call[p].temps /\ c.target = NextGeneration(p)
        BY <1>0 DEF GoodCalls, Calls
    <2>3. call'[p] = c /\ Alone(p)
        BY <1>0, <2>1 DEF Alone
    <2>4. call[p].op = "migrate"
        BY <1>0, <1>3, OpOfLabel
    <2> HIDE DEF c
    <2>5. Preparing(p) /\ OwnTemp(p) = {}
        BY <1>0, <2>4 DEF Preparing, Scanned, OwnTemp
    <2>6. CommitGood(p)' /\ LoadGood(p)'
        BY <1>0, <2>2, <2>3, <2>4, <2>5, PreparingGood DEF Scanned
    <2>. QED BY <1>0, <2>3, <2>6, KeptSets DEF CommitStep
<1>4. CASE SelectNothing(p)
    BY <1>1, <1>2, <1>4 DEF SelectNothing, Failures
<1>5. CASE SelectLegacy(p)
    BY <1>1, <1>3, <1>5 DEF SelectLegacy, Failures
<1>6. CASE SelectCurrent(p)
    BY <1>1, <1>2, <1>6 DEF SelectCurrent, Failures
<1>. QED BY <1>1, <1>4, <1>5, <1>6 DEF Select, Failures

LEMMA CheckWriteCommitStep ==
    ASSUME GoodStates, CommitInv, NEW p \in Procs, CheckWrite(p)
    PROVE  CommitStep(p)
<1>0. /\ Kept /\ call \in [Procs -> GoodCalls] /\ CommitGood(p) /\ call[p].pc = "check"
      /\ call[p].op = "write"
    <2>1. /\ Kept /\ call \in [Procs -> GoodCalls] /\ CommitGood(p) /\ call[p].pc = "check"
        BY DEF GoodStates, CheckWrite, At, Local, Kept, CommitInv
    <2>. QED BY <2>1, OpOfLabel
<1>1. Preparing(p) /\ OwnTemp(p) = {} /\ ScanGood(p)
    BY <1>0 DEF Preparing, Scanned, OwnTemp, CommitGood
<1>2. CASE "accepted" \in WriteVerdicts(p) /\ Goto(p, "stage")
    <2>1. Selected(p) = call[p].expected
        BY <1>2 DEF WriteVerdicts
    <2>2. call[p].target = NextGeneration(p)
        <3>1. CASE Selected(p) = None
            <4>1. Invalid(p) = {} /\ call[p].target = 0
                BY <1>2, <3>1 DEF WriteVerdicts
            <4>2. Valid(p) = {}
                BY <3>1, ScanSets, NewestFacts DEF Selected
            <4>3. Unread(p) = {}
                BY <1>0, <1>1 DEF ScanGood
            <4>. QED BY <4>1, <4>2, <4>3, SeenParts, NextExceeds
        <3>2. CASE Selected(p) # None
            BY <1>2, <3>2 DEF WriteVerdicts
        <3>. QED BY <3>1, <3>2
    <2>3. /\ call'[p].pc = "stage" /\ call'[p].op = call[p].op /\ call'[p].result = call[p].result
          /\ call'[p].scan = call[p].scan /\ call'[p].temps = call[p].temps
          /\ call'[p].target = call[p].target /\ call'[p].expected = call[p].expected /\ Alone(p)
        BY <1>2, GotoKeeps
    <2>4. CommitGood(p)' /\ LoadGood(p)'
        BY <1>0, <1>1, <2>1, <2>2, <2>3, PreparingGood DEF Scanned
    <2>. QED BY <1>0, <2>3, <2>4, KeptSets DEF CommitStep
<1>3. CASE \E f \in Failures : Fail(p, f)
    BY <1>0, <1>3, FailCommitStep
<1>. QED BY <1>2, <1>3 DEF CheckWrite, WriteVerdicts, Failures

LEMMA ScanCommitStep ==
    ASSUME GoodStates, CommitInv, NEW p \in Procs, Scan(p)
    PROVE  CommitStep(p)
BY AuthorizeCommitStep, ListCommitStep, StatCommitStep, ReadCommitStep, SelectCommitStep,
   CheckWriteCommitStep DEF Scan

-----------------------------------------------------------------------------
(* The commit *)

LEMMA StageCommitStep ==
    ASSUME GoodStates, CommitInv, NEW p \in Procs, Stage(p)
    PROVE  CommitStep(p)
<1>0. /\ call \in [Procs -> GoodCalls] /\ dir \in Directories /\ CommitGood(p)
      /\ call[p].pc = "stage" /\ call[p].op \in {"write", "migrate"}
    <2>1. /\ call \in [Procs -> GoodCalls] /\ dir \in Directories /\ CommitGood(p)
          /\ call[p].pc = "stage"
        BY DEF GoodStates, Stage, At, CommitInv
    <2>. QED BY <2>1, OpOfLabel DEF CommitLabels
<1>1. Preparing(p) /\ ScanGood(p) /\ PreparedGood(p) /\ call[p].result = "pending"
    BY <1>0 DEF Preparing, Scanned, CommitGood, ResultGood
<1>2. CASE UNCHANGED dir /\ Fail(p, "conflict")
    BY <1>2, FailCommitStep DEF Kept, Failures
<1>3. ASSUME NEW n \in Nonces, dir' = [dir EXCEPT !.temps = @ \cup {<<call[p].target, n>>}],
             call' = [call EXCEPT ![p].nonce = n, ![p].pc = "verifyStaged"]
      PROVE  CommitStep(p)
    <2> DEFINE c == [call[p] EXCEPT !.nonce = n, !.pc = "verifyStaged"]
    <2>1. /\ c.pc = "verifyStaged" /\ c.op = call[p].op /\ c.result = "pending"
          /\ c.scan = call[p].scan /\ c.temps = call[p].temps /\ c.target = call[p].target
          /\ c.expected = call[p].expected /\ c.nonce = n
        BY <1>0, <1>1 DEF GoodCalls, Calls
    <2>2. call'[p] = c /\ Alone(p)
        BY <1>0, <1>3 DEF Alone
    <2> HIDE DEF c
    <2>3. /\ dir'.finals = dir.finals
          /\ dir'.temps = dir.temps \cup {<<call[p].target, n>>}
        BY <1>0, <1>3 DEF Directories
    <2>4. Present' = Present /\ Intact' = Intact
        BY <2>3 DEF Present, Intact
    <2>5. Grows
        <3>1. \A g \in Present : g >= g
            BY ConstantsAssumption DEF Present, Generations
        <3>. QED BY <2>4, <3>1 DEF Grows, Reaches
    <2>6. /\ Seen(p)' = Seen(p) /\ Unread(p)' = Unread(p) /\ Valid(p)' = Valid(p)
          /\ Invalid(p)' = Invalid(p) /\ Selected(p)' = Selected(p)
          /\ NextGeneration(p)' = NextGeneration(p)
        BY <2>1, <2>2, SameScan
    <2>7. OwnTemp(p)' = {<<call[p].target, n>>} /\ OwnTemp(p) = {}
        BY <1>0, <2>1, <2>2 DEF OwnTemp, Staged
    <2>8. ResultGood(p)' /\ ~Committing(p)' /\ LoadGood(p)'
        BY <1>0, <2>1, <2>2 DEF ResultGood, Successes, Committing, At, LoadGood
    <2>9. ScanGood(p)'
        BY <1>0, <1>1, <2>1, <2>2, <2>4, <2>6 DEF ScanGood, Undamaged
    <2>10. PreparedGood(p)'
        BY <1>0, <1>1, <2>1, <2>2, <2>3, <2>4, <2>6, <2>7 DEF PreparedGood
    <2>11. HoldsGate(p)
        BY <1>1, CommitterHolds
    <2>. QED BY <2>1, <2>2, <2>5, <2>8, <2>9, <2>10, <2>11 DEF CommitStep, CommitGood
<1>. QED BY <1>2, <1>3 DEF Stage

LEMMA LinkCommitStep ==
    ASSUME GoodStates, CommitInv, NEW p \in Procs, Link(p)
    PROVE  CommitStep(p)
<1>0. /\ call \in [Procs -> GoodCalls] /\ dir \in Directories /\ CommitGood(p)
      /\ call[p].pc = "link" /\ call[p].op \in {"write", "migrate"}
      /\ call[p].target \in Generations
    <2>1. /\ call \in [Procs -> GoodCalls] /\ dir \in Directories /\ CommitGood(p)
          /\ call[p].pc = "link"
        BY DEF GoodStates, Link, At, CommitInv
    <2>. QED BY <2>1, InCommit DEF CommitLabels, ActivationLabels
<1>1. Preparing(p) /\ ScanGood(p) /\ PreparedGood(p) /\ call[p].result = "pending"
    BY <1>0 DEF Preparing, Scanned, CommitGood, ResultGood
<1>2. CASE UNCHANGED dir /\ Fail(p, "conflict")
    BY <1>2, FailCommitStep DEF Kept, Failures
<1>3. CASE /\ dir.finals[call[p].target] = "none"
           /\ dir' = [dir EXCEPT !.finals[call[p].target] = "current"] /\ Goto(p, "sync")
    <2> DEFINE x == call[p].target
    <2>1. /\ call'[p].pc = "sync" /\ call'[p].op = call[p].op /\ call'[p].result = call[p].result
          /\ call'[p].scan = call[p].scan /\ call'[p].temps = call[p].temps
          /\ call'[p].target = x /\ call'[p].nonce = call[p].nonce /\ Alone(p)
        BY <1>3, GotoKeeps
    <2>2. Present' = Present \cup {x} /\ Intact' = Intact \cup {x} /\ dir'.temps = dir.temps
        BY <1>0, <1>3 DEF Directories, Stores, Present, Intact
    <2>3. /\ Seen(p)' = Seen(p) /\ Unread(p)' = Unread(p) /\ Valid(p)' = Valid(p)
          /\ Invalid(p)' = Invalid(p)
        BY <2>1, SameScan
    <2>4. x = NextGeneration(p) /\ Seen(p) = Present /\ dir.temps \subseteq call[p].temps \cup OwnTemp(p)
        BY <1>0, <1>1 DEF PreparedGood
    <2>5. OwnTemp(p)' = OwnTemp(p)
        BY <1>0, <2>1 DEF OwnTemp, Staged
    <2>6. x \notin Seen(p) /\ \A g \in Seen(p) : g < x
        BY <1>3, <2>4, NextExceeds DEF Present
    <2>7. Invalid(p) \subseteq Seen(p)
        BY SeenParts
    <2>8. Grows
        <3>1. \A g \in Present : g >= g
            BY ConstantsAssumption DEF Present, Generations
        <3>. QED BY <2>2, <3>1 DEF Grows, Reaches
    <2> HIDE DEF x
    <2>9. ResultGood(p)' /\ ~Preparing(p)' /\ LoadGood(p)'
        BY <1>0, <1>1, <2>1 DEF ResultGood, Successes, Preparing, Scanned, LoadGood
    <2>10. ScanGood(p)'
        BY <1>0, <1>1, <2>1, <2>2, <2>3, <2>6, <2>7 DEF ScanGood, Undamaged
    <2>11. CommittedGood(p)'
        BY <2>1, <2>2, <2>3, <2>4, <2>5, <2>6 DEF CommittedGood
    <2>12. HoldsGate(p)
        BY <1>1, CommitterHolds
    <2>. QED BY <2>1, <2>8, <2>9, <2>10, <2>11, <2>12 DEF CommitStep, CommitGood
<1>. QED BY <1>2, <1>3 DEF Link

\* A mutation that moves on behind its link and leaves the documents alone.
LEMMA CommittingGood ==
    ASSUME NEW p \in Procs, CommitGood(p), Committing(p), Kept,
           call'[p].op = call[p].op, call'[p].scan = call[p].scan,
           call'[p].temps = call[p].temps, call'[p].target = call[p].target,
           call'[p].debt = call[p].debt \/ call'[p].debt = TRUE,
           Committing(p)', ResultGood(p)', call'[p].pc \notin Scanned,
           OwnTemp(p) \subseteq OwnTemp(p)',
           call'[p].pc \in {"syncCleanup", "release"} => call[p].temps = {} /\ Removable(p) = {}
    PROVE  CommitGood(p)' /\ LoadGood(p)'
<1>0. ScanGood(p) /\ CommittedGood(p) /\ call[p].op # "load"
    BY DEF CommitGood, Committing
<1>1. /\ Seen(p)' = Seen(p) /\ Unread(p)' = Unread(p)
      /\ Valid(p)' = Valid(p) /\ Invalid(p)' = Invalid(p) /\ Removable(p)' = Removable(p)
    BY SameScan
<1>2. Present' = Present /\ Intact' = Intact /\ dir'.temps = dir.temps
    BY KeptSets DEF Kept
<1>3. ScanGood(p)'
    <2>1. call[p].pc \notin {"stat", "read"}
        BY DEF Committing, At
    <2>. QED BY <1>0, <1>1, <1>2, <2>1 DEF ScanGood, Undamaged
<1>4. CommittedGood(p)'
    BY <1>0, <1>1, <1>2 DEF CommittedGood, Undamaged
<1>5. call'[p].pc \notin {"stat", "read"} /\ ~Preparing(p)' /\ LoadGood(p)'
    BY <1>0 DEF Scanned, Preparing, LoadGood
<1>. QED BY <1>3, <1>4, <1>5 DEF CommitGood

LEMMA MoveCommitStep ==
    ASSUME GoodStates, CommitInv, NEW p \in Procs,
           VerifyStaged(p) \/ Sync(p) \/ VerifyFinal(p)
    PROVE  CommitStep(p)
<1>0. /\ Kept /\ call \in [Procs -> GoodCalls] /\ CommitGood(p)
      /\ call[p].pc \in {"verifyStaged", "sync", "verifyFinal"}
      /\ call[p].op \in {"write", "migrate"}
    <2>1. /\ Kept /\ call \in [Procs -> GoodCalls] /\ CommitGood(p)
          /\ call[p].pc \in {"verifyStaged", "sync", "verifyFinal"}
        BY DEF GoodStates, VerifyStaged, Sync, VerifyFinal, At, Local, Kept, CommitInv
    <2>. QED BY <2>1, OpOfLabel DEF CommitLabels, ActivationLabels
<1>1. call[p].result = "pending"
    BY <1>0 DEF CommitGood, ResultGood
<1>2. ASSUME NEW l, Goto(p, l)
      PROVE  /\ call'[p].pc = l /\ call'[p].op = call[p].op /\ call'[p].result = "pending"
             /\ call'[p].scan = call[p].scan /\ call'[p].temps = call[p].temps
             /\ call'[p].target = call[p].target /\ call'[p].nonce = call[p].nonce
             /\ call'[p].expected = call[p].expected
             /\ call'[p].debt = call[p].debt /\ Alone(p)
    BY <1>1, <1>2, GotoKeeps
<1>3. ASSUME NEW f \in Failures, Fail(p, f) PROVE CommitStep(p)
    BY <1>0, <1>3, FailCommitStep
<1>4. CASE call[p].pc = "verifyStaged" /\ Goto(p, "link")
    <2>1. Preparing(p)
        BY <1>0, <1>4 DEF Preparing, Scanned
    <2>2. OwnTemp(p)' = OwnTemp(p)
        BY <1>2, <1>4 DEF OwnTemp, Staged
    <2>3. PreparedGood(p)
        BY <1>0, <2>1 DEF CommitGood
    <2>4. CommitGood(p)' /\ LoadGood(p)'
        BY <1>0, <1>1, <1>2, <1>4, <2>1, <2>2, <2>3, PreparingGood DEF Scanned, PreparedGood
    <2>. QED BY <1>0, <1>2, <1>4, <2>4, KeptSets DEF CommitStep
<1>5. ASSUME NEW l \in {"verifyFinal", "unstage"}, call[p].pc \in {"sync", "verifyFinal"}, Goto(p, l)
      PROVE  CommitStep(p)
    <2>1. Committing(p)
        BY <1>0, <1>5 DEF Committing
    <2>2. OwnTemp(p)' = OwnTemp(p)
        BY <1>2, <1>5 DEF OwnTemp, Staged
    <2>3. Committing(p)' /\ ResultGood(p)' /\ call'[p].pc \notin Scanned
        BY <1>0, <1>2, <1>5 DEF Committing, At, ResultGood, Successes, Scanned
    <2>4. CommitGood(p)' /\ LoadGood(p)'
        BY <1>0, <1>2, <1>5, <2>1, <2>2, <2>3, CommittingGood
    <2>. QED BY <1>0, <1>2, <1>5, <2>4, KeptSets DEF CommitStep
<1>6. CASE VerifyStaged(p)
    BY <1>3, <1>4, <1>6 DEF VerifyStaged, At, Failures
<1>7. CASE Sync(p)
    BY <1>5, <1>7 DEF Sync, At
<1>8. CASE VerifyFinal(p)
    BY <1>3, <1>5, <1>8 DEF VerifyFinal, At, Failures
<1>. QED BY <1>6, <1>7, <1>8

\* Removing a staging file: unless it reports debt, the file was there and is gone.
LEMMA RemoveTempEffect ==
    ASSUME GoodStates, NEW p \in Procs, NEW t, NEW c \in Calls, RemoveTemp(p, t, c)
    PROVE  /\ dir'.finals = dir.finals
           /\ dir'.temps = dir.temps \ {t} \/ (dir'.temps = dir.temps /\ call'[p].debt)
           /\ ~call'[p].debt => ~c.debt
           /\ call'[p].pc = c.pc /\ call'[p].op = c.op /\ call'[p].result = c.result
           /\ call'[p].scan = c.scan /\ call'[p].temps = c.temps /\ call'[p].target = c.target
           /\ call'[p].nonce = c.nonce /\ Alone(p)
<1>0. dir \in Directories /\ call \in [Procs -> GoodCalls]
    BY DEF GoodStates
<1>1. ASSUME NEW d, call' = [call EXCEPT ![p] = [c EXCEPT !.debt = d]]
      PROVE  /\ call'[p].debt = d
             /\ call'[p].pc = c.pc /\ call'[p].op = c.op /\ call'[p].result = c.result
             /\ call'[p].scan = c.scan /\ call'[p].temps = c.temps /\ call'[p].target = c.target
             /\ call'[p].nonce = c.nonce /\ Alone(p)
    <2>1. call'[p] = [c EXCEPT !.debt = d] /\ Alone(p)
        BY <1>0, <1>1 DEF Alone
    <2>. QED BY <2>1 DEF Calls
<1>2. CASE /\ dir' = [dir EXCEPT !.temps = @ \ {t}]
           /\ call' = [call EXCEPT ![p] = [c EXCEPT !.debt = @ \/ t \notin dir.temps]]
    <2> DEFINE d == c.debt \/ t \notin dir.temps
    <2>1. call' = [call EXCEPT ![p] = [c EXCEPT !.debt = d]]
        BY <1>2
    <2>2. dir'.finals = dir.finals /\ dir'.temps = dir.temps \ {t}
        BY <1>0, <1>2 DEF Directories
    <2>3. ~d => ~c.debt
        OBVIOUS
    <2> HIDE DEF d
    <2>. QED BY <1>1, <2>1, <2>2, <2>3
<1>3. CASE UNCHANGED dir /\ call' = [call EXCEPT ![p] = [c EXCEPT !.debt = TRUE]]
    BY <1>1, <1>3
<1>. QED BY <1>2, <1>3 DEF RemoveTemp

LEMMA UnstageCommitStep ==
    ASSUME GoodStates, CommitInv, NEW p \in Procs, Unstage(p)
    PROVE  CommitStep(p)
<1>0. /\ call \in [Procs -> GoodCalls] /\ CommitGood(p)
      /\ call[p].pc = "unstage" /\ call[p].op \in {"write", "migrate"} /\ call[p] \in Calls
    <2>1. call \in [Procs -> GoodCalls] /\ CommitGood(p) /\ call[p].pc = "unstage"
        BY DEF GoodStates, Unstage, At, CommitInv
    <2>. QED BY <2>1, OpOfLabel DEF CommitLabels
<1> DEFINE l == IF call[p].result = "pending" THEN "cleanup" ELSE "release"
           c == [call[p] EXCEPT !.pc = l]
<1>1. l \in Labels
    BY DEF Labels, CommitLabels
<1>2. /\ c \in Calls /\ c.pc = l /\ c.op = call[p].op /\ c.result = call[p].result
      /\ c.scan = call[p].scan /\ c.temps = call[p].temps /\ c.target = call[p].target
      /\ c.debt = call[p].debt
    BY <1>0, <1>1 DEF Calls
<1>3. RemoveTemp(p, Staged(p), c)
    BY DEF Unstage
<1>4. l = "cleanup" <=> call[p].result = "pending"
    OBVIOUS
<1>5. l \in {"cleanup", "release"}
    OBVIOUS
<1> HIDE DEF l, c
<1>6. /\ dir'.finals = dir.finals
      /\ dir'.temps = dir.temps \ {Staged(p)} \/ (dir'.temps = dir.temps /\ call'[p].debt)
      /\ ~call'[p].debt => ~call[p].debt
      /\ call'[p].pc = l /\ call'[p].op = call[p].op /\ call'[p].result = call[p].result
      /\ call'[p].scan = call[p].scan /\ call'[p].temps = call[p].temps
      /\ call'[p].target = call[p].target /\ Alone(p)
    BY <1>2, <1>3, RemoveTempEffect
<1>7. Present' = Present /\ Intact' = Intact
    BY <1>6 DEF Present, Intact
<1>8. Grows
    <2>1. \A g \in Present : g >= g
        BY ConstantsAssumption DEF Present, Generations
    <2>. QED BY <1>7, <2>1 DEF Grows, Reaches
<1>9. HoldsGate(p)
    BY <1>0 DEF HoldsGate
<1>10. CommitGood(p)' /\ LoadGood(p)'
    <2>1. CASE call[p].result # "pending"
        <3>1. call[p].result \notin Successes
            BY <1>0 DEF CommitGood, ResultGood
        <3>. QED BY <1>0, <1>4, <1>5, <1>6, <2>1, <3>1, WindingDownGood DEF Successes
    <2>2. CASE call[p].result = "pending"
        <3>1. Committing(p) /\ ScanGood(p) /\ CommittedGood(p)
            BY <1>0, <2>2 DEF Committing, At, CommitGood
        <3>2. /\ Seen(p)' = Seen(p) /\ Unread(p)' = Unread(p) /\ Valid(p)' = Valid(p)
              /\ Invalid(p)' = Invalid(p)
            BY <1>6, SameScan
        <3>3. l = "cleanup"
            BY <1>4, <2>2
        <3>4. OwnTemp(p) = {Staged(p)} /\ OwnTemp(p)' = {}
            BY <1>0, <1>6, <3>3 DEF OwnTemp
        <3>5. ScanGood(p)'
            BY <1>0, <1>6, <1>7, <3>1, <3>2 DEF ScanGood, Undamaged
        <3>6. CommittedGood(p)'
            BY <1>6, <1>7, <3>1, <3>2, <3>3, <3>4 DEF CommittedGood, Undamaged
        <3>7. ResultGood(p)' /\ ~Preparing(p)' /\ LoadGood(p)'
            BY <1>0, <1>6, <2>2, <3>3 DEF ResultGood, Successes, Preparing, Scanned, LoadGood
        <3>. QED BY <1>6, <3>3, <3>5, <3>6, <3>7 DEF CommitGood
    <2>. QED BY <2>1, <2>2
<1>. QED BY <1>6, <1>8, <1>9, <1>10 DEF CommitStep

\* Removing a document does the same.
LEMMA RemoveFinalEffect ==
    ASSUME GoodStates, NEW p \in Procs, NEW g \in Generations, NEW c \in Calls, RemoveFinal(p, g, c)
    PROVE  /\ dir'.temps = dir.temps
           /\ \/ dir'.finals = [dir.finals EXCEPT ![g] = "none"]
              \/ dir'.finals = dir.finals /\ call'[p].debt
           /\ ~call'[p].debt => ~c.debt
           /\ call'[p].pc = c.pc /\ call'[p].op = c.op /\ call'[p].result = c.result
           /\ call'[p].scan = c.scan /\ call'[p].temps = c.temps /\ call'[p].target = c.target
           /\ call'[p].nonce = c.nonce /\ Alone(p)
<1>0. dir \in Directories /\ call \in [Procs -> GoodCalls]
    BY DEF GoodStates
<1>1. ASSUME NEW d, call' = [call EXCEPT ![p] = [c EXCEPT !.debt = d]]
      PROVE  /\ call'[p].debt = d
             /\ call'[p].pc = c.pc /\ call'[p].op = c.op /\ call'[p].result = c.result
             /\ call'[p].scan = c.scan /\ call'[p].temps = c.temps /\ call'[p].target = c.target
             /\ call'[p].nonce = c.nonce /\ Alone(p)
    <2>1. call'[p] = [c EXCEPT !.debt = d] /\ Alone(p)
        BY <1>0, <1>1 DEF Alone
    <2>. QED BY <2>1 DEF Calls
<1>2. CASE /\ dir' = [dir EXCEPT !.finals[g] = "none"]
           /\ call' = [call EXCEPT ![p] = [c EXCEPT !.debt = @ \/ dir.finals[g] = "none"]]
    <2> DEFINE d == c.debt \/ dir.finals[g] = "none"
    <2>1. call' = [call EXCEPT ![p] = [c EXCEPT !.debt = d]]
        BY <1>2
    <2>2. dir'.temps = dir.temps /\ dir'.finals = [dir.finals EXCEPT ![g] = "none"]
        BY <1>0, <1>2 DEF Directories
    <2>3. ~d => ~c.debt
        OBVIOUS
    <2> HIDE DEF d
    <2>. QED BY <1>1, <2>1, <2>2, <2>3
<1>3. CASE UNCHANGED dir /\ call' = [call EXCEPT ![p] = [c EXCEPT !.debt = TRUE]]
    BY <1>1, <1>3
<1>. QED BY <1>2, <1>3 DEF RemoveFinal

\* The next document to prune was listed and is not the newest valid one.
LEMMA PrunedFacts ==
    ASSUME NEW p \in Procs, Removable(p) # {}
    PROVE  Min(Removable(p)) \in Removable(p) /\ Min(Removable(p)) \in Generations
<1>1. Removable(p) \subseteq Generations /\ Generations \subseteq Nat
    BY ScanSets, ConstantsAssumption DEF Removable, Generations
<1>. QED BY <1>1, MinFacts

LEMMA CleanupCommitStep ==
    ASSUME GoodStates, CommitInv, NEW p \in Procs, Cleanup(p)
    PROVE  CommitStep(p)
<1>0. /\ call \in [Procs -> GoodCalls] /\ dir \in Directories /\ CommitGood(p)
      /\ call[p].pc = "cleanup" /\ call[p].op \in {"write", "migrate"} /\ call[p] \in Calls
      /\ call[p].target \in Generations
    <2>1. /\ call \in [Procs -> GoodCalls] /\ dir \in Directories /\ CommitGood(p)
          /\ call[p].pc = "cleanup"
        BY DEF GoodStates, Cleanup, At, CommitInv
    <2>. QED BY <2>1, OpOfLabel, InCommit DEF CommitLabels
<1>1. /\ Committing(p) /\ ScanGood(p) /\ CommittedGood(p) /\ HoldsGate(p)
      /\ call[p].result = "pending" /\ OwnTemp(p) = {}
    BY <1>0 DEF Committing, CommitGood, HoldsGate, ResultGood, OwnTemp
<1>2. ASSUME NEW t, RemoveTemp(p, t, [call[p] EXCEPT !.temps = @ \ {t}]) PROVE CommitStep(p)
    <2> DEFINE c == [call[p] EXCEPT !.temps = @ \ {t}]
    <2>1. /\ c \in Calls /\ c.pc = call[p].pc /\ c.op = call[p].op /\ c.result = call[p].result
          /\ c.scan = call[p].scan /\ c.temps = call[p].temps \ {t} /\ c.target = call[p].target
          /\ c.debt = call[p].debt
        BY <1>0 DEF Calls
    <2>2. RemoveTemp(p, t, c)
        BY <1>2
    <2> HIDE DEF c
    <2>3. /\ dir'.finals = dir.finals
          /\ dir'.temps = dir.temps \ {t} \/ (dir'.temps = dir.temps /\ call'[p].debt)
          /\ ~call'[p].debt => ~call[p].debt
          /\ call'[p].pc = "cleanup" /\ call'[p].op = call[p].op /\ call'[p].result = "pending"
          /\ call'[p].scan = call[p].scan /\ call'[p].temps = call[p].temps \ {t}
          /\ call'[p].target = call[p].target /\ Alone(p)
        BY <1>0, <1>1, <2>1, <2>2, RemoveTempEffect
    <2>4. Present' = Present /\ Intact' = Intact
        BY <2>3 DEF Present, Intact
    <2>5. Grows
        <3>1. \A g \in Present : g >= g
            BY ConstantsAssumption DEF Present, Generations
        <3>. QED BY <2>4, <3>1 DEF Grows, Reaches
    <2>6. /\ Seen(p)' = Seen(p) /\ Unread(p)' = Unread(p) /\ Valid(p)' = Valid(p)
          /\ Invalid(p)' = Invalid(p)
        BY <2>3, SameScan
    <2>7. OwnTemp(p)' = {}
        BY <2>3 DEF OwnTemp
    <2>8. ScanGood(p)'
        BY <1>0, <1>1, <2>3, <2>4, <2>6 DEF ScanGood, Undamaged
    <2>9. CommittedGood(p)'
        BY <1>1, <2>3, <2>4, <2>6, <2>7 DEF CommittedGood, Undamaged
    <2>10. ResultGood(p)' /\ ~Preparing(p)' /\ LoadGood(p)'
        BY <1>0, <2>3 DEF ResultGood, Successes, Preparing, Scanned, LoadGood
    <2>. QED BY <1>1, <2>3, <2>5, <2>8, <2>9, <2>10 DEF CommitStep, CommitGood
<1>3. ASSUME NEW g \in Removable(p), g \in Generations,
             RemoveFinal(p, g, [call[p] EXCEPT !.scan[g] = "unlisted"])
      PROVE  CommitStep(p)
    <2> DEFINE s == [call[p].scan EXCEPT ![g] = "unlisted"]
               c == [call[p] EXCEPT !.scan = s]
    <2>0. s \in [Generations -> Marks]
        BY <1>0 DEF Calls, Marks
    <2>1. /\ c \in Calls /\ c.pc = call[p].pc /\ c.op = call[p].op /\ c.result = call[p].result
          /\ c.scan = s /\ c.temps = call[p].temps /\ c.target = call[p].target
          /\ c.debt = call[p].debt
        BY <1>0, <2>0 DEF Calls
    <2>2. RemoveFinal(p, g, c)
        BY <1>3
    <2> HIDE DEF c
    <2>3. /\ dir'.temps = dir.temps
          /\ \/ dir'.finals = [dir.finals EXCEPT ![g] = "none"]
             \/ dir'.finals = dir.finals /\ call'[p].debt
          /\ ~call'[p].debt => ~call[p].debt
          /\ call'[p].pc = "cleanup" /\ call'[p].op = call[p].op /\ call'[p].result = "pending"
          /\ call'[p].scan = s /\ call'[p].temps = call[p].temps
          /\ call'[p].target = call[p].target /\ Alone(p)
        BY <1>0, <1>1, <1>3, <2>1, <2>2, RemoveFinalEffect
    <2>4. /\ Seen(p)' = Seen(p) \ {g} /\ Unread(p)' = Unread(p) \ {g}
          /\ Valid(p)' = Valid(p) \ {g} /\ Invalid(p)' = Invalid(p) \ {g}
        BY <1>0, <1>3, <2>3 DEF Calls, Seen, Unread, Valid, Invalid, Marked
    <2>5. \/ Present' = Present \ {g} /\ Intact' = Intact \ {g}
          \/ Present' = Present /\ Intact' = Intact /\ call'[p].debt
        BY <1>0, <1>3, <2>3 DEF Directories, Stores, Present, Intact
    <2>6. g \in Seen(p) /\ g < call[p].target /\ g \in Nat /\ call[p].target \in Nat
        BY <1>0, <1>1, <1>3, ConstantsAssumption DEF Removable, CommittedGood, Generations
    <2>7. Grows
        <3>1. \A h \in Present : h >= h
            BY ConstantsAssumption DEF Present, Generations
        <3>2. call[p].target \in Present' /\ call[p].target >= g
            BY <1>1, <2>5, <2>6 DEF CommittedGood
        <3>. QED BY <2>5, <3>1, <3>2 DEF Grows, Reaches
    <2>8. OwnTemp(p)' = {}
        BY <2>3 DEF OwnTemp
    <2>9. ScanGood(p)'
        BY <1>0, <1>1, <2>3, <2>4, <2>5 DEF ScanGood, Undamaged
    <2>10. CommittedGood(p)'
        <3> HIDE DEF s
        <3>1. call[p].target # g
            BY <2>6
        <3>2. call[p].target \in Present' /\ (Undamaged => call[p].target \in Intact')
            BY <1>1, <2>5, <3>1 DEF CommittedGood
        <3>3. \A h \in Seen(p)' : h < call[p].target
            BY <1>1, <2>4 DEF CommittedGood
        <3>4. ~call'[p].debt => /\ Present' \subseteq Seen(p)' \cup {call[p].target}
                                /\ dir'.temps \subseteq call[p].temps \cup OwnTemp(p)'
            BY <1>1, <2>3, <2>4, <2>5, <2>8 DEF CommittedGood
        <3>. QED BY <2>3, <3>2, <3>3, <3>4 DEF CommittedGood, Undamaged
    <2>11. ResultGood(p)' /\ ~Preparing(p)' /\ LoadGood(p)'
        BY <1>0, <2>3 DEF ResultGood, Successes, Preparing, Scanned, LoadGood
    <2>. QED BY <1>1, <2>3, <2>7, <2>9, <2>10, <2>11 DEF CommitStep, CommitGood
<1>4. CASE call[p].temps = {} /\ Removable(p) = {} /\ Goto(p, "syncCleanup") /\ Local
    <2>1. /\ call'[p].pc = "syncCleanup" /\ call'[p].op = call[p].op
          /\ call'[p].result = call[p].result
          /\ call'[p].scan = call[p].scan /\ call'[p].temps = call[p].temps
          /\ call'[p].target = call[p].target /\ call'[p].debt = call[p].debt /\ Alone(p)
        BY <1>4, GotoKeeps
    <2>2. Committing(p)' /\ ResultGood(p)' /\ call'[p].pc \notin Scanned
        BY <1>0, <1>1, <2>1 DEF Committing, At, ResultGood, Successes, Scanned
    <2>3. Kept
        BY <1>4 DEF Local, Kept
    <2>4. CommitGood(p)' /\ LoadGood(p)'
        BY <1>0, <1>1, <1>4, <2>1, <2>2, <2>3, CommittingGood
    <2>. QED BY <2>1, <2>3, <2>4, KeptSets DEF CommitStep
<1>5. ASSUME call[p].temps = {}, Removable(p) # {},
             RemoveFinal(p, Min(Removable(p)),
                         [call[p] EXCEPT !.scan[Min(Removable(p))] = "unlisted"])
      PROVE  CommitStep(p)
    <2> DEFINE g == Min(Removable(p))
    <2>1. g \in Removable(p) /\ g \in Generations
        BY <1>5, PrunedFacts
    <2>2. RemoveFinal(p, g, [call[p] EXCEPT !.scan[g] = "unlisted"])
        BY <1>5
    <2> HIDE DEF g
    <2>. QED BY <1>3, <2>1, <2>2
<1>. QED BY <1>2, <1>4, <1>5 DEF Cleanup

LEMMA SyncCleanupCommitStep ==
    ASSUME GoodStates, CommitInv, NEW p \in Procs, SyncCleanup(p)
    PROVE  CommitStep(p)
<1>0. /\ call \in [Procs -> GoodCalls] /\ CommitGood(p) /\ Kept
      /\ call[p].pc = "syncCleanup" /\ call[p].op \in {"write", "migrate"} /\ call[p] \in Calls
    <2>1. /\ call \in [Procs -> GoodCalls] /\ CommitGood(p) /\ Kept /\ call[p].pc = "syncCleanup"
        BY DEF GoodStates, SyncCleanup, At, CommitInv, Kept
    <2>. QED BY <2>1, OpOfLabel DEF CommitLabels
<1>1. Committing(p) /\ CommittedGood(p) /\ HoldsGate(p) /\ OwnTemp(p) = {}
    BY <1>0 DEF Committing, CommitGood, HoldsGate, OwnTemp
<1>2. ASSUME NEW r \in {"committed", "migrated"}, NEW d \in {call[p].debt, TRUE},
             Succeed(p, r, call[p].target, d)
      PROVE  CommitStep(p)
    <2> DEFINE c == [call[p] EXCEPT !.pc = "release", !.result = r, !.target = call[p].target,
                                    !.debt = d]
    <2>1. call' = [call EXCEPT ![p] = c]
        BY <1>1, <1>2 DEF Succeed
    <2>2. /\ c.pc = "release" /\ c.op = call[p].op /\ c.result = r /\ c.scan = call[p].scan
          /\ c.temps = call[p].temps /\ c.target = call[p].target /\ c.debt = d
        BY <1>0 DEF Calls
    <2>3. call'[p] = c /\ Alone(p)
        BY <1>0, <2>1 DEF Alone
    <2> HIDE DEF c
    <2>4. Committing(p)' /\ ResultGood(p)' /\ call'[p].pc \notin Scanned
        BY <1>0, <2>2, <2>3 DEF Committing, At, ResultGood, Scanned
    <2>5. CommitGood(p)' /\ LoadGood(p)'
        BY <1>0, <1>1, <2>2, <2>3, <2>4, CommittingGood DEF CommittedGood
    <2>. QED BY <1>0, <2>3, <2>5, KeptSets DEF CommitStep
<1>3. CASE Fail(p, "limit-exceeded")
    BY <1>0, <1>3, FailCommitStep DEF Failures
<1>. QED BY <1>2, <1>3 DEF SyncCleanup, Committed

LEMMA CommitCommitStep ==
    ASSUME GoodStates, CommitInv, NEW p \in Procs, Commit(p)
    PROVE  CommitStep(p)
BY StageCommitStep, MoveCommitStep, LinkCommitStep, UnstageCommitStep, CleanupCommitStep,
   SyncCleanupCommitStep DEF Commit

-----------------------------------------------------------------------------
(* Deletions, failures and the environment *)

LEMMA DeletionCommitStep ==
    ASSUME GoodStates, BarrierHolds, CommitInv, NEW p \in Procs, Deletion(p)
    PROVE  CommitStep(p)
<1>0. /\ call \in [Procs -> GoodCalls] /\ dir \in Directories /\ CommitGood(p)
      /\ call[p].pc \in DeletionSteps
    BY DEF GoodStates, CommitInv, Deletion, Inventory, RaiseBarrier, VerifyBarrier, SyncBarrier,
           Remove, SyncRemoved, Relist, At, DeletionSteps, DeletionLabels
<1>1. /\ HoldsGate(p) /\ call[p].op = "delete" /\ call[p] \in Calls
      /\ call[p].result = "pending"
    BY <1>0, OpOfLabel DEF HoldsGate, DeletionSteps, DeletionLabels, CommitGood, ResultGood
<1>2. ASSUME NEW c, call' = [call EXCEPT ![p] = c], c.op = "delete", c.result = "pending",
             c.pc \in DeletionSteps, Grows
      PROVE  CommitStep(p)
    <2>1. call'[p] = c /\ Alone(p)
        BY <1>0, <1>2 DEF Alone
    <2>2. ResultGood(p)'
        BY <1>2, <2>1 DEF ResultGood, Successes
    <2>3. CommitGood(p)' /\ LoadGood(p)'
        BY <1>2, <2>1, <2>2, DeletingGood DEF DeletionSteps, DeletionLabels
    <2>. QED BY <1>1, <1>2, <2>1, <2>3 DEF CommitStep
<1>3. ASSUME NEW l \in DeletionSteps, Goto(p, l), Grows PROVE CommitStep(p)
    <2> DEFINE c == [call[p] EXCEPT !.pc = l]
    <2>1. c.pc = l /\ c.op = "delete" /\ c.result = "pending"
        BY <1>1 DEF Calls
    <2>. QED BY <1>2, <1>3, <2>1 DEF Goto
<1>4. CASE Kept /\ ~Remove(p)
    <2>1. Grows
        BY <1>4, KeptSets
    <2>2. ASSUME NEW f \in Failures, Fail(p, f) PROVE CommitStep(p)
        BY <1>4, <2>2, FailCommitStep
    <2>3. CASE Inventory(p)
        <3> DEFINE c == [call[p] EXCEPT !.scan = Listing, !.temps = dir.temps, !.pc = "raiseBarrier"]
        <3>1. c.op = "delete" /\ c.result = "pending" /\ c.pc = "raiseBarrier"
            BY <1>1 DEF Calls
        <3>2. call' = [call EXCEPT ![p] = c] \/ Fail(p, "not-authorized")
            BY <2>3 DEF Inventory
        <3>. QED BY <1>2, <2>1, <2>2, <3>1, <3>2 DEF DeletionSteps, Failures
    <2>4. CASE RaiseBarrier(p) \/ VerifyBarrier(p) \/ SyncBarrier(p) \/ SyncRemoved(p)
        BY <1>3, <2>1, <2>2, <2>4 DEF RaiseBarrier, VerifyBarrier, SyncBarrier, SyncRemoved,
           DeletionSteps, DeletionLabels, Failures
    <2>5. CASE Relist(p)
        BY <1>4, <2>2, <2>5, SucceedCommitStep DEF Relist, Failures
    <2>. QED BY <1>4, <2>3, <2>4, <2>5 DEF Deletion
<1>5. CASE Remove(p)
    <2>1. Barred' /\ Grows
        BY <1>0, <1>5 DEF Remove, At, BarrierHolds, DeletionLabels, Barred, Directories, Grows
    <2>2. ASSUME NEW t, call' = [call EXCEPT ![p].temps = @ \ {t}] PROVE CommitStep(p)
        <3> DEFINE c == [call[p] EXCEPT !.temps = @ \ {t}]
        <3>1. c.op = "delete" /\ c.result = "pending" /\ c.pc = call[p].pc
            BY <1>1 DEF Calls
        <3>2. call' = [call EXCEPT ![p] = c]
            BY <2>2
        <3>. QED BY <1>0, <1>2, <2>1, <3>1, <3>2
    <2>3. ASSUME NEW g, call' = [call EXCEPT ![p].scan[g] = "unlisted"] PROVE CommitStep(p)
        <3> DEFINE c == [call[p] EXCEPT !.scan[g] = "unlisted"]
        <3>1. c.op = "delete" /\ c.result = "pending" /\ c.pc = call[p].pc
            BY <1>1 DEF Calls
        <3>2. call' = [call EXCEPT ![p] = c]
            BY <2>3
        <3>. QED BY <1>0, <1>2, <2>1, <3>1, <3>2
    <2>. QED BY <1>3, <1>5, <2>1, <2>2, <2>3 DEF Remove, DeletionSteps, DeletionLabels
<1>6. Remove(p) \/ Kept
    BY <1>0 DEF Deletion, Inventory, RaiseBarrier, VerifyBarrier, SyncBarrier, SyncRemoved, Relist,
                Local, Kept, Directories
<1>. QED BY <1>4, <1>5, <1>6

LEMMA FailureCommitStep ==
    ASSUME GoodStates, NEW p \in Procs, OperationFails(p) \/ CreationFails(p) \/ Crash(p)
    PROVE  CommitStep(p)
<1>0. call \in [Procs -> GoodCalls] /\ dir \in Directories
    BY DEF GoodStates
<1>1. CASE OperationFails(p)
    <2>1. FailureAt(call[p].pc) \in Failures
        BY DEF FailureAt, Failures
    <2>. QED BY <1>1, <2>1, FailCommitStep DEF OperationFails, Kept
<1>2. CASE CreationFails(p)
    <2>1. Fail(p, "persistence-failed") /\ "persistence-failed" \in Failures
        BY <1>2 DEF CreationFails, Failures
    <2>2. dir'.finals = dir.finals
        BY <1>0, <1>2 DEF CreationFails, Directories
    <2>3. Grows
        <3>1. Present' = Present
            BY <2>2 DEF Present
        <3>2. \A g \in Present : g >= g
            BY ConstantsAssumption DEF Present, Generations
        <3>. QED BY <3>1, <3>2 DEF Grows, Reaches
    <2>4. HoldsGate(p) \/ Kept
        <3>1. CASE At(p, "stage")
            <4>1. call[p].op \in {"write", "migrate"}
                BY <1>0, <3>1, OpOfLabel DEF At, CommitLabels
            <4>. QED BY <3>1, <4>1 DEF At, HoldsGate
        <3>2. CASE ~At(p, "stage")
            BY <1>0, <1>2, <3>2 DEF CreationFails, Kept, Directories
        <3>. QED BY <3>1, <3>2
    <2>5. CommitGood(p)' /\ LoadGood(p)' /\ Alone(p)
        BY <2>1, FailCommitGood
    <2>. QED BY <2>3, <2>4, <2>5 DEF CommitStep
<1>3. CASE Crash(p)
    BY <1>3, ReturnCommitStep DEF Crash, Kept
<1>. QED BY <1>1, <1>2, <1>3

\* What keeps the calls and the entries, and damages no document if none is damaged.
LEMMA EnvironmentKeeps ==
    ASSUME CommitInv, Shrinks, UNCHANGED call, Present' = Present, dir'.temps = dir.temps,
           Intact' \subseteq Intact, Undamaged => Intact' = Intact
    PROVE  CommitInv'
<1>1. ASSUME NEW q \in Procs PROVE CommitGood(q)' /\ LoadGood(q)'
    <2>0. CommitGood(q) /\ LoadGood(q)
        BY DEF CommitInv
    <2>1. /\ Seen(q)' = Seen(q) /\ Unread(q)' = Unread(q)
          /\ Valid(q)' = Valid(q) /\ Invalid(q)' = Invalid(q)
          /\ Selected(q)' = Selected(q) /\ NextGeneration(q)' = NextGeneration(q)
          /\ Removable(q)' = Removable(q)
        BY SameScan
    <2>2. /\ Preparing(q)' <=> Preparing(q)
          /\ Committing(q)' <=> Committing(q)
          /\ OwnTemp(q)' = OwnTemp(q)
          /\ ResultGood(q)' <=> ResultGood(q)
        BY DEF Preparing, Committing, At, OwnTemp, Staged, ResultGood
    <2>3. ScanGood(q) => ScanGood(q)'
        BY <2>1 DEF ScanGood, Undamaged
    <2>4. PreparedGood(q) => PreparedGood(q)'
        BY <2>1, <2>2 DEF PreparedGood
    <2>5. CommittedGood(q) => CommittedGood(q)'
        BY <2>1, <2>2 DEF CommittedGood, Undamaged
    <2>6. LoadGood(q)'
        BY <2>0, <2>1 DEF LoadGood, Shrinks
    <2>. QED BY <2>0, <2>1, <2>2, <2>3, <2>4, <2>5, <2>6 DEF CommitGood
<1>. QED BY <1>1 DEF CommitInv

LEMMA InitCommitInv == Init => CommitInv
<1> SUFFICES ASSUME Init, NEW p \in Procs PROVE CommitGood(p) /\ LoadGood(p)
    BY DEF CommitInv
<1>1. call[p].pc = "idle" /\ call[p].op = "idle"
    BY DEF Init, Outcome
<1>. QED BY <1>1 DEF CommitGood, LoadGood, ResultGood, Preparing, Committing

\* The step of a process is good for the commits.
LEMMA ProcessCommitStep ==
    ASSUME BarrierInv, CommitInv, NEW p \in Procs, Call(p) \/ Step(p) \/ Crash(p)
    PROVE  CommitStep(p)
BY CallCommitStep, GateCommitStep, ScanCommitStep, CommitCommitStep, DeletionCommitStep,
   FailureCommitStep DEF Step, BarrierInv

LEMMA DamageEffect ==
    ASSUME GoodStates, NEW g \in Generations, Damage(g)
    PROVE  /\ ~Undamaged /\ UNCHANGED call /\ dir'.temps = dir.temps /\ dir'.marks = dir.marks
           /\ Present' = Present /\ Intact' = Intact \ {g}
           /\ dir'.finals = [dir.finals EXCEPT ![g] = "corrupt"]
<1>1. ~Undamaged
    <2>1. spent["damage"] \in Nat /\ spent["damage"] < Budget["damage"]
        BY DEF Damage, Incident, GoodStates, Incidents
    <2>. QED BY <2>1 DEF Undamaged
<1>. QED BY <1>1 DEF Damage, GoodStates, Directories, Stores, Present, Intact

LEMMA NextCommitInv == BarrierInv /\ CommitInv /\ [Next]_vars => CommitInv'
<1> SUFFICES ASSUME BarrierInv, CommitInv, [Next]_vars PROVE CommitInv'
    OBVIOUS
<1>0. GoodStates /\ GateExclusive /\ Shrinks
    BY NextBarrier DEF BarrierInv
<1>1. ASSUME NEW p \in Procs, Call(p) \/ Step(p) \/ Crash(p) PROVE CommitInv'
    BY <1>0, <1>1, ProcessCommitStep, CommitStepPreserves
<1>2. CASE OwnerClearsGate
    <2>1. dir'.finals = dir.finals /\ dir'.temps = dir.temps /\ UNCHANGED call
        BY <1>0, <1>2 DEF OwnerClearsGate, GoodStates, Directories
    <2>2. Present' = Present /\ Intact' = Intact
        BY <2>1 DEF Present, Intact
    <2>. QED BY <1>0, <2>1, <2>2, EnvironmentKeeps
<1>3. ASSUME NEW g \in Generations, Damage(g) PROVE CommitInv'
    <2>1. /\ ~Undamaged /\ UNCHANGED call /\ dir'.temps = dir.temps
          /\ Present' = Present /\ Intact' = Intact \ {g}
        BY <1>0, <1>3, DamageEffect
    <2>. QED BY <1>0, <2>1, EnvironmentKeeps
<1>4. CASE UNCHANGED vars
    <2>1. UNCHANGED call /\ Present' = Present /\ Intact' = Intact /\ dir'.temps = dir.temps
        BY <1>4 DEF vars, Present, Intact
    <2>. QED BY <1>0, <2>1, EnvironmentKeeps
<1>. QED BY <1>1, <1>2, <1>3, <1>4 DEF Next

\* Everything the following theorems need.
StoreInv == BarrierInv /\ CommitInv

LEMMA StoreInvHolds == Spec => []StoreInv
<1>1. Init => StoreInv
    BY InitBarrierInv, InitCommitInv DEF StoreInv
<1>2. StoreInv /\ [Next]_vars => StoreInv'
    BY NextBarrier, NextCommitInv DEF StoreInv
<1>. QED BY <1>1, <1>2, PTL DEF Spec

-----------------------------------------------------------------------------
(* What follows *)

\* No lost update: from the verdict of a write or the selection of a migration up to
\* the exclusive link, no intact document is newer than the one the candidate follows,
\* and the generation it takes is free (writeStoreUnlocked, loadStoreUnlocked,
\* commitCandidate).  A read error on a sound document would hide it from the scan.
THEOREM NoLostUpdate ==
    ASSUME ~ReadFaults
    PROVE  Spec => []BuildsOnNewest
<1>1. StoreInv => BuildsOnNewest
    <2> SUFFICES ASSUME StoreInv, NEW p \in Procs,
                        call[p].pc \in {"check", "stage", "verifyStaged", "link"}
                 PROVE  /\ Newest(Intact) <= Selected(p)
                        /\ At(p, "link") => dir.finals[call[p].target] = "none"
        BY DEF BuildsOnNewest, At
    <2>1. GoodStates /\ CommitGood(p)
        BY DEF StoreInv, BarrierInv, CommitInv
    <2>2. call[p].op \in {"write", "migrate"} /\ call[p].target \in Generations
        BY <2>1, OpOfLabel, InCommit DEF GoodStates, CommitLabels, ActivationLabels
    <2>3. Preparing(p) /\ ScanGood(p) /\ PreparedGood(p)
        BY <2>1, <2>2 DEF Preparing, Scanned, CommitGood
    <2>4. Intact \subseteq Valid(p)
        <3>1. Intact \subseteq Present
            BY DEF Intact, Present
        <3>2. Present = Unread(p) \cup Valid(p) \cup Invalid(p)
            BY <2>1, <2>3, SeenParts DEF PreparedGood
        <3>3. Unread(p) = {} /\ Invalid(p) \cap Intact = {}
            BY <2>3 DEF ScanGood
        <3>. QED BY <3>1, <3>2, <3>3
    <2>5. Newest(Intact) <= Selected(p)
        <3>1. Newest(Intact) \in Intact \cup {None}
            BY NewestFacts DEF Intact
        <3>2. /\ \A g \in Valid(p) : g <= Selected(p)
              /\ Selected(p) \in Generations \cup {None}
            BY ScanSets, NewestFacts DEF Selected
        <3>3. None <= Selected(p)
            BY <3>2, ConstantsAssumption DEF None, Generations
        <3>. QED BY <2>4, <3>1, <3>2, <3>3
    <2>6. ASSUME At(p, "link") PROVE dir.finals[call[p].target] = "none"
        <3>1. call[p].target = NextGeneration(p) /\ Seen(p) = Present
            BY <2>3, <2>6 DEF PreparedGood, At
        <3>2. call[p].target \notin Present
            BY <3>1, NextExceeds
        <3>. QED BY <2>2, <3>2 DEF Present
    <2>. QED BY <2>5, <2>6
<1>. QED BY <1>1, StoreInvHolds, PTL

\* A load ends with a failure or with what its scan selects.
LEMMA LoadStep ==
    ASSUME GoodStates, NEW p \in Procs, call[p].op = "load", Call(p) \/ Step(p) \/ Crash(p),
           call'[p].op = "idle", call'[p].result \notin Failures
    PROVE  Select(p)
<1>0. /\ call \in [Procs -> GoodCalls] /\ call[p].pc \in ScanLabels \cup {"authorizeResult"}
      /\ call[p] \in Calls
    BY OpOfLabel DEF GoodStates, LabelsOf
<1>1. ASSUME NEW f \in Failures, Fail(p, f) PROVE FALSE
    BY <1>1, FailEffect
<1>2. ASSUME NEW l, Goto(p, l) PROVE FALSE
    BY <1>2, GotoEffect
<1>3. ~Call(p) /\ ~Gate(p) /\ ~CheckWrite(p) /\ ~Commit(p) /\ ~Deletion(p)
    BY <1>0 DEF ScanLabels, Call, CallLoad, CallMigrate, CallWrite, CallDelete, Start, Gate, Acquire,
       Release, CheckWrite, Commit, Stage, VerifyStaged, Link, Sync, VerifyFinal, Unstage, Cleanup,
       SyncCleanup, Deletion, Inventory, RaiseBarrier, VerifyBarrier, SyncBarrier, Remove,
       SyncRemoved, Relist, At
<1>4. ~Authorize(p) /\ ~Stat(p)
    BY <1>1, <1>2 DEF Authorize, Stat, Failures
<1>5. ~List(p)
    <2>1. SUFFICES ASSUME List(p) PROVE FALSE
        OBVIOUS
    <2>2. CASE ScanFits
        <3> DEFINE l == IF Present = {} THEN AfterScan(p) ELSE "stat"
                   c == [call[p] EXCEPT !.scan = Listing, !.temps = dir.temps, !.pc = l]
        <3>1. call' = [call EXCEPT ![p] = c] /\ c.op = "load"
            BY <1>0, <2>1, <2>2 DEF List, Calls
        <3>. QED BY <1>0, <3>1
    <2>. QED BY <1>1, <2>1, <2>2 DEF List, Failures
<1>6. ~Read(p)
    <2>1. SUFFICES ASSUME NEW m, Classify(p, m) PROVE FALSE
        BY DEF Read
    <2> DEFINE s == [call[p].scan EXCEPT ![Cursor(p)] = m]
               l == IF Unread(p) = {Cursor(p)} THEN AfterScan(p) ELSE "stat"
               c == [call[p] EXCEPT !.scan = s, !.pc = l]
    <2>2. call' = [call EXCEPT ![p].scan[Cursor(p)] = m, ![p].pc = l]
        BY <2>1 DEF Classify
    <2>3. call' = [call EXCEPT ![p] = c] /\ c.op = "load"
        BY <1>0, <2>2 DEF Calls
    <2>. QED BY <1>0, <2>3
<1>7. ~OperationFails(p) /\ ~CreationFails(p)
    <2>1. FailureAt(call[p].pc) \in Failures
        BY DEF FailureAt, Failures
    <2>. QED BY <1>1, <2>1 DEF OperationFails, CreationFails, Failures
<1>8. ~Crash(p)
    BY ReturnEffect DEF Crash, Failures
<1>. QED BY <1>3, <1>4, <1>5, <1>6, <1>7, <1>8 DEF Step, Scan

LEMMA LoadIsFresh ==
    ASSUME StoreInv, NEW p \in Procs, Select(p), LoadReturns(p, {"active", "absent"})
    PROVE  call'[p].target >= call[p].floor
<1>0. /\ GoodStates /\ call \in [Procs -> GoodCalls] /\ LoadGood(p)
      /\ call[p].op = "load" /\ call[p].pc = "authorizeResult"
      /\ call'[p].result \in {"active", "absent"}
    BY DEF StoreInv, BarrierInv, CommitInv, GoodStates, LoadReturns, Select, At
<1>1. ASSUME NEW f \in Failures, Fail(p, f) PROVE FALSE
    BY <1>0, <1>1, FailEffect DEF Failures
<1>2. ASSUME NEW r, NEW g, NEW d, Succeed(p, r, g, d)
      PROVE  call'[p].result = r /\ call'[p].target = g
    <2>1. Return(p, r, g, d)
        BY <1>0, <1>2 DEF Succeed, HoldsGate
    <2>. QED BY <1>0, <2>1 DEF Return, Outcome
<1>3. ~Barred
    BY <1>1 DEF Select, Failures
<1>4. Reaches(Seen(p), call[p].floor) /\ Unread(p) = {}
    BY <1>0, <1>3 DEF LoadGood
<1>5. Seen(p) = Valid(p) \cup Invalid(p) /\ Valid(p) \subseteq Generations
    BY <1>0, <1>4, SeenParts, ScanSets
<1>6. /\ Selected(p) \in Generations \cup {None}
      /\ \A g \in Valid(p) : g <= Selected(p)
      /\ Selected(p) = None => Valid(p) = {}
    BY <1>5, NewestFacts DEF Selected
<1>7. call[p].floor \in Generations \cup {None}
    BY <1>0 DEF GoodCalls, Calls
<1>8. CASE SelectNothing(p)
    <2>1. Invalid(p) = {} /\ Selected(p) = None /\ \E d : Succeed(p, "absent", None, d)
        BY <1>1, <1>8 DEF SelectNothing, Failures
    <2>2. call[p].floor = None
        BY <1>4, <1>5, <1>6, <2>1 DEF Reaches
    <2>3. call'[p].target = None
        BY <1>2, <2>1
    <2>. QED BY <2>2, <2>3 DEF None
<1>9. CASE SelectLegacy(p)
    BY <1>0, <1>1, <1>9 DEF SelectLegacy, Failures
<1>10. CASE SelectCurrent(p)
    <2> DEFINE r == IF \E g \in Invalid(p) : g > Selected(p) THEN "recovered" ELSE "active"
    <2>1. \E d : Succeed(p, r, Selected(p), d)
        BY <1>1, <1>10 DEF SelectCurrent, Failures
    <2>2. r = "active" /\ call'[p].target = Selected(p)
        BY <1>0, <1>2, <2>1
    <2>3. \A g \in Invalid(p) : ~(g > Selected(p))
        BY <2>2
    <2>4. Selected(p) \in Generations
        BY <1>10 DEF SelectCurrent, Marked
    <2>5. CASE call[p].floor = None
        BY <2>2, <2>4, <2>5, ConstantsAssumption DEF Generations, None
    <2>6. CASE call[p].floor # None
        <3>1. PICK g \in Seen(p) : g >= call[p].floor
            BY <1>4, <2>6 DEF Reaches
        <3>2. g \in Int /\ Selected(p) \in Int /\ call[p].floor \in Int
            BY <1>7, <2>4, <2>6, <3>1, ScanSets, ConstantsAssumption DEF Generations
        <3>3. g <= Selected(p)
            BY <1>5, <1>6, <2>3, <3>1, <3>2
        <3>. QED BY <2>2, <3>1, <3>2, <3>3
    <2>. QED BY <2>5, <2>6
<1>. QED BY <1>3, <1>8, <1>9, <1>10 DEF Select

\* A load that takes no gate still returns what was there when it was called, or
\* something newer, however many commits and prunings overlap its scan: an older one
\* is never reported as active and a store is never reported absent by mistake
\* (loadStoreUnlocked, scanStore).
THEOREM LoadsAreFresh == Spec => ActiveLoadIsFresh
<1>1. StoreInv /\ [Next]_vars
      => [\A p \in Procs : LoadReturns(p, {"active", "absent"})
                           => call'[p].target >= call[p].floor]_vars
    <2> SUFFICES ASSUME StoreInv, Next, NEW p \in Procs, LoadReturns(p, {"active", "absent"})
                 PROVE  call'[p].target >= call[p].floor
        OBVIOUS
    <2>1. BarrierInv /\ CommitInv /\ GoodStates /\ call[p].op = "load" /\ call'[p].op = "idle"
          /\ call'[p].result \notin Failures
        BY DEF StoreInv, BarrierInv, LoadReturns, Failures
    <2>2. ASSUME NEW q \in Procs, Call(q) \/ Step(q) \/ Crash(q) PROVE q = p
        <3>1. Alone(q)
            BY <2>1, <2>2, ProcessCommitStep DEF CommitStep
        <3>. QED BY <2>1, <3>1 DEF Alone
    <2>3. Call(p) \/ Step(p) \/ Crash(p)
        BY <2>1, <2>2 DEF Next, OwnerClearsGate, Damage
    <2>. QED BY <2>1, <2>3, LoadStep, LoadIsFresh
<1>. QED BY <1>1, StoreInvHolds, PTL DEF Spec, ActiveLoadIsFresh

\* A commit that reports no debt has removed every staging file and every document but
\* the new one and the rollback generation, and has given the gate back
\* (cleanupAfterCommit, guardedMutation).
THEOREM CleanCommits == Spec => CleanCommitLeavesNoDebris
<1>1. StoreInv /\ [Next]_vars
      => [\A p \in Procs :
             At(p, "release") /\ call'[p].result \in {"committed", "migrated"}
             /\ call'[p].pc = "idle" /\ ~call'[p].debt
             => dir'.temps = {} /\ ~Gated' /\ Present' \subseteq {call[p].target, Selected(p)}]_vars
    <2> SUFFICES ASSUME StoreInv, Next, NEW p \in Procs, At(p, "release"),
                        call'[p].result \in {"committed", "migrated"},
                        call'[p].pc = "idle", ~call'[p].debt
                 PROVE  dir'.temps = {} /\ ~Gated' /\ Present' \subseteq {call[p].target, Selected(p)}
        OBVIOUS
    <2>1. /\ BarrierInv /\ CommitInv /\ GoodStates /\ call[p].pc = "release" /\ CommitGood(p)
          /\ call \in [Procs -> GoodCalls] /\ dir \in Directories
        BY DEF StoreInv, BarrierInv, At, GoodStates, CommitInv
    <2>2. ASSUME NEW q \in Procs, Call(q) \/ Step(q) \/ Crash(q) PROVE q = p
        <3>1. Alone(q)
            BY <2>1, <2>2, ProcessCommitStep DEF CommitStep
        <3>. QED BY <2>1, <3>1 DEF Alone
    <2>3. Call(p) \/ Step(p) \/ Crash(p)
        BY <2>1, <2>2 DEF Next, OwnerClearsGate, Damage
    <2>4. ASSUME NEW f, Fail(p, f) PROVE call'[p].pc = "release"
        <3>1. HoldsGate(p)
            BY <2>1, OpOfLabel DEF HoldsGate, MutationLabels
        <3>. QED BY <2>1, <2>4, <3>1, FailEffect DEF ActivationLabels
    <2>5. ASSUME NEW r, NEW g, NEW d, Return(p, r, g, d)
          PROVE  call'[p].result = r /\ call'[p].debt = d
        BY <2>1, <2>5 DEF Return, Outcome
    <2>6. Release(p)
        <3>1. ~Crash(p)
            BY <2>1 DEF Crash, Return, Outcome
        <3>2. ~OperationFails(p) /\ ~CreationFails(p)
            BY <2>1, <2>4 DEF OperationFails, CreationFails
        <3>. QED BY <2>1, <2>3, <3>1, <3>2
                 DEF Call, CallLoad, CallMigrate, CallWrite, CallDelete, Start, Step, Gate, Acquire,
                     Scan, Authorize, List, Stat, Read, Select, CheckWrite, Reauthorizations, Commit,
                     Stage, VerifyStaged, Link, Sync, VerifyFinal, Unstage, Cleanup, SyncCleanup,
                     Deletion, Inventory, RaiseBarrier, VerifyBarrier, SyncBarrier, Remove,
                     SyncRemoved, Relist, At
    <2>7. /\ dir' = [dir EXCEPT !.marks = @ \ {"gate"}]
          /\ call[p].result \in {"committed", "migrated"} /\ ~call[p].debt
        <3>1. ASSUME NEW g, NEW d, Return(p, call[p].result, g, d)
              PROVE  call[p].result \in {"committed", "migrated"} /\ ~d
            BY <2>5, <3>1
        <3>2. ~Return(p, call[p].result, call[p].target, TRUE)
            BY <3>1
        <3>3. ~Return(p, "deletion-incomplete", None, FALSE)
            BY <2>1 DEF Return, Outcome
        <3>4. call[p].result \in {"committed", "migrated"}
            BY <2>6, <3>1, <3>3 DEF Release
        <3>. QED BY <2>6, <3>1, <3>2, <3>4 DEF Release, Successes
    <2>8. call[p].op \in {"write", "migrate"}
        <3>1. call[p].op \in {"write", "migrate", "delete"}
            BY <2>1, OpOfLabel DEF MutationLabels
        <3>2. call[p].op # "delete"
            BY <2>1, <2>7 DEF CommitGood, ResultGood
        <3>. QED BY <3>1, <3>2
    <2>9. CommittedGood(p) /\ OwnTemp(p) = {}
        BY <2>1, <2>7, <2>8 DEF CommitGood, Committing, At, OwnTemp
    <2>10. dir'.temps = dir.temps /\ dir'.finals = dir.finals /\ ~Gated'
        BY <2>1, <2>7 DEF Directories, Gated
    <2>11. dir.temps = {} /\ Present \subseteq Seen(p) \cup {call[p].target} /\ Removable(p) = {}
        BY <2>1, <2>7, <2>9 DEF CommittedGood
    <2>12. Present' = Present
        BY <2>10 DEF Present
    <2>. QED BY <2>10, <2>11, <2>12 DEF Removable
<1>. QED BY <1>1, StoreInvHolds, PTL DEF Spec, CleanCommitLeavesNoDebris

\* Which steps change the documents.
LEMMA FinalsKept ==
    ASSUME GoodStates, NEW p \in Procs, Call(p) \/ Step(p) \/ Crash(p),
           ~Link(p), ~Cleanup(p), ~Remove(p)
    PROVE  dir'.finals = dir.finals
<1>0. dir \in Directories
    BY DEF GoodStates
<1>1. CASE Call(p) \/ Crash(p)
    BY <1>1 DEF Call, CallLoad, CallMigrate, CallWrite, CallDelete, Start, Local, Crash
<1>2. CASE Gate(p)
    BY <1>0, <1>2 DEF Gate, Acquire, Release, Directories
<1>3. CASE Scan(p)
    BY <1>3 DEF Scan, Authorize, List, Stat, Read, Select, CheckWrite, Local
<1>4. CASE Stage(p) \/ Unstage(p)
    BY <1>0, <1>4 DEF Stage, Unstage, RemoveTemp, Directories
<1>5. CASE VerifyStaged(p) \/ Sync(p) \/ VerifyFinal(p) \/ SyncCleanup(p)
    BY <1>5 DEF VerifyStaged, Sync, VerifyFinal, SyncCleanup, Local
<1>6. CASE Deletion(p)
    BY <1>0, <1>6 DEF Deletion, Inventory, RaiseBarrier, VerifyBarrier, SyncBarrier, SyncRemoved,
       Relist, Local, Directories
<1>7. CASE OperationFails(p) \/ CreationFails(p)
    BY <1>0, <1>7 DEF OperationFails, CreationFails, Directories
<1>. QED BY <1>1, <1>2, <1>3, <1>4, <1>5, <1>6, <1>7 DEF Step, Commit

\* A cleanup that changes the documents removes one that its scan listed.
LEMMA CleanupFinals ==
    ASSUME GoodStates, NEW p \in Procs, Cleanup(p), dir'.finals # dir.finals
    PROVE  \E g \in Removable(p) :
              /\ g \in Generations
              /\ dir'.finals = [dir.finals EXCEPT ![g] = "none"]
              /\ dir'.temps = dir.temps /\ dir'.marks = dir.marks
<1>0. dir \in Directories
    BY DEF GoodStates
<1>1. \A t, c : ~RemoveTemp(p, t, c)
    BY <1>0 DEF RemoveTemp, Directories
<1>2. /\ Removable(p) # {}
      /\ \E c : RemoveFinal(p, Min(Removable(p)), c)
    BY <1>1 DEF Cleanup, Local
<1>3. dir' = [dir EXCEPT !.finals[Min(Removable(p))] = "none"]
    BY <1>2 DEF RemoveFinal
<1>4. Min(Removable(p)) \in Removable(p) /\ Min(Removable(p)) \in Generations
    BY <1>2, PrunedFacts
<1>. QED BY <1>0, <1>3, <1>4 DEF Directories

\* What a commit prunes while no document is damaged: the candidate and the document it
\* follows are both intact, newer, and stay.
LEMMA RollbackStays ==
    ASSUME ~ReadFaults, Undamaged, StoreInv, NEW p \in Procs, Cleanup(p),
           NEW g \in Intact, dir'.finals[g] = "none"
    PROVE  /\ Selected(p) \in Intact' /\ call[p].target \in Intact'
           /\ g < Selected(p) /\ Selected(p) < call[p].target
<1>0. /\ GoodStates /\ CommitGood(p) /\ dir \in Directories /\ call \in [Procs -> GoodCalls]
      /\ call[p].pc = "cleanup"
    BY DEF StoreInv, BarrierInv, CommitInv, GoodStates, Cleanup, At
<1>1. call[p].op \in {"write", "migrate"}
    BY <1>0, OpOfLabel DEF CommitLabels
<1>2. ScanGood(p) /\ CommittedGood(p)
    BY <1>0, <1>1 DEF CommitGood, Committing
<1>3. PICK x \in Removable(p) :
         x \in Generations /\ dir'.finals = [dir.finals EXCEPT ![x] = "none"]
    <2>1. dir.finals[g] # "none"
        BY DEF Intact
    <2>. QED BY <1>0, <2>1, CleanupFinals
<1>4. g = x /\ Intact' = Intact \ {g}
    BY <1>0, <1>3 DEF Intact, Directories, Stores
<1>5. g \in Seen(p) /\ g # Selected(p)
    BY <1>3, <1>4 DEF Removable
<1>6. g \in Valid(p)
    BY <1>0, <1>2, <1>5, SeenParts DEF ScanGood
<1>7. /\ Selected(p) \in Valid(p) /\ \A h \in Valid(p) : h <= Selected(p)
      /\ Valid(p) \subseteq Generations
    BY <1>6, ScanSets, NewestFacts DEF Selected
<1>8. g < Selected(p)
    BY <1>5, <1>6, <1>7, ConstantsAssumption DEF Generations
<1>9. Selected(p) \in Seen(p) /\ Selected(p) \in Intact
    BY <1>0, <1>2, <1>7, SeenParts DEF ScanGood
<1>10. Selected(p) < call[p].target /\ call[p].target \in Intact
    BY <1>2, <1>9 DEF CommittedGood
<1>11. call[p].target # g
    <2>1. call[p].target \in Generations /\ g \in Generations /\ Selected(p) \in Generations
        BY <1>10, <1>7 DEF Intact
    <2>. QED BY <1>8, <1>10, <2>1, ConstantsAssumption DEF Generations
<1>. QED BY <1>4, <1>5, <1>8, <1>9, <1>10, <1>11

\* Pruning keeps a rollback generation (cleanupAfterCommit, ADR-0023): an intact
\* document goes only when two newer intact ones remain.  A document that becomes
\* unreadable between the scan and the pruning can break this.
THEOREM RollbackKept ==
    ASSUME ~ReadFaults, Undamaged
    PROVE  Spec => PrunesBehindRollback
<1>1. StoreInv /\ [Next]_vars
      => [\A g \in Intact : dir'.finals[g] = "none" /\ ~Barred
                            => \E h, k \in Intact' : g < h /\ h < k]_vars
    <2> SUFFICES ASSUME StoreInv, Next, NEW g \in Intact, dir'.finals[g] = "none", ~Barred
                 PROVE  \E h, k \in Intact' : g < h /\ h < k
        OBVIOUS
    <2>1. /\ BarrierInv /\ GoodStates /\ BarrierHolds /\ dir \in Directories
          /\ dir.finals[g] # "none" /\ g \in Generations
        BY DEF StoreInv, BarrierInv, GoodStates, Intact
    <2>2. ASSUME NEW p \in Procs, Call(p) \/ Step(p) \/ Crash(p) PROVE Cleanup(p)
        <3>1. ~Link(p)
            BY <2>1 DEF Link, Directories, Stores
        <3>2. ~Remove(p)
            BY <2>1 DEF Remove, At, BarrierHolds, DeletionLabels
        <3>. QED BY <2>1, <2>2, <3>1, <3>2, FinalsKept
    <2>3. CASE \E p \in Procs : Call(p) \/ Step(p) \/ Crash(p)
        BY <2>2, <2>3, RollbackStays
    <2>4. CASE OwnerClearsGate
        BY <2>1, <2>4 DEF OwnerClearsGate, Directories
    <2>5. CASE \E d \in Generations : Damage(d)
        BY <2>1, <2>5, DamageEffect DEF Directories, Stores
    <2>. QED BY <2>3, <2>4, <2>5 DEF Next
<1>. QED BY <1>1, StoreInvHolds, PTL DEF Spec, PrunesBehindRollback

-----------------------------------------------------------------------------
(* The register: how a mutation proceeds *)

EarlyLabels == {"authorize", "acquire", "authorizeHeld", "authorizeScan", "list", "stat", "read",
                "authorizeResult", "check", "stage"}
LateLabels == ActivationLabels \cup {"unstage", "cleanup", "syncCleanup"}

\* A mutation has a nonce once it has written its staging file; a failure before the
\* link never looks like one behind it.
NonceGood(p) ==
    Mutating(p) =>
        /\ call[p].pc \in EarlyLabels => call[p].nonce = None
        /\ call[p].pc \in LateLabels => call[p].nonce # None
        /\ call[p].pc = "unstage" => call[p].result \in {"pending", "persistence-failed",
                                                         "conflict", "commit-outcome-unknown"}
        /\ call[p].pc = "release" /\ call[p].result \in {"committed", "migrated"}
              => call[p].nonce # None
NonceInv == \A p \in Procs : NonceGood(p)

Stays(p) == call'[p].op = call[p].op /\ call'[p].expected = call[p].expected

\* The ways a mutation goes on without taking effect ...
Advances(p) ==
    /\ Stays(p)
    /\ call'[p].nonce = call[p].nonce \/ (At(p, "stage") /\ call'[p].nonce # None)
    /\ \/ call[p].pc \in EarlyLabels /\ call'[p].pc \in EarlyLabels
          /\ call'[p].nonce = call[p].nonce
       \/ call[p].pc \in EarlyLabels /\ call'[p].pc = "release"
          /\ call'[p].nonce = call[p].nonce /\ call'[p].result \notin {"committed", "migrated"}
       \/ At(p, "stage") /\ call'[p].pc = "verifyStaged" /\ call'[p].nonce # None
       \/ At(p, "verifyStaged") /\ call'[p].pc = "link"
       \/ call[p].pc \in {"verifyStaged", "link"} /\ call'[p].pc = "unstage"
          /\ call'[p].result \in {"persistence-failed", "conflict"}
       \/ call[p].pc \in {"sync", "verifyFinal"} /\ call'[p].pc \in {"verifyFinal", "unstage"}
          /\ call'[p].result \in {"pending", "commit-outcome-unknown"}
       \/ At(p, "unstage") /\ call'[p].result = call[p].result
          /\ call'[p].pc = IF call[p].result = "pending" THEN "cleanup" ELSE "release"
       \/ At(p, "cleanup") /\ call'[p].pc \in {"cleanup", "syncCleanup"}
       \/ At(p, "syncCleanup") /\ call'[p].pc = "release"
          /\ call'[p].result \in {"committed", "migrated", "limit-exceeded"}

\* ... takes effect ...
Activates(p) ==
    Link(p) /\ Stays(p) /\ call'[p].pc = "sync" /\ call'[p].nonce = call[p].nonce

\* ... and ends.
Ends(p) ==
    /\ call'[p].op = "idle"
    /\ \/ call'[p].result = "crashed"
       \/ call[p].pc \in EarlyLabels /\ call'[p].result \in Failures
       \/ At(p, "release") /\ call'[p].result = call[p].result
       \/ At(p, "release") /\ call[p].result = "deleted"
             /\ call'[p].result = "deletion-incomplete"

LEMMA FailKeeps ==
    ASSUME GoodStates, NEW p \in Procs, NEW f, HoldsGate(p), Fail(p, f)
    PROVE  /\ call'[p].pc = (IF call[p].pc \in ActivationLabels THEN "unstage" ELSE "release")
           /\ call'[p].result = f /\ call'[p].nonce = call[p].nonce /\ Stays(p)
BY DEF Fail, GoodStates, GoodCalls, Calls, Stays

LEMMA SucceedKeeps ==
    ASSUME GoodStates, NEW p \in Procs, NEW r, NEW g, NEW d, HoldsGate(p), Succeed(p, r, g, d)
    PROVE  /\ call'[p].pc = "release"
           /\ call'[p].result = r /\ call'[p].nonce = call[p].nonce /\ Stays(p)
BY DEF Succeed, GoodStates, GoodCalls, Calls, Stays

LEMMA RecordKeeps ==
    ASSUME GoodStates, NEW p \in Procs, NEW c, call' = [call EXCEPT ![p] = c],
           c.op = call[p].op, c.expected = call[p].expected
    PROVE  call'[p] = c /\ Stays(p)
BY DEF GoodStates, Stays

\* A mutation that has not staged its candidate: it goes on, fails or answers.
LEMMA EarlyFail ==
    ASSUME GoodStates, NEW p \in Procs, NEW f \in Failures, call[p].pc \in EarlyLabels,
           call[p].op # "load", Fail(p, f)
    PROVE  Advances(p) \/ Ends(p)
<1>1. CASE HoldsGate(p)
    <2>1. call[p].pc \notin ActivationLabels
        BY DEF EarlyLabels, ActivationLabels
    <2>. QED BY <1>1, <2>1, FailKeeps DEF Advances, Failures
<1>2. CASE ~HoldsGate(p)
    BY <1>2, FailEffect DEF Ends
<1>. QED BY <1>1, <1>2

LEMMA EarlyGoto ==
    ASSUME GoodStates, NEW p \in Procs, NEW l \in EarlyLabels, call[p].pc \in EarlyLabels,
           Goto(p, l)
    PROVE  Advances(p)
BY GotoKeeps DEF Advances, Stays

LEMMA GateAdvances ==
    ASSUME GoodStates, NEW p \in Procs, Mutating(p), Gate(p)
    PROVE  Advances(p) \/ Ends(p)
<1>1. CASE Acquire(p)
    <2>1. call[p].pc \in EarlyLabels /\ call[p].op # "load"
        BY <1>1 DEF Acquire, At, EarlyLabels, Mutating
    <2>. QED BY <1>1, <2>1, EarlyFail, EarlyGoto DEF Acquire, Failures, EarlyLabels
<1>2. CASE Release(p)
    <2>1. \/ \E g, d : Return(p, call[p].result, g, d)
          \/ call[p].result = "deleted" /\ Return(p, "deletion-incomplete", None, FALSE)
        BY <1>2 DEF Release
    <2>2. CASE \E g, d : Return(p, call[p].result, g, d)
        BY <1>2, <2>2, ReturnEffect DEF Ends, Release
    <2>3. CASE call[p].result = "deleted" /\ Return(p, "deletion-incomplete", None, FALSE)
        <3>1. call'[p].op = "idle" /\ call'[p].result = "deletion-incomplete"
            BY <2>3 DEF Return, Outcome, GoodStates
        <3>. QED BY <1>2, <2>3, <3>1 DEF Ends, Release
    <2>. QED BY <2>1, <2>2, <2>3
<1>. QED BY <1>1, <1>2 DEF Gate

LEMMA ScanAdvances ==
    ASSUME GoodStates, NEW p \in Procs, Mutating(p), Scan(p)
    PROVE  Advances(p) \/ Ends(p)
<1>0. /\ call[p] \in Calls /\ call[p].op # "load" /\ call[p].pc \in EarlyLabels
      /\ call \in [Procs -> GoodCalls]
    BY DEF GoodStates, GoodCalls, Mutating, Scan, Authorize, List, Stat, Read, Select, CheckWrite,
           At, Reauthorizations, EarlyLabels
<1>1. ASSUME NEW f \in Failures, Fail(p, f) PROVE Advances(p) \/ Ends(p)
    BY <1>0, <1>1, EarlyFail
<1>2. ASSUME NEW l \in EarlyLabels, Goto(p, l) PROVE Advances(p)
    BY <1>0, <1>2, EarlyGoto
<1>3. ASSUME NEW c, call' = [call EXCEPT ![p] = c], c.op = call[p].op,
             c.expected = call[p].expected, c.nonce = call[p].nonce, c.pc \in EarlyLabels
      PROVE  Advances(p)
    BY <1>0, <1>3, RecordKeeps DEF Advances
<1>4. AfterScan(p) \in EarlyLabels
    BY DEF AfterScan, EarlyLabels
<1>5. CASE Authorize(p)
    <2>1. call[p].op \in {"write", "migrate"}
        BY DEF Mutating
    <2>2. AfterAuthorize(p) \in EarlyLabels
        BY <2>1 DEF AfterAuthorize, At, EarlyLabels
    <2>. QED BY <1>1, <1>2, <1>5, <2>2 DEF Authorize, Failures
<1>6. CASE List(p)
    <2>1. CASE ScanFits
        <3> DEFINE l == IF Present = {} THEN AfterScan(p) ELSE "stat"
                   c == [call[p] EXCEPT !.scan = Listing, !.temps = dir.temps, !.pc = l]
        <3>1. call' = [call EXCEPT ![p] = c]
            BY <1>6, <2>1 DEF List
        <3>2. l \in EarlyLabels
            BY <1>4 DEF EarlyLabels
        <3>3. c.op = call[p].op /\ c.expected = call[p].expected /\ c.nonce = call[p].nonce /\ c.pc = l
            BY <1>0 DEF Calls
        <3>. QED BY <1>3, <3>1, <3>2, <3>3
    <2>. QED BY <1>1, <1>6, <2>1 DEF List, Failures
<1>7. CASE Stat(p)
    BY <1>1, <1>2, <1>7 DEF Stat, Failures, EarlyLabels
<1>8. CASE Read(p)
    <2>1. PICK m : Classify(p, m)
        BY <1>8 DEF Read
    <2> DEFINE s == [call[p].scan EXCEPT ![Cursor(p)] = m]
               l == IF Unread(p) = {Cursor(p)} THEN AfterScan(p) ELSE "stat"
               c == [call[p] EXCEPT !.scan = s, !.pc = l]
    <2>2. call' = [call EXCEPT ![p].scan[Cursor(p)] = m, ![p].pc = l]
        BY <2>1 DEF Classify
    <2>3. call' = [call EXCEPT ![p] = c]
        BY <1>0, <2>2
    <2>4. l \in EarlyLabels
        BY <1>4 DEF EarlyLabels
    <2>5. c.op = call[p].op /\ c.expected = call[p].expected /\ c.nonce = call[p].nonce /\ c.pc = l
        BY <1>0 DEF Calls
    <2>. QED BY <1>3, <2>3, <2>4, <2>5
<1>9. CASE Select(p)
    <2>1. HoldsGate(p)
        BY <1>0, <1>9 DEF HoldsGate, Select, At
    <2>2. ASSUME NEW r \in {"absent", "active", "recovered"}, NEW g, NEW d, Succeed(p, r, g, d)
          PROVE  Advances(p)
        BY <1>0, <2>1, <2>2, SucceedKeeps DEF Advances
    <2>3. ASSUME NEW g, Prepare(p, g) PROVE Advances(p)
        <3> DEFINE c == [call[p] EXCEPT !.pc = "stage", !.target = g]
        <3>1. call' = [call EXCEPT ![p] = c]
            BY <2>3 DEF Prepare
        <3>2. c.op = call[p].op /\ c.expected = call[p].expected /\ c.nonce = call[p].nonce
              /\ c.pc = "stage"
            BY <1>0 DEF Calls
        <3>. QED BY <1>3, <3>1, <3>2 DEF EarlyLabels
    <2>. QED BY <1>1, <1>9, <2>2, <2>3
             DEF Select, SelectNothing, SelectLegacy, SelectCurrent, Failures
<1>10. CASE CheckWrite(p)
    BY <1>1, <1>2, <1>10 DEF CheckWrite, WriteVerdicts, Failures, EarlyLabels
<1>. QED BY <1>5, <1>6, <1>7, <1>8, <1>9, <1>10 DEF Scan

LEMMA CommitAdvances ==
    ASSUME GoodStates, NEW p \in Procs, CommitGood(p), Commit(p)
    PROVE  Advances(p) \/ Activates(p) \/ Ends(p)
<1>0. /\ call[p] \in Calls /\ call[p].op \in {"write", "migrate"} /\ HoldsGate(p)
      /\ call \in [Procs -> GoodCalls]
    <2>1. call[p].pc \in CommitLabels /\ call \in [Procs -> GoodCalls]
        BY DEF GoodStates, Commit, Stage, VerifyStaged, Link, Sync, VerifyFinal, Unstage, Cleanup,
               SyncCleanup, At, CommitLabels, ActivationLabels
    <2>. QED BY <2>1, OpOfLabel DEF HoldsGate, CommitLabels, ActivationLabels
<1>1. CASE Stage(p)
    <2>1. call[p].pc \in EarlyLabels /\ call[p].op # "load"
        BY <1>0, <1>1 DEF Stage, At, EarlyLabels
    <2>2. ASSUME NEW n \in Nonces, call' = [call EXCEPT ![p].nonce = n, ![p].pc = "verifyStaged"]
          PROVE  Advances(p)
        <3> DEFINE c == [call[p] EXCEPT !.nonce = n, !.pc = "verifyStaged"]
        <3>1. call' = [call EXCEPT ![p] = c]
            BY <2>2
        <3>2. /\ c.op = call[p].op /\ c.expected = call[p].expected /\ c.nonce = n
              /\ c.pc = "verifyStaged"
            BY <1>0 DEF Calls
        <3>3. n # None
            BY ConstantsAssumption
        <3> HIDE DEF c
        <3>4. call'[p] = c /\ Stays(p) /\ At(p, "stage")
            BY <1>1, <3>1, <3>2, RecordKeeps DEF Stage
        <3>. QED BY <3>2, <3>3, <3>4 DEF Advances
    <2>. QED BY <1>1, <2>1, <2>2, EarlyFail DEF Stage, Failures
<1>2. CASE VerifyStaged(p)
    <2>1. call[p].pc = "verifyStaged"
        BY <1>2 DEF VerifyStaged, At
    <2>2. CASE Goto(p, "link")
        BY <2>1, <2>2, GotoKeeps DEF Advances, At, Stays
    <2>3. CASE Fail(p, "persistence-failed")
        BY <1>0, <2>1, <2>3, FailKeeps DEF Advances, ActivationLabels
    <2>. QED BY <1>2, <2>2, <2>3 DEF VerifyStaged
<1>3. CASE Link(p)
    <2>1. call[p].pc = "link"
        BY <1>3 DEF Link, At
    <2>2. CASE Goto(p, "sync")
        BY <1>3, <2>2, GotoKeeps DEF Activates, Stays
    <2>3. CASE Fail(p, "conflict")
        BY <1>0, <2>1, <2>3, FailKeeps DEF Advances, ActivationLabels
    <2>. QED BY <1>3, <2>2, <2>3 DEF Link
<1>4. CASE Sync(p) \/ VerifyFinal(p)
    <2>1. call[p].pc \in {"sync", "verifyFinal"}
        BY <1>4 DEF Sync, VerifyFinal, At
    <2>2. call[p].result = "pending"
        BY <2>1 DEF CommitGood, ResultGood
    <2>3. ASSUME NEW l \in {"verifyFinal", "unstage"}, Goto(p, l) PROVE Advances(p)
        BY <2>1, <2>2, <2>3, GotoKeeps DEF Advances, Stays
    <2>4. CASE Fail(p, "commit-outcome-unknown")
        BY <1>0, <2>1, <2>4, FailKeeps DEF Advances, ActivationLabels
    <2>. QED BY <1>4, <2>3, <2>4 DEF Sync, VerifyFinal
<1>5. CASE Unstage(p)
    <2> DEFINE l == IF call[p].result = "pending" THEN "cleanup" ELSE "release"
               c == [call[p] EXCEPT !.pc = l]
    <2>1. l \in Labels
        BY DEF Labels, CommitLabels
    <2>2. /\ c \in Calls /\ c.pc = l /\ c.op = call[p].op /\ c.result = call[p].result
          /\ c.expected = call[p].expected /\ c.nonce = call[p].nonce
        BY <1>0, <2>1 DEF Calls
    <2>3. RemoveTemp(p, Staged(p), c) /\ At(p, "unstage")
        BY <1>5 DEF Unstage
    <2>4. \E d : call' = [call EXCEPT ![p] = [c EXCEPT !.debt = d]]
        BY <2>3 DEF RemoveTemp
    <2> HIDE DEF c
    <2>5. PICK d : call' = [call EXCEPT ![p] = [c EXCEPT !.debt = d]]
        BY <2>4
    <2> DEFINE e == [c EXCEPT !.debt = d]
    <2>6. /\ e.pc = l /\ e.op = call[p].op /\ e.result = call[p].result
          /\ e.expected = call[p].expected /\ e.nonce = call[p].nonce
        BY <2>2 DEF Calls
    <2>7. call'[p] = e
        BY <1>0, <2>5
    <2> HIDE DEF e
    <2>. QED BY <2>3, <2>6, <2>7 DEF Advances, Stays
<1>6. CASE Cleanup(p)
    <2>0. At(p, "cleanup") /\ call[p].pc = "cleanup"
        BY <1>6 DEF Cleanup, At
    <2>1. ASSUME NEW c \in Calls, c.pc = call[p].pc, c.op = call[p].op,
                 c.expected = call[p].expected, c.nonce = call[p].nonce,
                 \E d : call' = [call EXCEPT ![p] = [c EXCEPT !.debt = d]]
          PROVE  Advances(p)
        <3>1. PICK d : call' = [call EXCEPT ![p] = [c EXCEPT !.debt = d]]
            BY <2>1
        <3> DEFINE e == [c EXCEPT !.debt = d]
        <3>2. /\ e.pc = call[p].pc /\ e.op = call[p].op
              /\ e.expected = call[p].expected /\ e.nonce = call[p].nonce
            BY <2>1 DEF Calls
        <3>3. call'[p] = e
            BY <1>0, <3>1
        <3> HIDE DEF e
        <3>. QED BY <2>0, <3>2, <3>3 DEF Advances, Stays
    <2>2. ASSUME NEW t, RemoveTemp(p, t, [call[p] EXCEPT !.temps = @ \ {t}]) PROVE Advances(p)
        <3> DEFINE c == [call[p] EXCEPT !.temps = @ \ {t}]
        <3>1. /\ c \in Calls /\ c.pc = call[p].pc /\ c.op = call[p].op
              /\ c.expected = call[p].expected /\ c.nonce = call[p].nonce
            BY <1>0 DEF Calls
        <3>2. \E d : call' = [call EXCEPT ![p] = [c EXCEPT !.debt = d]]
            BY <2>2 DEF RemoveTemp
        <3> HIDE DEF c
        <3>. QED BY <2>1, <3>1, <3>2
    <2>3. ASSUME NEW g, RemoveFinal(p, g, [call[p] EXCEPT !.scan[g] = "unlisted"])
          PROVE  Advances(p)
        <3> DEFINE c == [call[p] EXCEPT !.scan[g] = "unlisted"]
        <3>0. [call[p].scan EXCEPT ![g] = "unlisted"] \in [Generations -> Marks]
            BY <1>0 DEF Calls, Marks
        <3>1. /\ c \in Calls /\ c.pc = call[p].pc /\ c.op = call[p].op
              /\ c.expected = call[p].expected /\ c.nonce = call[p].nonce
            BY <1>0, <3>0 DEF Calls
        <3>2. \E d : call' = [call EXCEPT ![p] = [c EXCEPT !.debt = d]]
            BY <2>3 DEF RemoveFinal
        <3> HIDE DEF c
        <3>. QED BY <2>1, <3>1, <3>2
    <2>4. CASE Goto(p, "syncCleanup")
        BY <2>0, <2>4, GotoKeeps DEF Advances, Stays
    <2>. QED BY <1>6, <2>2, <2>3, <2>4 DEF Cleanup
<1>7. CASE SyncCleanup(p)
    <2>0. At(p, "syncCleanup") /\ call[p].pc = "syncCleanup"
        BY <1>7 DEF SyncCleanup, At
    <2>1. ASSUME NEW r \in {"migrated", "committed"}, NEW g, NEW d, Succeed(p, r, g, d)
          PROVE  Advances(p)
        BY <1>0, <2>0, <2>1, SucceedKeeps DEF Advances
    <2>2. CASE Fail(p, "limit-exceeded")
        BY <1>0, <2>0, <2>2, FailKeeps DEF Advances, ActivationLabels
    <2>. QED BY <1>7, <2>1, <2>2 DEF SyncCleanup, Committed
<1>. QED BY <1>1, <1>2, <1>3, <1>4, <1>5, <1>6, <1>7 DEF Commit

LEMMA FailureAdvances ==
    ASSUME GoodStates, NEW p \in Procs, Mutating(p),
           OperationFails(p) \/ CreationFails(p) \/ Crash(p)
    PROVE  Advances(p) \/ Ends(p)
<1>0. /\ call \in [Procs -> GoodCalls] /\ call[p].op # "load"
      /\ call[p].pc \in LabelsOf(call[p].op) /\ call[p].op \in {"write", "migrate"}
    BY OpOfLabel DEF GoodStates, Mutating
<1>1. CASE OperationFails(p)
    <2> DEFINE f == FailureAt(call[p].pc)
    <2>1. Fail(p, f) /\ f \in Failures
        BY <1>1 DEF OperationFails, FailureAt, Failures
    <2>2. call[p].pc \in EarlyLabels \cup ActivationLabels
        BY <1>0, <1>1 DEF OperationFails, LabelsOf, MutationLabels, ScanLabels, CommitLabels,
           ActivationLabels, EarlyLabels
    <2>3. CASE call[p].pc \in EarlyLabels
        BY <1>0, <2>1, <2>3, EarlyFail
    <2>4. CASE call[p].pc \in ActivationLabels
        <3>1. HoldsGate(p)
            BY <1>0, <2>4 DEF HoldsGate, ActivationLabels
        <3>2. f = IF call[p].pc \in {"sync", "verifyFinal"} THEN "commit-outcome-unknown"
                  ELSE "persistence-failed"
            BY <2>4 DEF FailureAt, ActivationLabels, Reauthorizations, DeletionLabels
        <3>3. /\ call'[p].pc = "unstage" /\ call'[p].result = f
              /\ call'[p].nonce = call[p].nonce /\ Stays(p)
            BY <2>1, <2>4, <3>1, FailKeeps
        <3> HIDE DEF f
        <3>. QED BY <2>4, <3>2, <3>3 DEF Advances, ActivationLabels
    <2>. QED BY <2>2, <2>3, <2>4
<1>2. CASE CreationFails(p)
    <2>1. call[p].pc # "raiseBarrier"
        BY <1>0, OpOfLabel
    <2>2. call[p].pc \in EarlyLabels /\ Fail(p, "persistence-failed")
        BY <1>2, <2>1 DEF CreationFails, At, EarlyLabels
    <2>. QED BY <1>0, <2>2, EarlyFail DEF Failures
<1>3. CASE Crash(p)
    BY <1>3, ReturnEffect DEF Crash, Ends
<1>. QED BY <1>1, <1>2, <1>3

LEMMA MutationAdvances ==
    ASSUME GoodStates, NEW p \in Procs, CommitGood(p), Mutating(p), Call(p) \/ Step(p) \/ Crash(p)
    PROVE  Advances(p) \/ Activates(p) \/ Ends(p)
<1>1. ~Call(p) /\ ~Deletion(p)
    <2>1. call[p].op \in {"write", "migrate"} /\ call[p].pc # "idle"
        BY DEF Mutating, GoodStates, GoodCalls, LabelsOf, MutationLabels, ScanLabels,
               CommitLabels, ActivationLabels
    <2>2. call[p].pc \notin DeletionSteps
        BY <2>1, OpOfLabel DEF GoodStates, DeletionSteps
    <2>. QED BY <2>1, <2>2 DEF Call, CallLoad, CallMigrate, CallWrite, CallDelete, Start, At,
                Deletion, Inventory, RaiseBarrier, VerifyBarrier, SyncBarrier, Remove,
                SyncRemoved, Relist, DeletionSteps, DeletionLabels
<1>. QED BY <1>1, GateAdvances, ScanAdvances, CommitAdvances, FailureAdvances DEF Step

LEMMA AdvanceNonce ==
    ASSUME NEW p \in Procs, NonceGood(p), Mutating(p), Advances(p) \/ Activates(p) \/ Ends(p)
    PROVE  NonceGood(p)'
<1>1. CASE Ends(p)
    BY <1>1 DEF Ends, NonceGood, Mutating
<1>2. CASE Activates(p)
    BY <1>2 DEF Activates, Link, At, NonceGood, Mutating, LateLabels, EarlyLabels,
       ActivationLabels
<1>3. CASE Advances(p)
    BY <1>3 DEF Advances, At, NonceGood, Mutating, LateLabels, EarlyLabels, ActivationLabels
<1>. QED BY <1>1, <1>2, <1>3

\* A load or a deletion stays one until it returns, and never reports a commit.
LEMMA PassiveStep ==
    ASSUME GoodStates, NEW p \in Procs, CommitGood(p), CommitGood(p)', GoodStates',
           call[p].op \in {"load", "delete"}, Step(p) \/ Crash(p)
    PROVE  call'[p].op \in {call[p].op, "idle"} /\ call'[p].result \notin {"committed", "migrated"}
<1>0. /\ call \in [Procs -> GoodCalls] /\ call[p] \in Calls
      /\ call[p].pc \in LabelsOf(call[p].op)
    BY OpOfLabel DEF GoodStates
<1>1. call[p].pc \notin CommitLabels \/ call[p].pc = "check"
    BY <1>0, OpOfLabel
<1>2. ~CheckWrite(p) /\ ~Commit(p)
    BY <1>0, OpOfLabel DEF CheckWrite, Commit, Stage, VerifyStaged, Link, Sync, VerifyFinal,
       Unstage, Cleanup, SyncCleanup, At, CommitLabels, ActivationLabels
<1>3. call[p].op = "load" => call[p].result \notin {"committed", "migrated"}
    <2>1. call[p].op = "load" => call[p].pc \notin {"idle", "release"}
        BY <1>0 DEF LabelsOf, ScanLabels
    <2>. QED BY <2>1 DEF CommitGood, ResultGood, Successes
<1>4. call[p].result \notin {"committed", "migrated"}
    BY <1>3 DEF CommitGood, ResultGood
<1>5. ASSUME NEW f \in Failures, Fail(p, f)
      PROVE  call'[p].op \in {call[p].op, "idle"} /\ call'[p].result \notin {"committed", "migrated"}
    BY <1>5, FailEffect DEF Failures
<1>6. ASSUME NEW r, r \notin {"committed", "migrated"}, NEW g, NEW d, Succeed(p, r, g, d)
      PROVE  call'[p].op \in {call[p].op, "idle"} /\ call'[p].result \notin {"committed", "migrated"}
    BY <1>6, SucceedEffect
<1>7. ASSUME NEW l, Goto(p, l)
      PROVE  call'[p].op \in {call[p].op, "idle"} /\ call'[p].result \notin {"committed", "migrated"}
    BY <1>4, <1>7, GotoEffect
<1>8. ASSUME NEW c, call' = [call EXCEPT ![p] = c], c.op = call[p].op, c.result = call[p].result
      PROVE  call'[p].op \in {call[p].op, "idle"} /\ call'[p].result \notin {"committed", "migrated"}
    BY <1>0, <1>4, <1>8
<1>9. ASSUME NEW r, r \notin {"committed", "migrated"}, NEW g, NEW d, Return(p, r, g, d)
      PROVE  call'[p].op \in {call[p].op, "idle"} /\ call'[p].result \notin {"committed", "migrated"}
    BY <1>9, ReturnEffect
<1>10. CASE Gate(p)
    <2>1. CASE Release(p)
        <3>1. \/ \E g, d : Return(p, call[p].result, g, d)
              \/ Return(p, "deletion-incomplete", None, FALSE)
            BY <2>1 DEF Release
        <3>2. ASSUME Return(p, "deletion-incomplete", None, FALSE)
              PROVE  call'[p].op = "idle" /\ call'[p].result = "deletion-incomplete"
            BY <1>0, <3>2 DEF Return, Outcome
        <3>. QED BY <1>4, <1>9, <3>1, <3>2
    <2>. QED BY <1>5, <1>7, <1>10, <2>1 DEF Gate, Acquire, Failures
<1>11. CASE Authorize(p) \/ Stat(p)
    BY <1>5, <1>7, <1>11 DEF Authorize, Stat, Failures
<1>12. CASE List(p)
    <2>1. CASE ScanFits
        <3> DEFINE l == IF Present = {} THEN AfterScan(p) ELSE "stat"
                   c == [call[p] EXCEPT !.scan = Listing, !.temps = dir.temps, !.pc = l]
        <3>1. call' = [call EXCEPT ![p] = c] /\ c.op = call[p].op /\ c.result = call[p].result
            BY <1>0, <1>12, <2>1 DEF List, Calls
        <3>. QED BY <1>8, <3>1
    <2>. QED BY <1>5, <1>12, <2>1 DEF List, Failures
<1>13. CASE Read(p)
    <2>1. PICK m : Classify(p, m)
        BY <1>13 DEF Read
    <2> DEFINE s == [call[p].scan EXCEPT ![Cursor(p)] = m]
               l == IF Unread(p) = {Cursor(p)} THEN AfterScan(p) ELSE "stat"
               c == [call[p] EXCEPT !.scan = s, !.pc = l]
    <2>2. call' = [call EXCEPT ![p].scan[Cursor(p)] = m, ![p].pc = l]
        BY <2>1 DEF Classify
    <2>3. call' = [call EXCEPT ![p] = c] /\ c.op = call[p].op /\ c.result = call[p].result
        BY <1>0, <2>2 DEF Calls
    <2>. QED BY <1>8, <2>3
<1>14. CASE Select(p)
    <2>1. ASSUME NEW r \in {"absent", "active", "recovered"}, NEW g, NEW d, Succeed(p, r, g, d)
          PROVE  call'[p].op \in {call[p].op, "idle"}
                 /\ call'[p].result \notin {"committed", "migrated"}
        BY <1>6, <2>1
    <2>2. ASSUME NEW g, Prepare(p, g)
          PROVE  call'[p].op \in {call[p].op, "idle"}
                 /\ call'[p].result \notin {"committed", "migrated"}
        <3> DEFINE c == [call[p] EXCEPT !.pc = "stage", !.target = g]
        <3>1. call' = [call EXCEPT ![p] = c] /\ c.op = call[p].op /\ c.result = call[p].result
            BY <1>0, <2>2 DEF Prepare, Calls
        <3>. QED BY <1>8, <3>1
    <2>. QED BY <1>5, <1>14, <2>1, <2>2
             DEF Select, SelectNothing, SelectLegacy, SelectCurrent, Failures
<1>15. CASE Deletion(p)
    <2>1. HoldsGate(p)
        <3>1. call[p].pc \in DeletionSteps
            BY <1>15 DEF Deletion, Inventory, RaiseBarrier, VerifyBarrier, SyncBarrier, Remove,
               SyncRemoved, Relist, At, DeletionSteps, DeletionLabels
        <3>. QED BY <1>0, <3>1, OpOfLabel DEF HoldsGate, DeletionSteps, DeletionLabels
    <2>2. CASE Inventory(p)
        <3> DEFINE c == [call[p] EXCEPT !.scan = Listing, !.temps = dir.temps, !.pc = "raiseBarrier"]
        <3>1. c.op = call[p].op /\ c.result = call[p].result
            BY <1>0 DEF Calls
        <3>2. call' = [call EXCEPT ![p] = c] \/ Fail(p, "not-authorized")
            BY <2>2 DEF Inventory
        <3>. QED BY <1>5, <1>8, <3>1, <3>2 DEF Failures
    <2>3. CASE Remove(p)
        <3>1. ASSUME NEW t, call' = [call EXCEPT ![p].temps = @ \ {t}]
              PROVE  call'[p].op = call[p].op /\ call'[p].result = call[p].result
            BY <1>0, <3>1 DEF Calls
        <3>2. ASSUME NEW g, call' = [call EXCEPT ![p].scan[g] = "unlisted"]
              PROVE  call'[p].op = call[p].op /\ call'[p].result = call[p].result
            BY <1>0, <3>2 DEF Calls
        <3>. QED BY <1>4, <1>7, <2>3, <3>1, <3>2 DEF Remove
    <2>4. CASE Relist(p)
        <3>1. CASE Succeed(p, "deleted", None, FALSE)
            <4>1. call'[p].result = "deleted" /\ call'[p].op = call[p].op
                BY <1>0, <2>1, <3>1 DEF Succeed, Calls
            <4>. QED BY <4>1
        <3>. QED BY <1>5, <2>4, <3>1 DEF Relist, Failures
    <2>. QED BY <1>5, <1>7, <1>15, <2>2, <2>3, <2>4
             DEF Deletion, RaiseBarrier, VerifyBarrier, SyncBarrier, SyncRemoved, Failures
<1>16. CASE OperationFails(p) \/ CreationFails(p)
    <2>1. FailureAt(call[p].pc) \in Failures
        BY DEF FailureAt, Failures
    <2>. QED BY <1>5, <1>16, <2>1 DEF OperationFails, CreationFails, Failures
<1>17. CASE Crash(p)
    <2>1. call'[p].op = "idle" /\ call'[p].result = "crashed"
        BY <1>0, <1>17 DEF Crash, Return, Outcome
    <2>. QED BY <2>1
<1>. QED BY <1>2, <1>10, <1>11, <1>12, <1>13, <1>14, <1>15, <1>16, <1>17 DEF Step, Scan

\* What a call starts with.
LEMMA CallStarts ==
    ASSUME GoodStates, NEW p \in Procs, Call(p)
    PROVE  /\ call[p].op = "idle" /\ call'[p].pc \in {"authorize", "authorizeScan"}
           /\ call'[p].result = "pending" /\ call'[p].nonce = None
           /\ call'[p].op \in {"load", "delete", "migrate", "write"}
           /\ call'[p].expected \in Generations \cup {None}
<1>0. call[p].op = "idle"
    <2>1. call[p].pc = "idle" /\ call \in [Procs -> GoodCalls]
        BY DEF Call, CallLoad, CallMigrate, CallWrite, CallDelete, Start, At, GoodStates
    <2>2. call[p].pc \in LabelsOf(call[p].op) /\ call[p].op \in Operations
        BY <2>1, OpOfLabel
    <2>. QED BY <2>1, <2>2 DEF LabelsOf, Operations, MutationLabels, ScanLabels, CommitLabels,
                ActivationLabels, DeletionLabels
<1>1. ASSUME NEW op \in {"load", "delete", "migrate", "write"},
             NEW l \in {"authorize", "authorizeScan"}, NEW e \in Generations \cup {None}, NEW g,
             Start(p, op, l, e, g)
      PROVE  /\ call'[p].pc = l /\ call'[p].op = op /\ call'[p].result = "pending"
             /\ call'[p].nonce = None /\ call'[p].expected = e
    <2> DEFINE f == IF op = "load" THEN Newest(Intact) ELSE None
               c == [Outcome(op, "pending", g, FALSE) EXCEPT !.pc = l, !.expected = e, !.floor = f]
    <2>1. c.pc = l /\ c.op = op /\ c.result = "pending" /\ c.nonce = None /\ c.expected = e
        BY DEF Outcome
    <2>2. call'[p] = c
        BY <1>1 DEF Start, GoodStates
    <2> HIDE DEF c
    <2>. QED BY <2>1, <2>2
<1>2. \A r \in Requests : r[1] \in Generations \cup {None}
    BY ConstantsAssumption
<1>3. \E op \in {"load", "delete", "migrate", "write"}, l \in {"authorize", "authorizeScan"},
         e \in Generations \cup {None} : \E g : Start(p, op, l, e, g)
    BY <1>2 DEF Call, CallLoad, CallMigrate, CallWrite, CallDelete
<1>. QED BY <1>0, <1>1, <1>3

LEMMA InitNonceInv == Init => NonceInv
<1> SUFFICES ASSUME Init, NEW p \in Procs PROVE NonceGood(p)
    BY DEF NonceInv
<1>1. call[p].op = "idle"
    BY DEF Init, Outcome
<1>. QED BY <1>1 DEF NonceGood, Mutating

\* What a step of p may make of its own call.
LEMMA OwnStep ==
    ASSUME StoreInv, StoreInv', NEW p \in Procs, NonceGood(p), Call(p) \/ Step(p) \/ Crash(p)
    PROVE  /\ Alone(p) /\ NonceGood(p)'
           /\ Mutating(p) => Advances(p) \/ Activates(p) \/ Ends(p)
           /\ ~Mutating(p) => \/ Call(p)
                              \/ /\ ~Mutating(p)'
                                 /\ call'[p].result \notin {"committed", "migrated"}
<1>0. /\ GoodStates /\ BarrierInv /\ CommitInv /\ CommitGood(p) /\ CommitGood(p)' /\ GoodStates'
    BY DEF StoreInv, BarrierInv, CommitInv
<1>1. Alone(p)
    BY <1>0, ProcessCommitStep DEF CommitStep
<1>2. CASE Mutating(p)
    <2>1. Advances(p) \/ Activates(p) \/ Ends(p)
        BY <1>0, <1>2, MutationAdvances
    <2>. QED BY <1>1, <1>2, <2>1, AdvanceNonce
<1>3. CASE Call(p)
    <2>1. NonceGood(p)' /\ ~Mutating(p)
        BY <1>0, <1>3, CallStarts DEF NonceGood, Mutating, LateLabels, ActivationLabels
    <2>. QED BY <1>1, <1>3, <2>1
<1>4. CASE ~Mutating(p) /\ ~Call(p)
    <2>1. call[p].op \in {"load", "delete"}
        <3>1. call[p].pc # "idle"
            <4>1. CASE Crash(p)
                BY <4>1 DEF Crash, At
            <4>2. CASE Step(p)
                BY <4>2 DEF Step, Gate, Acquire, Release, Scan, Authorize, Reauthorizations, List,
                   Stat, Read, Select, CheckWrite, Commit, Stage, VerifyStaged, Link, Sync,
                   VerifyFinal, Unstage, Cleanup, SyncCleanup, Deletion, Inventory, RaiseBarrier,
                   VerifyBarrier, SyncBarrier, Remove, SyncRemoved, Relist, OperationFails,
                   CreationFails, At
            <4>. QED BY <1>4, <4>1, <4>2
        <3>2. call[p].op \in Operations /\ call[p].op # "idle"
            BY <1>0, <3>1, OpOfLabel DEF GoodStates
        <3>. QED BY <1>4, <3>2 DEF Operations, Mutating
    <2>2. call'[p].op \in {call[p].op, "idle"} /\ call'[p].result \notin {"committed", "migrated"}
        BY <1>0, <1>4, <2>1, PassiveStep
    <2>3. ~Mutating(p)'
        BY <2>1, <2>2 DEF Mutating
    <2>. QED BY <1>1, <1>4, <2>2, <2>3 DEF NonceGood
<1>. QED BY <1>2, <1>3, <1>4

LEMMA NextNonceInv == StoreInv /\ StoreInv' /\ NonceInv /\ [Next]_vars => NonceInv'
<1> SUFFICES ASSUME StoreInv, StoreInv', NonceInv, [Next]_vars PROVE NonceInv'
    OBVIOUS
<1>1. ASSUME NEW p \in Procs, Call(p) \/ Step(p) \/ Crash(p) PROVE NonceInv'
    <2>1. Alone(p) /\ NonceGood(p)'
        BY <1>1, OwnStep DEF NonceInv
    <2>2. ASSUME NEW q \in Procs, q # p PROVE NonceGood(q)'
        BY <2>1, <2>2 DEF Alone, NonceInv, NonceGood, Mutating
    <2>. QED BY <2>1, <2>2 DEF NonceInv
<1>2. CASE UNCHANGED call
    BY <1>2 DEF NonceInv, NonceGood, Mutating
<1>. QED BY <1>1, <1>2 DEF Next, OwnerClearsGate, Damage, vars

-----------------------------------------------------------------------------
(* The register: its value *)

Value == IF Barred THEN None ELSE Newest(Intact)

\* Removing a document below another one leaves the newest.
LEMMA NewestStays ==
    ASSUME NEW S \in SUBSET Generations, NEW x \in S, NEW t \in S, x < t
    PROVE  Newest(S \ {x}) = Newest(S)
<1> DEFINE T == S \ {x}
<1>0. Generations \subseteq Nat /\ None \notin Nat
    BY ConstantsAssumption DEF Generations, None
<1>1. T \subseteq Generations /\ T \subseteq S
    OBVIOUS
<1>2. t \in T /\ \A g \in S : g # x => g \in T
    BY <1>0
<1>3. x \notin T
    OBVIOUS
<1> HIDE DEF T
<1>4. /\ Newest(S) \in S \cup {None} /\ \A g \in S : g <= Newest(S)
      /\ (S = {} <=> Newest(S) = None)
    BY NewestFacts
<1>5. /\ Newest(T) \in T \cup {None} /\ \A g \in T : g <= Newest(T)
      /\ (T = {} <=> Newest(T) = None)
    BY <1>1, NewestFacts
<1>6. Newest(S) \in S /\ Newest(T) \in T
    BY <1>2, <1>4, <1>5
<1>7. Newest(S) # x
    BY <1>0, <1>4, <1>6
<1>8. Newest(S) <= Newest(T) /\ Newest(T) <= Newest(S)
    BY <1>1, <1>2, <1>4, <1>5, <1>6, <1>7
<1>9. Newest(S) \in Nat /\ Newest(T) \in Nat
    BY <1>0, <1>1, <1>6
<1>10. Newest(T) = Newest(S)
    BY <1>8, <1>9
<1>. QED BY <1>10 DEF T

\* Only a link and the barrier change the value.
LEMMA ValueKept ==
    ASSUME Undamaged, StoreInv, Shrinks, NEW p \in Procs, Call(p) \/ Step(p) \/ Crash(p),
           ~Link(p), Barred' => Barred
    PROVE  Value' = Value /\ (Barred' <=> Barred)
<1>0. /\ GoodStates /\ BarrierHolds /\ CommitGood(p) /\ dir \in Directories
      /\ call \in [Procs -> GoodCalls]
    BY DEF StoreInv, BarrierInv, CommitInv, GoodStates
<1>1. Barred' <=> Barred
    BY DEF Shrinks
<1>2. CASE Barred
    BY <1>1, <1>2 DEF Value
<1>3. CASE ~Barred
    <2>1. ~Remove(p)
        BY <1>0, <1>3 DEF Remove, At, BarrierHolds, DeletionLabels
    <2>2. CASE dir'.finals = dir.finals
        <3>1. Intact' = Intact
            BY <2>2 DEF Intact
        <3>. QED BY <1>1, <3>1 DEF Value
    <2>3. CASE dir'.finals # dir.finals
        <3>1. Cleanup(p)
            BY <1>0, <2>1, <2>3, FinalsKept
        <3>2. PICK x \in Removable(p) :
                 x \in Generations /\ dir'.finals = [dir.finals EXCEPT ![x] = "none"]
            BY <1>0, <2>3, <3>1, CleanupFinals
        <3>3. Intact' = Intact \ {x}
            BY <1>0, <3>2 DEF Intact, Directories, Stores
        <3>4. CommittedGood(p)
            <4>1. call[p].pc = "cleanup"
                BY <3>1 DEF Cleanup, At
            <4>2. call[p].op \in {"write", "migrate"}
                BY <1>0, <4>1, OpOfLabel DEF CommitLabels
            <4>. QED BY <1>0, <4>1, <4>2 DEF CommitGood, Committing
        <3>5. x < call[p].target /\ call[p].target \in Intact
            BY <3>2, <3>4 DEF CommittedGood, Removable
        <3>6. Newest(Intact') = Newest(Intact)
            <4>1. CASE x \in Intact
                <5>1. Intact \in SUBSET Generations
                    BY DEF Intact
                <5>. QED BY <3>3, <3>5, <4>1, <5>1, NewestStays
            <4>2. CASE x \notin Intact
                <5>1. Intact' = Intact
                    BY <3>3, <4>2
                <5>. QED BY <5>1
            <4>. QED BY <4>1, <4>2
        <3>. QED BY <1>1, <3>6 DEF Value
    <2>. QED BY <2>2, <2>3
<1>. QED BY <1>2, <1>3

\* The link replaces the value the mutation was prepared for by its candidate.
LEMMA LinkApplies ==
    ASSUME ~ReadFaults, Undamaged, StoreInv, NEW p \in Procs, Activates(p)
    PROVE  /\ ~Barred /\ (Barred' <=> Barred)
           /\ call[p].op \in {"write", "migrate"}
           /\ call[p].op = "write" => call[p].expected = Value
           /\ Value' \in Generations /\ Value' > Value
<1>0. /\ GoodStates /\ BarrierHolds /\ CommitGood(p) /\ dir \in Directories
      /\ call \in [Procs -> GoodCalls] /\ call[p].pc = "link" /\ Link(p)
    BY DEF StoreInv, BarrierInv, CommitInv, GoodStates, Activates, Link, At
<1>1. call[p].op \in {"write", "migrate"} /\ call[p].target \in Generations
    BY <1>0, InCommit DEF CommitLabels, ActivationLabels
<1>2. ~Barred
    BY <1>0, <1>1 DEF BarrierHolds, Blocked
<1>3. ScanGood(p) /\ PreparedGood(p) /\ HoldsGate(p)
    BY <1>0, <1>1 DEF CommitGood, Preparing, Scanned, HoldsGate
<1>4. Intact = Valid(p)
    <2>1. Present = Unread(p) \cup Valid(p) \cup Invalid(p) /\ Unread(p) = {}
        BY <1>0, <1>3, SeenParts DEF PreparedGood, ScanGood
    <2>2. Intact \subseteq Present
        BY DEF Intact, Present
    <2>. QED BY <1>3, <2>1, <2>2 DEF ScanGood
<1>5. Value = Selected(p)
    BY <1>2, <1>4 DEF Value, Selected
<1>6. dir' = [dir EXCEPT !.finals[call[p].target] = "current"]
    <2>1. ~Fail(p, "conflict")
        BY <1>0, <1>3, FailKeeps DEF ActivationLabels, Activates
    <2>. QED BY <1>0, <2>1 DEF Link
<1>7. (Barred' <=> Barred) /\ Intact' = Intact \cup {call[p].target}
    BY <1>0, <1>1, <1>6 DEF Directories, Stores, Intact, Barred
<1>8. /\ \A g \in Intact : g < call[p].target
      /\ call[p].target = NextGeneration(p)
    <2>1. call[p].target = NextGeneration(p) /\ Intact \subseteq Seen(p)
        BY <1>0, <1>3, <1>4, SeenParts DEF PreparedGood
    <2>. QED BY <2>1, NextExceeds
<1>9. Value' = call[p].target
    <2> DEFINE S == Intact \cup {call[p].target}
    <2>1. S \subseteq Generations /\ S \subseteq Nat
        BY <1>1, ConstantsAssumption DEF Intact, Generations
    <2>2. Newest(S) \in S /\ call[p].target <= Newest(S)
        BY <2>1, NewestFacts
    <2>3. Newest(S) = call[p].target
        BY <1>8, <2>1, <2>2
    <2>4. Newest(Intact') = call[p].target
        BY <1>7, <2>3
    <2>. QED BY <1>2, <1>7, <2>4 DEF Value
<1>10. call[p].target > Value
    <2>1. Newest(Intact) \in Intact \cup {None}
        BY NewestFacts DEF Intact
    <2>2. Value = Newest(Intact)
        BY <1>2 DEF Value
    <2>3. call[p].target \in Nat
        BY <1>1, ConstantsAssumption DEF Generations
    <2>4. CASE Value = None
        BY <2>3, <2>4 DEF None
    <2>5. CASE Value # None
        <3>1. Value \in Intact /\ Value \in Nat
            BY <2>1, <2>2, <2>5, ConstantsAssumption DEF Intact, Generations
        <3>. QED BY <1>8, <2>3, <3>1
    <2>. QED BY <2>4, <2>5
<1>11. call[p].op = "write" => call[p].expected = Value
    BY <1>0, <1>3, <1>5 DEF PreparedGood
<1>. QED BY <1>1, <1>2, <1>7, <1>9, <1>10, <1>11

\* The barrier is raised by a deletion that answers nothing yet.
LEMMA RaisingStep ==
    ASSUME StoreInv, NEW p \in Procs, Call(p) \/ Step(p) \/ Crash(p), ~Barred, Barred'
    PROVE  /\ call[p].op = "delete" /\ call'[p].op = "delete"
           /\ call[p].result = "pending"
           /\ call'[p].result \in {"pending", "persistence-failed"}
<1>0. /\ GoodStates /\ BarrierHolds /\ CommitGood(p) /\ dir \in Directories
      /\ call \in [Procs -> GoodCalls]
    BY DEF StoreInv, BarrierInv, CommitInv, GoodStates
<1>1. HoldsGate(p) /\ call[p].op = "delete"
    BY <1>0, CallBarrierStep, GateBarrierStep, ScanBarrierStep, CommitBarrierStep,
       DeletionBarrierStep, FailureBarrierStep DEF Step, BarrierStep
<1>2. RaiseBarrier(p) \/ (CreationFails(p) /\ At(p, "raiseBarrier"))
    <2>1. ~Call(p) /\ ~Crash(p) /\ ~OperationFails(p) /\ ~Scan(p)
        BY DEF Call, CallLoad, CallMigrate, CallWrite, CallDelete, Start, Local, Crash,
               OperationFails, Scan, Authorize, List, Stat, Read, Select, CheckWrite, Barred
    <2>2. ~Gate(p)
        BY <1>0 DEF Gate, Acquire, Release, Barred, Directories
    <2>3. ~Commit(p)
        BY <1>0, <1>1, OpOfLabel DEF Commit, Stage, VerifyStaged, Link, Sync, VerifyFinal, Unstage,
           Cleanup, SyncCleanup, At, CommitLabels, ActivationLabels
    <2>4. Deletion(p) => RaiseBarrier(p)
        BY <1>0 DEF Deletion, Inventory, VerifyBarrier, SyncBarrier, Remove, SyncRemoved, Relist,
                    Local, Barred, Directories
    <2>5. CreationFails(p) => At(p, "raiseBarrier")
        BY <1>0 DEF CreationFails, Barred, Directories
    <2>. QED BY <2>1, <2>2, <2>3, <2>4, <2>5 DEF Step
<1>3. call[p].pc = "raiseBarrier" /\ call[p].result = "pending"
    BY <1>0, <1>2 DEF RaiseBarrier, At, CommitGood, ResultGood
<1>4. Goto(p, "verifyBarrier") \/ Fail(p, "persistence-failed")
    BY <1>2 DEF RaiseBarrier, CreationFails
<1>5. call'[p].op = call[p].op /\ call'[p].result \in {"pending", "persistence-failed"}
    <2>1. CASE Goto(p, "verifyBarrier")
        BY <1>3, <2>1, <1>0, GotoKeeps
    <2>2. CASE Fail(p, "persistence-failed")
        BY <1>0, <1>1, <2>2, FailKeeps DEF Stays
    <2>. QED BY <1>4, <2>1, <2>2
<1>. QED BY <1>1, <1>3, <1>5

-----------------------------------------------------------------------------
(* The register: its clients *)

ExpectsOf(p) ==
    IF call[p].op = "migrate" THEN -2 ELSE IF call[p].op = "write" THEN call[p].expected ELSE None
Clients == [p \in Procs |-> ClientOf(p)]
Expectations == [p \in Procs |-> ExpectsOf(p)]

\* The clients of the register change one at a time.
LEMMA ClientAlone ==
    ASSUME NEW p \in Procs, Alone(p)
    PROVE  /\ Clients' = [Clients EXCEPT ![p] = ClientOf(p)']
           /\ Expectations' = [Expectations EXCEPT ![p] = ExpectsOf(p)']
<1>1. ASSUME NEW q \in Procs, q # p PROVE ClientOf(q)' = ClientOf(q) /\ ExpectsOf(q)' = ExpectsOf(q)
    <2>1. call'[q] = call[q]
        BY <1>1 DEF Alone
    <2>2. (Activated(q)' <=> Activated(q)) /\ (Mutating(q)' <=> Mutating(q))
        BY <2>1 DEF Activated, Mutating, At
    <2>. QED BY <2>1, <2>2 DEF ClientOf, ExpectsOf
<1>. QED BY <1>1 DEF Clients, Expectations

\* A mutation on its way stays the client it is.
LEMMA ClientAdvances ==
    ASSUME NEW p \in Procs, NonceGood(p), Mutating(p), Advances(p)
    PROVE  ClientOf(p)' = ClientOf(p) /\ ExpectsOf(p)' = ExpectsOf(p)
<1>1. Mutating(p)' /\ ExpectsOf(p)' = ExpectsOf(p)
    BY DEF Advances, Stays, Mutating, ExpectsOf
<1>2. Activated(p)' <=> Activated(p)
    BY DEF Advances, NonceGood, Mutating, Activated, At, EarlyLabels, LateLabels,
           ActivationLabels
<1>. QED BY <1>1, <1>2 DEF ClientOf

\* The link makes an asking client one that has changed the value.
LEMMA ClientActivates ==
    ASSUME NEW p \in Procs, Mutating(p), Activates(p)
    PROVE  /\ ClientOf(p) = "asked" /\ ClientOf(p)' = "changed"
           /\ ExpectsOf(p)' = ExpectsOf(p)
<1>1. Mutating(p)' /\ ExpectsOf(p)' = ExpectsOf(p)
    BY DEF Activates, Stays, Mutating, ExpectsOf
<1>2. ~Activated(p) /\ Activated(p)'
    BY DEF Activates, Link, Activated, At
<1>. QED BY <1>1, <1>2 DEF ClientOf

\* The answer of a mutation tells whether it took effect, or that this is unknown.
LEMMA ClientEnds ==
    ASSUME NEW p \in Procs, NonceGood(p), Mutating(p), Ends(p)
    PROVE  /\ \/ ClientOf(p) = "asked" /\ ClientOf(p)' \in {"nothing", "unknown"}
              \/ ClientOf(p) = "changed" /\ ClientOf(p)' \in {"confirmed", "unknown"}
           /\ ExpectsOf(p)' = None
<1>1. ~Mutating(p)' /\ ExpectsOf(p)' = None
    BY DEF Ends, Mutating, ExpectsOf
<1>2. CASE Activated(p)
    <2>1. call'[p].result \in {"committed", "migrated", "commit-outcome-unknown",
                               "limit-exceeded", "crashed"}
        BY <1>2 DEF Ends, Activated, At, EarlyLabels
    <2>. QED BY <1>1, <1>2, <2>1 DEF ClientOf
<1>3. CASE ~Activated(p)
    <2>1. call'[p].result \notin {"committed", "migrated"}
        BY <1>3 DEF Ends, Activated, At, NonceGood, Failures
    <2>. QED BY <1>1, <1>3, <2>1 DEF ClientOf
<1>. QED BY <1>2, <1>3

-----------------------------------------------------------------------------
(* The register: what its actions ask of the mapped state *)

LEMMA RegisterInit == Init => Register!Init
<1> SUFFICES ASSUME Init PROVE Register!Init
    OBVIOUS
<1>1. ~Barred /\ Newest(Intact) \in Generations \cup {None}
    BY NewestFacts DEF Init, Barred, Intact
<1>2. ASSUME NEW p \in Procs PROVE ClientOf(p) = "nothing" /\ ExpectsOf(p) = None
    <2>1. call[p].op = "idle" /\ call[p].result = "absent"
        BY DEF Init, Outcome
    <2>. QED BY <2>1 DEF ClientOf, ExpectsOf, Mutating
<1>3. Clients = [p \in Procs |-> "nothing"] /\ Expectations = [p \in Procs |-> None]
    BY <1>2 DEF Clients, Expectations
<1>. QED BY <1>1, <1>3 DEF Register!Init, Clients, Expectations, ExpectsOf

LEMMA Unmoved ==
    ASSUME Clients' = Clients, Expectations' = Expectations, Value' = Value, Barred' <=> Barred
    PROVE  UNCHANGED Register!vars
BY DEF Register!vars, Clients, Expectations, ExpectsOf, Value

LEMMA Asking ==
    ASSUME NEW p \in Procs, ClientOf(p) \in {"nothing", "confirmed", "unknown"},
           Clients' = [Clients EXCEPT ![p] = "asked"],
           NEW e \in Generations \cup {None, -2},
           Expectations' = [Expectations EXCEPT ![p] = e], Value' = Value, Barred' <=> Barred
    PROVE  Register!Ask(p)
BY DEF Register!Ask, Register!Answers, Register!Any, Clients, Expectations, ExpectsOf, Value

LEMMA Applying ==
    ASSUME NEW p \in Procs, ClientOf(p) = "asked", ~Barred, ExpectsOf(p) \in {-2, Value},
           Value' \in Generations, Value' > Value,
           Clients' = [Clients EXCEPT ![p] = "changed"],
           Expectations' = Expectations, Barred' <=> Barred
    PROVE  Register!Apply(p)
BY DEF Register!Apply, Register!Any, Clients, Expectations, ExpectsOf, Value

LEMMA Answering ==
    ASSUME NEW p \in Procs, NEW a,
           \/ ClientOf(p) = "asked" /\ a \in {"nothing", "unknown"}
           \/ ClientOf(p) = "changed" /\ a \in {"confirmed", "unknown"},
           Clients' = [Clients EXCEPT ![p] = a],
           Expectations' = [Expectations EXCEPT ![p] = None], Value' = Value, Barred' <=> Barred
    PROVE  Register!Answer(p)
<1>1. Clients[p] = ClientOf(p)
    BY DEF Clients
<1>. QED BY <1>1 DEF Register!Answer, Clients, Expectations, ExpectsOf, Value

LEMMA Passing ==
    ASSUME NEW p \in Procs, ClientOf(p) \in {"nothing", "confirmed", "unknown"},
           NEW a \in {"nothing", "unknown"}, Clients' = [Clients EXCEPT ![p] = a],
           Expectations' = Expectations, Value' = Value, Barred' <=> Barred
    PROVE  Register!Observe(p) \/ Register!Perish(p)
BY DEF Register!Observe, Register!Perish, Register!Answers, Clients, Expectations, ExpectsOf, Value

LEMMA Closing ==
    ASSUME Barred', Clients' = Clients, Expectations' = Expectations
    PROVE  Register!Close
BY DEF Register!Close, Clients, Expectations, ExpectsOf, Value

-----------------------------------------------------------------------------
(* The register: every step of the store is one of its steps *)

\* A step of a process that is not calling a mutation and not in one.
LEMMA PassiveMaps ==
    ASSUME NEW p \in Procs, Alone(p), ~Mutating(p), ~Mutating(p)',
           call'[p].result \notin {"committed", "migrated"}, Value' = Value, Barred' <=> Barred
    PROVE  Register!Next
<1>1. ClientOf(p) \in {"nothing", "confirmed", "unknown"} /\ ClientOf(p)' \in {"nothing", "unknown"}
    BY DEF ClientOf
<1>2. ExpectsOf(p) = None /\ ExpectsOf(p)' = None
    BY DEF ExpectsOf, Mutating
<1>3. /\ Clients' = [Clients EXCEPT ![p] = ClientOf(p)']
      /\ Expectations' = [Expectations EXCEPT ![p] = None]
    BY <1>2, ClientAlone
<1>4. Expectations' = Expectations
    BY <1>2, <1>3 DEF Expectations
<1>5. Register!Observe(p) \/ Register!Perish(p)
    BY <1>1, <1>3, <1>4, Passing
<1>. QED BY <1>5 DEF Register!Next

LEMMA CallMaps ==
    ASSUME GoodStates, NEW p \in Procs, Alone(p), Call(p), Value' = Value, Barred' <=> Barred
    PROVE  Register!Next
<1>1. /\ call[p].op = "idle" /\ call'[p].pc \in {"authorize", "authorizeScan"}
      /\ call'[p].result = "pending"
      /\ call'[p].op \in {"load", "delete", "migrate", "write"}
      /\ call'[p].expected \in Generations \cup {None}
    BY CallStarts
<1>2. CASE Mutating(p)'
    <2>1. ClientOf(p) \in {"nothing", "confirmed", "unknown"}
        BY <1>1 DEF ClientOf, Mutating
    <2>2. ~Activated(p)'
        BY <1>1 DEF Activated, At
    <2>3. ClientOf(p)' = "asked"
        BY <1>2, <2>2 DEF ClientOf
    <2>4. ExpectsOf(p)' \in Generations \cup {None, -2}
        BY <1>1 DEF ExpectsOf
    <2>5. /\ Clients' = [Clients EXCEPT ![p] = "asked"]
          /\ Expectations' = [Expectations EXCEPT ![p] = ExpectsOf(p)']
        BY <2>3, ClientAlone
    <2>6. Register!Ask(p)
        BY <2>1, <2>4, <2>5, Asking
    <2>. QED BY <2>6 DEF Register!Next
<1>3. CASE ~Mutating(p)'
    BY <1>1, <1>3, PassiveMaps DEF Mutating
<1>. QED BY <1>2, <1>3

\* A step of a mutation: its link takes effect, its return answers, all others stutter.
LEMMA MutationMaps ==
    ASSUME ~ReadFaults, Undamaged, StoreInv, Shrinks, NEW p \in Procs, NonceGood(p), Alone(p),
           Mutating(p), Call(p) \/ Step(p) \/ Crash(p), Barred' => Barred,
           Advances(p) \/ Activates(p) \/ Ends(p)
    PROVE  Register!Next \/ UNCHANGED Register!vars
<1>1. CASE Activates(p)
    <2>1. /\ ~Barred /\ (Barred' <=> Barred) /\ Value' \in Generations /\ Value' > Value
          /\ call[p].op = "write" => call[p].expected = Value
        BY <1>1, LinkApplies
    <2>2. /\ ClientOf(p) = "asked" /\ ClientOf(p)' = "changed"
          /\ ExpectsOf(p)' = ExpectsOf(p)
        BY <1>1, ClientActivates
    <2>3. ExpectsOf(p) \in {-2, Value}
        BY <2>1 DEF ExpectsOf, Mutating
    <2>4. Clients' = [Clients EXCEPT ![p] = "changed"] /\ Expectations' = Expectations
        BY <2>2, ClientAlone DEF Expectations
    <2>5. Register!Apply(p)
        BY <2>1, <2>2, <2>3, <2>4, Applying
    <2>. QED BY <2>5 DEF Register!Next
<1>2. CASE ~Activates(p)
    <2>1. Value' = Value /\ (Barred' <=> Barred)
        <3>1. CASE ~Link(p)
            BY <3>1, ValueKept
        <3>2. CASE Link(p)
            <4>1. ~Goto(p, "sync")
                BY <1>2, <3>2, GotoKeeps DEF Activates, Stays, StoreInv, BarrierInv
            <4>2. UNCHANGED dir
                BY <3>2, <4>1 DEF Link
            <4>. QED BY <4>2 DEF Value, Barred, Intact
        <3>. QED BY <3>1, <3>2
    <2>2. CASE Advances(p)
        <3>1. ClientOf(p)' = ClientOf(p) /\ ExpectsOf(p)' = ExpectsOf(p)
            BY <2>2, ClientAdvances
        <3>2. Clients' = Clients /\ Expectations' = Expectations
            BY <3>1, ClientAlone DEF Clients, Expectations
        <3>. QED BY <2>1, <3>2, Unmoved
    <2>3. CASE Ends(p)
        <3>1. /\ \/ ClientOf(p) = "asked" /\ ClientOf(p)' \in {"nothing", "unknown"}
                 \/ ClientOf(p) = "changed" /\ ClientOf(p)' \in {"confirmed", "unknown"}
              /\ ExpectsOf(p)' = None
            BY <2>3, ClientEnds
        <3>2. /\ Clients' = [Clients EXCEPT ![p] = ClientOf(p)']
              /\ Expectations' = [Expectations EXCEPT ![p] = None]
            BY <3>1, ClientAlone
        <3>3. Register!Answer(p)
            BY <2>1, <3>1, <3>2, Answering
        <3>. QED BY <3>3 DEF Register!Next
    <2>. QED BY <1>2, <2>2, <2>3
<1>. QED BY <1>1, <1>2

\* The barrier closes the register; the deletion that raises it answers later.
LEMMA RaisingMaps ==
    ASSUME StoreInv, NEW p \in Procs, Alone(p), Call(p) \/ Step(p) \/ Crash(p), ~Barred, Barred'
    PROVE  Register!Next
<1>1. /\ call[p].op = "delete" /\ call'[p].op = "delete" /\ call[p].result = "pending"
      /\ call'[p].result \in {"pending", "persistence-failed"}
    BY RaisingStep
<1>2. /\ ClientOf(p) = "nothing" /\ ClientOf(p)' = "nothing"
      /\ ExpectsOf(p) = None /\ ExpectsOf(p)' = None
    BY <1>1 DEF ClientOf, ExpectsOf, Mutating
<1>3. Clients' = Clients /\ Expectations' = Expectations
    BY <1>2, ClientAlone DEF Clients, Expectations
<1>. QED BY <1>3, Closing DEF Register!Next

LEMMA NextMaps ==
    ASSUME ~ReadFaults, Undamaged, StoreInv, StoreInv', NonceInv, [Next]_vars
    PROVE  Register!Next \/ UNCHANGED Register!vars
<1>0. GoodStates /\ Shrinks
    BY NextBarrier DEF StoreInv, BarrierInv
<1>1. ASSUME NEW p \in Procs, Call(p) \/ Step(p) \/ Crash(p)
      PROVE  Register!Next \/ UNCHANGED Register!vars
    <2>0. NonceGood(p)
        BY DEF NonceInv
    <2>1. /\ Alone(p)
          /\ Mutating(p) => Advances(p) \/ Activates(p) \/ Ends(p)
          /\ ~Mutating(p) => \/ Call(p)
                             \/ /\ ~Mutating(p)'
                                /\ call'[p].result \notin {"committed", "migrated"}
        BY <1>1, <2>0, OwnStep
    <2>2. CASE ~Barred /\ Barred'
        BY <1>1, <2>1, <2>2, RaisingMaps
    <2>3. CASE (Barred' => Barred) /\ Mutating(p)
        BY <1>0, <1>1, <2>0, <2>1, <2>3, MutationMaps
    <2>4. CASE (Barred' => Barred) /\ ~Mutating(p)
        <3>1. ~Link(p)
            <4>1. call[p].pc = "link" => call[p].op \in {"write", "migrate"}
                BY <1>0, OpOfLabel DEF GoodStates, CommitLabels, ActivationLabels
            <4>. QED BY <2>4, <4>1 DEF Link, At, Mutating
        <3>2. Value' = Value /\ (Barred' <=> Barred)
            BY <1>0, <1>1, <2>4, <3>1, ValueKept
        <3>3. CASE Call(p)
            BY <1>0, <2>1, <3>2, <3>3, CallMaps
        <3>4. CASE ~Call(p)
            BY <2>1, <2>4, <3>2, <3>4, PassiveMaps
        <3>. QED BY <3>3, <3>4
    <2>. QED BY <2>2, <2>3, <2>4
<1>2. ASSUME UNCHANGED call, dir'.finals = dir.finals, Barred' <=> Barred
      PROVE  UNCHANGED Register!vars
    <2>1. Value' = Value
        BY <1>2 DEF Value, Intact
    <2>2. \A p \in Procs : ClientOf(p)' = ClientOf(p) /\ ExpectsOf(p)' = ExpectsOf(p)
        BY <1>2 DEF ClientOf, ExpectsOf, Activated, Mutating, At
    <2>3. Clients' = Clients /\ Expectations' = Expectations
        BY <2>2 DEF Clients, Expectations
    <2>. QED BY <1>2, <2>1, <2>3, Unmoved
<1>3. CASE OwnerClearsGate
    BY <1>0, <1>2, <1>3 DEF OwnerClearsGate, GoodStates, Directories, Barred
<1>4. ~ \E g \in Generations : Damage(g)
    BY <1>0, DamageEffect
<1>5. CASE UNCHANGED vars
    BY <1>2, <1>5 DEF vars, Barred
<1>. QED BY <1>1, <1>3, <1>4, <1>5 DEF Next

\* The store is the register of ProfileRegister (writeLocalProfile, migrateLocalProfileStore,
\* deleteLocalProfileStore): a mutation takes effect at most once, at its exclusive link, on
\* the value it was asked for; an answer other than commit-outcome-unknown says truthfully
\* whether it did, and a deletion closes the store for good.  Unread and damaged documents
\* are excluded: both change what a reader finds the newest one without any caller's doing.
THEOREM StoreIsRegister ==
    ASSUME ~ReadFaults, Undamaged
    PROVE  Spec => RegisterSpec
<1>1. Init => NonceInv /\ Register!Init
    BY InitNonceInv, RegisterInit
<1>2. StoreInv /\ StoreInv' /\ NonceInv /\ [Next]_vars
          => NonceInv' /\ [Register!Next]_(Register!vars)
    BY NextNonceInv, NextMaps
<1>. QED BY <1>1, <1>2, StoreInvHolds, PTL DEF Spec, RegisterSpec, Register!Spec

-----------------------------------------------------------------------------
(* The inductive invariant *)

\* The store as a power failure may leave it: an intact document that cannot be lost,
\* a barrier that cannot, and a directory that stays empty.
Sound == {"current", "legacy"}
Secured(g) == dir.finals[g] \in Sound /\ disk.finals[g] \in Sound
BarrierSecured == Barred /\ "barrier" \in disk.marks
Void ==
    /\ BarrierSecured
    /\ Present = {} /\ dir.temps = {}
    /\ \A g \in Generations : disk.finals[g] = "none"
    /\ disk.temps = {}

\* A mutation supersedes what was acknowledged, and its candidate is safe once synced; a
\* deletion removes entries behind a barrier that is safe, and reports what was synced.
DurableGood(p) ==
    /\ Committing(p) =>
          /\ acknowledged <= call[p].target
          /\ call[p].pc # "sync" => disk.finals[call[p].target] \in Sound
    /\ call[p].pc \in {"remove", "syncRemoved", "relist"} => "barrier" \in disk.marks
    /\ call[p].pc = "relist" => disk.finals = dir.finals /\ disk.temps = dir.temps
    /\ call[p].result = "deleted" => Void

DurableTypes ==
    /\ disk \in Directories
    /\ acknowledged \in Generations \cup {None}
    /\ deleted \in BOOLEAN

AckSecured == acknowledged # None => BarrierSecured \/ \E g \in Generations : g >= acknowledged /\ Secured(g)
DelSecured == deleted => Void

DurableInv ==
    /\ StoreInv
    /\ DurableTypes
    /\ AckSecured
    /\ DelSecured
    /\ \A p \in Procs : DurableGood(p)

-----------------------------------------------------------------------------
(* Where the steps that matter to a power failure lead *)

\* The step of p neither leads to the removal of entries nor to the report of one.
Lands(p) ==
    /\ call'[p].pc \notin {"remove", "syncRemoved", "relist"}
    /\ call'[p].result = "deleted" => call[p].result = "deleted"

LEMMA FailLands ==
    ASSUME GoodStates, NEW p \in Procs, NEW f \in Failures, Fail(p, f)
    PROVE  Lands(p)
BY FailEffect DEF Lands, Failures

LEMMA RecordLands ==
    ASSUME GoodStates, NEW p \in Procs, NEW c, call' = [call EXCEPT ![p] = c],
           c.pc \notin {"remove", "syncRemoved", "relist"}, c.result = call[p].result
    PROVE  Lands(p)
<1>1. call'[p] = c
    BY DEF GoodStates
<1>. QED BY <1>1 DEF Lands

LEMMA ScanLands ==
    ASSUME GoodStates, NEW p \in Procs, Scan(p)
    PROVE  Lands(p)
<1>0. call[p] \in Calls /\ call \in [Procs -> GoodCalls]
    BY DEF GoodStates, GoodCalls
<1>1. ASSUME NEW f \in Failures, Fail(p, f) PROVE Lands(p)
    BY <1>1, FailLands
<1>2. ASSUME NEW l, l \notin {"remove", "syncRemoved", "relist"}, Goto(p, l) PROVE Lands(p)
    BY <1>2, GotoEffect DEF Lands
<1>3. AfterScan(p) \in {"check", "authorizeResult"}
    BY DEF AfterScan
<1>4. CASE Authorize(p)
    <2>1. AfterAuthorize(p) \notin {"remove", "syncRemoved", "relist"}
        BY DEF AfterAuthorize
    <2>. QED BY <1>1, <1>2, <1>4, <2>1 DEF Authorize, Failures
<1>5. CASE List(p)
    <2>1. CASE ScanFits
        <3> DEFINE l == IF Present = {} THEN AfterScan(p) ELSE "stat"
                   c == [call[p] EXCEPT !.scan = Listing, !.temps = dir.temps, !.pc = l]
        <3>1. call' = [call EXCEPT ![p] = c]
            BY <1>5, <2>1 DEF List
        <3>2. c.result = call[p].result /\ c.pc = l /\ l \in {"check", "authorizeResult", "stat"}
            BY <1>0, <1>3 DEF Calls
        <3> HIDE DEF c
        <3>. QED BY <3>1, <3>2, RecordLands
    <2>. QED BY <1>1, <1>5, <2>1 DEF List, Failures
<1>6. CASE Stat(p)
    BY <1>1, <1>2, <1>6 DEF Stat, Failures
<1>7. CASE Read(p)
    <2>1. PICK m : Classify(p, m)
        BY <1>7 DEF Read
    <2> DEFINE s == [call[p].scan EXCEPT ![Cursor(p)] = m]
               l == IF Unread(p) = {Cursor(p)} THEN AfterScan(p) ELSE "stat"
               c == [call[p] EXCEPT !.scan = s, !.pc = l]
    <2>2. call' = [call EXCEPT ![p].scan[Cursor(p)] = m, ![p].pc = l]
        BY <2>1 DEF Classify
    <2>3. call' = [call EXCEPT ![p] = c]
        BY <1>0, <2>2
    <2>4. c.result = call[p].result /\ c.pc = l /\ l \in {"check", "authorizeResult", "stat"}
        BY <1>0, <1>3 DEF Calls
    <2> HIDE DEF c
    <2>. QED BY <2>3, <2>4, RecordLands
<1>8. CASE Select(p)
    <2>1. ASSUME NEW r \in {"absent", "active", "recovered"}, NEW g, NEW d, Succeed(p, r, g, d)
          PROVE  Lands(p)
        BY <2>1, SucceedEffect DEF Lands
    <2>2. ASSUME NEW g, Prepare(p, g) PROVE Lands(p)
        <3> DEFINE c == [call[p] EXCEPT !.pc = "stage", !.target = g]
        <3>1. call' = [call EXCEPT ![p] = c] /\ c.pc = "stage" /\ c.result = call[p].result
            BY <1>0, <2>2 DEF Prepare, Calls
        <3> HIDE DEF c
        <3>. QED BY <3>1, RecordLands
    <2>. QED BY <1>1, <1>8, <2>1, <2>2
             DEF Select, SelectNothing, SelectLegacy, SelectCurrent, Failures
<1>9. CASE CheckWrite(p)
    BY <1>1, <1>2, <1>9 DEF CheckWrite, WriteVerdicts, Failures
<1>. QED BY <1>4, <1>5, <1>6, <1>7, <1>8, <1>9 DEF Scan

\* What the removal of an entry makes of the call.
LEMMA RemovalRecord ==
    ASSUME GoodStates, NEW p \in Procs, NEW c \in Calls, NEW x,
           RemoveTemp(p, x, c) \/ RemoveFinal(p, x, c)
    PROVE  /\ call'[p].pc = c.pc /\ call'[p].op = c.op
           /\ call'[p].result = c.result /\ call'[p].target = c.target
<1>1. PICK d : call' = [call EXCEPT ![p] = [c EXCEPT !.debt = d]]
    BY DEF RemoveTemp, RemoveFinal
<1> DEFINE e == [c EXCEPT !.debt = d]
<1>2. e.pc = c.pc /\ e.op = c.op /\ e.result = c.result /\ e.target = c.target
    BY DEF Calls
<1>3. call'[p] = e
    BY <1>1 DEF GoodStates
<1>. QED BY <1>2, <1>3

\* A step behind the link keeps its candidate; only a sync leads on from the first sync.
LEMMA CommitGoesOn ==
    ASSUME GoodStates, NEW p \in Procs, call[p].op \in {"write", "migrate"},
           call[p].pc \in {"sync", "verifyFinal", "unstage", "cleanup", "syncCleanup", "release"},
           Step(p) \/ Crash(p)
    PROVE  /\ call'[p].pc \in {"sync", "verifyFinal", "unstage", "cleanup", "syncCleanup",
                               "release", "idle"}
           /\ call'[p].result = "deleted" => call[p].result = "deleted"
           /\ call'[p].pc # "idle" => call'[p].target = call[p].target
           /\ call[p].pc = "sync" => Sync(p) \/ call'[p].result \in {"commit-outcome-unknown", "crashed"}
           /\ call'[p].pc = "sync" => call[p].pc = "sync"
<1>0. /\ call[p] \in Calls /\ call \in [Procs -> GoodCalls] /\ HoldsGate(p)
    BY DEF GoodStates, GoodCalls, HoldsGate
<1> DEFINE Fine ==
        /\ call'[p].pc \in {"verifyFinal", "unstage", "cleanup", "syncCleanup", "release", "idle"}
        /\ call'[p].result = "deleted" => call[p].result = "deleted"
        /\ call'[p].pc # "idle" => call'[p].target = call[p].target
<1>1. ASSUME NEW f \in Failures, Fail(p, f) PROVE Fine /\ call'[p].result = f
    BY <1>0, <1>1 DEF Fail, Calls, Failures
<1>2. ASSUME NEW l \in {"verifyFinal", "unstage", "syncCleanup"}, Goto(p, l) PROVE Fine
    BY <1>2, GotoKeeps
<1>3. ASSUME NEW c \in Calls, NEW x, RemoveTemp(p, x, c) \/ RemoveFinal(p, x, c),
             c.pc \in {"cleanup", "release"}, c.result = call[p].result,
             c.target = call[p].target
      PROVE  Fine
    BY <1>3, RemovalRecord
<1>4. CASE Sync(p)
    <2>1. Fine /\ call[p].pc = "sync"
        BY <1>2, <1>4 DEF Sync, At
    <2>. QED BY <1>4, <2>1
<1>5. CASE VerifyFinal(p)
    <2>1. Fine /\ call[p].pc # "sync"
        BY <1>1, <1>2, <1>5 DEF VerifyFinal, At, Failures
    <2>. QED BY <2>1
<1>6. CASE Unstage(p)
    <2> DEFINE l == IF call[p].result = "pending" THEN "cleanup" ELSE "release"
               c == [call[p] EXCEPT !.pc = l]
    <2>1. c \in Calls /\ c.pc = l /\ c.result = call[p].result /\ c.target = call[p].target
        BY <1>0 DEF Calls, Labels, CommitLabels
    <2>2. RemoveTemp(p, Staged(p), c) /\ call[p].pc = "unstage"
        BY <1>6 DEF Unstage, At
    <2>3. l \in {"cleanup", "release"}
        OBVIOUS
    <2> HIDE DEF c, l
    <2>4. Fine
        BY <1>3, <2>1, <2>2, <2>3
    <2>. QED BY <2>2, <2>4
<1>7. CASE Cleanup(p)
    <2>0. call[p].pc = "cleanup"
        BY <1>7 DEF Cleanup, At
    <2>1. ASSUME NEW t, RemoveTemp(p, t, [call[p] EXCEPT !.temps = @ \ {t}]) PROVE Fine
        <3> DEFINE c == [call[p] EXCEPT !.temps = @ \ {t}]
        <3>1. c \in Calls /\ c.pc = "cleanup" /\ c.result = call[p].result /\ c.target = call[p].target
            BY <1>0, <2>0 DEF Calls
        <3>2. RemoveTemp(p, t, c)
            BY <2>1
        <3> HIDE DEF c
        <3>. QED BY <1>3, <3>1, <3>2
    <2>2. ASSUME NEW g, RemoveFinal(p, g, [call[p] EXCEPT !.scan[g] = "unlisted"]) PROVE Fine
        <3> DEFINE s == [call[p].scan EXCEPT ![g] = "unlisted"]
                   c == [call[p] EXCEPT !.scan = s]
        <3>0. s \in [Generations -> Marks]
            BY <1>0 DEF Calls, Marks
        <3>1. c \in Calls /\ c.pc = "cleanup" /\ c.result = call[p].result /\ c.target = call[p].target
            BY <1>0, <2>0, <3>0 DEF Calls
        <3>2. RemoveFinal(p, g, c)
            BY <2>2
        <3> HIDE DEF c
        <3>. QED BY <1>3, <3>1, <3>2
    <2>3. Fine
        BY <1>2, <1>7, <2>1, <2>2 DEF Cleanup
    <2>. QED BY <2>0, <2>3
<1>8. CASE SyncCleanup(p)
    <2>1. ASSUME NEW r \in {"migrated", "committed"}, NEW d, Succeed(p, r, call[p].target, d)
          PROVE  Fine
        BY <1>0, <2>1 DEF Succeed, Calls
    <2>2. Fine /\ call[p].pc # "sync"
        BY <1>1, <1>8, <2>1 DEF SyncCleanup, Committed, At, Failures
    <2>. QED BY <2>2
<1>9. CASE Release(p)
    <2>1. ASSUME NEW r, NEW g, NEW d, Return(p, r, g, d) PROVE call'[p].pc = "idle" /\ call'[p].result = r
        BY <2>1, ReturnEffect
    <2>2. Return(p, "deletion-incomplete", None, FALSE) => call'[p].pc = "idle" /\ call'[p].result = "deletion-incomplete"
        BY DEF Return, Outcome, GoodStates
    <2>3. Fine /\ call[p].pc # "sync"
        BY <1>9, <2>1, <2>2 DEF Release, At
    <2>. QED BY <2>3
<1>10. CASE OperationFails(p)
    <2>1. FailureAt(call[p].pc) \in Failures /\ Fail(p, FailureAt(call[p].pc))
        BY <1>10 DEF OperationFails, FailureAt, Failures
    <2>2. call[p].pc = "sync" => FailureAt(call[p].pc) = "commit-outcome-unknown"
        BY DEF FailureAt, Reauthorizations, DeletionLabels
    <2>. QED BY <1>1, <2>1, <2>2
<1>11. CASE Crash(p)
    <2>1. call'[p].pc = "idle" /\ call'[p].result = "crashed"
        BY <1>11 DEF Crash, Return, Outcome, GoodStates
    <2>. QED BY <2>1
<1>12. \/ Sync(p) \/ VerifyFinal(p) \/ Unstage(p) \/ Cleanup(p) \/ SyncCleanup(p) \/ Release(p)
       \/ OperationFails(p) \/ Crash(p)
    BY DEF Step, Gate, Scan, Commit, Deletion, Acquire, Authorize, Reauthorizations, List, Stat,
           Read, Select, CheckWrite, Stage, VerifyStaged, Link, Inventory, RaiseBarrier,
           VerifyBarrier, SyncBarrier, Remove, SyncRemoved, Relist, CreationFails, At
<1>. QED BY <1>4, <1>5, <1>6, <1>7, <1>8, <1>9, <1>10, <1>11, <1>12

\* Entries are removed behind a synced barrier, and a deletion is reported after a second
\* listing that follows a second sync.
LEMMA Landing ==
    ASSUME GoodStates, NEW p \in Procs, Call(p) \/ Step(p) \/ Crash(p)
    PROVE  \/ Lands(p)
           \/ Remove(p) /\ call'[p].pc \in {"remove", "syncRemoved"} /\ call'[p].result = call[p].result
           \/ SyncBarrier(p) /\ call'[p].pc = "remove" /\ call'[p].result = call[p].result
           \/ SyncRemoved(p) /\ call'[p].pc = "relist" /\ call'[p].result = call[p].result
           \/ Relist(p) /\ Present = {} /\ dir.temps = {} /\ call'[p].pc \in {"release", "idle"}
<1>0. call[p] \in Calls /\ call \in [Procs -> GoodCalls]
    BY DEF GoodStates, GoodCalls
<1>1. ASSUME NEW f \in Failures, Fail(p, f) PROVE Lands(p)
    BY <1>1, FailLands
<1>2. ASSUME NEW l, l \notin {"remove", "syncRemoved", "relist"}, Goto(p, l) PROVE Lands(p)
    BY <1>2, GotoEffect DEF Lands
<1>3. CASE Call(p)
    BY <1>3, CallStarts DEF Lands
<1>4. CASE Crash(p)
    <2>1. call'[p].pc = "idle" /\ call'[p].result = "crashed"
        BY <1>4 DEF Crash, Return, Outcome, GoodStates
    <2>. QED BY <2>1 DEF Lands
<1>5. CASE Acquire(p)
    BY <1>1, <1>2, <1>5 DEF Acquire, Failures
<1>6. CASE Release(p)
    <2>1. \E r, g, d : Return(p, r, g, d) /\ (r = "deleted" => call[p].result = "deleted")
        BY <1>6 DEF Release
    <2>. QED BY <2>1, ReturnEffect DEF Lands
<1>7. CASE Scan(p)
    BY <1>7, ScanLands
<1>8. CASE Stage(p) \/ VerifyStaged(p) \/ Link(p)
    <2>1. ASSUME NEW n, call' = [call EXCEPT ![p].nonce = n, ![p].pc = "verifyStaged"] PROVE Lands(p)
        <3> DEFINE c == [call[p] EXCEPT !.nonce = n, !.pc = "verifyStaged"]
        <3>1. call' = [call EXCEPT ![p] = c] /\ c.pc = "verifyStaged" /\ c.result = call[p].result
            BY <1>0, <2>1 DEF Calls
        <3> HIDE DEF c
        <3>. QED BY <3>1, RecordLands
    <2>. QED BY <1>1, <1>2, <1>8, <2>1 DEF Stage, VerifyStaged, Link, Failures
<1>9. CASE Sync(p) \/ VerifyFinal(p) \/ Unstage(p) \/ Cleanup(p) \/ SyncCleanup(p)
    <2>1. /\ call[p].pc \in {"sync", "verifyFinal", "unstage", "cleanup", "syncCleanup", "release"}
          /\ call[p].op \in {"write", "migrate"}
        BY <1>0, <1>9, OpOfLabel DEF Sync, VerifyFinal, Unstage, Cleanup, SyncCleanup, At,
           CommitLabels, ActivationLabels
    <2>2. Step(p)
        BY <1>9 DEF Step, Commit
    <2>. QED BY <2>1, <2>2, CommitGoesOn DEF Lands
<1>10. CASE Inventory(p)
    <2> DEFINE c == [call[p] EXCEPT !.scan = Listing, !.temps = dir.temps, !.pc = "raiseBarrier"]
    <2>1. c.pc = "raiseBarrier" /\ c.result = call[p].result
        BY <1>0 DEF Calls
    <2>2. call' = [call EXCEPT ![p] = c] \/ Fail(p, "not-authorized")
        BY <1>10 DEF Inventory
    <2> HIDE DEF c
    <2>. QED BY <1>1, <2>1, <2>2, RecordLands DEF Failures
<1>11. CASE RaiseBarrier(p) \/ VerifyBarrier(p)
    BY <1>1, <1>2, <1>11 DEF RaiseBarrier, VerifyBarrier, Failures
<1>12. CASE SyncBarrier(p) \/ SyncRemoved(p)
    BY <1>12, GotoEffect DEF SyncBarrier, SyncRemoved
<1>13. CASE Remove(p)
    <2>1. ASSUME NEW c, call' = [call EXCEPT ![p] = c], c.pc = "remove", c.result = call[p].result
          PROVE  call'[p].pc = "remove" /\ call'[p].result = call[p].result
        BY <2>1 DEF GoodStates
    <2>2. call[p].pc = "remove"
        BY <1>13 DEF Remove, At
    <2>3. ASSUME NEW t, call' = [call EXCEPT ![p].temps = @ \ {t}]
          PROVE  call'[p].pc = "remove" /\ call'[p].result = call[p].result
        BY <1>0, <2>2, <2>3 DEF Calls
    <2>4. ASSUME NEW g, call' = [call EXCEPT ![p].scan[g] = "unlisted"]
          PROVE  call'[p].pc = "remove" /\ call'[p].result = call[p].result
        BY <1>0, <2>2, <2>4 DEF Calls
    <2>5. Goto(p, "syncRemoved") => call'[p].pc = "syncRemoved" /\ call'[p].result = call[p].result
        BY GotoEffect
    <2>. QED BY <1>13, <2>3, <2>4, <2>5 DEF Remove
<1>14. CASE Relist(p)
    <2>1. Succeed(p, "deleted", None, FALSE) => call'[p].pc \in {"release", "idle"}
        BY <1>0 DEF Succeed, Return, Outcome, GoodStates, Calls
    <2>. QED BY <1>1, <1>14, <2>1 DEF Relist, Failures
<1>15. CASE OperationFails(p) \/ CreationFails(p)
    <2>1. FailureAt(call[p].pc) \in Failures
        BY DEF FailureAt, Failures
    <2>. QED BY <1>1, <1>15, <2>1 DEF OperationFails, CreationFails, Failures
<1>. QED BY <1>3, <1>4, <1>5, <1>6, <1>7, <1>8, <1>9, <1>10, <1>11, <1>12, <1>13, <1>14, <1>15
         DEF Step, Gate, Commit, Deletion

\* What a step that reports to the caller of p changes.
LEMMA Reporting ==
    ASSUME GoodStates, NEW p \in Procs, CommitGood(p), Call(p) \/ Step(p) \/ Crash(p),
           NEW r \in {"committed", "migrated", "deleted"}, Reports(p, {r})
    PROVE  /\ call[p].result = r /\ Kept /\ HoldsGate(p)
           /\ r # "deleted" => Committing(p) /\ call'[p].target = call[p].target
<1>0. call[p] \in Calls /\ call[p].pc = "release" /\ call'[p].pc = "idle" /\ call'[p].result = r
    BY DEF GoodStates, GoodCalls, Reports, At
<1>1. Release(p) \/ Crash(p)
    BY <1>0 DEF Call, CallLoad, CallMigrate, CallWrite, CallDelete, Start, Step, Gate, Scan, Commit,
       Deletion, Acquire, Authorize, Reauthorizations, List, Stat, Read, Select, CheckWrite, Stage,
       VerifyStaged, Link, Sync, VerifyFinal, Unstage, Cleanup, SyncCleanup, Inventory,
       RaiseBarrier, VerifyBarrier, SyncBarrier, Remove, SyncRemoved, Relist, OperationFails,
       CreationFails, At
<1>2. ~Crash(p)
    BY <1>0 DEF Crash, Return, Outcome, GoodStates
<1>3. Kept
    BY <1>1, <1>2 DEF Release, Kept, GoodStates, Directories
<1>4. call[p].op \in {"write", "migrate", "delete"}
    BY <1>0, OpOfLabel DEF MutationLabels, GoodStates
<1>5. ASSUME NEW x, NEW g, NEW d, Return(p, x, g, d)
      PROVE  call'[p].result = x /\ call'[p].target = g
    BY <1>5 DEF Return, Outcome, GoodStates
<1>6. Return(p, "deletion-incomplete", None, FALSE) => call'[p].result = "deletion-incomplete"
    BY DEF Return, Outcome, GoodStates
<1>7. call[p].result = r
    BY <1>0, <1>1, <1>2, <1>5, <1>6 DEF Release
<1>8. r # "deleted" => call'[p].target = call[p].target
    BY <1>0, <1>1, <1>2, <1>5, <1>7 DEF Release, Successes
<1>9. r # "deleted" => Committing(p)
    BY <1>0, <1>4, <1>7 DEF CommitGood, ResultGood, Committing, At
<1>. QED BY <1>0, <1>3, <1>4, <1>7, <1>8, <1>9 DEF HoldsGate

-----------------------------------------------------------------------------
(* What a step does to the disk and to the reports *)

LEMMA NewestPair ==
    ASSUME NEW a \in Generations \cup {None}, NEW b \in Generations \cup {None}
    PROVE  /\ Newest({a} \cup {}) = a
           /\ Newest({a} \cup {b}) \in {a, b}
           /\ Newest({a} \cup {b}) >= a
<1>0. a \in Int /\ b \in Int
    BY ConstantsAssumption DEF Generations, None
<1>1. Newest({a} \cup {}) = a
    <2>1. Max({a}) = a
        BY <1>0 DEF Max
    <2>. QED BY <2>1 DEF Newest
<1>2. Newest({a} \cup {b}) \in {a, b} /\ Newest({a} \cup {b}) >= a
    <2>1. \E x \in {a, b} : \A y \in {a, b} : x >= y
        BY <1>0
    <2>2. Max({a, b}) \in {a, b} /\ \A y \in {a, b} : Max({a, b}) >= y
        BY <2>1 DEF Max
    <2>3. Newest({a, b}) = Max({a, b}) /\ {a} \cup {b} = {a, b}
        BY DEF Newest
    <2>. QED BY <2>2, <2>3
<1>. QED BY <1>1, <1>2

\* A report by p, and nobody else's, changes what was acknowledged or deleted.
LEMMA ReportEffect ==
    ASSUME GoodStates, DurableTypes, NEW p \in Procs, CommitGood(p), Alone(p), Volatile,
           Call(p) \/ Step(p) \/ Crash(p)
    PROVE  /\ acknowledged' = acknowledged
              \/ /\ Committing(p) /\ Kept /\ call'[p].pc = "idle" /\ call[p].pc # "sync"
                 /\ acknowledged' = call[p].target
           /\ acknowledged' \in Generations \cup {None}
           /\ deleted' \in BOOLEAN /\ (deleted' => deleted \/ call[p].result = "deleted")
<1> DEFINE C == {"committed", "migrated"}
           R == {call'[q].target : q \in {q \in Procs : Reports(q, C)}}
           Acked == /\ acknowledged' = acknowledged
                       \/ /\ Committing(p) /\ Kept /\ call'[p].pc = "idle" /\ call[p].pc # "sync"
                          /\ acknowledged' = call[p].target
                    /\ acknowledged' \in Generations \cup {None}
<1>1. \A q \in Procs : \A r : q # p => ~Reports(q, r)
    BY DEF Alone, Reports, At
<1>2. acknowledged' = Newest({acknowledged} \cup R)
    BY DEF Volatile
<1>3. ASSUME ~Reports(p, C) PROVE Acked
    <2>1. R = {}
        BY <1>1, <1>3
    <2> HIDE DEF R
    <2>2. acknowledged' = acknowledged
        BY <1>2, <2>1, NewestPair DEF DurableTypes
    <2>. QED BY <2>2 DEF DurableTypes
<1>4. ASSUME Reports(p, C) PROVE Acked
    <2>1. /\ Committing(p) /\ Kept /\ call'[p].target = call[p].target /\ call'[p].pc = "idle"
          /\ call[p].pc = "release"
        <3>1. PICK r \in C : Reports(p, {r})
            BY <1>4 DEF Reports
        <3>2. r # "deleted" /\ r \in {"committed", "migrated", "deleted"}
            OBVIOUS
        <3>. QED BY <1>4, <3>1, <3>2, Reporting DEF Reports, At
    <2>2. R = {call[p].target}
        BY <1>1, <1>4, <2>1
    <2>3. call[p].target \in Generations
        BY <2>1 DEF CommitGood, CommittedGood, Present
    <2> HIDE DEF R
    <2>4. acknowledged' \in {acknowledged, call[p].target}
        BY <1>2, <2>2, <2>3, NewestPair DEF DurableTypes
    <2>. QED BY <2>1, <2>3, <2>4 DEF DurableTypes
<1>5. deleted' \in BOOLEAN /\ (deleted' => deleted \/ call[p].result = "deleted")
    <2>1. deleted' = (deleted \/ \E q \in Procs : Reports(q, {"deleted"}))
        BY DEF Volatile
    <2>2. Reports(p, {"deleted"}) => call[p].result = "deleted"
        BY Reporting
    <2>. QED BY <1>1, <2>1, <2>2
<1>. QED BY <1>3, <1>4, <1>5

\* A step that is not a step of a call reports and syncs nothing.
LEMMA NoReport ==
    ASSUME DurableTypes, Volatile, UNCHANGED call
    PROVE  acknowledged' = acknowledged /\ deleted' = deleted /\ disk' = disk
<1>1. \A q \in Procs : \A r : ~Reports(q, r)
    BY DEF Reports, At
<1>2. \A q \in Procs : ~Syncs(q)
    BY DEF Syncs
<1>3. {call'[q].target : q \in {q \in Procs : Reports(q, {"committed", "migrated"})}} = {}
    BY <1>1
<1>4. acknowledged' = acknowledged
    BY <1>3, NewestPair DEF Volatile, DurableTypes
<1>. QED BY <1>1, <1>2, <1>4 DEF Volatile, DurableTypes

LEMMA SecuredLater ==
    ASSUME disk' \in {disk, dir}, NEW g, Secured(g), dir'.finals[g] \in Sound
    PROVE  Secured(g)'
BY DEF Secured

LEMMA BarrierLater ==
    ASSUME Shrinks, disk' \in {disk, dir}, BarrierSecured
    PROVE  BarrierSecured'
BY DEF BarrierSecured, Shrinks, Barred

LEMMA VoidLater ==
    ASSUME Shrinks, disk' \in {disk, dir}, Void
    PROVE  Void'
<1>1. BarrierSecured'
    BY BarrierLater DEF Void
<1>2. Present' = {} /\ dir'.temps = {}
    BY DEF Void, BarrierSecured, Shrinks
<1>3. \A g \in Generations : dir.finals[g] = "none"
    BY DEF Void, Present
<1>4. disk'.temps = {} /\ \A g \in Generations : disk'.finals[g] = "none"
    BY <1>3 DEF Void
<1>. QED BY <1>1, <1>2, <1>4 DEF Void

-----------------------------------------------------------------------------
(* A step of a call *)

\* Its sync makes the directory durable.
LEMMA SyncEffect ==
    ASSUME Volatile, NEW p \in Procs, Syncs(p)
    PROVE  disk' = dir
BY DEF Volatile

\* A running call is taken on, not called.
LEMMA RunningStep ==
    ASSUME GoodStates, NEW p \in Procs, Step(p) \/ Crash(p)
    PROVE  call[p].op # "idle"
<1>1. call[p].pc # "idle"
    BY DEF Crash, Step, Gate, Acquire, Release, Scan, Authorize, Reauthorizations, List, Stat, Read,
           Select, CheckWrite, Commit, Stage, VerifyStaged, Link, Sync, VerifyFinal, Unstage,
           Cleanup, SyncCleanup, Deletion, Inventory, RaiseBarrier, VerifyBarrier, SyncBarrier,
           Remove, SyncRemoved, Relist, OperationFails, CreationFails, At
<1>. QED BY <1>1, OpOfLabel DEF GoodStates

LEMMA DiskChoice == ASSUME Volatile PROVE disk' \in {disk, dir}
BY DEF Volatile

\* A document that a commit cannot lose stays until a newer one that it cannot lose either
\* replaces it, or it is deleted behind a safe barrier.
LEMMA AckLater ==
    ASSUME Undamaged, StoreInv, Shrinks, DurableTypes, AckSecured, NEW p \in Procs, DurableGood(p),
           Call(p) \/ Step(p) \/ Crash(p), disk' \in {disk, dir},
           acknowledged' = acknowledged
              \/ /\ Committing(p) /\ Kept /\ call[p].pc # "sync"
                 /\ acknowledged' = call[p].target
    PROVE  AckSecured'
<1>0. /\ GoodStates /\ BarrierHolds /\ CommitGood(p) /\ dir \in Directories
      /\ call \in [Procs -> GoodCalls] /\ Generations \subseteq Nat
    BY ConstantsAssumption DEF StoreInv, BarrierInv, CommitInv, GoodStates, Generations
<1>1. CASE BarrierSecured
    BY <1>1, BarrierLater DEF AckSecured
<1>2. ASSUME Committing(p), call[p].pc # "sync"
      PROVE  \E t \in Generations : t = call[p].target /\ Secured(t)
    BY <1>0, <1>2 DEF CommitGood, CommittedGood, DurableGood, Secured, Intact, Sound
<1>3. CASE acknowledged' # acknowledged
    <2>1. Committing(p) /\ Kept /\ call[p].pc # "sync" /\ acknowledged' = call[p].target
        BY <1>3
    <2>2. PICK t \in Generations : t = call[p].target /\ Secured(t)
        BY <1>2, <2>1
    <2>3. dir'.finals[t] \in Sound
        BY <2>1, <2>2 DEF Kept, Secured
    <2>4. Secured(t)'
        BY <2>2, <2>3, SecuredLater
    <2>5. t >= acknowledged'
        BY <1>0, <2>1, <2>2
    <2>. QED BY <2>4, <2>5 DEF AckSecured
<1>4. CASE ~BarrierSecured /\ acknowledged' = acknowledged /\ acknowledged # None
    <2>1. PICK g \in Generations : g >= acknowledged /\ Secured(g)
        BY <1>4 DEF AckSecured
    <2>2. ~Remove(p)
        BY <1>0, <1>4 DEF Remove, At, BarrierHolds, BarrierSecured, DeletionLabels, DurableGood
    <2>3. CASE dir'.finals[g] \in Sound
        <3>1. Secured(g)'
            BY <2>1, <2>3, SecuredLater
        <3>. QED BY <1>4, <2>1, <3>1 DEF AckSecured
    <2>4. CASE dir'.finals[g] \notin Sound
        <3>1. dir'.finals # dir.finals
            BY <2>1, <2>4 DEF Secured
        <3>2. ~Link(p)
            <4>1. ASSUME Link(p), dir' = [dir EXCEPT !.finals[call[p].target] = "current"]
                  PROVE  dir'.finals[g] \in Sound
                BY <1>0, <2>1, <4>1 DEF Secured, Directories, Stores, Sound
            <4>. QED BY <2>4, <3>1, <4>1 DEF Link
        <3>3. Cleanup(p)
            BY <1>0, <2>2, <3>1, <3>2, FinalsKept
        <3>4. PICK x \in Removable(p) :
                 x \in Generations /\ dir'.finals = [dir.finals EXCEPT ![x] = "none"]
            BY <1>0, <3>1, <3>3, CleanupFinals
        <3>5. Committing(p) /\ call[p].pc # "sync"
            <4>1. call[p].pc = "cleanup"
                BY <3>3 DEF Cleanup, At
            <4>2. call[p].op \in {"write", "migrate"}
                BY <1>0, <4>1, OpOfLabel DEF CommitLabels
            <4>. QED BY <4>1, <4>2 DEF Committing
        <3>6. PICK t \in Generations : t = call[p].target /\ Secured(t)
            BY <1>2, <3>5
        <3>7. x < t /\ acknowledged <= t
            BY <1>0, <3>4, <3>5, <3>6 DEF CommitGood, CommittedGood, Removable, DurableGood
        <3>8. dir'.finals[t] \in Sound
            <4>1. dir'.finals[t] = dir.finals[t]
                BY <1>0, <3>4, <3>7 DEF Directories, Stores
            <4>. QED BY <3>6, <4>1 DEF Secured
        <3>9. Secured(t)'
            BY <3>6, <3>8, SecuredLater
        <3>10. t >= acknowledged'
            BY <1>0, <1>4, <3>7 DEF DurableTypes
        <3>. QED BY <3>9, <3>10 DEF AckSecured
    <2>. QED BY <2>3, <2>4
<1>. QED BY <1>1, <1>3, <1>4 DEF AckSecured

\* The call that moves.
LEMMA MoverDurable ==
    ASSUME Undamaged, StoreInv, StoreInv', Shrinks, DurableTypes, AckSecured, NEW p \in Procs,
           DurableGood(p), Call(p) \/ Step(p) \/ Crash(p), Volatile,
           call'[p].pc # "idle" => acknowledged' = acknowledged
    PROVE  DurableGood(p)'
<1>0. /\ GoodStates /\ BarrierHolds /\ CommitGood(p) /\ dir \in Directories
      /\ call \in [Procs -> GoodCalls] /\ Generations \subseteq Nat
      /\ GoodStates' /\ CommitGood(p)' /\ BarrierHolds' /\ call[p] \in Calls
    BY ConstantsAssumption, OpOfLabel DEF StoreInv, BarrierInv, CommitInv, GoodStates, Generations
<1>1. disk' \in {disk, dir}
    BY DiskChoice
<1>2. ASSUME Committing(p)'
      PROVE  /\ acknowledged' <= call'[p].target
             /\ call'[p].pc # "sync" => disk'.finals[call'[p].target] \in Sound
    <2>1. call'[p].pc # "idle" /\ call'[p].op \in {"write", "migrate"}
        BY <1>2 DEF Committing, At
    <2>2. acknowledged' = acknowledged
        BY <2>1
    <2>3. CASE Committing(p)
        <3>1. /\ call[p].op \in {"write", "migrate"}
              /\ call[p].pc \in {"sync", "verifyFinal", "unstage", "cleanup", "syncCleanup", "release"}
            BY <2>3 DEF Committing, At
        <3>2. ~Call(p)
            BY <1>0, <3>1, CallStarts
        <3>3. /\ call'[p].target = call[p].target
              /\ call[p].pc = "sync" => Sync(p) \/ call'[p].result \in {"commit-outcome-unknown", "crashed"}
              /\ call'[p].pc = "sync" => call[p].pc = "sync"
            BY <1>0, <2>1, <3>1, <3>2, CommitGoesOn
        <3>4. acknowledged <= call[p].target
            BY <2>3 DEF DurableGood
        <3>5. call[p].target \in Intact
            BY <1>0, <2>3 DEF CommitGood, CommittedGood
        <3>6. CASE call[p].pc # "sync"
            <4>1. disk.finals[call[p].target] \in Sound
                BY <2>3, <3>6 DEF DurableGood
            <4>. QED BY <1>1, <2>2, <3>3, <3>4, <3>5, <4>1 DEF Intact, Sound
        <3>7. CASE call[p].pc = "sync"
            <4>1. call'[p].result \notin {"commit-outcome-unknown", "crashed"}
                BY <1>0, <1>2 DEF Committing, At, CommitGood, ResultGood
            <4>2. Sync(p)
                BY <3>3, <3>7, <4>1
            <4>3. Syncs(p)
                BY <3>7, <4>2, GotoEffect, <1>0 DEF Sync, Local, Calm, Syncs
            <4>4. disk' = dir
                BY <4>3, SyncEffect
            <4>. QED BY <2>2, <3>3, <3>4, <3>5, <4>4 DEF Intact, Sound
        <3>. QED BY <3>6, <3>7
    <2>4. CASE ~Committing(p)
        <3>1. Mutating(p)
            <4>1. CASE Call(p)
                BY <1>0, <1>2, <4>1, CallStarts DEF Committing, At
            <4>2. CASE ~Call(p)
                <5>1. call[p].op \in {"load", "delete"} => call'[p].op \in {call[p].op, "idle"}
                    BY <1>0, <4>2, PassiveStep
                <5>2. call[p].op # "idle"
                    BY <1>0, <4>2, RunningStep
                <5>. QED BY <1>0, <2>1, <5>1, <5>2, OpOfLabel DEF Operations, Mutating
            <4>. QED BY <4>1, <4>2
        <3>2. Advances(p) \/ Activates(p) \/ Ends(p)
            BY <1>0, <3>1, MutationAdvances
        <3>3. ~Ends(p)
            BY <2>1 DEF Ends
        <3>4. ~Advances(p)
            BY <1>0, <1>2, <2>4, <3>1 DEF Advances, Committing, Mutating, At, EarlyLabels,
               Stays, CommitGood, ResultGood, Successes
        <3>5. Activates(p) /\ Link(p) /\ call[p].pc = "link" /\ call'[p].pc = "sync"
            BY <3>2, <3>3, <3>4 DEF Activates, Link, At
        <3>6. call'[p].target = call[p].target
            <4>1. Goto(p, "sync")
                BY <1>0, <3>1, <3>5, FailKeeps DEF Link, Mutating, HoldsGate, ActivationLabels
            <4>. QED BY <1>0, <4>1, GotoKeeps
        <3>7. PreparedGood(p) /\ call[p].target = NextGeneration(p) /\ call[p].target \in Generations
            <4>1. call[p].target \in Generations
                BY <1>0, <3>5, InCommit DEF CommitLabels, ActivationLabels
            <4>. QED BY <1>0, <3>1, <3>5, <4>1 DEF CommitGood, Preparing, Scanned, PreparedGood, Mutating
        <3>8. ~Barred
            BY <1>0, <3>1, <3>5 DEF BarrierHolds, Blocked, Mutating
        <3>9. acknowledged <= call[p].target
            <4>1. CASE acknowledged = None
                <5>1. call[p].target \in Nat
                    BY <1>0, <3>7
                <5>. QED BY <4>1, <5>1 DEF None
            <4>2. CASE acknowledged # None
                <5>1. PICK g \in Generations : g >= acknowledged /\ Secured(g)
                    BY <3>8, <4>2 DEF AckSecured, BarrierSecured
                <5>2. g \in Seen(p)
                    BY <3>7, <5>1 DEF PreparedGood, Present, Secured, Sound
                <5>3. g < call[p].target
                    BY <3>7, <5>2, NextExceeds
                <5>4. acknowledged \in Nat /\ g \in Nat /\ call[p].target \in Nat
                    BY <1>0, <3>7, <4>2, <5>1 DEF DurableTypes
                <5>. QED BY <5>1, <5>3, <5>4
            <4>. QED BY <4>1, <4>2
        <3>. QED BY <2>2, <3>5, <3>6, <3>9
    <2>. QED BY <2>3, <2>4
<1>3. \/ Lands(p)
      \/ Remove(p) /\ call'[p].pc \in {"remove", "syncRemoved"} /\ call'[p].result = call[p].result
      \/ SyncBarrier(p) /\ call'[p].pc = "remove" /\ call'[p].result = call[p].result
      \/ SyncRemoved(p) /\ call'[p].pc = "relist" /\ call'[p].result = call[p].result
      \/ Relist(p) /\ Present = {} /\ dir.temps = {} /\ call'[p].pc \in {"release", "idle"}
    BY <1>0, Landing
<1>4. ASSUME SyncBarrier(p) \/ SyncRemoved(p), call'[p].pc \in {"remove", "relist"}
      PROVE  disk' = dir /\ Barred /\ dir' = dir
    <2>1. Syncs(p)
        BY <1>4 DEF SyncBarrier, SyncRemoved, At, Local, Calm, Syncs
    <2>2. Barred /\ dir' = dir
        BY <1>0, <1>4 DEF SyncBarrier, SyncRemoved, At, Local, BarrierHolds, DeletionLabels
    <2>. QED BY <2>1, <2>2, SyncEffect
<1>5. call'[p].pc \in {"remove", "syncRemoved", "relist"} => "barrier" \in disk'.marks
    <2>1. CASE Remove(p)
        <3>1. Barred /\ "barrier" \in disk.marks
            BY <1>0, <2>1 DEF Remove, At, BarrierHolds, DeletionLabels, DurableGood
        <3>. QED BY <1>1, <3>1 DEF Barred
    <2>. QED BY <1>3, <1>4, <2>1 DEF Lands, Barred
<1>6. call'[p].pc = "relist" => disk'.finals = dir'.finals /\ disk'.temps = dir'.temps
    BY <1>3, <1>4 DEF Lands
<1>7. call'[p].result = "deleted" => Void'
    <2>1. CASE call[p].result = "deleted"
        BY <1>1, <2>1, VoidLater DEF DurableGood
    <2>2. CASE Relist(p) /\ Present = {} /\ dir.temps = {}
        <3>1. call[p].pc = "relist" /\ Barred
            BY <1>0, <2>2 DEF Relist, At, BarrierHolds, DeletionLabels
        <3>2. "barrier" \in disk.marks /\ disk.finals = dir.finals /\ disk.temps = dir.temps
            BY <3>1 DEF DurableGood
        <3>3. Void
            BY <2>2, <3>1, <3>2 DEF Void, BarrierSecured, Present
        <3>. QED BY <1>1, <3>3, VoidLater
    <2>. QED BY <1>3, <2>1, <2>2 DEF Lands
<1>. QED BY <1>2, <1>5, <1>6, <1>7 DEF DurableGood

\* A call that does not move: the gate keeps the others from what it relies on.
LEMMA OtherDurable ==
    ASSUME Undamaged, StoreInv, Shrinks, NEW p \in Procs, NEW q \in Procs, q # p, Alone(p),
           DurableGood(q), disk' \in {disk, dir}, HoldsGate(p) \/ Kept,
           acknowledged' = acknowledged \/ Committing(p)
    PROVE  DurableGood(q)'
<1>0. GateExclusive /\ BarrierHolds /\ CommitGood(q) /\ GoodStates /\ call'[q] = call[q]
    BY DEF StoreInv, BarrierInv, CommitInv, Alone
<1>1. Committing(q)' <=> Committing(q)
    BY <1>0 DEF Committing, At
<1>2. ASSUME Committing(q)
      PROVE  /\ acknowledged' <= call[q].target
             /\ call[q].pc # "sync" => disk'.finals[call[q].target] \in Sound
    <2>1. ~Committing(p)
        BY <1>0, <1>2, CommitterHolds DEF GateExclusive
    <2>2. call[q].target \in Intact
        BY <1>0, <1>2 DEF CommitGood, CommittedGood
    <2>. QED BY <1>2, <2>1, <2>2 DEF DurableGood, Intact, Sound
<1>3. ASSUME call[q].pc \in {"remove", "syncRemoved", "relist"} PROVE "barrier" \in disk'.marks
    <2>1. Barred
        BY <1>0, <1>3 DEF BarrierHolds, DeletionLabels
    <2>. QED BY <1>3, <2>1 DEF DurableGood, Barred
<1>4. ASSUME call[q].pc = "relist" PROVE disk'.finals = dir'.finals /\ disk'.temps = dir'.temps
    <2>1. HoldsGate(q)
        <3>1. call[q].op = "delete"
            BY <1>0, <1>4, OpOfLabel DEF GoodStates, DeletionLabels
        <3>. QED BY <1>4, <3>1 DEF HoldsGate
    <2>2. Kept
        BY <1>0, <2>1 DEF GateExclusive
    <2>. QED BY <1>4, <2>2 DEF Kept, DurableGood
<1>5. call[q].result = "deleted" => Void'
    BY VoidLater DEF DurableGood
<1>. QED BY <1>0, <1>1, <1>2, <1>3, <1>4, <1>5 DEF DurableGood

LEMMA CallDurable ==
    ASSUME Undamaged, DurableInv, StoreInv', Shrinks, NEW p \in Procs, Volatile,
           Call(p) \/ Step(p) \/ Crash(p)
    PROVE  DurableInv'
<1>0. /\ GoodStates /\ CommitGood(p) /\ GoodStates' /\ DurableTypes /\ DurableGood(p)
      /\ AckSecured /\ DelSecured /\ StoreInv
    BY DEF DurableInv, StoreInv, BarrierInv, CommitInv
<1>1. Alone(p) /\ (HoldsGate(p) \/ Kept)
    BY <1>0, ProcessCommitStep DEF StoreInv, CommitStep
<1>2. /\ acknowledged' = acknowledged
         \/ /\ Committing(p) /\ Kept /\ call'[p].pc = "idle" /\ call[p].pc # "sync"
            /\ acknowledged' = call[p].target
      /\ acknowledged' \in Generations \cup {None}
      /\ deleted' \in BOOLEAN /\ (deleted' => deleted \/ call[p].result = "deleted")
    BY <1>0, <1>1, ReportEffect
<1>3. disk' \in {disk, dir}
    BY DiskChoice
<1>4. DurableTypes'
    BY <1>0, <1>2, <1>3 DEF DurableTypes, GoodStates
<1>5. AckSecured'
    BY <1>0, <1>2, <1>3, AckLater
<1>6. DelSecured'
    BY <1>0, <1>2, <1>3, VoidLater DEF DelSecured, DurableGood
<1>7. DurableGood(p)'
    <2>1. call'[p].pc # "idle" => acknowledged' = acknowledged
        BY <1>2
    <2>. QED BY <1>0, <2>1, MoverDurable
<1>8. ASSUME NEW q \in Procs, q # p PROVE DurableGood(q)'
    <2>1. DurableGood(q) /\ (acknowledged' = acknowledged \/ Committing(p))
        BY <1>2 DEF DurableInv
    <2>. QED BY <1>0, <1>1, <1>3, <1>8, <2>1, OtherDurable
<1>9. \A q \in Procs : DurableGood(q)'
    BY <1>7, <1>8
<1>. QED BY <1>4, <1>5, <1>6, <1>9 DEF DurableInv

\* A step that is no step of a call changes neither documents nor staging files.
LEMMA IdleDurable ==
    ASSUME DurableInv, StoreInv', Shrinks, Kept, UNCHANGED <<call, disk, acknowledged, deleted>>
    PROVE  DurableInv'
<1>0. /\ DurableTypes /\ AckSecured /\ DelSecured /\ disk' \in {disk, dir}
    BY DEF DurableInv
<1>1. AckSecured'
    <2>1. ASSUME NEW g \in Generations, Secured(g) PROVE Secured(g)'
        BY <2>1 DEF Secured, Kept
    <2>2. BarrierSecured => BarrierSecured'
        BY <1>0, BarrierLater
    <2>. QED BY <1>0, <2>1, <2>2 DEF AckSecured
<1>2. Void => Void'
    BY <1>0, VoidLater
<1>3. DelSecured'
    BY <1>0, <1>2 DEF DelSecured
<1>4. ASSUME NEW q \in Procs PROVE DurableGood(q)'
    <2>1. DurableGood(q)
        BY DEF DurableInv
    <2>2. Committing(q)' <=> Committing(q)
        BY DEF Committing, At
    <2>. QED BY <1>2, <2>1, <2>2 DEF DurableGood, Kept
<1>5. DurableTypes'
    BY <1>0 DEF DurableTypes
<1>. QED BY <1>1, <1>3, <1>4, <1>5 DEF DurableInv

LEMMA VolatileDurable ==
    ASSUME Undamaged, DurableInv, Volatile \/ UNCHANGED durableVars
    PROVE  DurableInv'
<1>0. GoodStates /\ BarrierInv /\ CommitInv /\ DurableTypes
    BY DEF DurableInv, StoreInv, BarrierInv
<1>1. [Next]_vars
    BY DEF Volatile, durableVars, vars
<1>2. Shrinks /\ StoreInv'
    BY <1>0, <1>1, NextBarrier, NextCommitInv DEF StoreInv
<1>3. ASSUME NEW p \in Procs, Volatile, Call(p) \/ Step(p) \/ Crash(p) PROVE DurableInv'
    BY <1>2, <1>3, CallDurable
<1>4. CASE Volatile /\ OwnerClearsGate
    <2>1. Kept /\ UNCHANGED call
        BY <1>0, <1>4 DEF OwnerClearsGate, Kept, GoodStates, Directories
    <2>2. UNCHANGED <<disk, acknowledged, deleted>>
        BY <1>0, <1>4, <2>1, NoReport
    <2>. QED BY <1>2, <2>1, <2>2, IdleDurable
<1>5. ~ \E g \in Generations : Damage(g)
    BY <1>0, DamageEffect
<1>6. CASE UNCHANGED durableVars
    <2>1. Kept /\ UNCHANGED <<call, disk, acknowledged, deleted>>
        BY <1>6 DEF durableVars, vars, Kept
    <2>. QED BY <1>2, <2>1, IdleDurable
<1>. QED BY <1>3, <1>4, <1>5, <1>6 DEF Volatile, Next

-----------------------------------------------------------------------------
(* A power failure *)

LEMMA IdleOp ==
    ASSUME call \in [Procs -> GoodCalls], NEW p \in Procs, call[p].pc = "idle"
    PROVE  call[p].op = "idle"
<1>1. call[p].pc \in LabelsOf(call[p].op) /\ call[p].op \in Operations
    BY OpOfLabel
<1>. QED BY <1>1 DEF LabelsOf, Operations, MutationLabels, ScanLabels, CommitLabels,
             ActivationLabels, DeletionLabels

\* Every name survives in one of its two states, and no call does.
LEMMA PowerEffect ==
    ASSUME GoodStates, DurableTypes, PowerFailure
    PROVE  /\ GoodStates'
           /\ \A g \in Generations : dir'.finals[g] \in {dir.finals[g], disk.finals[g]}
           /\ dir'.temps \subseteq dir.temps \cup disk.temps
           /\ dir.marks \cap disk.marks \subseteq dir'.marks
           /\ \A p \in Procs : /\ call'[p].pc = "idle" /\ call'[p].op = "idle"
                               /\ call'[p].result # "crashed" => call'[p].result = call[p].result
<1>0. dir \in Directories /\ disk \in Directories /\ call \in [Procs -> GoodCalls]
    BY DEF GoodStates, DurableTypes
<1>1. PICK S \in SUBSET Generations, T \in SUBSET (dir.temps \cup disk.temps),
           M \in SUBSET (dir.marks \cup disk.marks) :
         dir' = [finals |-> [g \in Generations |-> IF g \in S THEN dir.finals[g] ELSE disk.finals[g]],
                 temps |-> T \cup (dir.temps \cap disk.temps),
                 marks |-> M \cup (dir.marks \cap disk.marks)]
    BY ZenonT(30) DEF PowerFailure, Survivors
<1>2. dir' \in Directories
    BY <1>0, <1>1 DEF Directories, Stores
<1>3. SpentGood'
    BY IncidentGood DEF PowerFailure, GoodStates, SpentGood, Incidents
<1> DEFINE o == Outcome("idle", "crashed", None, FALSE)
<1>4. o.pc = "idle" /\ o.op = "idle" /\ o.result = "crashed"
    BY DEF Outcome
<1>5. o \in GoodCalls
    <2>1. o \in Calls
        BY NothingType DEF Outcome, Calls, Labels, Operations, Failures
    <2>. QED BY <1>4, <2>1 DEF GoodCalls, LabelsOf, CommitLabels, ActivationLabels
<1>6. call' = [p \in Procs |-> IF At(p, "idle") THEN call[p] ELSE o]
    BY DEF PowerFailure
<1> HIDE DEF o
<1>7. call' \in [Procs -> GoodCalls]
    BY <1>0, <1>5, <1>6
<1>8. ASSUME NEW p \in Procs
      PROVE  /\ call'[p].pc = "idle" /\ call'[p].op = "idle"
             /\ call'[p].result # "crashed" => call'[p].result = call[p].result
    <2>1. CASE At(p, "idle")
        <3>1. call'[p] = call[p] /\ call[p].pc = "idle"
            BY <1>6, <2>1 DEF At
        <3>2. call[p].op = "idle"
            BY <1>0, <3>1, IdleOp
        <3>. QED BY <3>1, <3>2
    <2>2. CASE ~At(p, "idle")
        BY <1>4, <1>6, <2>2
    <2>. QED BY <2>1, <2>2
<1>9. /\ \A g \in Generations : dir'.finals[g] \in {dir.finals[g], disk.finals[g]}
      /\ dir'.temps \subseteq dir.temps \cup disk.temps
      /\ dir.marks \cap disk.marks \subseteq dir'.marks
    BY <1>1
<1>10. GoodStates'
    BY <1>2, <1>3, <1>7 DEF GoodStates, SpentGood
<1>. QED BY <1>8, <1>9, <1>10

\* What cannot be lost is not.
LEMMA PowerKeeps ==
    ASSUME GoodStates, DurableTypes, PowerFailure
    PROVE  /\ \A g \in Generations : Secured(g) => Secured(g)'
           /\ BarrierSecured => BarrierSecured'
           /\ Void => Void'
<1>0. /\ \A g \in Generations : dir'.finals[g] \in {dir.finals[g], disk.finals[g]}
      /\ dir'.temps \subseteq dir.temps \cup disk.temps
      /\ dir.marks \cap disk.marks \subseteq dir'.marks
      /\ disk' = dir'
    BY PowerEffect DEF PowerFailure
<1>1. \A g \in Generations : Secured(g) => Secured(g)'
    BY <1>0 DEF Secured
<1>2. BarrierSecured => BarrierSecured'
    BY <1>0 DEF BarrierSecured, Barred
<1>3. ASSUME Void PROVE Void'
    <2>1. \A g \in Generations : dir.finals[g] = "none" /\ disk.finals[g] = "none"
        BY <1>3 DEF Void, Present
    <2>2. \A g \in Generations : dir'.finals[g] = "none"
        BY <1>0, <2>1
    <2>3. dir'.temps = {}
        BY <1>0, <1>3 DEF Void
    <2>. QED BY <1>0, <1>2, <1>3, <2>2, <2>3 DEF Void, Present
<1>. QED BY <1>1, <1>2, <1>3

LEMMA PowerDurable ==
    ASSUME DurableInv, PowerFailure
    PROVE  DurableInv'
<1>0. /\ GoodStates /\ DurableTypes /\ AckSecured /\ DelSecured
      /\ \A p \in Procs : DurableGood(p)
    BY DEF DurableInv, StoreInv, BarrierInv
<1>1. /\ GoodStates'
      /\ \A p \in Procs : /\ call'[p].pc = "idle" /\ call'[p].op = "idle"
                          /\ call'[p].result # "crashed" => call'[p].result = call[p].result
    BY <1>0, PowerEffect
<1>2. /\ \A g \in Generations : Secured(g) => Secured(g)'
      /\ BarrierSecured => BarrierSecured'
      /\ Void => Void'
    BY <1>0, PowerKeeps
<1>3. UNCHANGED <<acknowledged, deleted>> /\ disk' = dir'
    BY DEF PowerFailure
<1>4. ASSUME NEW p \in Procs, call'[p].result = "deleted" PROVE Void'
    BY <1>0, <1>1, <1>2, <1>4 DEF DurableGood
<1>5. BarrierInv'
    <2>1. GateExclusive' /\ BarrierHolds'
        BY <1>1 DEF GateExclusive, BarrierHolds, HoldsGate, DeletionLabels
    <2>2. DeletedIsEmpty'
        BY <1>4 DEF DeletedIsEmpty, Void, BarrierSecured
    <2>. QED BY <1>1, <2>1, <2>2 DEF BarrierInv
<1>6. CommitInv'
    BY <1>1 DEF CommitInv, CommitGood, LoadGood, ResultGood, Preparing, Committing
<1>7. DurableTypes'
    BY <1>0, <1>1, <1>3 DEF DurableTypes, GoodStates
<1>8. AckSecured'
    BY <1>0, <1>2, <1>3 DEF AckSecured
<1>9. DelSecured'
    BY <1>0, <1>2, <1>3 DEF DelSecured
<1>10. \A p \in Procs : DurableGood(p)'
    BY <1>1, <1>4 DEF DurableGood, Committing
<1>. QED BY <1>5, <1>6, <1>7, <1>8, <1>9, <1>10 DEF DurableInv, StoreInv

-----------------------------------------------------------------------------
LEMMA InitDurable == DurableInit => DurableInv
<1> SUFFICES ASSUME DurableInit PROVE DurableInv
    OBVIOUS
<1>1. Init /\ disk = dir /\ acknowledged = None /\ deleted = FALSE
    BY DEF DurableInit
<1>2. StoreInv
    BY <1>1, InitBarrierInv, InitCommitInv DEF StoreInv
<1>3. DurableTypes
    BY <1>1, <1>2 DEF DurableTypes, StoreInv, BarrierInv, GoodStates
<1>4. ASSUME NEW p \in Procs PROVE DurableGood(p)
    <2>1. call[p].pc = "idle" /\ call[p].op = "idle" /\ call[p].result = "absent"
        BY <1>1 DEF Init, Outcome
    <2>. QED BY <2>1 DEF DurableGood, Committing
<1>. QED BY <1>1, <1>2, <1>3, <1>4 DEF DurableInv, AckSecured, DelSecured

\* A commit or a deletion that was reported survives every power failure (commitCandidate,
\* cleanupAfterCommit, deleteLocalProfileStore: each syncs the directory before it removes
\* or reports anything), for any number of failures.  Documents that are damaged on the
\* disk are excluded; read errors are not.
THEOREM ReportsAreDurable ==
    ASSUME Undamaged
    PROVE  DurableSpec => []ReportsSurvive
<1>1. DurableInv /\ [Volatile \/ PowerFailure]_durableVars => DurableInv'
    BY VolatileDurable, PowerDurable
<1>2. DurableInv => ReportsSurvive
    <2> SUFFICES ASSUME DurableInv PROVE AcknowledgedSurvives /\ DeletionSurvives
        BY DEF ReportsSurvive
    <2>1. AcknowledgedSurvives
        BY DEF DurableInv, AckSecured, AcknowledgedSurvives, BarrierSecured, Secured, Intact, Sound
    <2>2. DeletionSurvives
        BY DEF DurableInv, DelSecured, DeletionSurvives, Void, BarrierSecured
    <2>. QED BY <2>1, <2>2
<1>. QED BY <1>1, <1>2, InitDurable, PTL DEF DurableSpec
=============================================================================
