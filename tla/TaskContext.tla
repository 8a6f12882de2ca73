----------------------------- MODULE TaskContext -----------------------------
(***************************************************************************)
(* From a task and a stored profile to the packet an assistant reads: the  *)
(* demand of the task (demand-profile-producer.ts), its intersection with  *)
(* the profile (demand-profile-intersection.ts), the response policy       *)
(* (claim-response-policy.ts) and the compilation within a budget          *)
(* (dcp-compiler.ts), as get-task-context runs them                        *)
(* (local-stored-profile-provider.ts).                                     *)
(*                                                                         *)
(* A demand is a function from capabilities to their relevance.            *)
(***************************************************************************)
EXTENDS Integers, Sequences, FiniteSets, SequencesExt, Sequencing

CONSTANTS
    Capabilities,
    Languages,    \* capabilities that collected metadata can show
    ClaimPool,    \* claims a profile may hold: [capability, state, project, target, adjacentFrom]
    ClaimOrder,   \* the claims of ClaimPool, in the order of capability and identifier
    MaxClaims,    \* bound on the claims of a profile
    Limit,        \* entries of each list of a demand and of a packet (32)
    Global,       \* scope of a claim that no project bounds
    Project,      \* project of the task
    Options       \* interpretations of an ambiguous task

ASSUME LimitAssumption == Limit \in Nat /\ Limit > 0

\* An adjacent claim names what it is adjacent to (schemas/claim/0.1.0.schema.json:364).
ASSUME ClaimAssumption ==
    /\ ClaimOrder \in Seq(ClaimPool) /\ Range(ClaimOrder) = ClaimPool
    /\ \A c \in ClaimPool :
          /\ c.state \in {"demonstrated", "adjacent", "self-declared", "insufficient-evidence", "disputed"}
          /\ c.state = "adjacent" => c.adjacentFrom # {}
    /\ Languages \subseteq Capabilities /\ IsFiniteSet(Options)

VARIABLES
    profile,   \* the profile loaded for the task
    offered,   \* what each interpretation of the task would demand
    demand,    \* demand of the task, when there is one
    packet     \* answer to the task
contextVars == <<profile, offered, demand, packet>>

-----------------------------------------------------------------------------
(* Demand *)

\* makeDemand: the task prevails over the languages that the metadata shows.
DemandOf(task, languages) ==
    [c \in DOMAIN task \cup languages |-> IF c \in DOMAIN task THEN task[c] ELSE "supporting"]
TooMany(of) == Cardinality(DOMAIN of) > Limit

Required(of) == {c \in DOMAIN of : of[c] = "required"}
Merged(base, extra) ==
    [c \in DOMAIN base \cup DOMAIN extra |->
        IF c \in Required(base) \cup Required(extra) THEN "required" ELSE "supporting"]

\* What all interpretations share.
Common(tasks) ==
    [c \in {c \in Capabilities : \A t \in tasks : c \in DOMAIN t} |->
        IF \A t \in tasks : c \in Required(t) THEN "required" ELSE "supporting"]

Signatures(operations, demands) == {<<operations[o], demands[o]>> : o \in DOMAIN demands}

Ready(of) == [status |-> "ready", of |-> of]
Refused(category) == [status |-> category, of |-> <<>>]

\* produceDemandProfile of a task with no interpretations, or with several.
Produce(base, tasks, operations, languages) ==
    LET merged == [o \in DOMAIN tasks |-> Merged(base, tasks[o])]
        demands == [o \in DOMAIN tasks |-> DemandOf(merged[o], languages)]
        ready == IF DOMAIN tasks = {} THEN base ELSE Common({merged[o] : o \in DOMAIN tasks})
    IN  /\ IF \E d \in {DemandOf(base, languages)} \cup {demands[o] : o \in DOMAIN tasks} : TooMany(d)
           THEN demand' = Refused("limit-exceeded") /\ UNCHANGED offered
           ELSE /\ demand' = IF Cardinality(Signatures(operations, demands)) > 1
                             THEN Refused("clarification-required")
                             ELSE Ready(DemandOf(ready, languages))
                /\ offered' = demands
        /\ UNCHANGED <<profile, packet>>

\* resolveDemandProfileClarification.
Resolve(o) ==
    /\ demand.status = "clarification-required"
    /\ demand' = Ready(offered[o]) /\ offered' = <<>>
    /\ UNCHANGED <<profile, packet>>

-----------------------------------------------------------------------------
(* Intersection and response policy *)

\* Claims that a dispute corrects are history.
Disputes(loaded) == {c \in loaded.claims : c.state = "disputed"}
Corrected(loaded) == {c.target : c \in {c \in Disputes(loaded) : c.target # c.id}}
Relevant(loaded, of) ==
    {c \in loaded.claims : /\ c.id \notin Corrected(loaded)
                           /\ c.capability \in DOMAIN of /\ c.project \in {Global, Project}}

Priority(state) ==
    CASE state = "disputed" -> 0 [] state = "insufficient-evidence" -> 1
      [] state = "self-declared" -> 2 [] state = "adjacent" -> 3 [] state = "demonstrated" -> 4
Cautious(claims) == \* by caution, then capability and identifier
    LET OfPriority(n) == Among(ClaimOrder, {c \in claims : Priority(c.state) = n})
    IN  OfPriority(0) \o OfPriority(1) \o OfPriority(2) \o OfPriority(3) \o OfPriority(4)

\* The first claim leads.
ModeOf(state) == CASE state = "demonstrated" -> "concise" [] state = "adjacent" -> "analogy"
                   [] OTHER -> "teach-while-doing"
MutantMode(guided, claims) ==
    IF guided \/ claims = <<>> THEN "teach-while-doing" ELSE ModeOf(Last(claims).state)
Mode(guided, claims) ==
    IF guided \/ claims = <<>> THEN "teach-while-doing" ELSE ModeOf(claims[1].state)
Analogies(claims) == UNION {c.adjacentFrom : c \in {c \in Range(claims) : c.state = "adjacent"}}

-----------------------------------------------------------------------------
(* Compilation *)

Within(claims, set) == Among(claims, {x \in Range(claims) : x.capability \in set})

\* The first claim of a capability leads; buildUncertainties.
Leading(claims, c) ==
    LET own == Within(claims, {c})
    IN  IF own = <<>> THEN "insufficient-evidence" ELSE own[1].state
Uncertainties(of, claims) ==
    {[capability |-> c, reason |-> Leading(claims, c), material |-> of[c] = "required"] :
        c \in {c \in DOMAIN of : Leading(claims, c) # "demonstrated"}}
Material(uncertainties) == {u \in uncertainties : u.material}

MutantRetention(of, claims) ==
    Reverse(Within(claims, Required(of))) \o Within(claims, DOMAIN of \ Required(of))
Retention(of, claims) ==
    Within(claims, Required(of)) \o Within(claims, DOMAIN of \ Required(of))

\* addBudgetUncertainties: a required capability whose claims are all left out.
Omitted(of, claims, kept) ==
    {[capability |-> c, reason |-> "omitted-by-budget", material |-> TRUE] :
        c \in {c \in Required(of) : Leading(claims, c) = "demonstrated"
                                    /\ c \notin {x.capability : x \in kept}}}

\* The attempts, each smaller than the one before it.
Attempts(of, claims) ==
    LET full == Range(claims)
        doubts == Uncertainties(of, claims)
        Attempt(kept, told, reduction) ==
            [claims |-> kept, uncertainties |-> told, reduction |-> reduction]
        order == Retention(of, claims)
        Shorter(n) == LET kept == Range(SubSeq(order, 1, n))
                      IN  Attempt(kept, Material(doubts) \cup Omitted(of, claims, kept),
                                  "claim-summaries")
    IN  <<Attempt(full, doubts, "none"), Attempt(full, doubts, "claim-limitations"),
          Attempt(full, doubts, "non-demonstrated-evidence-references"),
          Attempt(full, Material(doubts), "non-material-uncertainties")>>
        \o [i \in 1..Len(order) |-> Shorter(Len(order) - i)]

\* isDeveloperContextPacket bounds every list.
WellFormed(of, claims, attempt) ==
    /\ Cardinality(attempt.claims) <= Limit /\ Cardinality(attempt.uncertainties) <= Limit
    /\ Cardinality(Required(of)) <= Limit /\ Cardinality(Analogies(claims)) <= Limit

\* compileDeveloperContextPacket: the first attempts exceed the budget.
Compiled(loaded, of, exceeded) ==
    LET claims == Cautious(Relevant(loaded, of))
        attempts == Attempts(of, claims)
        fits == {i \in DOMAIN attempts : i > exceeded /\ WellFormed(of, claims, attempts[i])}
    IN  IF fits = {} THEN [status |-> "budget-too-small"]
        ELSE LET chosen == attempts[CHOOSE i \in fits : \A j \in fits : i <= j]
             IN  [status |-> "success", claims |-> chosen.claims,
                  uncertainties |-> chosen.uncertainties, reduction |-> chosen.reduction,
                  mode |-> Mode(loaded.guided, claims), analogies |-> Analogies(claims)]

-----------------------------------------------------------------------------
(* Requests *)

Unanswered == [status |-> "none"]

\* A consumer of the library compiles the demand it has for a profile it has loaded.
Compile(loaded, exceeded) ==
    /\ profile' = loaded /\ packet' = Compiled(loaded, demand.of, exceeded)
    /\ offered' = <<>> /\ UNCHANGED demand

\* get-task-context: what is requested is required, and there are no interpretations.
GetTaskContext(requested, languages, loaded, exceeded) ==
    LET of == DemandOf([c \in requested |-> "required"], languages)
    IN  /\ Cardinality(requested) <= Limit
        /\ profile' = loaded /\ UNCHANGED offered
        /\ IF TooMany(of)
           THEN /\ demand' = Refused("limit-exceeded")
                /\ packet' = [status |-> "profile-unavailable"]
           ELSE demand' = Ready(of) /\ packet' = Compiled(loaded, of, exceeded)

\* The fixture provider knows of no metadata, and its profile is always there.
GetFixtureContext(requested, loaded, exceeded) == GetTaskContext(requested, {}, loaded, exceeded)

Profiles == [claims : {s \in SUBSET ClaimPool : Cardinality(s) <= MaxClaims}, guided : BOOLEAN]
Tasks(capabilities) == UNION {[c -> {"required", "supporting"}] : c \in SUBSET capabilities}
TaskOperations == {"read-only", "source-write"} \* two of the kinds: they agree or differ
Budgets == 0..(MaxClaims + 4) \* number of attempts that exceed the budget

ContextInit ==
    /\ profile = [claims |-> {}, guided |-> FALSE] /\ offered = <<>>
    /\ demand = Refused("none") /\ packet = Unanswered

\* One task, from the beginning.
ContextNext ==
    \/ /\ demand.status = "none"
       /\ \/ \E languages \in SUBSET Languages, base \in Tasks(Languages) :
              \E tasks \in [Options -> Tasks(Languages)], operations \in [Options -> TaskOperations] :
                  Produce(base, tasks, operations, languages)
          \/ \E languages \in SUBSET Languages, base \in Tasks(Capabilities) :
                Produce(base, <<>>, <<>>, languages)
          \/ \E requested \in SUBSET Capabilities, languages \in SUBSET Languages :
              \E loaded \in Profiles, exceeded \in Budgets :
                  GetTaskContext(requested, languages, loaded, exceeded)
          \/ \E requested \in SUBSET Capabilities, loaded \in Profiles, exceeded \in Budgets :
                GetFixtureContext(requested, loaded, exceeded)
    \/ \E o \in DOMAIN offered : Resolve(o)
    \/ /\ demand.status = "ready" /\ packet = Unanswered
       /\ \E loaded \in Profiles, exceeded \in Budgets : Compile(loaded, exceeded)

-----------------------------------------------------------------------------
(* Properties *)

\* A task is compiled without a question only when the answer could not matter: its
\* demand is what every interpretation of it demands (demand-profile-producer.ts:105).
QuestionSkippedOnlyIfMoot ==
    demand.status = "ready" => \A o \in DOMAIN offered : offered[o] = demand.of

Answered == packet.status = "success"
Considered == Relevant(profile, demand.of)
Of(claims, capability) == {c \in claims : c.capability = capability}

\* However small the budget, a packet is never silent about a required capability: it
\* keeps a claim of it and all the profile says of it is demonstrated, or it tells of an
\* uncertainty about it that is material (dcp-compiler.ts:252).
RequiredNeverSilent ==
    Answered => \A c \in Required(demand.of) :
        \/ \E u \in packet.uncertainties : u.capability = c /\ u.material
        \/ /\ Of(packet.claims, c) # {}
           /\ \A claim \in Of(Considered, c) : claim.state = "demonstrated"

\* What the budget leaves out is what matters least: no claim is left out that is more
\* cautious than a claim that is kept of a capability as relevant, and none of a required
\* capability while one of a supporting capability is kept (dcp-compiler.ts:158).
CautionSurvivesBudget ==
    Answered => \A left \in Considered \ packet.claims, kept \in packet.claims :
        LET relevance == demand.of[kept.capability]
        IN  /\ relevance = "supporting" => demand.of[left.capability] = "supporting"
            /\ relevance = demand.of[left.capability]
               => Priority(kept.state) <= Priority(left.state)

\* The guidance is never less than what any claim calls for, kept or left out: concise
\* only among demonstrated claims, and by analogy only from what is told
\* (claim-response-policy.ts:45).
GuidanceCoversAllClaims ==
    Answered =>
        /\ packet.mode = "concise" => \A c \in Considered : c.state = "demonstrated"
        /\ packet.mode = "analogy" =>
              /\ \A c \in Considered : c.state \in {"demonstrated", "adjacent"}
              /\ packet.analogies # {}

\* "One uncertain relevant capability therefore prevents a mixed packet from
\* under-explaining the task" (docs/adr/0013-claim-precedence-response-policy.md:18).
UncertainNeverConcise ==
    Answered /\ packet.mode = "concise" =>
        \A u \in packet.uncertainties : ~(u.material /\ u.reason = "insufficient-evidence")

\* Neither the budget nor an unanswered question silences what the profile is unsure of.
CautionIsKept == RequiredNeverSilent /\ CautionSurvivesBudget /\ QuestionSkippedOnlyIfMoot
=============================================================================
