---------------------------- MODULE BoundedChild ----------------------------
(***************************************************************************)
(* A call with a time and an output limit: git in bounded-git-command.ts,  *)
(* gh in public-history-collector.ts, gh's token and an HTTPS request in   *)
(* selected-github-transport.ts.  The events of the program (or server)    *)
(* and of the timer come in any order that the platform allows, and the    *)
(* first that settles the promise wins.                                    *)
(***************************************************************************)
EXTENDS Integers

CONSTANTS
    Chunks,       \* how much the program writes when nothing stops it
    OutputLimits  \* values of maximumOutputBytes

ASSUME ChildAssumption == Chunks \in Nat /\ OutputLimits \subseteq Nat

VARIABLES
    process,  \* the program: what it wrote and how it ended
    parent    \* the promise: what arrived, the flags, the result, git's directory
childVars == <<process, parent>>

Programs == {"git", "gh", "token", "https"}

\* These two are answered when the limit is passed, the others when they have closed;
\* the timer of git only kills.
AnswersLimit(program) == program \in {"token", "https"}
AnswersTimer(program) == program # "git"

Ended == process.exit # "running"
Drained == parent.received = process.written
Settled == parent.result # "none"

-----------------------------------------------------------------------------
(* The program *)

Write ==
    /\ process.exit = "running" /\ process.written < Chunks
    /\ process' = [process EXCEPT !.written = @ + 1] /\ UNCHANGED parent

\* It ends by itself, or because it was killed; a program that ends by itself with
\* success has written everything.
Exit ==
    /\ process.exit = "running"
    /\ \/ process.written = Chunks /\ process' = [process EXCEPT !.exit = "success"]
       \/ process' = [process EXCEPT !.exit = "failure"]
    /\ UNCHANGED parent

\* kill only asks; what has ended stays as it ended.
Kill == process' = IF Ended THEN process ELSE [process EXCEPT !.exit = "failure"]

-----------------------------------------------------------------------------
(* The call *)

Settle(reason) == [parent EXCEPT !.event = "closed", !.result = reason]

\* isValidRequest: only the commands, sizes and times that the collectors use.
Refuse ==
    /\ parent.event = "requested" /\ parent' = Settle("invalid-request") /\ UNCHANGED process

\* git gets an empty quarantine directory with a trusted configuration and the shallow
\* boundary; it may exist when its preparation fails.
StartCall ==
    /\ parent.event = "requested"
    /\ \/ /\ parent' = [parent EXCEPT !.event = "spawned", !.quarantine = IF parent.program = "git" THEN "there" ELSE @]
          /\ process' = [process EXCEPT !.exit = "running"]
       \/ /\ parent.program = "git" /\ UNCHANGED process
          /\ \E made \in {"none", "there"} :
                parent' = [Settle("failed") EXCEPT !.quarantine = made]

-----------------------------------------------------------------------------
(* Events *)

\* error: the program could not be started.
SpawnError ==
    /\ parent.event = "spawned" /\ process.written = 0 /\ process.exit = "running"
    /\ process' = [process EXCEPT !.exit = "absent"]
    /\ parent' = Settle(IF Settled THEN parent.result ELSE "unavailable")

\* data: the chunk counts, and is kept unless the limit is passed.
Data ==
    /\ parent.received < process.written
    /\ LET over == parent.received + 1 > parent.limit
       IN  /\ parent' = [parent EXCEPT !.received = @ + 1,
                            !.kept = IF over THEN @ ELSE @ + 1,
                            !.exceeded = @ \/ over,
                            !.result = IF over /\ ~Settled /\ AnswersLimit(parent.program)
                                       THEN "limit-exceeded" ELSE @]
           /\ IF over THEN Kill ELSE UNCHANGED process

MutantTimer ==
    /\ parent.event = "spawned" /\ ~Settled /\ ~parent.timedOut /\ UNCHANGED process
    /\ parent' = [parent EXCEPT !.timedOut = TRUE]
Timer ==
    /\ parent.event = "spawned" /\ ~Settled /\ ~parent.timedOut /\ Kill
    /\ parent' = [parent EXCEPT !.timedOut = TRUE,
                     !.result = IF AnswersTimer(parent.program) THEN "deadline-exceeded" ELSE @]

\* close comes when the program has ended and its output has arrived.
Closable == Ended /\ Drained

Close ==
    /\ parent.event = "spawned" /\ Closable
    /\ UNCHANGED process
    /\ parent' = Settle(CASE Settled -> parent.result
                          [] ~Settled /\ parent.timedOut -> "deadline-exceeded"
                          [] ~Settled /\ ~parent.timedOut /\ parent.exceeded -> "limit-exceeded"
                          [] ~Settled /\ ~parent.timedOut /\ ~parent.exceeded
                                /\ process.exit = "failure" -> "failed"
                          [] OTHER -> "ok")

\* finally: the quarantine directory of git is removed before the answer is given; an
\* error of the removal is swallowed, and the directory stays.
Cleanup ==
    /\ Settled /\ parent.quarantine = "there" /\ UNCHANGED process
    /\ \E after \in {"none", "left"} : parent' = [parent EXCEPT !.quarantine = after]

-----------------------------------------------------------------------------
Called(program, limit) ==
    [program |-> program, limit |-> limit, event |-> "requested", received |-> 0,
     kept |-> 0, exceeded |-> FALSE, timedOut |-> FALSE, result |-> "none",
     quarantine |-> "none"]
ChildInit ==
    /\ process = [written |-> 0, exit |-> "absent"]
    /\ parent \in {Called(program, limit) : program \in Programs, limit \in OutputLimits}

\* No program was called.
ChildRests ==
    /\ process = [written |-> 0, exit |-> "absent"]
    /\ parent = [Called("git", 0) EXCEPT !.event = "closed", !.result = "unavailable"]

ChildNext == Refuse \/ StartCall \/ Write \/ Exit \/ SpawnError \/ Data \/ Timer \/ Close \/ Cleanup

\* The loop delivers its events; the program itself owes nothing.
ChildFairness ==
    /\ WF_childVars(StartCall) /\ WF_childVars(Data) /\ WF_childVars(Timer)
    /\ WF_childVars(Close) /\ WF_childVars(Cleanup)

-----------------------------------------------------------------------------
(* Properties *)

\* An answer holds the whole output of a program that succeeded in time: neither a
\* prefix nor the output of a program that was killed (bounded-git-command.ts:142).
OkIsWhole ==
    parent.result = "ok" =>
        /\ process.exit = "success" /\ parent.kept = Chunks
        /\ ~parent.timedOut /\ ~parent.exceeded

\* Whatever the program does, and if it never ends by itself, the call is answered,
\* and the removal of its quarantine directory was tried before.
CallEnds == <>(Settled /\ parent.quarantine # "there")

\* A call settles once, with a whole output or a refusal, and always does.
CallSettles == []OkIsWhole /\ CallEnds
=============================================================================
