-------------------------- MODULE ProfileRegister --------------------------
(***************************************************************************)
(* What the profile store promises its callers: one register holding the   *)
(* newest profile generation, changed by compare-and-set and closed for    *)
(* good by deletion.  A mutation takes effect at most once, at one instant *)
(* between its call and its answer; the answer says whether it did, except *)
(* when it says that the outcome is unknown.                               *)
(***************************************************************************)
EXTENDS Integers

CONSTANTS Procs, Generations, None

VARIABLES
    value,    \* newest generation, None when there is no profile
    closed,   \* the profile was deleted
    client,   \* progress of the mutation of each process, or its last answer
    expects   \* the value a mutation requires; Any for a migration
vars == <<value, closed, client, expects>>

Any == -2
Answers == {"nothing", "confirmed", "unknown"}

Init ==
    /\ value \in Generations \cup {None} /\ closed = FALSE
    /\ client = [p \in Procs |-> "nothing"]
    /\ expects = [p \in Procs |-> None]

\* A mutation is called.
Ask(p) ==
    /\ client[p] \in Answers
    /\ client' = [client EXCEPT ![p] = "asked"]
    /\ \E e \in Generations \cup {None, Any} : expects' = [expects EXCEPT ![p] = e]
    /\ UNCHANGED <<value, closed>>

\* It takes effect: the value grows, from the one the caller observed.
Apply(p) ==
    /\ client[p] = "asked" /\ ~closed
    /\ expects[p] \in {Any, value}
    /\ \E g \in Generations : g > value /\ value' = g
    /\ client' = [client EXCEPT ![p] = "changed"]
    /\ UNCHANGED <<closed, expects>>

\* It answers.
Answer(p) ==
    /\ \/ client[p] = "asked" /\ client' \in {[client EXCEPT ![p] = a] : a \in {"nothing", "unknown"}}
       \/ client[p] = "changed" /\ client' \in {[client EXCEPT ![p] = a] : a \in {"confirmed", "unknown"}}
    /\ expects' = [expects EXCEPT ![p] = None]
    /\ UNCHANGED <<value, closed>>

\* A load or a deletion is called; the answer of the mutation before it is past.
Observe(p) ==
    /\ client[p] \in Answers
    /\ client' = [client EXCEPT ![p] = "nothing"]
    /\ UNCHANGED <<value, closed, expects>>

\* A load or a deletion that dies is answered like a mutation that dies.
Perish(p) ==
    /\ client[p] \in Answers
    /\ client' = [client EXCEPT ![p] = "unknown"]
    /\ UNCHANGED <<value, closed, expects>>

Close == closed' = TRUE /\ value' = None /\ UNCHANGED <<client, expects>>

Next == Close \/ \E p \in Procs : Ask(p) \/ Apply(p) \/ Answer(p) \/ Observe(p) \/ Perish(p)
Spec == Init /\ [][Next]_vars
=============================================================================
