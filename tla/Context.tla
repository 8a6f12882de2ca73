------------------------------- MODULE Context -------------------------------
(***************************************************************************)
(* What happens between a profile and an assistant: what evidence says,    *)
(* which packet a task gets, the server that an assistant asks and the     *)
(* hooks that inject guidance and keep it for a resumed session.  They     *)
(* exchange values and share no state, so one of them is at work in a      *)
(* behaviour.                                                              *)
(***************************************************************************)
EXTENDS CodexCache, ClaimDerivation, TaskContext, McpServer

VARIABLE serving
allVars == <<serving, vars, derivationVars, contextVars, serverVars>>

Parts == {"hooks", "evidence", "task", "server"}
Still(parts) ==
    /\ "hooks" \in parts => UNCHANGED vars
    /\ "evidence" \in parts => UNCHANGED derivationVars
    /\ "task" \in parts => UNCHANGED contextVars
    /\ "server" \in parts => UNCHANGED serverVars

AllInit ==
    /\ Init /\ ContextInit /\ serving \in Parts
    /\ IF serving = "evidence" THEN DerivationInit ELSE DerivationRests
    /\ IF serving = "server" THEN ServerInit ELSE ServerRests

AllNext ==
    /\ UNCHANGED serving /\ Still(Parts \ {serving})
    /\ \/ serving = "hooks" /\ Next
       \/ serving = "evidence" /\ DerivationNext
       \/ serving = "task" /\ ContextNext
       \/ serving = "server" /\ ServerNext

AllSpec == AllInit /\ [][AllNext]_allVars /\ CacheFairness /\ ServerFairness
=============================================================================
