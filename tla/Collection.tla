----------------------------- MODULE Collection -----------------------------
(***************************************************************************)
(* The collectors of source metadata: the walk of the file system, the     *)
(* history of a repository, the child processes both use, the owner's      *)
(* selected GitHub repositories, and the authority that all of them get    *)
(* from the owner's configuration.  A refresh awaits one after the other   *)
(* and they share no state, so one of them is at work in a behaviour.      *)
(***************************************************************************)
EXTENDS FilesystemWalk, PublicHistory, BoundedChild, SelectedGitHub, RepositoryAuthority

VARIABLE atWork
collectionVars == <<atWork, walkVars, historyVars, childVars, selectedVars, authorityVars>>

Collectors == {"filesystem", "history", "child", "selected", "authority"}
Rest(collectors) ==
    /\ "filesystem" \in collectors => UNCHANGED walkVars
    /\ "history" \in collectors => UNCHANGED historyVars
    /\ "child" \in collectors => UNCHANGED childVars
    /\ "selected" \in collectors => UNCHANGED selectedVars
    /\ "authority" \in collectors => UNCHANGED authorityVars

Init ==
    /\ WalkInit /\ AuthorityInit
    /\ \/ atWork \in {"filesystem", "authority"} /\ HistoryRests /\ ChildRests /\ SelectedRests
       \/ atWork = "history" /\ HistoryInit /\ ChildRests /\ SelectedRests
       \/ atWork = "child" /\ ChildInit /\ HistoryRests /\ SelectedRests
       \/ atWork = "selected" /\ SelectedInit /\ HistoryRests /\ ChildRests

Next ==
    /\ UNCHANGED atWork /\ Rest(Collectors \ {atWork})
    /\ \/ atWork = "filesystem" /\ WalkNext
       \/ atWork = "history" /\ HistoryNext
       \/ atWork = "child" /\ ChildNext
       \/ atWork = "selected" /\ SelectedNext
       \/ atWork = "authority" /\ AuthorityNext

Spec == Init /\ [][Next]_collectionVars /\ ChildFairness
=============================================================================
