--------------------------- MODULE SelectedGitHub ---------------------------
(***************************************************************************)
(* readSelectedGitHubSources: the owner's selected repositories, read      *)
(* under an authority that the owner may revoke at any time, from a        *)
(* service on which names change hands (selected-github-source.ts).        *)
(*                                                                         *)
(* The endpoints to read are a program; a request is the check of the      *)
(* authority, the sending, and the answer with the check behind it.        *)
(***************************************************************************)
EXTENDS Integers, Sequences, FiniteSets

CONSTANTS
    Selections,    \* the selected repositories, by name
    Identifiers,   \* numeric identities of repositories
    RequestLimit,  \* limits.requests
    CommitLimit,   \* limits.commits
    MaxHostEdits   \* bound on what the owner and others do meanwhile

\* validateMetadata takes an identity from 1 on.
ASSUME SelectionAssumption ==
    {RequestLimit, CommitLimit, MaxHostEdits} \subseteq Nat /\ 0 \notin Identifiers

VARIABLES
    host,   \* the service: what names denote, visibility, tips; the authority
    reader  \* the read
selectedVars == <<host, reader>>

\* The endpoints of one selection in the order of the code: its metadata come first
\* and last.  Objects are addressed by the identity that the metadata gave.
Content(wanted) == IF wanted.content THEN <<"tree", "blob">> ELSE <<>>
History(wanted) ==
    IF wanted.history THEN [i \in 1..(wanted.ancestors) |-> "commit"] ELSE <<>>
Objects(operation, wanted) ==
    CASE operation = "discover" -> <<>>
      [] operation = "probe" -> <<"ref">>
      [] operation = "collect" -> <<"ref", "head">> \o Content(wanted) \o History(wanted)
Endpoints(operation, wanted) ==
    <<"metadata">> \o Objects(operation, wanted) \o <<"metadata">>

NoObservation == [id |-> 0, revision |-> 0, from |-> {}]
ReaderIs(changed) == reader' = changed
Stop(result) == ReaderIs([reader EXCEPT !.pc = "done", !.result = result])

\* authorize: the configuration is the one the read began with and its window is open.
Granted == host.granted

-----------------------------------------------------------------------------
(* Requests *)

\* get: the authority, then the budget.
Prepare ==
    /\ reader.pc = "prepare" /\ reader.program # <<>> /\ UNCHANGED host
    /\ IF Granted /\ reader.requests < RequestLimit
       THEN ReaderIs([reader EXCEPT !.pc = "send", !.requests = @ + 1])
       ELSE Stop("failed")

\* The port asks for the authority again and sends.
Send ==
    /\ reader.pc = "send" /\ UNCHANGED host
    /\ \/ Granted /\ ReaderIs([reader EXCEPT !.pc = "sent"])
       \/ ~Granted /\ Stop("failed")

\* The request leaves; the authority may be gone since the port asked.
Leave ==
    /\ reader.pc = "sent"
    /\ ReaderIs([reader EXCEPT !.pc = "answer"])
    /\ host' = [host EXCEPT !.late = IF host.granted THEN 0 ELSE @ + 1]

\* The first metadata give the identity; the last must give the same one.
MutantTarget(name) == host.denotes[name]
Target(name) == reader.observation.id

Metadata(name) ==
    LET id == host.denotes[name]
        first == reader.observation = NoObservation
    IN  IF id \in host.hidden \/ (~first /\ id # reader.observation.id) THEN Stop("failed")
        ELSE IF first THEN
            ReaderIs([reader EXCEPT !.pc = "prepare", !.program = Tail(@),
                                    !.observation.id = id])
        ELSE ReaderIs([reader EXCEPT !.pc = "prepare", !.program = Tail(@),
                         !.observations = @ \cup {<<name, reader.observation>>},
                         !.observation = NoObservation])

\* A reference gives the tip; the objects behind it are immutable.
Object(name, kind) ==
    ReaderIs([reader EXCEPT !.pc = "prepare", !.program = Tail(@),
                 !.observation.from = @ \cup {Target(name)},
                 !.observation.revision = IF kind = "ref" THEN host.tip[Target(name)] ELSE @])

Received ==
    /\ reader.pc = "answer" /\ UNCHANGED host
    /\ LET name == Head(reader.program)[1]
           kind == Head(reader.program)[2]
       IN  IF ~Granted THEN Stop("failed")
           ELSE CASE kind = "user" -> ReaderIs([reader EXCEPT !.pc = "prepare", !.program = Tail(@)])
                  [] kind = "metadata" -> Metadata(name)
                  [] OTHER -> Object(name, kind)

\* An answer that is an error or malformed.
Unanswered == reader.pc = "answer" /\ UNCHANGED host /\ Stop("failed")

\* After the last identity the authority is read once more.
Finished ==
    /\ reader.pc = "prepare" /\ reader.program = <<>> /\ UNCHANGED host
    /\ Stop(IF Granted THEN "ok" ELSE "failed")

-----------------------------------------------------------------------------
(* The owner and the service *)

HostEdit(changed) ==
    /\ host.edits < MaxHostEdits /\ reader.pc # "done" /\ UNCHANGED reader
    /\ host' = [changed EXCEPT !.edits = @ + 1]
Revoke == host.granted /\ HostEdit([host EXCEPT !.granted = FALSE])
Restore == ~host.granted /\ HostEdit([host EXCEPT !.granted = TRUE, !.late = 0])
Rename(name, id) ==
    host.denotes[name] # id /\ HostEdit([host EXCEPT !.denotes[name] = id])
Hide(id) == id \notin host.hidden /\ HostEdit([host EXCEPT !.hidden = @ \cup {id}])
Push(id) ==
    HostEdit([host EXCEPT !.tip[id] = @ + 1, !.tips = @ \cup {<<id, host.tip[id] + 1>>}])

-----------------------------------------------------------------------------
SelectedInit ==
    /\ host \in [granted : {TRUE}, late : {0}, edits : {0}, hidden : {{}},
                 denotes : [Selections -> Identifiers], tip : {[id \in Identifiers |-> 1]},
                 tips : {{<<id, 1>> : id \in Identifiers}}]
    /\ \E operation \in {"discover", "probe", "collect"}, content, history \in BOOLEAN,
          ancestors \in 0..(CommitLimit - 1), name \in Selections :
          LET wanted == [content |-> content, history |-> history, ancestors |-> ancestors]
              named == [i \in DOMAIN Endpoints(operation, wanted) |->
                          <<name, Endpoints(operation, wanted)[i]>>]
          IN  reader = [pc |-> "prepare", requests |-> 0, result |-> "none",
                        program |-> <<<<name, "user">>>> \o named \o <<<<name, "user">>>>,
                        observation |-> NoObservation, observations |-> {}]

\* No read was asked for.
SelectedRests ==
    /\ host = [granted |-> FALSE, late |-> 0, edits |-> 0, hidden |-> {}, denotes |-> <<>>,
               tip |-> <<>>, tips |-> {}]
    /\ reader = [pc |-> "done", requests |-> 0, result |-> "none", program |-> <<>>,
                 observation |-> NoObservation, observations |-> {}]

ReaderStep == Prepare \/ Send \/ Leave \/ Received \/ Unanswered \/ Finished
SelectedNext ==
    \/ ReaderStep
    \/ Revoke \/ Restore
    \/ \E name \in Selections, id \in Identifiers : Rename(name, id)
    \/ \E id \in Identifiers : Hide(id) \/ Push(id)

-----------------------------------------------------------------------------
(* Properties *)

\* However names change hands and change back, an observation is made of one
\* repository, and its revision was a tip of it (selected-github-source.ts:206).
ObservationsAreOneRepository ==
    \A o \in reader.observations :
        /\ o[2].from \subseteq {o[2].id}
        /\ o[2].revision # 0 => <<o[2].id, o[2].revision>> \in host.tips

\* While the authority is revoked at most the request leaves that was being sent; the
\* read is not answered.
RevocationStops ==
    /\ host.late <= 1
    /\ reader.pc = "done" /\ host.late > 0 => reader.result # "ok"

\* A selected read is of one repository while the owner permits it.
SelectedReadIsTrue == ObservationsAreOneRepository /\ RevocationStops
=============================================================================
