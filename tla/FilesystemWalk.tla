-------------------------- MODULE FilesystemWalk ---------------------------
(***************************************************************************)
(* collectFilesystemMetadata: the bounded walk of one repository, while    *)
(* its owner edits it (filesystem-metadata-collector.ts).                  *)
(*                                                                         *)
(* A path is a node of a fixed tree; its files have versions, and a node   *)
(* may have been replaced by a link to outside of the repository.  A step  *)
(* is one operation of the port with the checks on its answer; reading a   *)
(* file takes several.  A tree that is replaced and then restored is not   *)
(* modelled.                                                               *)
(***************************************************************************)
EXTENDS Integers, Sequences, FiniteSets

CONSTANTS
    Root,            \* the repository
    Parent,          \* the directory of each other path
    Directories,     \* the paths that are directories, Root among them
    Ignored,         \* directories with an ignored name, met as entries
    Supported,       \* files whose name is that of a document, manifest or source
    NestedAtStart,   \* directories that are repositories of their own
    MaxDepth, MaxFiles, MaxFileBytes, MaxTotalBytes,  \* the limits of the configuration
    MaxTreeEdits     \* bound on edits

Paths == {Root} \cup DOMAIN Parent
Files == Paths \ Directories
Versions == 0..MaxTreeEdits

\* Every path leads to the root: only sets with the root are closed under Parent.
ASSUME TreeAssumption ==
    /\ Root \in Directories /\ Directories \subseteq Paths
    /\ Parent \in [Paths \ {Root} -> Directories]
    /\ \A S \in SUBSET (Paths \ {Root}) : S # {} => \E p \in S : Parent[p] \notin S
    /\ Ignored \subseteq Directories \ {Root} /\ Supported \subseteq Files
    /\ NestedAtStart \subseteq Directories
    /\ {MaxDepth, MaxFiles, MaxFileBytes, MaxTotalBytes, MaxTreeEdits} \subseteq Nat

VARIABLES
    tree,  \* what is on disk, and whether the deadline has passed
    walk   \* the walk
walkVars == <<tree, walk>>

\* The length of a path and the bytes of a version of a file.
Depth[p \in Paths] == IF p = Root THEN 0 ELSE Depth[Parent[p]] + 1
Above[p \in Paths] == IF p = Root THEN {p} ELSE Above[Parent[p]] \cup {p}
SizeOf(version) == version + 1

Foreign(p) == Above[p] \cap tree.links # {}
Exists(p) == Above[p] \cap tree.removed = {}
Entries(d) == {p \in DOMAIN Parent : Parent[p] = d /\ Exists(p)}

NoFile == [version |-> 0, read |-> {}, outside |-> FALSE]

WalkIs(changed) == walk' = changed
Give(category) == WalkIs([walk EXCEPT !.pc = "done", !.result = category])

\* checkedOperation: the clock is read before and after every operation.
Checked(label) == walk.pc = label /\ UNCHANGED tree
InTime == ~tree.late

-----------------------------------------------------------------------------
(* Directories *)

\* inspect follows no link: a path that is not there or leads out of the
\* repository ends the walk.
Inspected(p) == Exists(p) /\ ~Foreign(p)

\* The repository is the directory that the configuration authorizes.
Authorize ==
    /\ Checked("authorize")
    /\ IF InTime /\ Inspected(Root) THEN WalkIs([walk EXCEPT !.pc = "visit"]) ELSE Give("failed")

\* visit: the directory is inspected, and but for the root, whose depth is 0, it is asked
\* for an entry .git.
EnterDirectory ==
    /\ Checked("visit")
    /\ LET d == walk.path
       IN  IF Depth[d] > MaxDepth \/ ~InTime \/ ~Inspected(d) THEN Give("failed")
           ELSE WalkIs([walk EXCEPT !.pc = IF d = Root THEN "list" ELSE "nested"])

\* hasEntry: what shows an entry .git is a repository of its own; it may be another
\* directory that a link has put in the place of the inspected one.
IsNested(d) == Exists(d) /\ d \in tree.nested

EnterNested ==
    /\ Checked("nested")
    /\ \E found \in IF Foreign(walk.path) THEN BOOLEAN ELSE {IsNested(walk.path)} :
          IF ~InTime THEN Give("failed")
          ELSE WalkIs([walk EXCEPT !.pc = IF found THEN "entry" ELSE "list"])

\* listDirectory: a directory replaced by a link since it was inspected shows the
\* entries of another; more entries than may still be visited end the walk.
ListDirectory ==
    /\ Checked("list")
    /\ \E names \in IF Foreign(walk.path) THEN SUBSET Entries(walk.path)
                    ELSE {Entries(walk.path)} :
          IF \/ ~InTime \/ ~Exists(walk.path)
             \/ Cardinality(names) > MaxFiles - walk.visited + Cardinality(Ignored)
          THEN Give("failed")
          ELSE WalkIs([walk EXCEPT !.pc = "entry",
                                   !.stack = <<[path |-> walk.path, left |-> names]>> \o @])

\* The next name of the innermost directory.
ReadLimit ==
    IF MaxFileBytes <= MaxTotalBytes - walk.bytes
    THEN MaxFileBytes ELSE MaxTotalBytes - walk.bytes

\* classifyFile: the name is that of a document, a manifest or a source.
Classified(p) == p \in Supported

VisitEntry ==
    /\ Checked("entry") /\ walk.stack # <<>> /\ Head(walk.stack).left # {}
    /\ LET top == Head(walk.stack)
           p == CHOOSE p \in top.left : TRUE
           rest == [walk EXCEPT !.stack[1].left = @ \ {p}]
           counted == [rest EXCEPT !.visited = @ + 1, !.path = p]
       IN  IF ~InTime THEN Give("failed")
           ELSE IF p \in Ignored THEN WalkIs(rest)
           ELSE IF walk.visited = MaxFiles \/ ~Inspected(p) THEN Give("failed")
           ELSE IF p \in Directories THEN WalkIs([counted EXCEPT !.pc = "visit"])
           ELSE IF ~Classified(p) THEN WalkIs(counted)
           ELSE IF SizeOf(tree.version[p]) > ReadLimit THEN Give("failed")
           ELSE WalkIs([counted EXCEPT !.pc = "stat"])

LeaveDirectory ==
    /\ Checked("entry")
    /\ IF walk.stack = <<>> THEN Give("ok")
       ELSE /\ Head(walk.stack).left = {}
            /\ WalkIs([walk EXCEPT !.stack = Tail(@)])

-----------------------------------------------------------------------------
(* readFileBounded *)

\* The file is what it was when it was first looked at: same inode, size, times.
MutantSameState(p) == Inspected(p)
SameState(p) == Inspected(p) /\ tree.version[p] = walk.file.version

StatFile ==
    /\ Checked("stat")
    /\ IF Inspected(walk.path)
       THEN WalkIs([walk EXCEPT !.pc = "open",
                                !.file = [NoFile EXCEPT !.version = tree.version[walk.path]]])
       ELSE Give("failed")

\* open follows a link; the state of what it opened is compared.
OpenFile ==
    /\ Checked("open")
    /\ IF SameState(walk.path)
       THEN WalkIs([walk EXCEPT !.pc = "read", !.file.read = {tree.version[walk.path]},
                                !.file.outside = Foreign(walk.path)])
       ELSE Give("failed")

\* The rest of the content, which the owner may write meanwhile.
ReadFile ==
    /\ Checked("read")
    /\ IF SizeOf(tree.version[walk.path]) > ReadLimit THEN Give("failed")
       ELSE WalkIs([walk EXCEPT !.pc = "close", !.file.read = @ \cup {tree.version[walk.path]}])

\* createFileMetadata refuses what is not text or not a valid manifest.
RefuseContent == Checked("close") /\ Give("failed")

\* The state is compared again, then the content is counted and described.
CloseFile ==
    LET p == walk.path
        bytes == SizeOf(tree.version[p])
    IN  /\ Checked("close")
        /\ IF SameState(p) /\ InTime /\ bytes <= ReadLimit
           THEN WalkIs([walk EXCEPT !.pc = "entry", !.bytes = @ + bytes, !.file = NoFile,
                   !.files = @ \cup {[path |-> p, content |-> walk.file.read,
                                     outside |-> walk.file.outside]}])
           ELSE Give("failed")

-----------------------------------------------------------------------------
(* The owner *)

EditTree(changed) ==
    /\ tree.edits < MaxTreeEdits /\ UNCHANGED walk
    /\ tree' = [changed EXCEPT !.edits = @ + 1]
WriteFile(f) == EditTree([tree EXCEPT !.version[f] = @ + 1])
ReplacePath(p) == p \notin tree.links /\ EditTree([tree EXCEPT !.links = @ \cup {p}])
RemovePath(p) == Exists(p) /\ EditTree([tree EXCEPT !.removed = @ \cup {p}])
InitRepository(d) == d \notin tree.nested /\ EditTree([tree EXCEPT !.nested = @ \cup {d}])
MissDeadline == ~tree.late /\ tree' = [tree EXCEPT !.late = TRUE] /\ UNCHANGED walk

-----------------------------------------------------------------------------
WalkInit ==
    /\ tree = [links |-> {}, removed |-> {}, nested |-> NestedAtStart,
               version |-> [f \in Files |-> 0], late |-> FALSE, edits |-> 0]
    /\ walk = [pc |-> "authorize", path |-> Root, stack |-> <<>>, visited |-> 0, bytes |-> 0,
               file |-> NoFile, files |-> {}, result |-> "none"]

WalkStep ==
    \/ Authorize \/ EnterDirectory \/ EnterNested \/ ListDirectory \/ VisitEntry \/ LeaveDirectory
    \/ StatFile \/ OpenFile \/ ReadFile \/ CloseFile
    \/ RefuseContent

WalkNext ==
    \/ WalkStep
    \/ \E f \in Files : WriteFile(f)
    \/ \E p \in DOMAIN Parent : ReplacePath(p) \/ RemovePath(p)
    \/ \E d \in Directories : InitRepository(d)
    \/ MissDeadline

-----------------------------------------------------------------------------
(* Properties *)

\* Whatever is rewritten, removed or replaced by a link under the walk, each file of
\* a snapshot is one version of a file inside the repository
\* (filesystem-metadata-collector.ts:249).
FilesAreOneVersion ==
    \A file \in walk.files : Cardinality(file.content) = 1 /\ ~file.outside

\* A file that grows between its inspection and its reading does not take the walk
\* over a limit.
WalkWithinLimits ==
    /\ walk.visited <= MaxFiles /\ walk.bytes <= MaxTotalBytes
    /\ \A file \in walk.files : \A v \in file.content : SizeOf(v) <= MaxFileBytes

\* The paths whose content belongs in a snapshot: supported files below neither an
\* ignored directory nor a repository of its own.
Expected == {f \in Supported : Above[f] \cap (Ignored \cup (NestedAtStart \ {Root})) = {}}

\* A snapshot of a tree that stood still holds exactly the expected files.
StillTreeIsComplete ==
    walk.result = "ok" /\ tree.edits = 0 => {file.path : file \in walk.files} = Expected

\* A snapshot is made of whole files inside the repository, within the limits, and of a
\* tree that stands still it is complete.
WalkIsSound == FilesAreOneVersion /\ WalkWithinLimits /\ StillTreeIsComplete
=============================================================================
