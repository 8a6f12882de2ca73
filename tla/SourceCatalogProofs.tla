------------------------ MODULE SourceCatalogProofs ------------------------
(***************************************************************************)
(* Proofs about SourceCatalog, for every number of writers, sources,       *)
(* configurations, runs, incidents and edits: transactions exclude each    *)
(* other, records are of one version, deletion is complete, what is        *)
(* acknowledged is true, and nothing is lost.                              *)
(***************************************************************************)
EXTENDS SourceCatalog, OrderLemmas, FiniteSetTheorems

DiskShaped(d) ==
    d \in [generations : {d.generations}, staging : {d.staging}, barrier : {d.barrier},
           lock : {d.lock}]
WorldShaped(w) == w \in [config : {w.config}, version : {w.version}, now : {w.now}]
RunShaped(s) ==
    s \in [pc : {s.pc}, command : {s.command}, config : {s.config}, at : {s.at},
           first : {s.first}, left : {s.left}, names : {s.names}, selected : {s.selected},
           previous : {s.previous}, records : {s.records}, hits : {s.hits},
           source : {s.source}, state : {s.state}, content : {s.content},
           collected : {s.collected}, verdict : {s.verdict}]

-----------------------------------------------------------------------------
(* The inductive invariant *)

Whole(record) == record = None \/ record.state = record.content
RecordsGood(records) == DOMAIN records = Sources /\ \A s \in Sources : Whole(records[s])

DiskGood(d) ==
    /\ DiskShaped(d) /\ DOMAIN d.generations = Generations
    /\ \A g \in Generations :
          d.generations[g] \notin {None, Bad} => RecordsGood(d.generations[g].records)

WorldGood(w) == WorldShaped(w) /\ w.version \in [Sources -> Int]

Cleared(d) == d.barrier /\ ~d.staging /\ \A g \in Generations : d.generations[g] = None

\* A transaction looks at the generations there were when it began, and at sources
\* after that.  What a probe has seen is not newer than the source, and content that was read
\* after it lies between the two.
Looking(s, w) ==
    /\ s.pc = "examine" => s.left \subseteq Generations
    /\ s.pc \in {"next", "judge", "collected"} => s.left \subseteq Sources
    /\ s.pc \in {"judge", "collected"} =>
          s.source \in Sources /\ s.state \in Int /\ s.state <= w.version[s.source]
    /\ s.pc = "collected" =>
          s.content \in Int /\ s.state <= s.content /\ s.content <= w.version[s.source]

Outside == {"idle", "lock"}

\* A transaction may link its generation while there is no barrier, and clears the
\* directory behind one.
RunGood(s, r, d, w) ==
    /\ RunShaped(s) /\ RecordsGood(s.previous) /\ RecordsGood(s.records)
    /\ s.pc \notin Outside => d.lock = r
    /\ Looking(s, w)
    /\ s.pc \in {"delete", "clear"} => ~d.staging
    /\ s.pc = "clear" => d.barrier
    /\ s.pc = "activate" => ~d.barrier
    /\ s.verdict = "deleted" => s.pc = "release" /\ Cleared(d)

Inv ==
    /\ DiskGood(disk) /\ WorldGood(world) /\ DOMAIN run = Writers
    /\ \A r \in Writers : RunGood(run[r], r, disk, world)

-----------------------------------------------------------------------------
(* One writer at a time *)

LEMMA Alone ==
    ASSUME Inv, NEW r \in Writers, run[r].pc \notin Outside, NEW q \in Writers, q # r
    PROVE  run[q].pc \in Outside
BY DEF Inv, RunGood

\* A writer outside of its transaction does not depend on the directory.
LEMMA OutsideIsGood ==
    ASSUME NEW s, NEW r, NEW d, NEW w, NEW d2, RunGood(s, r, d, w), s.pc \in Outside
    PROVE  RunGood(s, r, d2, w)
BY DEF RunGood, Outside

\* It is enough to look at the writer that takes a step.
LEMMA StepSuffices ==
    ASSUME Inv, NEW r \in Writers, NEW s, Update(r, s), UNCHANGED world, DiskGood(disk'),
           RunGood(s, r, disk', world),
           UNCHANGED disk \/ \A q \in Writers \ {r} : run[q].pc \in Outside
    PROVE  Inv'
<1>1. DOMAIN run' = Writers /\ \A q \in Writers : run'[q] = IF q = r THEN s ELSE run[q]
    BY DEF Update, Inv
<1>2. ASSUME NEW q \in Writers, q # r
      PROVE  RunGood(run[q], q, disk', world)
    <2>1. CASE UNCHANGED disk
        BY <2>1 DEF Inv
    <2>2. CASE run[q].pc \in Outside
        BY <2>2, OutsideIsGood DEF Inv
    <2> QED BY <1>2, <2>1, <2>2
<1> QED BY <1>1, <1>2 DEF Inv

\* A step inside of a transaction.
LEMMA InsideSuffices ==
    ASSUME Inv, NEW r \in Writers, NEW s, Update(r, s), UNCHANGED world, DiskGood(disk'),
           RunGood(s, r, disk', world), run[r].pc \notin Outside
    PROVE  Inv'
BY Alone, StepSuffices

\* A run that ends, whether it releases its lock now or later.
LEMMA NothingIsGood == RecordsGood(NoRecords)
BY DEF RecordsGood, NoRecords, Whole

LEMMA IdleIsGood ==
    ASSUME NEW r, NEW d, NEW w
    PROVE  RunGood(Idle, r, d, w)
<1>1. /\ RunShaped(Idle) /\ Idle.pc = "idle" /\ Idle.verdict = "none"
      /\ Idle.previous = NoRecords /\ Idle.records = NoRecords
    BY DEF Idle, RunShaped
<1> QED BY <1>1, NothingIsGood DEF RunGood, Looking, Outside

LEMMA EndIsGood ==
    ASSUME NEW r, NEW d, NEW w, NEW verdict, d.lock = r, verdict = "deleted" => Cleared(d)
    PROVE  RunGood([Idle EXCEPT !.pc = "release", !.verdict = verdict], r, d, w)
<1> DEFINE s == [Idle EXCEPT !.pc = "release", !.verdict = verdict]
<1>1. /\ RunShaped(s) /\ s.pc = "release" /\ s.verdict = verdict
      /\ s.previous = NoRecords /\ s.records = NoRecords
    BY DEF Idle, RunShaped
<1> HIDE DEF s
<1>2. RunGood(s, r, d, w)
    BY <1>1, NothingIsGood DEF RunGood, Looking, Outside
<1> QED BY <1>2 DEF s

\* A run that gives up.
LEMMA EndKeeps ==
    ASSUME Inv, NEW r \in Writers, run[r].pc \notin Outside, NEW verdict, End(r, verdict),
           verdict = "deleted" => Cleared(disk), UNCHANGED <<disk, world>>
    PROVE  Inv'
<1>1. disk.lock = r /\ DiskGood(disk')
    BY DEF Inv, RunGood
<1> QED BY <1>1, EndIsGood, InsideSuffices DEF End

-----------------------------------------------------------------------------
(* One lemma per action *)

\* A step inside of a transaction that changes neither the directory nor the records.
LEMMA MoveKeeps ==
    ASSUME Inv, NEW r \in Writers, NEW s, Update(r, s), UNCHANGED <<disk, world>>,
           run[r].pc \notin Outside, RunShaped(s), Looking(s, world),
           RecordsGood(s.previous), RecordsGood(s.records),
           s.pc \notin {"delete", "clear", "activate"}, s.verdict # "deleted"
    PROVE  Inv'
<1>1. disk.lock = r /\ DiskGood(disk')
    BY DEF Inv, RunGood
<1>2. RunGood(s, r, disk', world)
    BY <1>1 DEF RunGood
<1> QED BY <1>1, <1>2, InsideSuffices

LEMMA BeginKeeps ==
    ASSUME Inv, NEW r \in Writers, NEW command, Begin(r, command)
    PROVE  Inv'
<1> DEFINE s == [Idle EXCEPT !.pc = "lock", !.command = command, !.config = world.config,
                             !.at = world.now, !.first = world.version]
<1>1. /\ RunShaped(s) /\ s.pc = "lock" /\ s.verdict = "none"
      /\ s.previous = NoRecords /\ s.records = NoRecords
    BY DEF Idle, RunShaped
<1>2. Update(r, s) /\ UNCHANGED <<disk, world>>
    BY DEF Begin, Sole
<1> HIDE DEF s
<1>3. RunGood(s, r, disk', world)
    BY <1>1, NothingIsGood DEF RunGood, Looking, Outside
<1> QED BY <1>2, <1>3, StepSuffices DEF Inv

LEMMA TakeLockKeeps ==
    ASSUME Inv, NEW r \in Writers, TakeLock(r)
    PROVE  Inv'
<1>1. CASE UNCHANGED disk /\ Update(r, Idle)
    BY <1>1, IdleIsGood, StepSuffices DEF TakeLock, Sole, Inv
<1>2. CASE /\ disk.lock = None /\ disk' = [disk EXCEPT !.lock = r]
           /\ Update(r, [run[r] EXCEPT !.pc = "scan"])
    <2> DEFINE s == [run[r] EXCEPT !.pc = "scan"]
    <2>1. RunGood(run[r], r, disk, world) /\ run[r].pc = "lock"
        BY DEF Inv, TakeLock, Sole, At
    <2>2. /\ RunShaped(s) /\ s.pc = "scan" /\ s.verdict = run[r].verdict
          /\ s.previous = run[r].previous /\ s.records = run[r].records
        BY <2>1 DEF RunGood, RunShaped
    <2>3. DiskGood(disk') /\ disk'.lock = r
        BY <1>2 DEF Inv, DiskGood, DiskShaped
    <2> HIDE DEF s
    <2>4. RunGood(s, r, disk', world)
        BY <2>1, <2>2, <2>3 DEF RunGood, Looking
    <2>5. \A q \in Writers \ {r} : run[q].pc \in Outside
        BY <1>2, CatalogAssumption DEF Inv, RunGood
    <2> QED BY <1>2, <2>3, <2>4, <2>5, StepSuffices DEF TakeLock, Sole, s
<1> QED BY <1>1, <1>2 DEF TakeLock

LEMMA RefuseKeeps ==
    ASSUME Inv, NEW r \in Writers, Refuse(r)
    PROVE  Inv'
BY IdleIsGood, StepSuffices DEF Refuse, Sole, Inv

LEMMA ScanKeeps ==
    ASSUME Inv, NEW r \in Writers, Scan(r)
    PROVE  Inv'
<1>1. /\ run[r].pc = "scan" /\ run[r].pc \notin Outside
      /\ UNCHANGED <<disk, world>> /\ RunGood(run[r], r, disk, world)
    BY DEF Scan, Sole, At, Outside, Inv
<1>2. CASE Fail(r)
    BY <1>1, <1>2, EndKeeps DEF Fail
<1>3. CASE Update(r, [run[r] EXCEPT !.pc = "examine", !.left = Present, !.names = Present])
    <2> DEFINE s == [run[r] EXCEPT !.pc = "examine", !.left = Present, !.names = Present]
    <2>1. /\ RunShaped(s) /\ s.pc = "examine" /\ s.verdict = run[r].verdict
          /\ s.left = Present /\ s.previous = run[r].previous /\ s.records = run[r].records
        BY <1>1 DEF RunGood, RunShaped
    <2>2. Update(r, s)
        BY <1>3
    <2> HIDE DEF s
    <2> QED BY <1>1, <2>1, <2>2, MoveKeeps DEF RunGood, Looking, Present
<1> QED BY <1>2, <1>3 DEF Scan

LEMMA ExamineKeeps ==
    ASSUME Inv, NEW r \in Writers, Examine(r)
    PROVE  Inv'
<1> DEFINE g == Max(run[r].left)
           read == disk.generations[g]
           usable == read \notin {None, Bad} /\ ~Withdrawn(r, read)
           rest == [run[r] EXCEPT !.left = @ \ {g}]
           s == IF usable /\ rest.selected = None
                THEN [rest EXCEPT !.selected = g, !.previous = read.records]
                ELSE rest
<1>1. /\ run[r].pc = "examine" /\ run[r].pc \notin Outside /\ UNCHANGED world
      /\ RunGood(run[r], r, disk, world) /\ DiskGood(disk)
    BY DEF Examine, Sole, At, Outside, Inv
<1>2. /\ disk' = IF usable THEN disk ELSE [disk EXCEPT !.generations[g] = None]
      /\ Update(r, s)
    BY DEF Examine
<1>8. g \in run[r].left /\ run[r].left \subseteq Generations
    <2>1. run[r].left \subseteq Generations /\ run[r].left # {}
        BY <1>1 DEF Examine, RunGood, Looking
    <2> QED BY <2>1, MaxFacts, CatalogAssumption DEF Generations
<1> HIDE DEF g
<1>3. DiskGood(disk') /\ disk'.lock = disk.lock
    BY <1>1, <1>2 DEF DiskGood, DiskShaped
<1>4. /\ RunShaped(rest) /\ rest.pc = "examine" /\ rest.verdict = run[r].verdict
      /\ rest.left \subseteq Generations
      /\ rest.previous = run[r].previous /\ rest.records = run[r].records
    BY <1>1, <1>8 DEF RunGood, RunShaped
<1>5. usable => RecordsGood(read.records)
    BY <1>1, <1>8 DEF DiskGood
<1> HIDE DEF rest, usable, read
<1>6. /\ RunShaped(s) /\ s.pc = "examine" /\ s.verdict = run[r].verdict
      /\ RecordsGood(s.previous) /\ s.records = run[r].records /\ s.left \subseteq Generations
    BY <1>1, <1>4, <1>5 DEF RunShaped, RunGood
<1> HIDE DEF s
<1>7. RunGood(s, r, disk', world)
    BY <1>1, <1>3, <1>6 DEF RunGood, Looking
<1> QED BY <1>1, <1>2, <1>3, <1>7, InsideSuffices

LEMMA OpenKeeps ==
    ASSUME Inv, NEW r \in Writers, Open(r)
    PROVE  Inv'
<1>1. PICK label \in {"delete", "export", "choose"} :
         Update(r, [run[r] EXCEPT !.pc = label, !.records = run[r].previous])
    BY DEF Open
<1> DEFINE s == [run[r] EXCEPT !.pc = label, !.records = run[r].previous]
<1>2. /\ run[r].pc = "examine" /\ run[r].pc \notin Outside /\ UNCHANGED world
      /\ disk' = [disk EXCEPT !.staging = FALSE]
      /\ RunGood(run[r], r, disk, world) /\ DiskGood(disk)
    BY DEF Open, Sole, At, Outside, Inv
<1>3. DiskGood(disk') /\ disk'.lock = disk.lock /\ ~disk'.staging
    BY <1>2 DEF DiskGood, DiskShaped
<1>4. /\ RunShaped(s) /\ s.pc = label /\ s.verdict = run[r].verdict
      /\ s.previous = run[r].previous /\ s.records = run[r].previous
    BY <1>2 DEF RunGood, RunShaped
<1> HIDE DEF s
<1>5. RunGood(s, r, disk', world)
    BY <1>2, <1>3, <1>4 DEF RunGood, Looking
<1> QED BY <1>1, <1>2, <1>3, <1>5, InsideSuffices DEF s

LEMMA BreakKeeps ==
    ASSUME Inv, NEW r \in Writers, Break(r)
    PROVE  Inv'
BY EndKeeps DEF Break, Fail, Outside

LEMMA ReleaseKeeps ==
    ASSUME Inv, NEW r \in Writers, Release(r)
    PROVE  Inv'
<1>1. run[r].pc \notin Outside /\ UNCHANGED world /\ Update(r, Idle) /\ DiskGood(disk)
    BY DEF Release, Sole, At, Outside, Inv
<1>2. disk' = [disk EXCEPT !.lock = None] \/ UNCHANGED disk
    BY DEF Release
<1>3. DiskGood(disk')
    BY <1>1, <1>2 DEF DiskGood, DiskShaped
<1> QED BY <1>1, <1>3, IdleIsGood, InsideSuffices

LEMMA ExportKeeps ==
    ASSUME Inv, NEW r \in Writers, Export(r)
    PROVE  Inv'
BY EndKeeps DEF Export, Sole, At, Fail, Outside

\* Records of a run: one is dropped, or made.
LEMMA RecordReplaced ==
    ASSUME NEW records, NEW s \in Sources, NEW record, RecordsGood(records), Whole(record)
    PROVE  RecordsGood([records EXCEPT ![s] = record])
BY DEF RecordsGood

LEMMA ChooseKeeps ==
    ASSUME Inv, NEW r \in Writers, Choose(r)
    PROVE  Inv'
<1>1. PICK chosen \in SUBSET Sources :
         Update(r, [run[r] EXCEPT !.pc = "next", !.left = chosen])
    BY DEF Choose, Named
<1> DEFINE s == [run[r] EXCEPT !.pc = "next", !.left = chosen]
<1>2. /\ run[r].pc = "choose" /\ run[r].pc \notin Outside /\ UNCHANGED <<disk, world>>
      /\ RunGood(run[r], r, disk, world)
    BY DEF Choose, Sole, At, Outside, Inv
<1>3. /\ RunShaped(s) /\ s.pc = "next" /\ s.verdict = run[r].verdict /\ s.left = chosen
      /\ s.previous = run[r].previous /\ s.records = run[r].records
    BY <1>2 DEF RunGood, RunShaped
<1>4. Update(r, s)
    BY <1>1
<1> HIDE DEF s
<1> QED BY <1>2, <1>3, <1>4, MoveKeeps DEF RunGood, Looking

LEMMA ProbeKeeps ==
    ASSUME Inv, NEW r \in Writers, Probe(r)
    PROVE  Inv'
<1>1. /\ run[r].pc = "next" /\ run[r].pc \notin Outside /\ UNCHANGED <<disk, world>>
      /\ RunGood(run[r], r, disk, world) /\ world.version \in [Sources -> Int]
    BY DEF Probe, Sole, At, Outside, Inv, WorldGood
<1>2. PICK s \in run[r].left :
         \/ Update(r, [[run[r] EXCEPT !.left = @ \ {s}] EXCEPT !.pc = "judge", !.source = s,
                                                              !.state = world.version[s]])
         \/ Update(r, [[run[r] EXCEPT !.left = @ \ {s}] EXCEPT !.records[s] = None])
    BY DEF Probe
<1>3. s \in Sources
    BY <1>1 DEF RunGood, Looking
<1> DEFINE chosen == [run[r] EXCEPT !.left = @ \ {s}]
<1>4. /\ RunShaped(chosen) /\ chosen.pc = "next" /\ chosen.verdict = run[r].verdict
      /\ chosen.left \subseteq Sources
      /\ chosen.previous = run[r].previous /\ chosen.records = run[r].records
    BY <1>1 DEF RunGood, RunShaped, Looking
<1>5. CASE Update(r, [chosen EXCEPT !.pc = "judge", !.source = s, !.state = world.version[s]])
    <2> HIDE DEF chosen
    <2> DEFINE new == [chosen EXCEPT !.pc = "judge", !.source = s, !.state = world.version[s]]
    <2>1. /\ RunShaped(new) /\ new.pc = "judge" /\ new.verdict = run[r].verdict
          /\ new.left \subseteq Sources /\ new.source = s /\ new.state = world.version[s]
          /\ new.previous = run[r].previous /\ new.records = run[r].records
        BY <1>4 DEF RunShaped
    <2>2. Update(r, new)
        BY <1>5
    <2> HIDE DEF new
    <2>3. Looking(new, world)
        BY <1>1, <1>3, <2>1 DEF Looking
    <2> QED BY <1>1, <2>1, <2>2, <2>3, MoveKeeps DEF RunGood
<1>6. CASE Update(r, [chosen EXCEPT !.records[s] = None])
    <2> HIDE DEF chosen
    <2> DEFINE new == [chosen EXCEPT !.records[s] = None]
    <2>1. /\ RunShaped(new) /\ new.pc = "next" /\ new.verdict = run[r].verdict
          /\ new.left \subseteq Sources
          /\ new.previous = run[r].previous /\ new.records = [run[r].records EXCEPT ![s] = None]
        BY <1>4 DEF RunShaped
    <2>2. Update(r, new)
        BY <1>6
    <2> HIDE DEF new
    <2>3. RecordsGood(run[r].records) /\ Whole(None)
        BY <1>1 DEF RunGood, Whole
    <2>4. RecordsGood(new.records)
        BY <1>3, <2>1, <2>3, RecordReplaced
    <2> QED BY <1>1, <2>1, <2>2, <2>4, MoveKeeps DEF RunGood, Looking
<1> QED BY <1>2, <1>5, <1>6

\* The record of a source that failed is dropped.
LEMMA DropKeeps ==
    ASSUME Inv, NEW r \in Writers, run[r].pc \in {"judge", "collected"}, Drop(r),
           UNCHANGED <<disk, world>>
    PROVE  Inv'
<1> DEFINE s == [run[r] EXCEPT !.pc = "next", !.records[run[r].source] = None,
                               !.source = None, !.state = None, !.content = None]
<1>1. RunGood(run[r], r, disk, world) /\ run[r].pc \notin Outside
    BY DEF Inv, Outside
<1>2. run[r].source \in Sources /\ run[r].left \subseteq Sources
    BY <1>1 DEF RunGood, Looking
<1>3. /\ RunShaped(s) /\ s.pc = "next" /\ s.verdict = run[r].verdict /\ s.left = run[r].left
      /\ s.previous = run[r].previous
      /\ s.records = [run[r].records EXCEPT ![run[r].source] = None]
    BY <1>1 DEF RunGood, RunShaped
<1>4. Update(r, s)
    BY DEF Drop
<1> HIDE DEF s
<1>5. RecordsGood(s.records)
    BY <1>1, <1>2, <1>3, RecordReplaced DEF RunGood, Whole
<1> QED BY <1>1, <1>2, <1>3, <1>4, <1>5, MoveKeeps DEF RunGood, Looking

LEMMA JudgeKeeps ==
    ASSUME Inv, NEW r \in Writers, Judge(r)
    PROVE  Inv'
<1> DEFINE source == run[r].source
<1>1. /\ run[r].pc = "judge" /\ run[r].pc \notin Outside /\ UNCHANGED <<disk, world>>
      /\ RunGood(run[r], r, disk, world) /\ world.version \in [Sources -> Int]
    BY DEF Judge, Sole, At, Outside, Inv, WorldGood
<1>2. /\ source \in Sources /\ run[r].state \in Int /\ run[r].state <= world.version[source]
      /\ run[r].left \subseteq Sources
    BY <1>1 DEF RunGood, Looking
<1>3. CASE Update(r, [run[r] EXCEPT !.pc = "next", !.hits = @ \cup {source},
                                    !.source = None, !.state = None])
    <2> DEFINE s == [run[r] EXCEPT !.pc = "next", !.hits = @ \cup {source},
                                   !.source = None, !.state = None]
    <2>1. /\ RunShaped(s) /\ s.pc = "next" /\ s.verdict = run[r].verdict /\ s.left = run[r].left
          /\ s.previous = run[r].previous /\ s.records = run[r].records
        BY <1>1 DEF RunGood, RunShaped
    <2>2. Update(r, s)
        BY <1>3
    <2> HIDE DEF s
    <2> QED BY <1>1, <1>2, <2>1, <2>2, MoveKeeps DEF RunGood, Looking
<1>4. CASE Update(r, [run[r] EXCEPT !.pc = "collected", !.records[source] = None,
                                    !.collected = @ + 1, !.content = world.version[source]])
    <2> DEFINE s == [run[r] EXCEPT !.pc = "collected", !.records[source] = None,
                                   !.collected = @ + 1, !.content = world.version[source]]
    <2>1. /\ RunShaped(s) /\ s.pc = "collected" /\ s.verdict = run[r].verdict
          /\ s.left = run[r].left /\ s.source = source /\ s.state = run[r].state
          /\ s.content = world.version[source] /\ s.previous = run[r].previous
          /\ s.records = [run[r].records EXCEPT ![source] = None]
        BY <1>1 DEF RunGood, RunShaped
    <2>2. Update(r, s)
        BY <1>4
    <2> HIDE DEF s
    <2>3. RecordsGood(run[r].records) /\ Whole(None)
        BY <1>1 DEF RunGood, Whole
    <2>4. RecordsGood(s.records)
        BY <1>2, <2>1, <2>3, RecordReplaced
    <2>5. Looking(s, world)
        BY <1>1, <1>2, <2>1 DEF Looking
    <2> QED BY <1>1, <2>1, <2>2, <2>4, <2>5, MoveKeeps DEF RunGood
<1>5. CASE Drop(r)
    BY <1>1, <1>5, DropKeeps
<1> QED BY <1>3, <1>4, <1>5 DEF Judge

\* The content lies between two equal observations of its source.
LEMMA CollectedKeeps ==
    ASSUME Inv, NEW r \in Writers, Collected(r)
    PROVE  Inv'
<1> DEFINE source == run[r].source
<1>1. /\ run[r].pc = "collected" /\ run[r].pc \notin Outside /\ UNCHANGED <<disk, world>>
      /\ RunGood(run[r], r, disk, world) /\ world.version \in [Sources -> Int]
    BY DEF Collected, Sole, At, Outside, Inv, WorldGood
<1>2. CASE Drop(r)
    BY <1>1, <1>2, DropKeeps
<1>3. ASSUME Unmoved(r), NEW expires,
             Update(r, [run[r] EXCEPT !.pc = "next", !.source = None, !.state = None,
                           !.content = None, !.records[source] = Record(r, expires)])
      PROVE  Inv'
    <2> DEFINE s == [run[r] EXCEPT !.pc = "next", !.source = None, !.state = None,
                           !.content = None, !.records[source] = Record(r, expires)]
    <2>1. source \in Sources /\ run[r].left \subseteq Sources /\ run[r].state = run[r].content
        BY <1>1, <1>3 DEF RunGood, Looking, Unmoved
    <2>2. Whole(Record(r, expires))
        BY <2>1 DEF Whole, Record
    <2>3. /\ RunShaped(s) /\ s.pc = "next" /\ s.verdict = run[r].verdict /\ s.left = run[r].left
          /\ s.previous = run[r].previous
          /\ s.records = [run[r].records EXCEPT ![source] = Record(r, expires)]
        BY <1>1 DEF RunGood, RunShaped
    <2>4. Update(r, s)
        BY <1>3
    <2> HIDE DEF s
    <2>5. RecordsGood(run[r].records)
        BY <1>1 DEF RunGood
    <2>6. RecordsGood(s.records)
        BY <2>1, <2>2, <2>3, <2>5, RecordReplaced
    <2> QED BY <1>1, <2>1, <2>3, <2>4, <2>6, MoveKeeps DEF RunGood, Looking
<1> QED BY <1>2, <1>3 DEF Collected

LEMMA SettleKeeps ==
    ASSUME Inv, NEW r \in Writers, Settle(r)
    PROVE  Inv'
<1>1. /\ run[r].pc = "next" /\ run[r].pc \notin Outside /\ UNCHANGED <<disk, world>>
      /\ RunGood(run[r], r, disk, world)
    BY DEF Settle, Sole, At, Outside, Inv
<1>2. CASE Fail(r)
    BY <1>1, <1>2, EndKeeps DEF Fail
<1>3. ASSUME NEW dropped, NEW hits,
             Update(r, [run[r] EXCEPT !.pc = "save", !.hits = hits,
                           !.records = [x \in Sources |-> IF x \in dropped THEN None ELSE @[x]]])
      PROVE  Inv'
    <2> DEFINE records == [x \in Sources |-> IF x \in dropped THEN None ELSE run[r].records[x]]
               s == [run[r] EXCEPT !.pc = "save", !.hits = hits, !.records = records]
    <2>1. RecordsGood(records)
        BY <1>1 DEF RunGood, RecordsGood, Whole
    <2>2. Update(r, s)
        BY <1>3
    <2> HIDE DEF records
    <2>3. /\ RunShaped(s) /\ s.pc = "save" /\ s.verdict = run[r].verdict
          /\ s.previous = run[r].previous /\ s.records = records
        BY <1>1 DEF RunGood, RunShaped
    <2> HIDE DEF s
    <2> QED BY <1>1, <2>1, <2>2, <2>3, MoveKeeps DEF RunGood, Looking
<1> QED BY <1>2, <1>3 DEF Settle

\* A step inside of a transaction that only advances.
LEMMA AdvanceKeeps ==
    ASSUME Inv, NEW r \in Writers, NEW label \in {"staged", "activate", "unstage", "clear"},
           Update(r, [run[r] EXCEPT !.pc = label]), UNCHANGED world,
           run[r].pc \notin Outside, run[r].pc # "release", DiskGood(disk'),
           disk'.lock = disk.lock, label = "clear" => disk'.barrier /\ ~disk'.staging,
           label = "activate" => ~disk'.barrier
    PROVE  Inv'
<1> DEFINE s == [run[r] EXCEPT !.pc = label]
<1>1. RunGood(run[r], r, disk, world)
    BY DEF Inv
<1>2. /\ RunShaped(s) /\ s.pc = label /\ s.verdict = run[r].verdict
      /\ s.previous = run[r].previous /\ s.records = run[r].records
    BY <1>1 DEF RunGood, RunShaped
<1> HIDE DEF s
<1>3. RunGood(s, r, disk', world)
    BY <1>1, <1>2 DEF RunGood, Looking
<1> QED BY <1>3, InsideSuffices DEF s

LEMMA StageKeeps ==
    ASSUME Inv, NEW r \in Writers, Stage(r)
    PROVE  Inv'
<1>1. /\ run[r].pc = "save" /\ run[r].pc \notin Outside /\ UNCHANGED world
      /\ DiskGood(disk)
    BY DEF Stage, Sole, At, Outside, Inv
<1>2. CASE disk' = [disk EXCEPT !.staging = TRUE] /\ Update(r, [run[r] EXCEPT !.pc = "staged"])
    <2>1. DiskGood(disk') /\ disk'.lock = disk.lock
        BY <1>1, <1>2 DEF DiskGood, DiskShaped
    <2> QED BY <1>1, <1>2, <2>1, AdvanceKeeps
<1>3. CASE UNCHANGED disk /\ Fail(r)
    BY <1>1, <1>3, EndKeeps DEF Fail
<1> QED BY <1>2, <1>3 DEF Stage

LEMMA BeforeActivateKeeps ==
    ASSUME Inv, NEW r \in Writers, BeforeActivate(r)
    PROVE  Inv'
<1>1. /\ run[r].pc = "staged" /\ run[r].pc \notin Outside /\ UNCHANGED <<disk, world>>
      /\ DiskGood(disk)
    BY DEF BeforeActivate, Sole, At, Outside, Inv
<1> QED BY <1>1, AdvanceKeeps, EndKeeps DEF BeforeActivate, Fail

\* The generation that is written holds the records of its run.
LEMMA ActivateKeeps ==
    ASSUME Inv, NEW r \in Writers, Activate(r)
    PROVE  Inv'
<1> DEFINE next == NextGeneration(r)
           written == Envelope(r)
           left == run[r].names \ Fallback(r)
           s == [run[r] EXCEPT !.pc = "verify", !.left = left, !.selected = None,
                               !.previous = NoRecords]
<1>1. /\ run[r].pc = "activate" /\ run[r].pc \notin Outside /\ UNCHANGED world
      /\ RunGood(run[r], r, disk, world) /\ DiskGood(disk)
    BY DEF Activate, Sole, At, Outside, Inv
<1>2. disk' = [disk EXCEPT !.generations[next] = written] /\ Update(r, s)
    BY DEF Activate
<1>3. RecordsGood(written.records)
    BY <1>1 DEF RunGood, Envelope
<1> HIDE DEF next, written, left
<1>4. /\ DiskShaped(disk') /\ disk'.lock = disk.lock
      /\ disk'.generations = [disk.generations EXCEPT ![next] = written]
    BY <1>1, <1>2 DEF DiskGood, DiskShaped
<1>5. DiskGood(disk')
    BY <1>1, <1>3, <1>4 DEF DiskGood
<1>6. /\ RunShaped(s) /\ s.pc = "verify" /\ s.verdict = run[r].verdict
      /\ s.previous = NoRecords /\ s.records = run[r].records
    BY <1>1 DEF RunGood, RunShaped
<1> HIDE DEF s
<1>7. RunGood(s, r, disk', world)
    BY <1>1, <1>4, <1>6, NothingIsGood DEF RunGood, Looking
<1> QED BY <1>1, <1>2, <1>5, <1>7, InsideSuffices

LEMMA VerifyKeeps ==
    ASSUME Inv, NEW r \in Writers, Verify(r)
    PROVE  Inv'
<1>1. /\ run[r].pc = "verify" /\ run[r].pc \notin Outside /\ UNCHANGED <<disk, world>>
      /\ DiskGood(disk)
    BY DEF Verify, Sole, At, Outside, Inv
<1> QED BY <1>1, AdvanceKeeps, EndKeeps DEF Verify, Fail

LEMMA UnstageKeeps ==
    ASSUME Inv, NEW r \in Writers, Unstage(r)
    PROVE  Inv'
<1> DEFINE s == [run[r] EXCEPT !.pc = "prune", !.names = {}]
<1>1. /\ run[r].pc = "unstage" /\ run[r].pc \notin Outside /\ UNCHANGED world
      /\ disk' = [disk EXCEPT !.staging = FALSE] /\ Update(r, s)
      /\ RunGood(run[r], r, disk, world) /\ DiskGood(disk)
    BY DEF Unstage, Sole, At, Outside, Inv
<1>2. DiskGood(disk') /\ disk'.lock = disk.lock
    BY <1>1 DEF DiskGood, DiskShaped
<1>3. /\ RunShaped(s) /\ s.pc = "prune" /\ s.verdict = run[r].verdict
      /\ s.previous = run[r].previous /\ s.records = run[r].records
    BY <1>1 DEF RunGood, RunShaped
<1> HIDE DEF s
<1>4. RunGood(s, r, disk', world)
    BY <1>1, <1>2, <1>3 DEF RunGood, Looking
<1> QED BY <1>1, <1>2, <1>4, InsideSuffices

\* Removing a generation.
LEMMA RemovalIsGood ==
    ASSUME NEW d, NEW g, NEW d2, DiskGood(d), d2 = [d EXCEPT !.generations[g] = None]
    PROVE  DiskGood(d2) /\ d2.lock = d.lock /\ d2.staging = d.staging /\ d2.barrier = d.barrier
BY DEF DiskGood, DiskShaped

LEMMA PruneKeeps ==
    ASSUME Inv, NEW r \in Writers, Prune(r)
    PROVE  Inv'
<1> DEFINE g == Max(run[r].left)
           s == [run[r] EXCEPT !.left = @ \ {g}]
<1>1. /\ run[r].pc = "prune" /\ run[r].pc \notin Outside /\ UNCHANGED world
      /\ RunGood(run[r], r, disk, world) /\ DiskGood(disk)
    BY DEF Prune, Sole, At, Outside, Inv
<1>2. disk' = [disk EXCEPT !.generations[g] = None] /\ Update(r, s)
    BY DEF Prune
<1> HIDE DEF g, s
<1>3. DiskGood(disk') /\ disk'.lock = disk.lock
    BY <1>1, <1>2, RemovalIsGood
<1>4. /\ RunShaped(s) /\ s.pc = "prune" /\ s.verdict = run[r].verdict
      /\ s.previous = run[r].previous /\ s.records = run[r].records
    BY <1>1 DEF RunGood, RunShaped, s
<1>5. RunGood(s, r, disk', world)
    BY <1>1, <1>3, <1>4 DEF RunGood, Looking
<1> QED BY <1>1, <1>2, <1>3, <1>5, InsideSuffices

LEMMA ConfirmKeeps ==
    ASSUME Inv, NEW r \in Writers, Confirm(r)
    PROVE  Inv'
BY EndKeeps DEF Confirm, Sole, At, Fail, Outside

LEMMA DeleteKeeps ==
    ASSUME Inv, NEW r \in Writers, Delete(r)
    PROVE  Inv'
<1>1. /\ run[r].pc = "delete" /\ run[r].pc \notin Outside /\ UNCHANGED world
      /\ RunGood(run[r], r, disk, world) /\ DiskGood(disk)
    BY DEF Delete, Sole, At, Outside, Inv
<1>2. CASE UNCHANGED disk /\ Fail(r)
    BY <1>1, <1>2, EndKeeps DEF Fail
<1>3. CASE disk' = [disk EXCEPT !.barrier = TRUE] /\ Update(r, [run[r] EXCEPT !.pc = "clear"])
    <2>1. /\ DiskGood(disk') /\ disk'.lock = disk.lock
          /\ disk'.staging = disk.staging /\ disk'.barrier
        BY <1>1, <1>3 DEF DiskGood, DiskShaped
    <2>2. ~disk'.staging
        BY <1>1, <2>1 DEF RunGood
    <2> QED BY <1>1, <1>3, <2>1, <2>2, AdvanceKeeps
<1> QED BY <1>2, <1>3 DEF Delete

LEMMA ClearKeeps ==
    ASSUME Inv, NEW r \in Writers, Clear(r)
    PROVE  Inv'
<1>1. /\ run[r].pc = "clear" /\ run[r].pc \notin Outside /\ UNCHANGED world
      /\ RunGood(run[r], r, disk, world) /\ DiskGood(disk)
    BY DEF Clear, Sole, At, Outside, Inv
<1>2. CASE Present = {} /\ UNCHANGED disk /\ End(r, "deleted")
    <2>1. Cleared(disk)
        BY <1>1, <1>2 DEF RunGood, Cleared, Present
    <2> QED BY <1>1, <1>2, <2>1, EndKeeps
<1>3. ASSUME NEW g \in Present, disk' = [disk EXCEPT !.generations[g] = None], UNCHANGED run
      PROVE  Inv'
    <2>1. /\ DiskGood(disk') /\ disk'.lock = disk.lock
          /\ disk'.staging = disk.staging /\ disk'.barrier = disk.barrier
        BY <1>1, <1>3, RemovalIsGood
    <2>2. RunGood(run[r], r, disk', world)
        BY <1>1, <2>1 DEF RunGood
    <2>3. ASSUME NEW q \in Writers, q # r
          PROVE  RunGood(run[q], q, disk', world)
        BY <1>1, <2>3, Alone, OutsideIsGood DEF Inv
    <2> QED BY <1>1, <1>3, <2>1, <2>2, <2>3 DEF Inv
<1> QED BY <1>2, <1>3 DEF Clear

-----------------------------------------------------------------------------
(* The environment *)

LEMMA CrashKeeps ==
    ASSUME Inv, NEW r \in Writers, Crash(r)
    PROVE  Inv'
BY IdleIsGood, StepSuffices DEF Crash, Inv

\* The lock is only removed when nobody relies on it.
LEMMA RecoverKeeps ==
    ASSUME Inv, Recover
    PROVE  Inv'
<1>1. DiskGood(disk')
    BY DEF Recover, Inv, DiskGood, DiskShaped
<1>2. \A r \in Writers : RunGood(run[r], r, disk', world)
    BY OutsideIsGood DEF Recover, At, Outside, Inv
<1> QED BY <1>1, <1>2 DEF Recover, Inv

LEMMA DamageKeeps ==
    ASSUME Inv, NEW g \in Generations, Damage(g)
    PROVE  Inv'
<1>1. DiskGood(disk) /\ disk' = [disk EXCEPT !.generations[g] = Bad]
    BY DEF Damage, Inv
<1>2. /\ DiskGood(disk') /\ disk'.lock = disk.lock
      /\ disk'.staging = disk.staging /\ disk'.barrier = disk.barrier
    BY <1>1 DEF DiskGood, DiskShaped
<1>3. ~Cleared(disk)
    BY DEF Damage, Cleared, Present
<1>4. \A r \in Writers : RunGood(run[r], r, disk', world)
    BY <1>2, <1>3 DEF Inv, RunGood
<1> QED BY <1>2, <1>4 DEF Damage, Inv

\* Versions only grow.
LEMMA WorldKeeps ==
    ASSUME Inv, UNCHANGED <<disk, run>>, WorldGood(world'),
           \A s \in Sources : world.version[s] <= world'.version[s]
    PROVE  Inv'
<1>1. ASSUME NEW r \in Writers
      PROVE  Looking(run[r], world')
    <2>1. Looking(run[r], world) /\ world.version \in [Sources -> Int] /\ world'.version \in [Sources -> Int]
        BY DEF Inv, RunGood, WorldGood
    <2> QED BY <2>1 DEF Looking
<1> QED BY <1>1 DEF Inv, RunGood

LEMMA EnvironmentKeeps ==
    ASSUME Inv, Environment
    PROVE  Inv'
<1>1. WorldShaped(world) /\ world.version \in [Sources -> Int]
    BY DEF Inv, WorldGood
<1>2. ASSUME NEW s \in Sources, Change(s)
      PROVE  Inv'
    <2>1. WorldGood(world') /\ \A q \in Sources : world.version[q] <= world'.version[q]
        BY <1>1, <1>2 DEF Change, WorldGood, WorldShaped
    <2> QED BY <1>2, <2>1, WorldKeeps DEF Change
<1>3. CASE Tick
    <2>1. WorldShaped(world') /\ world'.version = world.version
        BY <1>1, <1>3 DEF Tick, WorldShaped
    <2> QED BY <1>1, <1>3, <2>1, WorldKeeps DEF Tick, WorldGood
<1>4. ASSUME NEW config, Edit(config)
      PROVE  Inv'
    <2>1. WorldShaped(world') /\ world'.version = world.version
        BY <1>1, <1>4 DEF Edit, WorldShaped
    <2> QED BY <1>1, <1>4, <2>1, WorldKeeps DEF Edit, WorldGood
<1> QED BY <1>2, <1>3, <1>4, RecoverKeeps, DamageKeeps DEF Environment

-----------------------------------------------------------------------------
(* Theorems *)

LEMMA InitGood == Init => Inv
<1> SUFFICES ASSUME Init PROVE Inv
    OBVIOUS
<1>1. DiskGood(disk)
    BY DEF Init, DiskGood, DiskShaped
<1>2. WorldGood(world)
    BY DEF Init, WorldGood, WorldShaped
<1> QED BY <1>1, <1>2, IdleIsGood DEF Init, Inv

LEMMA NextKeeps == Inv /\ [Next]_catalogVars => Inv'
<1> SUFFICES ASSUME Inv, [Next]_catalogVars PROVE Inv'
    OBVIOUS
<1>1. ASSUME NEW r \in Writers, Transaction(r)
      PROVE  Inv'
    BY <1>1, RefuseKeeps, TakeLockKeeps, ScanKeeps, ExamineKeeps, OpenKeeps, BreakKeeps,
       ReleaseKeeps DEF Transaction
<1>2. ASSUME NEW r \in Writers, Select(r)
      PROVE  Inv'
    BY <1>2, ChooseKeeps, ProbeKeeps, JudgeKeeps, CollectedKeeps, SettleKeeps DEF Select
<1>3. ASSUME NEW r \in Writers, Save(r)
      PROVE  Inv'
    BY <1>3, StageKeeps, BeforeActivateKeeps, ActivateKeeps, VerifyKeeps, UnstageKeeps,
       PruneKeeps, ConfirmKeeps DEF Save
<1>4. CASE UNCHANGED catalogVars
    BY <1>4 DEF catalogVars, Inv
<1> QED BY <1>1, <1>2, <1>3, <1>4, BeginKeeps, ExportKeeps, DeleteKeeps, ClearKeeps, CrashKeeps,
           EnvironmentKeeps DEF Next

\* The inductive invariant of the catalog.
THEOREM InvHolds == Spec => []Inv
<1>1. Init => Inv
    BY InitGood
<1>2. Inv /\ [Next]_catalogVars => Inv'
    BY NextKeeps
<1> QED BY <1>1, <1>2, PTL DEF Spec

\* At most one process is inside of a transaction, whatever crashes and whoever
\* removes an abandoned lock.
THEOREM LockExcludes == Spec => []TransactionsExclusive
<1>1. Inv => TransactionsExclusive
    BY Alone DEF TransactionsExclusive, Outside
<1> QED BY <1>1, InvHolds, PTL

\* The state a record is compared by is the state of the content it was made from.
THEOREM RecordsAreWhole == Spec => []RecordsAreOneVersion
<1>1. Inv => RecordsAreOneVersion
    BY DEF Inv, DiskGood, RecordsGood, Whole, RecordsAreOneVersion, Present, Kept
<1> QED BY <1>1, InvHolds, PTL

\* A step behind the barrier makes nothing: a new generation is linked where there is no
\* barrier, and a staging file is created after a look at it.
LEMMA StagingStays ==
    ASSUME Inv, Next, disk.barrier, disk'.staging
    PROVE  disk.staging
<1>1. DiskShaped(disk)
    BY DEF Inv, DiskGood
<1>2. ASSUME NEW r \in Writers, Transaction(r)
      PROVE  disk.staging
    BY <1>1, <1>2 DEF Transaction, Refuse, TakeLock, Scan, Examine, Open, Break, Release,
       DiskShaped
<1>3. ASSUME NEW r \in Writers, Select(r)
      PROVE  disk.staging
    BY <1>3 DEF Select, Choose, Probe, Judge, Collected, Settle
<1>4. ASSUME NEW r \in Writers, Save(r)
      PROVE  disk.staging
    BY <1>1, <1>4 DEF Save, Stage, BeforeActivate, Activate, Verify, Unstage, Prune, Confirm,
       DiskShaped
<1>5. CASE Environment
    BY <1>1, <1>5 DEF Environment, Recover, Tick, Damage, Change, Edit, DiskShaped
<1>6. ASSUME NEW r \in Writers, Delete(r) \/ Clear(r)
      PROVE  disk.staging
    BY <1>1, <1>6 DEF Delete, Clear, DiskShaped
<1> QED BY <1>2, <1>3, <1>4, <1>5, <1>6 DEF Next, Begin, Export, Crash

LEMMA GenerationsStay ==
    ASSUME Inv, Next, disk.barrier
    PROVE  /\ disk'.barrier
           /\ \A g \in Generations : disk.generations[g] = None => disk'.generations[g] = None
<1> DEFINE Stays ==
        /\ disk'.barrier
        /\ \A g \in Generations : disk.generations[g] = None => disk'.generations[g] = None
<1>1. DiskShaped(disk) /\ DOMAIN disk.generations = Generations
    BY DEF Inv, DiskGood
<1>2. ASSUME NEW r \in Writers, Transaction(r)
      PROVE  Stays
    BY <1>1, <1>2 DEF Transaction, Refuse, TakeLock, Scan, Examine, Open, Break, Release,
       DiskShaped
<1>3. ASSUME NEW r \in Writers, Select(r)
      PROVE  Stays
    BY <1>3 DEF Select, Choose, Probe, Judge, Collected, Settle
<1>4. ASSUME NEW r \in Writers, Save(r)
      PROVE  Stays
    <2>1. ~Activate(r)
        BY DEF Inv, RunGood, Activate, Sole, At
    <2> QED BY <1>1, <1>4, <2>1 DEF Save, Stage, BeforeActivate, Verify, Unstage, Prune, Confirm,
            DiskShaped
<1>5. CASE Environment
    BY <1>1, <1>5 DEF Environment, Recover, Tick, Damage, Present, Change, Edit, DiskShaped
<1>6. ASSUME NEW r \in Writers, Delete(r) \/ Clear(r)
      PROVE  Stays
    BY <1>1, <1>6 DEF Delete, Clear, DiskShaped
<1> QED BY <1>2, <1>3, <1>4, <1>5, <1>6 DEF Next, Begin, Export, Crash

\* An acknowledged deletion left no generation and no staging file, and behind its
\* barrier no step of any process makes one again.
THEOREM DeletionCompletes == Spec => DeletionIsComplete
<1>1. Inv => \A r \in Writers : run[r].verdict = "deleted" =>
                Present = {} /\ ~disk.staging /\ disk.barrier
    BY DEF Inv, RunGood, Cleared, Present
<1>2. Inv /\ [Next]_catalogVars => [NothingComesBack]_catalogVars
    <2>1. ASSUME Inv, Next, disk.barrier
          PROVE  NothingComesBack
        BY <2>1, StagingStays, GenerationsStay DEF NothingComesBack
    <2> QED BY <2>1 DEF NothingComesBack
<1> QED BY <1>1, <1>2, InvHolds, PTL DEF Spec, DeletionIsComplete

-----------------------------------------------------------------------------
(* What a run knows: the second invariant *)

Busy(s) == s.pc \notin {"idle", "release"}
Activated == {"verify", "unstage", "prune"}
Writing ==
    {"choose", "next", "judge", "collected", "save", "staged", "activate"} \cup Activated
Examined == {"examine", "export"} \cup Writing
Keeping(s) == s.command # "delete"

\* The beginning of the run is in the past.
Begun(s, w) ==
    Busy(s) => /\ s.config \in Configurations /\ s.command \in Commands /\ s.at \in Nat
               /\ s.first \in [Sources -> Nat]
               /\ \A x \in Sources : s.first[x] <= w.version[x]

\* What a run does is what its command is for.
OnTask(s) ==
    /\ s.pc = "export" => s.command = "export"
    /\ s.pc \in Writing => s.command \in {"select", "refresh"}

\* Records that the configuration of the run allows, and that it may still use.
Recorded(records) == records \in [Sources -> CatalogRecords \cup {None}]
Lawful(s, records) ==
    \A x \in Sources : records[x] # None =>
        Allowed(s.config, x, records[x]) /\ ~Expired(records[x], s.at)
Holding(s) ==
    /\ Recorded(s.previous) /\ Recorded(s.records)
    /\ Busy(s) /\ Keeping(s) => Lawful(s, s.previous) /\ Lawful(s, s.records)

\* Generations the run has not looked at, or not yet removed.
Unseen(s) == IF s.pc \in {"examine"} \cup Activated THEN s.left ELSE {}
Clean(s, gens) ==
    s.pc \in Examined /\ Keeping(s) =>
        \A g \in Generations \ Unseen(s) :
            gens[g] \notin {None, Bad} => Lawful(s, gens[g].records)

\* Until it activates its own, the run knows all generations there are, and the one
\* it has read its records from.
Knowing(s, gens) ==
    /\ s.pc \in {"lock", "scan"} => s.selected = None /\ s.previous = NoRecords
    /\ s.pc \in Examined \ Activated =>
        /\ s.names \subseteq Generations
        /\ \A g \in Generations : gens[g] # None => g \in s.names
        /\ s.selected = None => s.previous = NoRecords
        /\ s.selected # None =>
              /\ s.selected \in Generations \ Unseen(s)
              /\ gens[s.selected] \notin {None, Bad} =>
                    gens[s.selected].records = s.previous

\* After the activation there are the new generation, the one to fall back on, and
\* those that are still to be removed; the first two hold what the run holds.
Pruned(s, gens) ==
    s.pc \in Activated =>
        \E new, old \in Generations :
            /\ gens[new] # None
            /\ s.left \subseteq Generations
            /\ \A g \in s.left : g < new
            /\ \A g \in Generations : gens[g] # None => g \in {new, old} \cup s.left
            /\ \A g \in Generations \ s.left : gens[g] \notin {None, Bad} =>
                  Kept(gens[g].records) \subseteq Kept(s.records)

\* A hit is a state of the source since the run began, and is not looked at again.
Hit(s, w, x) ==
    /\ x \in Sources /\ s.records[x] # None
    /\ s.first[x] <= s.records[x].state /\ s.records[x].state <= w.version[x]
Hitting(s, w) ==
    /\ s.pc \in Writing => \A x \in s.hits : Hit(s, w, x)
    /\ s.pc \in {"lock", "scan", "examine", "choose"} => s.hits = {}
    /\ s.pc \in {"next", "judge", "collected"} => s.hits \cap s.left = {}
    /\ s.pc \in {"judge", "collected"} =>
          /\ s.source \notin s.hits \cup s.left
          /\ s.state \in Nat /\ s.first[s.source] <= s.state
    /\ s.pc = "collected" => s.content \in Nat

\* Only a run that has ended has an answer.
Silent(s) == s.verdict # "none" => s.pc = "release"

Facts(s, gens, w) ==
    /\ Begun(s, w) /\ OnTask(s) /\ Holding(s) /\ Clean(s, gens) /\ Knowing(s, gens)
    /\ Pruned(s, gens) /\ Hitting(s, w) /\ Silent(s)

GensTyped(gens) == gens \in [Generations -> Envelopes \cup {None, Bad}]
WorldTyped(w) ==
    w.config \in Configurations /\ w.now \in Nat /\ w.version \in [Sources -> Nat]

Informed ==
    /\ Inv /\ GensTyped(disk.generations) /\ WorldTyped(world)
    /\ \A r \in Writers : Facts(run[r], disk.generations, world)

-----------------------------------------------------------------------------
(* It is preserved *)

LEMMA OutsideKnows ==
    ASSUME NEW s, NEW gens, NEW gens2, NEW w, Facts(s, gens, w), s.pc \in Outside
    PROVE  Facts(s, gens2, w)
BY DEF Facts, Outside, Clean, Knowing, Pruned, Examined, Writing, Activated

\* Again it is enough to look at the run that takes the step.
LEMMA FactsSuffice ==
    ASSUME Informed, NEW r \in Writers, NEW s, Update(r, s), Inv', UNCHANGED world,
           GensTyped(disk'.generations), Facts(s, disk'.generations, world),
           disk'.generations = disk.generations \/ run[r].pc \notin Outside
    PROVE  Informed'
<1>1. DOMAIN run' = Writers /\ \A q \in Writers : run'[q] = IF q = r THEN s ELSE run[q]
    BY DEF Update, Informed, Inv
<1>2. ASSUME NEW q \in Writers, q # r
      PROVE  Facts(run[q], disk'.generations, world)
    <2>1. CASE disk'.generations = disk.generations
        BY <2>1 DEF Informed
    <2>2. CASE run[r].pc \notin Outside
        <3>1. run[q].pc \in Outside
            BY <1>2, <2>2, Alone DEF Informed
        <3> QED BY <3>1, OutsideKnows DEF Informed
    <2> QED BY <2>1, <2>2
<1> QED BY <1>1, <1>2 DEF Informed

LEMMA NothingRecorded == Recorded(NoRecords) /\ \A s : Lawful(s, NoRecords)
BY DEF Recorded, NoRecords, Lawful

LEMMA IdleFacts ==
    ASSUME NEW gens, NEW w
    PROVE  Facts(Idle, gens, w)
<1>1. /\ Idle.pc = "idle" /\ Idle.verdict = "none"
      /\ Idle.previous = NoRecords /\ Idle.records = NoRecords
    BY DEF Idle
<1> QED BY <1>1, NothingRecorded DEF Facts, Begun, Busy, OnTask, Writing, Activated, Holding,
       Clean, Examined, Knowing, Pruned, Hitting, Silent

LEMMA EndFacts ==
    ASSUME NEW gens, NEW w, NEW verdict
    PROVE  Facts([Idle EXCEPT !.pc = "release", !.verdict = verdict], gens, w)
<1> DEFINE s == [Idle EXCEPT !.pc = "release", !.verdict = verdict]
<1>1. s.pc = "release" /\ s.previous = NoRecords /\ s.records = NoRecords
    BY DEF Idle
<1> HIDE DEF s
<1>2. Facts(s, gens, w)
    BY <1>1, NothingRecorded DEF Facts, Begun, Busy, OnTask, Writing, Activated, Holding,
       Clean, Examined, Knowing, Pruned, Hitting, Silent
<1> QED BY <1>2 DEF s

\* Runs that end or stop.
LEMMA EndInforms ==
    ASSUME Informed, NEW r \in Writers, NEW verdict, End(r, verdict), Inv', UNCHANGED world,
           disk'.generations = disk.generations
    PROVE  Informed'
BY EndFacts, FactsSuffice DEF End, Informed

LEMMA IdleInforms ==
    ASSUME Informed, NEW r \in Writers, Update(r, Idle), Inv', UNCHANGED world,
           disk'.generations = disk.generations
    PROVE  Informed'
BY IdleFacts, FactsSuffice DEF Informed

LEMMA BeginInforms ==
    ASSUME Informed, NEW r \in Writers, NEW command \in Commands, Begin(r, command), Inv'
    PROVE  Informed'
<1> DEFINE s == [Idle EXCEPT !.pc = "lock", !.command = command, !.config = world.config,
                             !.at = world.now, !.first = world.version]
<1>1. /\ s.pc = "lock" /\ s.verdict = "none" /\ s.command = command /\ s.config = world.config
      /\ s.at = world.now /\ s.first = world.version /\ s.hits = {} /\ s.selected = None
      /\ s.previous = NoRecords /\ s.records = NoRecords
    BY DEF Idle
<1>2. Update(r, s) /\ UNCHANGED <<disk, world>>
    BY DEF Begin, Sole
<1> HIDE DEF s
<1>3. WorldTyped(world) /\ \A x \in Sources : s.first[x] <= world.version[x]
    BY <1>1 DEF Informed, WorldTyped
<1>4. Facts(s, disk.generations, world)
    BY <1>1, <1>3, NothingRecorded DEF Facts, Begun, WorldTyped, Busy, OnTask, Writing,
       Activated, Holding,
       Clean, Examined, Knowing, Pruned, Hitting, Silent
<1> QED BY <1>2, <1>4, FactsSuffice DEF Informed

LEMMA TakeLockInforms ==
    ASSUME Informed, NEW r \in Writers, TakeLock(r), Inv'
    PROVE  Informed'
<1>1. CASE UNCHANGED disk /\ Update(r, Idle)
    BY <1>1, IdleInforms DEF TakeLock, Sole
<1>2. CASE disk' = [disk EXCEPT !.lock = r] /\ Update(r, [run[r] EXCEPT !.pc = "scan"])
    <2> DEFINE s == [run[r] EXCEPT !.pc = "scan"]
    <2>1. /\ RunShaped(run[r]) /\ run[r].pc = "lock" /\ DiskShaped(disk)
          /\ Facts(run[r], disk.generations, world)
        BY DEF Informed, Inv, RunGood, DiskGood, TakeLock, Sole, At
    <2>2. /\ s.pc = "scan" /\ s.verdict = run[r].verdict /\ s.command = run[r].command
          /\ s.config = run[r].config /\ s.at = run[r].at /\ s.first = run[r].first
          /\ s.hits = run[r].hits /\ s.selected = run[r].selected
          /\ s.previous = run[r].previous /\ s.records = run[r].records
        BY <2>1 DEF RunShaped
    <2>3. disk'.generations = disk.generations
        BY <1>2, <2>1 DEF DiskShaped
    <2>4. Update(r, s)
        BY <1>2
    <2> HIDE DEF s
    <2>5. Begun(s, world) /\ Holding(s)
        BY <2>1, <2>2 DEF Facts, Begun, Busy, Holding, Keeping, Lawful
    <2>6. Facts(s, disk.generations, world)
        BY <2>1, <2>2, <2>5 DEF Facts, OnTask, Writing, Activated, Clean, Examined, Knowing,
           Pruned, Hitting, Silent
    <2> QED BY <2>3, <2>4, <2>6, FactsSuffice DEF TakeLock, Sole, Informed
<1> QED BY <1>1, <1>2 DEF TakeLock

LEMMA ScanInforms ==
    ASSUME Informed, NEW r \in Writers, Scan(r), Inv'
    PROVE  Informed'
<1>1. /\ RunShaped(run[r]) /\ run[r].pc = "scan" /\ Facts(run[r], disk.generations, world)
      /\ UNCHANGED <<disk, world>>
    BY DEF Informed, Inv, RunGood, Scan, Sole, At
<1>2. CASE Fail(r)
    BY <1>1, <1>2, EndInforms DEF Fail
<1>3. CASE Update(r, [run[r] EXCEPT !.pc = "examine", !.left = Present, !.names = Present])
    <2> DEFINE s == [run[r] EXCEPT !.pc = "examine", !.left = Present, !.names = Present]
    <2>1. /\ s.pc = "examine" /\ s.verdict = run[r].verdict /\ s.command = run[r].command
          /\ s.config = run[r].config /\ s.at = run[r].at /\ s.first = run[r].first
          /\ s.hits = run[r].hits /\ s.selected = run[r].selected
          /\ s.previous = run[r].previous /\ s.records = run[r].records
          /\ s.left = Present /\ s.names = Present
        BY <1>1 DEF RunShaped
    <2>2. Update(r, s)
        BY <1>3
    <2> HIDE DEF s
    <2>3. Begun(s, world) /\ Holding(s)
        BY <1>1, <2>1 DEF Facts, Begun, Busy, Holding, Keeping, Lawful
    <2>4. Clean(s, disk.generations) /\ Knowing(s, disk.generations)
        BY <1>1, <2>1 DEF Facts, Clean, Knowing, Unseen, Present, Examined, Writing, Activated
    <2>5. Facts(s, disk.generations, world)
        BY <1>1, <2>1, <2>3, <2>4 DEF Facts, OnTask, Writing, Activated, Pruned, Hitting, Silent
    <2> QED BY <1>1, <2>2, <2>5, FactsSuffice DEF Informed
<1> QED BY <1>2, <1>3 DEF Scan

\* What is not withdrawn may be used.
LEMMA NotWithdrawn ==
    ASSUME NEW r, NEW envelope, ~Withdrawn(r, envelope), Keeping(run[r]),
           Recorded(envelope.records)
    PROVE  Lawful(run[r], envelope.records)
BY DEF Withdrawn, Keeping, Lawful, Kept, Recorded

LEMMA ExamineInforms ==
    ASSUME Informed, NEW r \in Writers, Examine(r), Inv'
    PROVE  Informed'
<1> DEFINE g == Max(run[r].left)
           read == disk.generations[g]
           usable == read \notin {None, Bad} /\ ~Withdrawn(r, read)
           rest == [run[r] EXCEPT !.left = @ \ {g}]
           chosen == usable /\ rest.selected = None
           s == IF chosen THEN [rest EXCEPT !.selected = g, !.previous = read.records] ELSE rest
<1>1. /\ RunShaped(run[r]) /\ run[r].pc = "examine" /\ Facts(run[r], disk.generations, world)
      /\ UNCHANGED world /\ DiskShaped(disk) /\ GensTyped(disk.generations)
      /\ Looking(run[r], world)
    BY DEF Informed, Inv, RunGood, DiskGood, Examine, Sole, At
<1>2. /\ disk' = IF usable THEN disk ELSE [disk EXCEPT !.generations[g] = None]
      /\ Update(r, s)
    BY DEF Examine
<1>3. g \in run[r].left /\ run[r].left \subseteq Generations
    <2>1. run[r].left \subseteq Generations /\ run[r].left # {}
        BY <1>1 DEF Examine, Looking
    <2> QED BY <2>1, MaxFacts, CatalogAssumption DEF Generations
<1>4. usable => Recorded(read.records)
    BY <1>1, <1>3 DEF GensTyped, Envelopes, Recorded
<1>5. usable /\ Keeping(run[r]) => Lawful(run[r], read.records)
    BY <1>4, NotWithdrawn
<1>6. disk'.generations = IF usable THEN disk.generations
                          ELSE [disk.generations EXCEPT ![g] = None]
    BY <1>1, <1>2 DEF DiskShaped
<1>7. usable => read \notin {None, Bad}
    OBVIOUS
<1> HIDE DEF g, usable
<1>8. /\ RunShaped(rest) /\ rest.selected = run[r].selected /\ rest.left = run[r].left \ {g}
      /\ rest.pc = "examine" /\ rest.verdict = run[r].verdict /\ rest.command = run[r].command
      /\ rest.config = run[r].config /\ rest.at = run[r].at /\ rest.first = run[r].first
      /\ rest.hits = run[r].hits /\ rest.names = run[r].names
      /\ rest.previous = run[r].previous /\ rest.records = run[r].records
    BY <1>1 DEF RunShaped
<1> HIDE DEF rest
<1>9. /\ s.pc = "examine" /\ s.verdict = run[r].verdict /\ s.command = run[r].command
      /\ s.config = run[r].config /\ s.at = run[r].at /\ s.first = run[r].first
      /\ s.hits = run[r].hits /\ s.names = run[r].names /\ s.left = run[r].left \ {g}
      /\ s.selected = (IF chosen THEN g ELSE run[r].selected)
      /\ s.previous = (IF chosen THEN read.records ELSE run[r].previous)
      /\ s.records = run[r].records
    BY <1>8 DEF RunShaped
<1>10. chosen <=> usable /\ run[r].selected = None
    BY <1>8
<1> HIDE DEF s, chosen
<1>11. GensTyped(disk'.generations)
    BY <1>1, <1>3, <1>6 DEF GensTyped
<1>12. \A records : Lawful(s, records) <=> Lawful(run[r], records)
    BY <1>9 DEF Lawful
<1>13. Begun(s, world) /\ Holding(s)
    BY <1>1, <1>4, <1>5, <1>9, <1>10, <1>12 DEF Facts, Begun, Busy, Holding, Keeping
<1>14. Clean(s, disk'.generations)
    <2>1. ASSUME Keeping(s), NEW h \in Generations \ s.left, disk'.generations[h] \notin {None, Bad}
          PROVE  Lawful(s, disk'.generations[h].records)
        <3>1. Keeping(run[r]) /\ h \in Generations
            BY <2>1, <1>9 DEF Keeping
        <3>2. CASE h = g
            <4>1. usable
                BY <3>2, <2>1, <1>1, <1>6 DEF GensTyped
            <4>2. disk'.generations[h] = read
                BY <4>1, <3>2, <1>6
            <4> HIDE DEF read
            <4> QED BY <4>1, <4>2, <3>1, <1>5, <1>12
        <3>3. CASE h # g
            <4>1. h \in Generations \ run[r].left /\ disk'.generations[h] = disk.generations[h]
                BY <3>3, <2>1, <1>1, <1>6, <1>9 DEF GensTyped
            <4>2. Lawful(run[r], disk.generations[h].records)
                BY <4>1, <3>1, <2>1, <1>1 DEF Facts, Clean, Examined, Unseen
            <4> QED BY <4>1, <4>2, <1>12
        <3> QED BY <3>2, <3>3
    <2> QED BY <2>1, <1>9 DEF Clean, Unseen
<1>15. Knowing(s, disk'.generations)
    <2>1. /\ run[r].names \subseteq Generations
          /\ \A h \in Generations : disk.generations[h] # None => h \in run[r].names
          /\ run[r].selected = None => run[r].previous = NoRecords
          /\ run[r].selected # None =>
                /\ run[r].selected \in Generations \ run[r].left
                /\ disk.generations[run[r].selected] \notin {None, Bad} =>
                     disk.generations[run[r].selected].records = run[r].previous
        BY <1>1 DEF Facts, Knowing, Examined, Unseen, Writing, Activated
    <2>2. \A h \in Generations : disk'.generations[h] # None => h \in s.names
        BY <2>1, <1>1, <1>6, <1>9 DEF GensTyped
    <2>3. s.selected = None => s.previous = NoRecords
        <3>1. CASE ~chosen
            BY <3>1, <2>1, <1>9
        <3>2. CASE chosen /\ g # None
            BY <3>2, <1>9
        <3>3. CASE chosen /\ g = None
            BY <3>3, <1>3, CatalogAssumption
        <3> QED BY <3>1, <3>2, <3>3
    <2>4. ASSUME s.selected # None
          PROVE  /\ s.selected \in Generations \ s.left
                 /\ disk'.generations[s.selected] \notin {None, Bad} =>
                       disk'.generations[s.selected].records = s.previous
        <3>1. CASE chosen
            BY <3>1, <1>3, <1>6, <1>9, <1>10
        <3>2. CASE ~chosen
            BY <3>2, <2>1, <2>4, <1>1, <1>3, <1>6, <1>9 DEF GensTyped
        <3> QED BY <3>1, <3>2
    <2> QED BY <2>1, <2>2, <2>3, <2>4, <1>9 DEF Knowing, Unseen
<1>16. Facts(s, disk'.generations, world)
    BY <1>1, <1>9, <1>13, <1>14, <1>15 DEF Facts, OnTask, Writing, Activated, Pruned, Hitting,
       Silent
<1> QED BY <1>1, <1>2, <1>11, <1>16, FactsSuffice DEF Outside

\* Staging of a crash is removed, and the run goes to its task.
LEMMA OpenInforms ==
    ASSUME Informed, NEW r \in Writers, Open(r), Inv'
    PROVE  Informed'
<1> DEFINE label == CASE run[r].command = "delete" -> "delete"
                      [] run[r].command = "export" -> "export"
                      [] OTHER -> "choose"
           s == [run[r] EXCEPT !.pc = label, !.records = run[r].previous]
<1>1. /\ RunShaped(run[r]) /\ run[r].pc = "examine" /\ Facts(run[r], disk.generations, world)
      /\ UNCHANGED world /\ DiskShaped(disk) /\ GensTyped(disk.generations)
      /\ run[r].left = {}
    BY DEF Informed, Inv, RunGood, DiskGood, Open, Sole, At
<1>2. disk' = [disk EXCEPT !.staging = FALSE] /\ Update(r, s)
    BY DEF Open
<1>3. run[r].command \in {"select", "refresh", "export", "delete"}
    BY <1>1 DEF Facts, Begun, Busy, Commands
<1>4. /\ label \in {"delete", "export", "choose"}
      /\ label = "delete" => run[r].command = "delete"
      /\ label = "export" => run[r].command = "export"
      /\ label = "choose" => run[r].command \in {"select", "refresh"}
    BY <1>3
<1> HIDE DEF label
<1>5. /\ s.pc = label /\ s.verdict = run[r].verdict /\ s.command = run[r].command
      /\ s.config = run[r].config /\ s.at = run[r].at /\ s.first = run[r].first
      /\ s.hits = run[r].hits /\ s.names = run[r].names /\ s.selected = run[r].selected
      /\ s.previous = run[r].previous /\ s.records = run[r].previous
    BY <1>1 DEF RunShaped
<1> HIDE DEF s
<1>6. disk'.generations = disk.generations
    BY <1>1, <1>2 DEF DiskShaped
<1>7. \A records : Lawful(s, records) <=> Lawful(run[r], records)
    BY <1>5 DEF Lawful
<1>8. Begun(s, world) /\ Holding(s) /\ OnTask(s)
    BY <1>1, <1>4, <1>5, <1>7 DEF Facts, Begun, Busy, Holding, Keeping, OnTask, Writing,
       Activated
<1>9. Clean(s, disk.generations)
    BY <1>1, <1>4, <1>5, <1>7 DEF Facts, Clean, Keeping, Examined, Writing, Activated, Unseen
<1>10. Knowing(s, disk.generations)
    BY <1>1, <1>4, <1>5 DEF Facts, Knowing, Examined, Writing, Activated, Unseen
<1>11. Facts(s, disk.generations, world)
    BY <1>1, <1>4, <1>5, <1>8, <1>9, <1>10 DEF Facts, Writing, Activated, Pruned, Hitting,
       Silent
<1> QED BY <1>1, <1>2, <1>6, <1>11, FactsSuffice

LEMMA BreakInforms ==
    ASSUME Informed, NEW r \in Writers, Break(r), Inv'
    PROVE  Informed'
BY EndInforms DEF Break, Fail

LEMMA ReleaseInforms ==
    ASSUME Informed, NEW r \in Writers, Release(r), Inv'
    PROVE  Informed'
<1>1. disk'.generations = disk.generations
    BY DEF Release, Informed, Inv, DiskGood, DiskShaped
<1> QED BY <1>1, IdleInforms DEF Release, Sole

LEMMA ExportInforms ==
    ASSUME Informed, NEW r \in Writers, Export(r), Inv'
    PROVE  Informed'
BY EndInforms DEF Export, Sole, Fail

-----------------------------------------------------------------------------
(* Choosing, looking at sources, and saving *)

Choosing == {"choose", "next", "judge", "collected", "save", "staged", "activate"}
SameRun(s, t) ==
    /\ s.command = t.command /\ s.config = t.config /\ s.at = t.at /\ s.first = t.first
    /\ s.names = t.names /\ s.selected = t.selected /\ s.previous = t.previous
    /\ s.verdict = t.verdict

\* In this phase only the records, the hits and the source at hand change.
LEMMA ChoosingKeeps ==
    ASSUME Informed, NEW r \in Writers, NEW s, Update(r, s), Inv', UNCHANGED world,
           disk'.generations = disk.generations, SameRun(s, run[r]),
           run[r].pc \in Choosing, s.pc \in Choosing,
           Recorded(s.records), Lawful(s, s.records), Hitting(s, world)
    PROVE  Informed'
<1>1. Facts(run[r], disk.generations, world)
    BY DEF Informed
<1>2. \A records : Lawful(s, records) <=> Lawful(run[r], records)
    BY DEF Lawful, SameRun
<1>3. Begun(s, world) /\ OnTask(s) /\ Silent(s)
    BY <1>1 DEF Facts, Begun, Busy, OnTask, Silent, SameRun, Choosing, Writing, Activated
<1>4. Holding(s)
    BY <1>1, <1>2 DEF Facts, Holding, SameRun, Choosing, Busy, Keeping
<1>5. Clean(s, disk.generations)
    BY <1>1, <1>2 DEF Facts, Clean, SameRun, Choosing, Writing, Activated, Examined, Keeping,
       Unseen
<1>6. Knowing(s, disk.generations) /\ Pruned(s, disk.generations)
    BY <1>1 DEF Facts, Knowing, Pruned, SameRun, Choosing, Writing, Activated, Examined, Unseen
<1>7. Facts(s, disk.generations, world)
    BY <1>3, <1>4, <1>5, <1>6 DEF Facts
<1> QED BY <1>7, FactsSuffice DEF Informed

\* What holds of a run in this phase.
LEMMA ChoosingFacts ==
    ASSUME Informed, NEW r \in Writers, run[r].pc \in Choosing
    PROVE  /\ RunShaped(run[r]) /\ Recorded(run[r].records) /\ Lawful(run[r], run[r].records)
           /\ Hitting(run[r], world) /\ \A x \in run[r].hits : Hit(run[r], world, x)
           /\ run[r].at \in Nat /\ run[r].config \in Configurations
           /\ run[r].first \in [Sources -> Nat]
           /\ \A x \in Sources : run[r].first[x] <= world.version[x]
           /\ world.version \in [Sources -> Nat] /\ world.now \in Nat
           /\ Looking(run[r], world)
<1>1. Facts(run[r], disk.generations, world) /\ RunGood(run[r], r, disk, world)
    BY DEF Informed, Inv
<1>2. Busy(run[r]) /\ Keeping(run[r]) /\ run[r].pc \in Writing
    BY <1>1 DEF Facts, OnTask, Choosing, Writing, Activated, Keeping, Busy
<1> QED BY <1>1, <1>2 DEF Facts, Begun, Holding, Hitting, RunGood, Informed, WorldTyped

\* A record of the run is dropped.
LEMMA RecordDropped ==
    ASSUME NEW s, NEW t, NEW x \in Sources, Recorded(t.records), Lawful(t, t.records),
           s.config = t.config, s.at = t.at, s.records = [t.records EXCEPT ![x] = None]
    PROVE  Recorded(s.records) /\ Lawful(s, s.records)
BY DEF Recorded, Lawful

\* Hits that are not the source at hand stay hits.
LEMMA HitsStay ==
    ASSUME NEW s, NEW t, NEW w, NEW x, Recorded(t.records), s.hits = t.hits, s.first = t.first,
           x \notin t.hits, \A y \in t.hits : Hit(t, w, y),
           \A y \in Sources \ {x} : s.records[y] = t.records[y]
    PROVE  \A y \in s.hits : Hit(s, w, y)
BY DEF Hit

LEMMA ChooseInforms ==
    ASSUME Informed, NEW r \in Writers, Choose(r), Inv'
    PROVE  Informed'
<1>1. PICK chosen : Update(r, [run[r] EXCEPT !.pc = "next", !.left = chosen])
    BY DEF Choose
<1> DEFINE s == [run[r] EXCEPT !.pc = "next", !.left = chosen]
<1>2. run[r].pc = "choose" /\ run[r].pc \in Choosing /\ UNCHANGED <<disk, world>>
    BY DEF Choose, Sole, At, Choosing
<1>3. RunShaped(run[r])
    BY <1>2, ChoosingFacts
<1>4. /\ s.pc = "next" /\ SameRun(s, run[r]) /\ s.records = run[r].records
      /\ s.hits = run[r].hits
    BY <1>3 DEF RunShaped, SameRun
<1>5. Update(r, s)
    BY <1>1
<1> HIDE DEF s
<1>6. Recorded(s.records) /\ Lawful(s, s.records)
    BY <1>2, <1>4, ChoosingFacts DEF SameRun, Lawful
<1>7. run[r].hits = {}
    BY <1>2, ChoosingFacts DEF Hitting
<1>8. Hitting(s, world)
    BY <1>4, <1>7 DEF Hitting
<1>9. s.pc \in Choosing
    BY <1>4 DEF Choosing
<1> QED BY <1>2, <1>4, <1>5, <1>6, <1>8, <1>9, ChoosingKeeps

LEMMA ProbeInforms ==
    ASSUME Informed, NEW r \in Writers, Probe(r), Inv'
    PROVE  Informed'
<1>1. run[r].pc = "next" /\ run[r].pc \in Choosing /\ UNCHANGED <<disk, world>>
    BY DEF Probe, Sole, At, Choosing
<1>2. PICK x \in run[r].left :
         \/ Update(r, [[run[r] EXCEPT !.left = @ \ {x}] EXCEPT !.pc = "judge", !.source = x,
                                                              !.state = world.version[x]])
         \/ Update(r, [[run[r] EXCEPT !.left = @ \ {x}] EXCEPT !.records[x] = None])
    BY DEF Probe
<1>3. /\ RunShaped(run[r]) /\ Recorded(run[r].records) /\ Lawful(run[r], run[r].records)
      /\ Hitting(run[r], world) /\ \A y \in run[r].hits : Hit(run[r], world, y)
      /\ world.version \in [Sources -> Nat] /\ x \in Sources
      /\ run[r].first[x] <= world.version[x]
    BY <1>1, ChoosingFacts DEF Looking
<1>4. run[r].hits \cap run[r].left = {}
    BY <1>1, <1>3 DEF Hitting
<1> DEFINE chosen == [run[r] EXCEPT !.left = @ \ {x}]
<1>5. RunShaped(chosen)
    BY <1>3 DEF RunShaped
<1>6. /\ chosen.pc = run[r].pc /\ chosen.left = run[r].left \ {x}
      /\ SameRun(chosen, run[r]) /\ chosen.records = run[r].records /\ chosen.hits = run[r].hits
    BY <1>3 DEF RunShaped, SameRun
<1>7. /\ RunShaped(chosen) /\ chosen.pc = "next" /\ chosen.left = run[r].left \ {x}
      /\ SameRun(chosen, run[r]) /\ chosen.records = run[r].records /\ chosen.hits = run[r].hits
    BY <1>1, <1>5, <1>6
<1>8. CASE Update(r, [chosen EXCEPT !.pc = "judge", !.source = x, !.state = world.version[x]])
    <2> HIDE DEF chosen
    <2> DEFINE s == [chosen EXCEPT !.pc = "judge", !.source = x, !.state = world.version[x]]
    <2>1. /\ s.pc = "judge" /\ s.source = x /\ s.state = world.version[x] /\ s.left = chosen.left
          /\ SameRun(s, run[r]) /\ s.records = run[r].records /\ s.hits = run[r].hits
        BY <1>7 DEF RunShaped, SameRun
    <2>2. Update(r, s)
        BY <1>8
    <2> HIDE DEF s
    <2>3. Recorded(s.records) /\ Lawful(s, s.records)
        BY <1>3, <2>1 DEF SameRun, Lawful
    <2>4. \A y \in s.hits : Hit(s, world, y)
        BY <1>3, <2>1 DEF Hit, SameRun
    <2>5. Hitting(s, world)
        BY <1>3, <1>4, <1>7, <2>1, <2>4 DEF Hitting, SameRun
    <2>6. s.pc \in Choosing
        BY <2>1 DEF Choosing
    <2> QED BY <1>1, <2>1, <2>2, <2>3, <2>5, <2>6, ChoosingKeeps
<1>9. CASE Update(r, [chosen EXCEPT !.records[x] = None])
    <2> HIDE DEF chosen
    <2> DEFINE s == [chosen EXCEPT !.records[x] = None]
    <2>1. /\ s.pc = "next" /\ s.left = chosen.left /\ SameRun(s, run[r])
          /\ s.records = [run[r].records EXCEPT ![x] = None] /\ s.hits = run[r].hits
        BY <1>7 DEF RunShaped, SameRun
    <2>2. Update(r, s)
        BY <1>9
    <2> HIDE DEF s
    <2>3. s.config = run[r].config /\ s.at = run[r].at /\ s.first = run[r].first
        BY <2>1 DEF SameRun
    <2>4. Recorded(s.records) /\ Lawful(s, s.records)
        BY <1>3, <2>1, <2>3, RecordDropped
    <2>5. x \notin run[r].hits /\ \A y \in Sources \ {x} : s.records[y] = run[r].records[y]
        BY <1>3, <1>4, <2>1 DEF Recorded
    <2>6. \A y \in s.hits : Hit(s, world, y)
        BY <1>3, <2>1, <2>3, <2>5, HitsStay
    <2>7. Hitting(s, world)
        BY <1>4, <1>7, <2>1, <2>6 DEF Hitting
    <2>8. s.pc \in Choosing
        BY <2>1 DEF Choosing
    <2> QED BY <1>1, <2>1, <2>2, <2>4, <2>7, <2>8, ChoosingKeeps
<1> QED BY <1>2, <1>8, <1>9

LEMMA DropInforms ==
    ASSUME Informed, NEW r \in Writers, run[r].pc \in {"judge", "collected"}, Drop(r),
           UNCHANGED <<disk, world>>, Inv'
    PROVE  Informed'
<1> DEFINE x == run[r].source
           s == [run[r] EXCEPT !.pc = "next", !.records[x] = None,
                               !.source = None, !.state = None, !.content = None]
<1>1. run[r].pc \in Choosing
    BY DEF Choosing
<1>2. /\ RunShaped(run[r]) /\ Recorded(run[r].records) /\ Lawful(run[r], run[r].records)
      /\ Hitting(run[r], world) /\ \A y \in run[r].hits : Hit(run[r], world, y)
      /\ x \in Sources
    BY <1>1, ChoosingFacts DEF Looking
<1>3. run[r].hits \cap run[r].left = {} /\ x \notin run[r].hits
    BY <1>2 DEF Hitting
<1>4. /\ s.pc = "next" /\ s.left = run[r].left /\ SameRun(s, run[r])
      /\ s.records = [run[r].records EXCEPT ![x] = None] /\ s.hits = run[r].hits
    BY <1>2 DEF RunShaped, SameRun
<1>5. Update(r, s)
    BY DEF Drop
<1> HIDE DEF s, x
<1>6. s.config = run[r].config /\ s.at = run[r].at /\ s.first = run[r].first
    BY <1>4 DEF SameRun
<1>7. Recorded(s.records) /\ Lawful(s, s.records)
    BY <1>2, <1>4, <1>6, RecordDropped
<1>8. \A y \in Sources \ {x} : s.records[y] = run[r].records[y]
    BY <1>2, <1>4 DEF Recorded
<1>9. \A y \in s.hits : Hit(s, world, y)
    BY <1>2, <1>3, <1>4, <1>6, <1>8, HitsStay
<1>10. Hitting(s, world)
    BY <1>3, <1>4, <1>9 DEF Hitting
<1>11. s.pc \in Choosing
    BY <1>4 DEF Choosing
<1> QED BY <1>1, <1>4, <1>5, <1>7, <1>10, <1>11, ChoosingKeeps

\* A hit is what the probe has just seen.
LEMMA JudgeInforms ==
    ASSUME Informed, NEW r \in Writers, Judge(r), Inv'
    PROVE  Informed'
<1> DEFINE x == run[r].source
<1>1. run[r].pc = "judge" /\ run[r].pc \in Choosing /\ UNCHANGED <<disk, world>>
    BY DEF Judge, Sole, At, Choosing
<1>2. /\ RunShaped(run[r]) /\ Recorded(run[r].records) /\ Lawful(run[r], run[r].records)
      /\ Hitting(run[r], world) /\ \A y \in run[r].hits : Hit(run[r], world, y)
      /\ world.version \in [Sources -> Nat] /\ x \in Sources /\ run[r].state <= world.version[x]
    BY <1>1, ChoosingFacts DEF Looking
<1>3. /\ run[r].hits \cap run[r].left = {} /\ x \notin run[r].hits \cup run[r].left
      /\ run[r].state \in Nat /\ run[r].first[x] <= run[r].state
    BY <1>1, <1>2 DEF Hitting
<1>4. ASSUME Reusable(r, run[r].records[x]),
             Update(r, [run[r] EXCEPT !.pc = "next", !.hits = @ \cup {x},
                                      !.source = None, !.state = None])
      PROVE  Informed'
    <2> DEFINE s == [run[r] EXCEPT !.pc = "next", !.hits = @ \cup {x},
                                   !.source = None, !.state = None]
    <2>1. /\ s.pc = "next" /\ s.left = run[r].left /\ SameRun(s, run[r])
          /\ s.records = run[r].records /\ s.hits = run[r].hits \cup {x}
        BY <1>2 DEF RunShaped, SameRun
    <2>2. Update(r, s)
        BY <1>4
    <2> HIDE DEF s
    <2>3. Recorded(s.records) /\ Lawful(s, s.records)
        BY <1>2, <2>1 DEF SameRun, Lawful
    <2>4. Hit(s, world, x)
        BY <1>2, <1>3, <1>4, <2>1 DEF Hit, Reusable, SameRun
    <2>5. \A y \in s.hits : Hit(s, world, y)
        BY <1>2, <2>1, <2>4 DEF Hit, SameRun
    <2>6. Hitting(s, world)
        BY <1>3, <2>1, <2>5 DEF Hitting
    <2>7. s.pc \in Choosing
        BY <2>1 DEF Choosing
    <2> QED BY <1>1, <2>1, <2>2, <2>3, <2>6, <2>7, ChoosingKeeps
<1>5. ASSUME Update(r, [run[r] EXCEPT !.pc = "collected", !.records[x] = None,
                                      !.collected = @ + 1, !.content = world.version[x]])
      PROVE  Informed'
    <2> DEFINE s == [run[r] EXCEPT !.pc = "collected", !.records[x] = None,
                                   !.collected = @ + 1, !.content = world.version[x]]
    <2>1. /\ s.pc = "collected" /\ s.left = run[r].left /\ SameRun(s, run[r])
          /\ s.records = [run[r].records EXCEPT ![x] = None] /\ s.hits = run[r].hits
          /\ s.source = x /\ s.state = run[r].state /\ s.content = world.version[x]
        BY <1>2 DEF RunShaped, SameRun
    <2>2. Update(r, s)
        BY <1>5
    <2> HIDE DEF s, x
    <2>3. s.config = run[r].config /\ s.at = run[r].at /\ s.first = run[r].first
        BY <2>1 DEF SameRun
    <2>4. Recorded(s.records) /\ Lawful(s, s.records)
        BY <1>2, <2>1, <2>3, RecordDropped
    <2>5. \A y \in Sources \ {x} : s.records[y] = run[r].records[y]
        BY <1>2, <2>1 DEF Recorded
    <2>6. \A y \in s.hits : Hit(s, world, y)
        BY <1>2, <1>3, <2>1, <2>3, <2>5, HitsStay
    <2>7. Hitting(s, world)
        BY <1>2, <1>3, <2>1, <2>3, <2>6 DEF Hitting
    <2>8. s.pc \in Choosing
        BY <2>1 DEF Choosing
    <2> QED BY <1>1, <2>1, <2>2, <2>4, <2>7, <2>8, ChoosingKeeps
<1>6. CASE Drop(r)
    BY <1>1, <1>6, DropInforms
<1> QED BY <1>4, <1>5, <1>6 DEF Judge

\* A new record has the authority of the configuration, and ends after it was made.
LEMMA RecordIsLawful ==
    ASSUME NEW r, NEW expires \in Nat, run[r].at \in Nat, run[r].at < expires,
           run[r].config \in Configurations, run[r].source \in Sources,
           run[r].state \in Nat, run[r].content \in Nat
    PROVE  /\ Record(r, expires) \in CatalogRecords
           /\ Allowed(run[r].config, run[r].source, Record(r, expires))
           /\ ~Expired(Record(r, expires), run[r].at)
<1>1. run[r].config.identity \in Identities
    BY DEF Identities
<1>2. run[r].config.authority[run[r].source] \in Authorities
    BY DEF Authorities
<1> QED BY <1>1, <1>2 DEF Record, CatalogRecords, Allowed, Expired

LEMMA RecordMade ==
    ASSUME NEW s, NEW t, NEW x \in Sources, NEW record \in CatalogRecords,
           Recorded(t.records), Lawful(t, t.records), Allowed(t.config, x, record),
           ~Expired(record, t.at), s.config = t.config, s.at = t.at,
           s.records = [t.records EXCEPT ![x] = record]
    PROVE  Recorded(s.records) /\ Lawful(s, s.records)
BY DEF Recorded, Lawful

LEMMA CollectedInforms ==
    ASSUME Informed, NEW r \in Writers, Collected(r), Inv'
    PROVE  Informed'
<1> DEFINE x == run[r].source
<1>1. run[r].pc = "collected" /\ run[r].pc \in Choosing /\ UNCHANGED <<disk, world>>
    BY DEF Collected, Sole, At, Choosing
<1>2. CASE Drop(r)
    BY <1>1, <1>2, DropInforms
<1>3. /\ RunShaped(run[r]) /\ Recorded(run[r].records) /\ Lawful(run[r], run[r].records)
      /\ Hitting(run[r], world) /\ \A y \in run[r].hits : Hit(run[r], world, y)
      /\ x \in Sources /\ run[r].at \in Nat /\ run[r].config \in Configurations
    BY <1>1, ChoosingFacts DEF Looking
<1>4. /\ run[r].hits \cap run[r].left = {} /\ x \notin run[r].hits
      /\ run[r].state \in Nat /\ run[r].content \in Nat
    BY <1>1, <1>3 DEF Hitting
<1>5. ASSUME NEW expires \in {run[r].at + 1, run[r].at + Lifetime},
             Update(r, [run[r] EXCEPT !.pc = "next", !.source = None, !.state = None,
                           !.content = None, !.records[x] = Record(r, expires)])
      PROVE  Informed'
    <2> DEFINE record == Record(r, expires)
               s == [run[r] EXCEPT !.pc = "next", !.source = None, !.state = None,
                           !.content = None, !.records[x] = record]
    <2>1. expires \in Nat /\ run[r].at < expires
        BY <1>3, CatalogAssumption
    <2>2. /\ record \in CatalogRecords /\ Allowed(run[r].config, x, record)
          /\ ~Expired(record, run[r].at)
        BY <1>3, <1>4, <2>1, RecordIsLawful
    <2>3. Update(r, s)
        BY <1>5
    <2> HIDE DEF record
    <2>4. /\ s.pc = "next" /\ s.left = run[r].left /\ SameRun(s, run[r])
          /\ s.records = [run[r].records EXCEPT ![x] = record] /\ s.hits = run[r].hits
        BY <1>3 DEF RunShaped, SameRun
    <2> HIDE DEF s, x
    <2>5. s.config = run[r].config /\ s.at = run[r].at /\ s.first = run[r].first
        BY <2>4 DEF SameRun
    <2>6. Recorded(s.records) /\ Lawful(s, s.records)
        BY <1>3, <2>2, <2>4, <2>5, RecordMade
    <2>7. \A y \in Sources \ {x} : s.records[y] = run[r].records[y]
        BY <1>3, <2>4 DEF Recorded
    <2>8. \A y \in s.hits : Hit(s, world, y)
        BY <1>3, <1>4, <2>4, <2>5, <2>7, HitsStay
    <2>9. Hitting(s, world)
        BY <1>4, <2>4, <2>8 DEF Hitting
    <2>10. s.pc \in Choosing
        BY <2>4 DEF Choosing
    <2> QED BY <1>1, <2>3, <2>4, <2>6, <2>9, <2>10, ChoosingKeeps
<1> QED BY <1>2, <1>5 DEF Collected

\* What is dropped in the end is no hit any more.
LEMMA SettleInforms ==
    ASSUME Informed, NEW r \in Writers, Settle(r), Inv'
    PROVE  Informed'
<1> DEFINE stale == {x \in run[r].hits : ~Fresh(run[r].records[x])}
           expired == {x \in Kept(run[r].records) : run[r].records[x].expires <= world.now}
           records == [x \in Sources |->
                         IF x \in stale \cup expired THEN None ELSE run[r].records[x]]
           s == [run[r] EXCEPT !.pc = "save", !.hits = @ \ stale, !.records = records]
<1>1. run[r].pc = "next" /\ run[r].pc \in Choosing /\ UNCHANGED <<disk, world>>
    BY DEF Settle, Sole, At, Choosing
<1>2. CASE Fail(r)
    BY <1>1, <1>2, EndInforms DEF Fail
<1>3. CASE Update(r, s)
    <2>1. /\ RunShaped(run[r]) /\ Recorded(run[r].records) /\ Lawful(run[r], run[r].records)
          /\ Hitting(run[r], world) /\ \A y \in run[r].hits : Hit(run[r], world, y)
          /\ world.now \in Nat
        BY <1>1, ChoosingFacts
    <2>2. Recorded(records)
        BY <2>1 DEF Recorded
    <2>3. ASSUME NEW x \in Sources, records[x] # None
          PROVE  records[x] = run[r].records[x]
        BY <2>3
    <2>4. ASSUME NEW x \in run[r].hits \ stale
          PROVE  records[x] = run[r].records[x]
        <3>1. x \in Sources /\ run[r].records[x] \in CatalogRecords /\ Fresh(run[r].records[x])
            BY <2>1, <2>4 DEF Hit, Recorded
        <3>2. ~(run[r].records[x].expires <= world.now)
            BY <2>1, <3>1 DEF Fresh, CatalogRecords
        <3> QED BY <2>4, <3>1, <3>2
    <2> HIDE DEF stale, records
    <2>5. /\ s.pc = "save" /\ SameRun(s, run[r]) /\ s.records = records
          /\ s.hits = run[r].hits \ stale
        BY <2>1 DEF RunShaped, SameRun
    <2> HIDE DEF s
    <2>6. Recorded(s.records) /\ Lawful(s, s.records)
        BY <2>1, <2>2, <2>3, <2>5 DEF SameRun, Lawful
    <2>7. \A y \in s.hits : Hit(s, world, y)
        BY <2>1, <2>4, <2>5 DEF Hit, SameRun
    <2>8. Hitting(s, world)
        BY <2>5, <2>7 DEF Hitting
    <2>9. s.pc \in Choosing
        BY <2>5 DEF Choosing
    <2> QED BY <1>1, <1>3, <2>5, <2>6, <2>8, <2>9, ChoosingKeeps
<1> QED BY <1>2, <1>3 DEF Settle

\* A step to the next label.
LEMMA AdvanceInforms ==
    ASSUME Informed, NEW r \in Writers, NEW label \in {"staged", "activate"},
           Update(r, [run[r] EXCEPT !.pc = label]), Inv', UNCHANGED world,
           disk'.generations = disk.generations, run[r].pc \in {"save", "staged"}
    PROVE  Informed'
<1> DEFINE s == [run[r] EXCEPT !.pc = label]
<1>1. run[r].pc \in Choosing
    BY DEF Choosing
<1>2. /\ RunShaped(run[r]) /\ Recorded(run[r].records) /\ Lawful(run[r], run[r].records)
      /\ \A y \in run[r].hits : Hit(run[r], world, y)
    BY <1>1, ChoosingFacts
<1>3. s.pc = label /\ SameRun(s, run[r]) /\ s.records = run[r].records /\ s.hits = run[r].hits
    BY <1>2 DEF RunShaped, SameRun
<1>4. Update(r, s)
    OBVIOUS
<1> HIDE DEF s
<1>5. Recorded(s.records) /\ Lawful(s, s.records)
    BY <1>2, <1>3 DEF SameRun, Lawful
<1>6. \A y \in s.hits : Hit(s, world, y)
    BY <1>2, <1>3 DEF Hit, SameRun
<1>7. Hitting(s, world) /\ s.pc \in Choosing
    BY <1>3, <1>6 DEF Hitting, Choosing
<1> QED BY <1>1, <1>3, <1>4, <1>5, <1>7, ChoosingKeeps

LEMMA StageInforms ==
    ASSUME Informed, NEW r \in Writers, Stage(r), Inv'
    PROVE  Informed'
<1>1. disk'.generations = disk.generations
    BY DEF Stage, Informed, Inv, DiskGood, DiskShaped
<1> QED BY <1>1, AdvanceInforms, EndInforms DEF Stage, Sole, At, Fail

LEMMA BeforeActivateInforms ==
    ASSUME Informed, NEW r \in Writers, BeforeActivate(r), Inv'
    PROVE  Informed'
BY AdvanceInforms, EndInforms DEF BeforeActivate, Sole, At, Fail

\* The new generation follows all that the run knows.
LEMMA NextIsNewest ==
    ASSUME NEW r, run[r].names \subseteq Generations
    PROVE  NextGeneration(r) \in Nat /\ \A g \in run[r].names : g < NextGeneration(r)
<1> DEFINE names == run[r].names
           bounds == {-1} \cup names
<1>1. \E x \in bounds : \A y \in bounds : x >= y
    <2>1. CASE names = {}
        BY <2>1
    <2>2. CASE names # {}
        <3>1. PICK x \in names : \A y \in names : y <= x
            BY <2>2, GreatestExists, CatalogAssumption DEF Generations
        <3>2. x \in Nat /\ \A y \in names : y \in Nat
            BY CatalogAssumption DEF Generations
        <3>3. \A y \in bounds : x >= y
            BY <3>1, <3>2
        <3> QED BY <3>3
    <2> QED BY <2>1, <2>2
<1>2. Max(bounds) \in bounds /\ \A y \in bounds : Max(bounds) >= y
    BY <1>1 DEF Max
<1>3. \A g \in names : g \in Nat
    BY CatalogAssumption DEF Generations
<1>4. NextGeneration(r) = Max(bounds) + 1
    BY DEF NextGeneration
<1> HIDE DEF names, bounds
<1>5. Max(bounds) \in {-1} \cup names /\ \A y \in names : Max(bounds) >= y
    BY <1>2 DEF bounds
<1>6. Max(bounds) \in Int /\ Max(bounds) >= -1
    BY <1>3, <1>5
<1> QED BY <1>3, <1>4, <1>5, <1>6 DEF names

LEMMA ActivateInforms ==
    ASSUME Informed, NEW r \in Writers, Activate(r), Inv'
    PROVE  Informed'
<1> DEFINE next == NextGeneration(r)
           written == Envelope(r)
           fallback == Fallback(r)
           left == run[r].names \ fallback
           s == [run[r] EXCEPT !.pc = "verify", !.left = left, !.selected = None,
                               !.previous = NoRecords]
<1>1. run[r].pc = "activate" /\ run[r].pc \in Choosing /\ UNCHANGED world
    BY DEF Activate, Sole, At, Choosing
<1>2. /\ Facts(run[r], disk.generations, world) /\ GensTyped(disk.generations)
      /\ DiskShaped(disk) /\ RunShaped(run[r])
      /\ Recorded(run[r].records) /\ Lawful(run[r], run[r].records)
      /\ \A y \in run[r].hits : Hit(run[r], world, y)
      /\ run[r].config \in Configurations
    BY <1>1, ChoosingFacts DEF Informed, Inv, DiskGood
<1>3. disk' = [disk EXCEPT !.generations[next] = written] /\ Update(r, s)
    BY DEF Activate
<1>4. /\ run[r].names \subseteq Generations
      /\ \A g \in Generations : disk.generations[g] # None => g \in run[r].names
      /\ run[r].selected = None => run[r].previous = NoRecords
      /\ run[r].selected # None =>
            /\ run[r].selected \in Generations
            /\ disk.generations[run[r].selected] \notin {None, Bad} =>
                  disk.generations[run[r].selected].records = run[r].previous
    BY <1>1, <1>2 DEF Facts, Knowing, Examined, Writing, Activated, Unseen
<1>5. next \in Generations /\ \A g \in run[r].names : g < next
    BY <1>4, NextIsNewest, CatalogAssumption DEF Activate, Generations
<1>6. written \in Envelopes /\ written.records = run[r].records
    BY <1>2 DEF Envelope, Envelopes, Identities, Recorded
<1>7. fallback \subseteq {run[r].selected} \ {None}
    BY DEF Fallback
<1>8. fallback # {} => Kept(run[r].previous) \subseteq Kept(run[r].records)
    BY DEF Fallback, Kept
<1>9. \A g \in Generations : disk.generations[g] # None /\ g \notin left => g \in fallback
    BY <1>4
<1>10. left \subseteq run[r].names
    OBVIOUS
<1>11. \A g \in fallback : g \notin left
    OBVIOUS
<1> HIDE DEF next, written, fallback, left
<1>12. /\ s.pc = "verify" /\ s.left = left /\ s.verdict = run[r].verdict
       /\ s.command = run[r].command /\ s.config = run[r].config /\ s.at = run[r].at
       /\ s.first = run[r].first /\ s.hits = run[r].hits
       /\ s.previous = NoRecords /\ s.records = run[r].records
    BY <1>2 DEF RunShaped
<1> HIDE DEF s
<1> DEFINE gens == disk'.generations
<1>13. gens = [disk.generations EXCEPT ![next] = written]
    BY <1>2, <1>3 DEF DiskShaped
<1>14. \A g \in Generations : gens[g] = IF g = next THEN written ELSE disk.generations[g]
    BY <1>2, <1>13 DEF GensTyped
<1>15. GensTyped(gens)
    BY <1>2, <1>5, <1>6, <1>13 DEF GensTyped
<1> HIDE DEF gens
<1>16. \A records : Lawful(s, records) <=> Lawful(run[r], records)
    BY <1>12 DEF Lawful
<1>17. Begun(s, world) /\ OnTask(s) /\ Silent(s)
    BY <1>1, <1>2, <1>12 DEF Facts, Begun, Busy, OnTask, Silent, Writing, Activated
<1>18. Holding(s)
    BY <1>2, <1>12, <1>16, NothingRecorded DEF Holding
<1>19. \A g \in Generations \ left : gens[g] \notin {None, Bad} =>
           g = next \/ (g \in fallback /\ gens[g] = disk.generations[g])
    BY <1>9, <1>14
<1>20. Clean(s, gens)
    <2>1. ASSUME NEW g \in Generations \ left, gens[g] \notin {None, Bad}, Keeping(s)
          PROVE  Lawful(s, gens[g].records)
        <3>1. CASE g = next
            BY <3>1, <1>2, <1>6, <1>14, <1>16
        <3>2. CASE gens[g] = disk.generations[g]
            <4>1. Keeping(run[r])
                BY <2>1, <1>12 DEF Keeping
            <4>2. Lawful(run[r], disk.generations[g].records)
                BY <4>1, <3>2, <2>1, <1>1, <1>2 DEF Facts, Clean, Examined, Writing, Activated,
                   Unseen
            <4> QED BY <4>2, <3>2, <1>16
        <3> QED BY <2>1, <3>1, <3>2, <1>19
    <2> QED BY <2>1, <1>12 DEF Clean, Unseen, Activated
<1>21. Pruned(s, gens)
    <2>1. PICK old \in Generations : fallback \subseteq {old}
        BY <1>4, <1>5, <1>7
    <2>2. gens[next] # None
        BY <1>5, <1>6, <1>14, EnvelopeAssumption
    <2>3. \A g \in Generations : gens[g] # None => g \in {next, old} \cup left
        BY <2>1, <1>9, <1>14
    <2>4. ASSUME NEW g \in Generations \ left, gens[g] \notin {None, Bad}
          PROVE  Kept(gens[g].records) \subseteq Kept(run[r].records)
        <3>1. CASE g = next
            BY <3>1, <1>5, <1>6, <1>14
        <3>2. CASE g \in fallback /\ gens[g] = disk.generations[g]
            BY <3>2, <2>4, <1>4, <1>7, <1>8
        <3> QED BY <2>4, <3>1, <3>2, <1>19
    <2>5. left \subseteq Generations /\ \A g \in left : g < next
        BY <1>4, <1>5, <1>10
    <2> QED BY <2>2, <2>3, <2>4, <2>5, <1>5, <1>12 DEF Pruned, Activated
<1>22. \A y \in s.hits : Hit(s, world, y)
    BY <1>2, <1>12 DEF Hit
<1>23. Hitting(s, world) /\ Knowing(s, gens)
    BY <1>12, <1>22 DEF Hitting, Knowing, Activated
<1>24. Facts(s, gens, world)
    BY <1>17, <1>18, <1>20, <1>21, <1>23 DEF Facts
<1>25. run[r].pc \notin Outside
    BY <1>1 DEF Outside
<1> QED BY <1>1, <1>3, <1>15, <1>24, <1>25, FactsSuffice DEF gens

\* What is known after the activation does not depend on its staging file.
LEMMA ActivatedInforms ==
    ASSUME Informed, NEW r \in Writers, NEW s, Update(r, s), Inv', UNCHANGED world,
           disk'.generations = disk.generations, run[r].pc \in Activated, s.pc \in Activated,
           s.left = run[r].left, s.verdict = run[r].verdict, s.command = run[r].command,
           s.config = run[r].config, s.at = run[r].at, s.first = run[r].first,
           s.hits = run[r].hits, s.previous = run[r].previous, s.records = run[r].records
    PROVE  Informed'
<1>1. Facts(run[r], disk.generations, world)
    BY DEF Informed
<1>2. \A records : Lawful(s, records) <=> Lawful(run[r], records)
    BY DEF Lawful
<1>3. Begun(s, world) /\ OnTask(s) /\ Silent(s) /\ Holding(s)
    BY <1>1, <1>2 DEF Facts, Begun, Busy, OnTask, Silent, Holding, Keeping, Writing, Activated
<1>4. Clean(s, disk.generations)
    BY <1>1, <1>2 DEF Facts, Clean, Unseen, Keeping, Examined, Writing
<1>5. Pruned(s, disk.generations)
    BY <1>1 DEF Facts, Pruned
<1>6. \A y \in s.hits : Hit(s, world, y)
    BY <1>1 DEF Facts, Hitting, Writing, Hit
<1>7. Hitting(s, world) /\ Knowing(s, disk.generations)
    BY <1>6 DEF Hitting, Knowing, Activated
<1>8. Facts(s, disk.generations, world)
    BY <1>3, <1>4, <1>5, <1>7 DEF Facts
<1> QED BY <1>8, FactsSuffice DEF Informed

LEMMA VerifyInforms ==
    ASSUME Informed, NEW r \in Writers, Verify(r), Inv'
    PROVE  Informed'
<1> DEFINE s == [run[r] EXCEPT !.pc = "unstage"]
<1>1. RunShaped(run[r]) /\ run[r].pc = "verify" /\ UNCHANGED <<disk, world>>
    BY DEF Informed, Inv, RunGood, Verify, Sole, At
<1>2. CASE Fail(r)
    BY <1>1, <1>2, EndInforms DEF Fail
<1>3. CASE Update(r, s)
    <2>1. /\ s.pc = "unstage" /\ s.left = run[r].left /\ s.verdict = run[r].verdict
          /\ s.command = run[r].command /\ s.config = run[r].config /\ s.at = run[r].at
          /\ s.first = run[r].first /\ s.hits = run[r].hits
          /\ s.previous = run[r].previous /\ s.records = run[r].records
        BY <1>1 DEF RunShaped
    <2> HIDE DEF s
    <2>2. run[r].pc \in Activated /\ s.pc \in Activated
        BY <1>1, <2>1 DEF Activated
    <2> QED BY <1>1, <1>3, <2>1, <2>2, ActivatedInforms
<1> QED BY <1>2, <1>3 DEF Verify

LEMMA UnstageInforms ==
    ASSUME Informed, NEW r \in Writers, Unstage(r), Inv'
    PROVE  Informed'
<1> DEFINE s == [run[r] EXCEPT !.pc = "prune", !.names = {}]
<1>1. /\ RunShaped(run[r]) /\ run[r].pc = "unstage" /\ UNCHANGED world /\ Update(r, s)
      /\ disk'.generations = disk.generations
    BY DEF Informed, Inv, RunGood, DiskGood, DiskShaped, Unstage, Sole, At
<1>2. /\ s.pc = "prune" /\ s.left = run[r].left /\ s.verdict = run[r].verdict
      /\ s.command = run[r].command /\ s.config = run[r].config /\ s.at = run[r].at
      /\ s.first = run[r].first /\ s.hits = run[r].hits
      /\ s.previous = run[r].previous /\ s.records = run[r].records
    BY <1>1 DEF RunShaped
<1> HIDE DEF s
<1>3. run[r].pc \in Activated /\ s.pc \in Activated
    BY <1>1, <1>2 DEF Activated
<1> QED BY <1>1, <1>2, <1>3, ActivatedInforms

LEMMA PruneInforms ==
    ASSUME Informed, NEW r \in Writers, Prune(r), Inv'
    PROVE  Informed'
<1> DEFINE g == Max(run[r].left)
           s == [run[r] EXCEPT !.left = @ \ {g}]
           gens == disk'.generations
<1>1. /\ run[r].pc = "prune" /\ UNCHANGED world /\ run[r].left # {}
      /\ disk' = [disk EXCEPT !.generations[g] = None] /\ Update(r, s)
    BY DEF Prune, Sole, At
<1>2. /\ Facts(run[r], disk.generations, world) /\ GensTyped(disk.generations)
      /\ DiskShaped(disk) /\ RunShaped(run[r])
    BY DEF Informed, Inv, DiskGood, RunGood
<1>3. PICK new, old \in Generations :
         /\ disk.generations[new] # None
         /\ run[r].left \subseteq Generations
         /\ \A h \in run[r].left : h < new
         /\ \A h \in Generations : disk.generations[h] # None => h \in {new, old} \cup run[r].left
         /\ \A h \in Generations \ run[r].left : disk.generations[h] \notin {None, Bad} =>
               Kept(disk.generations[h].records) \subseteq Kept(run[r].records)
    BY <1>1, <1>2 DEF Facts, Pruned, Activated
<1>4. g \in run[r].left
    BY <1>1, <1>3, MaxFacts, CatalogAssumption DEF Generations
<1>5. g < new /\ g \in Generations /\ g # new
    BY <1>3, <1>4, CatalogAssumption DEF Generations
<1> HIDE DEF g
<1>6. /\ s.pc = "prune" /\ s.left = run[r].left \ {g} /\ s.verdict = run[r].verdict
      /\ s.command = run[r].command /\ s.config = run[r].config /\ s.at = run[r].at
      /\ s.first = run[r].first /\ s.hits = run[r].hits
      /\ s.previous = run[r].previous /\ s.records = run[r].records
    BY <1>1, <1>2 DEF RunShaped
<1> HIDE DEF s
<1>7. gens = [disk.generations EXCEPT ![g] = None]
    BY <1>1, <1>2 DEF DiskShaped
<1>8. \A h \in Generations : gens[h] = IF h = g THEN None ELSE disk.generations[h]
    BY <1>2, <1>7 DEF GensTyped
<1>9. GensTyped(gens)
    BY <1>2, <1>7 DEF GensTyped
<1> HIDE DEF gens
<1>10. \A records : Lawful(s, records) <=> Lawful(run[r], records)
    BY <1>6 DEF Lawful
<1>11. Begun(s, world) /\ OnTask(s) /\ Silent(s) /\ Holding(s)
    BY <1>1, <1>2, <1>6, <1>10 DEF Facts, Begun, Busy, OnTask, Silent, Holding, Keeping, Writing,
       Activated
<1>12. Clean(s, gens)
    <2>1. ASSUME NEW h \in Generations \ s.left, gens[h] \notin {None, Bad}, Keeping(s)
          PROVE  Lawful(s, gens[h].records)
        <3>1. h \in Generations \ run[r].left /\ gens[h] = disk.generations[h] /\ Keeping(run[r])
            BY <2>1, <1>6, <1>8 DEF Keeping
        <3>2. Lawful(run[r], disk.generations[h].records)
            BY <3>1, <2>1, <1>1, <1>2 DEF Facts, Clean, Examined, Writing, Activated,
               Unseen
        <3> QED BY <3>1, <3>2, <1>10
    <2> QED BY <2>1, <1>6 DEF Clean, Unseen, Activated
<1>13. Pruned(s, gens)
    <2>1. gens[new] # None /\ s.left \subseteq Generations /\ \A h \in s.left : h < new
        BY <1>3, <1>5, <1>6, <1>8
    <2>2. \A h \in Generations : gens[h] # None => h \in {new, old} \cup s.left
        BY <1>3, <1>6, <1>8
    <2>3. \A h \in Generations \ s.left : gens[h] \notin {None, Bad} =>
             Kept(gens[h].records) \subseteq Kept(s.records)
        BY <1>3, <1>6, <1>8
    <2> QED BY <2>1, <2>2, <2>3 DEF Pruned, Activated
<1>14. \A y \in s.hits : Hit(s, world, y)
    BY <1>1, <1>2, <1>6 DEF Facts, Hitting, Writing, Activated, Hit
<1>15. Hitting(s, world) /\ Knowing(s, gens)
    BY <1>6, <1>14 DEF Hitting, Knowing, Activated
<1>16. Facts(s, gens, world)
    BY <1>11, <1>12, <1>13, <1>15 DEF Facts
<1>17. run[r].pc \notin Outside
    BY <1>1 DEF Outside
<1> QED BY <1>1, <1>9, <1>16, <1>17, FactsSuffice DEF gens

LEMMA ConfirmInforms ==
    ASSUME Informed, NEW r \in Writers, Confirm(r), Inv'
    PROVE  Informed'
BY EndInforms DEF Confirm, Sole, Fail

-----------------------------------------------------------------------------
(* Deletion and the environment *)

\* A deletion relies on nothing it has read.
LEMMA DeletingKnows ==
    ASSUME NEW s, NEW gens, NEW gens2, NEW w, Facts(s, gens, w), s.pc \notin Examined
    PROVE  Facts(s, gens2, w)
BY DEF Facts, Clean, Knowing, Pruned, Examined, Writing, Activated

LEMMA DeleteInforms ==
    ASSUME Informed, NEW r \in Writers, Delete(r), Inv'
    PROVE  Informed'
<1>1. CASE UNCHANGED disk /\ Fail(r)
    BY <1>1, EndInforms DEF Fail, Delete, Sole
<1>2. CASE disk' = [disk EXCEPT !.barrier = TRUE] /\ Update(r, [run[r] EXCEPT !.pc = "clear"])
    <2> DEFINE s == [run[r] EXCEPT !.pc = "clear"]
    <2>1. /\ RunShaped(run[r]) /\ run[r].pc = "delete" /\ DiskShaped(disk)
          /\ Facts(run[r], disk.generations, world)
        BY DEF Informed, Inv, RunGood, DiskGood, Delete, Sole, At
    <2>2. /\ s.pc = "clear" /\ s.verdict = run[r].verdict /\ s.command = run[r].command
          /\ s.config = run[r].config /\ s.at = run[r].at /\ s.first = run[r].first
          /\ s.previous = run[r].previous /\ s.records = run[r].records
        BY <2>1 DEF RunShaped
    <2>3. disk'.generations = disk.generations
        BY <1>2, <2>1 DEF DiskShaped
    <2>4. Update(r, s)
        BY <1>2
    <2> HIDE DEF s
    <2>5. Begun(s, world) /\ Holding(s)
        BY <2>1, <2>2 DEF Facts, Begun, Busy, Holding, Keeping, Lawful
    <2>6. Facts(s, disk.generations, world)
        BY <2>1, <2>2, <2>5 DEF Facts, OnTask, Writing, Activated, Clean, Examined, Knowing,
           Pruned, Hitting, Silent
    <2> QED BY <2>3, <2>4, <2>6, FactsSuffice DEF Delete, Sole, Informed
<1> QED BY <1>1, <1>2 DEF Delete

LEMMA ClearInforms ==
    ASSUME Informed, NEW r \in Writers, Clear(r), Inv'
    PROVE  Informed'
<1>1. run[r].pc = "clear" /\ UNCHANGED world /\ run[r].pc \notin Outside
    BY DEF Clear, Sole, At, Outside
<1>2. CASE UNCHANGED disk /\ End(r, "deleted")
    BY <1>1, <1>2, EndInforms
<1>3. ASSUME NEW g \in Present, disk' = [disk EXCEPT !.generations[g] = None], UNCHANGED run
      PROVE  Informed'
    <2>1. disk'.generations = [disk.generations EXCEPT ![g] = None]
        BY <1>3 DEF Informed, Inv, DiskGood, DiskShaped
    <2>2. GensTyped(disk'.generations)
        BY <2>1 DEF GensTyped, Informed
    <2>3. Facts(run[r], disk'.generations, world)
        BY <1>1, DeletingKnows DEF Informed, Examined, Writing, Activated
    <2>4. ASSUME NEW q \in Writers, q # r
          PROVE  Facts(run[q], disk'.generations, world)
        BY <1>1, <2>4, Alone, OutsideKnows DEF Informed
    <2> QED BY <1>1, <1>3, <2>2, <2>3, <2>4 DEF Informed
<1> QED BY <1>2, <1>3 DEF Clear

LEMMA CrashInforms ==
    ASSUME Informed, NEW r \in Writers, Crash(r), Inv'
    PROVE  Informed'
BY IdleInforms DEF Crash

LEMMA RecoverInforms ==
    ASSUME Informed, Recover, Inv'
    PROVE  Informed'
<1>1. disk'.generations = disk.generations
    BY DEF Recover, Informed, Inv, DiskGood, DiskShaped
<1> QED BY <1>1 DEF Recover, Informed

\* Damage takes nothing away from what a run relies on.
LEMMA DamageInforms ==
    ASSUME Informed, NEW g \in Generations, Damage(g), Inv'
    PROVE  Informed'
<1> DEFINE gens == disk'.generations
<1>1. gens = [disk.generations EXCEPT ![g] = Bad]
    BY DEF Damage, Informed, Inv, DiskGood, DiskShaped
<1>2. disk.generations[g] # None /\ GensTyped(disk.generations)
    BY DEF Damage, Present, Informed
<1>3. \A h \in Generations : gens[h] = IF h = g THEN Bad ELSE disk.generations[h]
    BY <1>1, <1>2 DEF GensTyped
<1>4. GensTyped(gens)
    BY <1>1, <1>2 DEF GensTyped
<1> HIDE DEF gens
<1>5. /\ \A h \in Generations : gens[h] # None <=> disk.generations[h] # None
      /\ \A h \in Generations : gens[h] \notin {None, Bad} => gens[h] = disk.generations[h]
    BY <1>2, <1>3, CatalogAssumption
<1>6. ASSUME NEW q \in Writers
      PROVE  Facts(run[q], gens, world)
    <2> DEFINE s == run[q]
    <2>1. Facts(s, disk.generations, world)
        BY DEF Informed
    <2> HIDE DEF s
    <2>2. Clean(s, gens)
        BY <2>1, <1>5 DEF Facts, Clean
    <2>3. Knowing(s, gens)
        BY <2>1, <1>5 DEF Facts, Knowing
    <2>4. Pruned(s, gens)
        <3>1. ASSUME s.pc \in Activated PROVE Pruned(s, gens)
            <4>1. PICK new, old \in Generations :
                     /\ disk.generations[new] # None
                     /\ s.left \subseteq Generations
                     /\ \A h \in s.left : h < new
                     /\ \A h \in Generations : disk.generations[h] # None =>
                           h \in {new, old} \cup s.left
                     /\ \A h \in Generations \ s.left : disk.generations[h] \notin {None, Bad} =>
                           Kept(disk.generations[h].records) \subseteq Kept(s.records)
                BY <2>1, <3>1 DEF Facts, Pruned
            <4>2. gens[new] # None
                BY <4>1, <1>5
            <4>3. \A h \in Generations : gens[h] # None => h \in {new, old} \cup s.left
                BY <4>1, <1>5
            <4>4. \A h \in Generations \ s.left : gens[h] \notin {None, Bad} =>
                     Kept(gens[h].records) \subseteq Kept(s.records)
                BY <4>1, <1>5
            <4> QED BY <4>1, <4>2, <4>3, <4>4 DEF Pruned
        <3> QED BY <3>1 DEF Pruned
    <2>5. Facts(s, gens, world)
        BY <2>1, <2>2, <2>3, <2>4 DEF Facts
    <2> QED BY <2>5 DEF s
<1> QED BY <1>4, <1>6 DEF Damage, Informed, gens

\* Versions only grow.
LEMMA WorldInforms ==
    ASSUME Informed, UNCHANGED <<disk, run>>, WorldTyped(world'), Inv',
           \A s \in Sources : world.version[s] <= world'.version[s]
    PROVE  Informed'
<1>1. ASSUME NEW q \in Writers
      PROVE  Facts(run[q], disk.generations, world')
    <2>1. /\ Facts(run[q], disk.generations, world) /\ WorldTyped(world)
        BY DEF Informed
    <2>2. Begun(run[q], world')
        BY <2>1 DEF Facts, Begun, WorldTyped
    <2>3. ASSUME NEW x \in run[q].hits, Hit(run[q], world, x)
          PROVE  Hit(run[q], world', x)
        <3>1. run[q].records[x] \in CatalogRecords
            BY <2>1, <2>3 DEF Hit, Facts, Holding, Recorded
        <3>2. run[q].records[x].state \in Nat
            BY <3>1 DEF CatalogRecords
        <3> QED BY <2>1, <2>3, <3>2 DEF Hit, WorldTyped
    <2>4. Hitting(run[q], world')
        BY <2>1, <2>3 DEF Facts, Hitting
    <2> QED BY <2>1, <2>2, <2>4 DEF Facts
<1> QED BY <1>1 DEF Informed

LEMMA EnvironmentInforms ==
    ASSUME Informed, Environment, Inv'
    PROVE  Informed'
<1>1. WorldShaped(world) /\ WorldTyped(world)
    BY DEF Informed, Inv, WorldGood
<1>2. ASSUME NEW s \in Sources, Change(s)
      PROVE  Informed'
    <2>1. WorldTyped(world') /\ \A q \in Sources : world.version[q] <= world'.version[q]
        BY <1>1, <1>2 DEF Change, WorldTyped, WorldShaped
    <2> QED BY <1>2, <2>1, WorldInforms DEF Change
<1>3. CASE Tick
    <2>1. WorldTyped(world') /\ world'.version = world.version
        BY <1>1, <1>3 DEF Tick, WorldTyped, WorldShaped
    <2>2. \A s \in Sources : world.version[s] <= world'.version[s]
        BY <1>1, <2>1 DEF WorldTyped
    <2> QED BY <1>3, <2>1, <2>2, WorldInforms DEF Tick
<1>4. ASSUME NEW config \in Configurations, Edit(config)
      PROVE  Informed'
    <2>1. WorldTyped(world') /\ world'.version = world.version
        BY <1>1, <1>4 DEF Edit, WorldTyped, WorldShaped
    <2>2. \A s \in Sources : world.version[s] <= world'.version[s]
        BY <1>1, <2>1 DEF WorldTyped
    <2> QED BY <1>4, <2>1, <2>2, WorldInforms DEF Edit
<1> QED BY <1>2, <1>3, <1>4, RecoverInforms, DamageInforms DEF Environment

LEMMA InitInforms == Init => Informed
<1> SUFFICES ASSUME Init PROVE Informed
    OBVIOUS
<1>1. GensTyped(disk.generations)
    BY DEF Init, GensTyped
<1>2. WorldTyped(world)
    BY DEF Init, WorldTyped
<1> QED BY <1>1, <1>2, InitGood, IdleFacts DEF Init, Informed

LEMMA NextInforms == Informed /\ [Next]_catalogVars => Informed'
<1> SUFFICES ASSUME Informed, [Next]_catalogVars PROVE Informed'
    OBVIOUS
<1>1. Inv'
    BY NextKeeps DEF Informed
<1>2. ASSUME NEW r \in Writers, Transaction(r)
      PROVE  Informed'
    BY <1>1, <1>2, IdleInforms, TakeLockInforms, ScanInforms, ExamineInforms, OpenInforms,
       BreakInforms, ReleaseInforms DEF Transaction, Refuse, Sole
<1>3. ASSUME NEW r \in Writers, Select(r)
      PROVE  Informed'
    BY <1>1, <1>3, ChooseInforms, ProbeInforms, JudgeInforms, CollectedInforms, SettleInforms
       DEF Select
<1>4. ASSUME NEW r \in Writers, Save(r)
      PROVE  Informed'
    BY <1>1, <1>4, StageInforms, BeforeActivateInforms, ActivateInforms, VerifyInforms,
       UnstageInforms, PruneInforms, ConfirmInforms DEF Save
<1>5. ASSUME NEW r \in Writers, NEW command \in Duties[r], Begin(r, command)
      PROVE  Informed'
    <2>1. command \in Commands
        BY CatalogAssumption
    <2> QED BY <1>1, <1>5, <2>1, BeginInforms
<1>6. CASE UNCHANGED catalogVars
    BY <1>1, <1>6 DEF catalogVars, Informed
<1> QED BY <1>1, <1>2, <1>3, <1>4, <1>5, <1>6, ExportInforms, DeleteInforms, ClearInforms,
           CrashInforms, EnvironmentInforms DEF Next

LEMMA InformedHolds == Spec => []Informed
BY InitInforms, NextInforms, PTL DEF Spec

-----------------------------------------------------------------------------
(* What an answer and a removal mean *)

\* The step of a run is the step of nobody else.
LEMMA OwnStep ==
    ASSUME Informed, NEW q \in Writers, NEW s, Update(q, s), NEW r \in Writers
    PROVE  run'[r] = IF r = q THEN s ELSE run[r]
BY DEF Informed, Inv, Update

Acknowledged == {"saved", "exported"}
Answering(r) == run'[r].verdict \in Acknowledged /\ run'[r].verdict # run[r].verdict

\* A step that keeps the answer of its run acknowledges nothing.
LEMMA NoAnswer ==
    ASSUME Informed, NEW q \in Writers, NEW s, Update(q, s), NEW r \in Writers,
           s.verdict = run[q].verdict \/ s.verdict \notin Acknowledged
    PROVE  ~Answering(r)
BY OwnStep DEF Answering

LEMMA IdleAnswersNothing ==
    ASSUME NEW verdict, verdict \notin Acknowledged
    PROVE  /\ Idle.verdict \notin Acknowledged
           /\ [Idle EXCEPT !.pc = "release", !.verdict = verdict].verdict \notin Acknowledged
BY DEF Idle, Acknowledged

LEMMA FailAnswersNothing ==
    ASSUME Informed, NEW q \in Writers, NEW r \in Writers, NEW verdict, verdict \notin Acknowledged,
           End(q, verdict)
    PROVE  ~Answering(r)
BY NoAnswer, IdleAnswersNothing DEF End

LEMMA IdleStepAnswersNothing ==
    ASSUME Informed, NEW q \in Writers, NEW r \in Writers, Update(q, Idle)
    PROVE  ~Answering(r)
<1>1. Idle.verdict \notin Acknowledged
    BY DEF Idle, Acknowledged
<1> QED BY <1>1, NoAnswer

\* Only an authorized export and a confirmed selection are acknowledged.
LEMMA AnswerSteps ==
    ASSUME Informed, Next, NEW r \in Writers, Answering(r)
    PROVE  \/ At(r, "export") /\ Authorized(r) /\ End(r, "exported") /\ UNCHANGED <<disk, world>>
           \/ /\ At(r, "prune") /\ Authorized(r) /\ run[r].left = {}
              /\ \A s \in run[r].hits : Fresh(run[r].records[s])
              /\ End(r, "saved") /\ UNCHANGED <<disk, world>>
<1> SUFFICES ASSUME NEW q \in Writers,
                    \/ \E command \in Duties[q] : Begin(q, command)
                    \/ Transaction(q) \/ Export(q) \/ Select(q) \/ Save(q)
                    \/ Delete(q) \/ Clear(q) \/ Crash(q)
             PROVE  \/ q = r /\ At(r, "export") /\ Authorized(r) /\ End(r, "exported")
                       /\ UNCHANGED <<disk, world>>
                    \/ /\ q = r /\ At(r, "prune") /\ Authorized(r) /\ run[r].left = {}
                       /\ \A s \in run[r].hits : Fresh(run[r].records[s])
                       /\ End(r, "saved") /\ UNCHANGED <<disk, world>>
    <2>1. ~(\E g \in Generations : Damage(g)) /\ ~Recover /\ ~Tick
          /\ ~(\E s \in Sources : Change(s)) /\ ~(\E config \in Configurations : Edit(config))
        BY DEF Damage, Recover, Tick, Change, Edit, Answering
    <2> QED BY <2>1 DEF Next, Environment
<1>0. RunShaped(run[q]) /\ "unavailable" \notin Acknowledged /\ "deleted" \notin Acknowledged
    BY DEF Informed, Inv, RunGood, Acknowledged
<1>1. ASSUME NEW command, Begin(q, command)
      PROVE  FALSE
    <2> DEFINE s == [Idle EXCEPT !.pc = "lock", !.command = command, !.config = world.config,
                                 !.at = world.now, !.first = world.version]
    <2>1. s.verdict \notin Acknowledged
        BY DEF Idle, Acknowledged
    <2>2. Update(q, s)
        BY <1>1 DEF Begin
    <2> HIDE DEF s
    <2> QED BY <2>1, <2>2, NoAnswer
<1>2. CASE Refuse(q) \/ Release(q) \/ Crash(q)
    BY <1>2, IdleStepAnswersNothing DEF Refuse, Release, Sole, Crash
<1>3. CASE Break(q)
    BY <1>0, <1>3, FailAnswersNothing DEF Break, Fail
<1>4. ASSUME NEW s, Update(q, s), s.verdict = run[q].verdict
      PROVE  FALSE
    BY <1>4, NoAnswer
<1>5. ~Fail(q) /\ ~End(q, "deleted") /\ ~Update(q, Idle)
    BY <1>0, FailAnswersNothing, IdleStepAnswersNothing DEF Fail
<1>6. CASE TakeLock(q)
    <2>1. [run[q] EXCEPT !.pc = "scan"].verdict = run[q].verdict
        BY <1>0 DEF RunShaped
    <2> QED BY <1>4, <1>5, <1>6, <2>1 DEF TakeLock
<1>7. CASE Scan(q)
    <2>1. [run[q] EXCEPT !.pc = "examine", !.left = Present, !.names = Present].verdict
            = run[q].verdict
        BY <1>0 DEF RunShaped
    <2> QED BY <1>4, <1>5, <1>7, <2>1 DEF Scan
<1>8. CASE Examine(q)
    <2> DEFINE g == Max(run[q].left)
               read == disk.generations[g]
               usable == read \notin {None, Bad} /\ ~Withdrawn(q, read)
               rest == [run[q] EXCEPT !.left = @ \ {g}]
               s == IF usable /\ rest.selected = None
                    THEN [rest EXCEPT !.selected = g, !.previous = read.records]
                    ELSE rest
    <2>1. Update(q, s)
        BY <1>8 DEF Examine
    <2> HIDE DEF g, read, usable
    <2>2. RunShaped(rest)
        BY <1>0 DEF RunShaped
    <2>3. rest.verdict = run[q].verdict
        BY <1>0 DEF RunShaped
    <2> HIDE DEF rest
    <2>4. s.verdict = run[q].verdict
        BY <2>2, <2>3 DEF RunShaped
    <2> HIDE DEF s
    <2> QED BY <1>4, <2>1, <2>4
<1>9. CASE Open(q)
    <2>1. PICK label : Update(q, [run[q] EXCEPT !.pc = label, !.records = run[q].previous])
        BY <1>9 DEF Open
    <2>2. [run[q] EXCEPT !.pc = label, !.records = run[q].previous].verdict = run[q].verdict
        BY <1>0 DEF RunShaped
    <2> QED BY <1>4, <2>1, <2>2
<1>10. CASE Choose(q)
    <2>1. PICK chosen : Update(q, [run[q] EXCEPT !.pc = "next", !.left = chosen])
        BY <1>10 DEF Choose
    <2>2. [run[q] EXCEPT !.pc = "next", !.left = chosen].verdict = run[q].verdict
        BY <1>0 DEF RunShaped
    <2> QED BY <1>4, <2>1, <2>2
<1>11. CASE Probe(q)
    <2>1. PICK x \in run[q].left :
             \/ Update(q, [[run[q] EXCEPT !.left = @ \ {x}] EXCEPT !.pc = "judge", !.source = x,
                                                                  !.state = world.version[x]])
             \/ Update(q, [[run[q] EXCEPT !.left = @ \ {x}] EXCEPT !.records[x] = None])
        BY <1>11 DEF Probe
    <2> DEFINE chosen == [run[q] EXCEPT !.left = @ \ {x}]
    <2>2. RunShaped(chosen)
        BY <1>0 DEF RunShaped
    <2>3. chosen.verdict = run[q].verdict
        BY <1>0 DEF RunShaped
    <2> HIDE DEF chosen
    <2>4. /\ [chosen EXCEPT !.pc = "judge", !.source = x, !.state = world.version[x]].verdict
               = run[q].verdict
          /\ [chosen EXCEPT !.records[x] = None].verdict = run[q].verdict
        BY <2>2, <2>3 DEF RunShaped
    <2> QED BY <1>4, <2>1, <2>4 DEF chosen
<1>12. ~Drop(q)
    <2> DEFINE s == [run[q] EXCEPT !.pc = "next", !.records[run[q].source] = None,
                                   !.source = None, !.state = None, !.content = None]
    <2>1. s.verdict = run[q].verdict
        BY <1>0 DEF RunShaped
    <2>2. Drop(q) => Update(q, s)
        BY DEF Drop
    <2> HIDE DEF s
    <2> QED BY <1>4, <2>1, <2>2
<1>13. CASE Judge(q)
    <2> DEFINE x == run[q].source
    <2>1. [run[q] EXCEPT !.pc = "next", !.hits = @ \cup {x}, !.source = None,
                         !.state = None].verdict = run[q].verdict
        BY <1>0 DEF RunShaped
    <2>2. [run[q] EXCEPT !.pc = "collected", !.records[x] = None, !.collected = @ + 1,
                         !.content = world.version[x]].verdict = run[q].verdict
        BY <1>0 DEF RunShaped
    <2> QED BY <1>4, <1>12, <1>13, <2>1, <2>2 DEF Judge
<1>14. CASE Collected(q)
    <2>1. ASSUME NEW expires
          PROVE  [run[q] EXCEPT !.pc = "next", !.source = None, !.state = None, !.content = None,
                                !.records[run[q].source] = Record(q, expires)].verdict
                    = run[q].verdict
        BY <1>0 DEF RunShaped
    <2> QED BY <1>4, <1>12, <1>14, <2>1 DEF Collected
<1>15. CASE Settle(q)
    <2>1. ASSUME NEW hits, NEW records
          PROVE  [run[q] EXCEPT !.pc = "save", !.hits = hits, !.records = records].verdict
                    = run[q].verdict
        BY <1>0 DEF RunShaped
    <2> QED BY <1>4, <1>5, <1>15, <2>1 DEF Settle
<1>16. CASE Stage(q) \/ BeforeActivate(q) \/ Verify(q) \/ Delete(q)
    <2>1. \A label : [run[q] EXCEPT !.pc = label].verdict = run[q].verdict
        BY <1>0 DEF RunShaped
    <2> QED BY <1>4, <1>5, <1>16, <2>1 DEF Stage, BeforeActivate, Verify, Delete
<1>17. CASE Activate(q)
    <2>1. ASSUME NEW left
          PROVE  [run[q] EXCEPT !.pc = "verify", !.left = left, !.selected = None,
                                !.previous = NoRecords].verdict = run[q].verdict
        BY <1>0 DEF RunShaped
    <2> QED BY <1>4, <1>17, <2>1 DEF Activate
<1>23. CASE Unstage(q)
    <2>1. [run[q] EXCEPT !.pc = "prune", !.names = {}].verdict = run[q].verdict
        BY <1>0 DEF RunShaped
    <2> QED BY <1>4, <1>23, <2>1 DEF Unstage
<1>18. CASE Prune(q)
    <2>1. ASSUME NEW g
          PROVE  [run[q] EXCEPT !.left = @ \ {g}].verdict = run[q].verdict
        BY <1>0 DEF RunShaped
    <2> QED BY <1>4, <1>18, <2>1 DEF Prune
<1>19. CASE Clear(q)
    <2>1. CASE UNCHANGED run
        BY <2>1 DEF Answering
    <2> QED BY <1>5, <1>19, <2>1 DEF Clear
<1>20. ASSUME NEW verdict, End(q, verdict)
       PROVE  q = r
    BY <1>20, OwnStep DEF End, Answering
<1>21. CASE Export(q)
    BY <1>5, <1>20, <1>21 DEF Export, Sole
<1>22. CASE Confirm(q)
    BY <1>5, <1>20, <1>22 DEF Confirm, Sole
<1> QED BY <1>1, <1>2, <1>3, <1>6, <1>7, <1>8, <1>9, <1>10, <1>11, <1>13, <1>14, <1>15, <1>16,
           <1>17, <1>18, <1>19, <1>21, <1>22, <1>23 DEF Transaction, Select, Save

-----------------------------------------------------------------------------
(* Theorems about answers and removals *)

LEMMA EndSays ==
    ASSUME Informed, NEW r \in Writers, NEW verdict, End(r, verdict)
    PROVE  run'[r].verdict = verdict
<1>1. [Idle EXCEPT !.pc = "release", !.verdict = verdict].verdict = verdict
    BY DEF Idle
<1> QED BY <1>1, OwnStep DEF End

\* What a saved run has confirmed.
LEMMA SavedStep ==
    ASSUME Informed, Next, NEW r \in Writers, Answers(r, {"saved"})
    PROVE  /\ At(r, "prune") /\ Authorized(r) /\ run[r].left = {}
           /\ \A s \in run[r].hits : Fresh(run[r].records[s])
<1>1. Answering(r) /\ run'[r].verdict = "saved"
    BY DEF Answers, Answering, Acknowledged
<1>2. ~End(r, "exported")
    BY <1>1, EndSays
<1> QED BY <1>1, <1>2, AnswerSteps

LEMMA WithdrawnStep ==
    ASSUME Informed, Next, NEW r \in Writers, Answers(r, {"saved", "exported"}),
           NEW g \in Present, disk.generations[g] # Bad,
           NEW s \in Kept(disk.generations[g].records)
    PROVE  /\ Allowed(world.config, s, disk.generations[g].records[s])
           /\ ~Expired(disk.generations[g].records[s], run[r].at)
<1>1. Answering(r)
    BY DEF Answers, Answering, Acknowledged
<1>2. /\ Authorized(r) /\ run[r].pc \in {"export", "prune"}
      /\ run[r].pc = "prune" => run[r].left = {}
    BY <1>1, AnswerSteps DEF At
<1>3. Facts(run[r], disk.generations, world)
    BY DEF Informed
<1>4. Keeping(run[r]) /\ Unseen(run[r]) = {} /\ run[r].pc \in Examined
    BY <1>2, <1>3 DEF Facts, OnTask, Writing, Keeping, Unseen, Examined, Activated
<1>5. g \in Generations /\ disk.generations[g] \notin {None, Bad} /\ s \in Sources
    BY DEF Present, Kept
<1>6. Lawful(run[r], disk.generations[g].records)
    BY <1>3, <1>4, <1>5 DEF Facts, Clean
<1> QED BY <1>2, <1>5, <1>6 DEF Lawful, Kept, Authorized

LEMMA DroppedStep ==
    ASSUME Informed, Next, NEW r \in Writers, Answers(r, {"saved"})
    PROVE  /\ Cardinality(Present) <= 2
           /\ \A g \in Present : disk.generations[g] # Bad =>
                 Kept(disk.generations[g].records) \subseteq Kept(run[r].records)
<1>1. run[r].pc = "prune" /\ run[r].left = {}
    BY SavedStep DEF At
<1>2. PICK new, old \in Generations :
         /\ \A g \in Generations : disk.generations[g] # None => g \in {new, old}
         /\ \A g \in Generations : disk.generations[g] \notin {None, Bad} =>
               Kept(disk.generations[g].records) \subseteq Kept(run[r].records)
    BY <1>1 DEF Informed, Facts, Pruned, Activated
<1>3. Present \subseteq {new, old}
    BY <1>2 DEF Present
<1>4. IsFiniteSet({old}) /\ Cardinality({old}) = 1
    BY FS_Singleton
<1>5. /\ IsFiniteSet({old} \cup {new})
      /\ Cardinality({old} \cup {new}) \in {Cardinality({old}), Cardinality({old}) + 1}
    BY <1>4, FS_AddElement
<1>6. {new, old} = {old} \cup {new}
    OBVIOUS
<1>7. IsFiniteSet({new, old}) /\ Cardinality({new, old}) \in {1, 2}
    BY <1>4, <1>5, <1>6
<1>8. /\ Cardinality(Present) \in Nat
      /\ Cardinality(Present) <= Cardinality({new, old})
    BY <1>3, <1>7, FS_Subset, FS_CardinalityType
<1>9. Cardinality(Present) <= 2
    BY <1>7, <1>8
<1> QED BY <1>2, <1>9 DEF Present

LEMMA HitsStep ==
    ASSUME Informed, Next, NEW r \in Writers, Answers(r, {"saved"}), NEW s \in run[r].hits
    PROVE  /\ run[r].first[s] <= run[r].records[s].state
           /\ run[r].records[s].state <= world.version[s]
           /\ world.now - run[r].records[s].observed <= CacheAge
<1>1. run[r].pc = "prune" /\ Fresh(run[r].records[s])
    BY SavedStep DEF At
<1>2. Hit(run[r], world, s)
    BY <1>1 DEF Informed, Facts, Hitting, Writing, Activated
<1> QED BY <1>1, <1>2 DEF Hit, Fresh

\* What an acknowledged invocation says of withdrawal, of dropped sources and of hits
\* is true, whoever else runs, crashes, edits or damages in the meantime.
THEOREM AcknowledgedTrue == Spec => AcknowledgedIsTrue
<1>1. ASSUME Informed, [Next]_catalogVars
      PROVE  /\ [\A r \in Writers : Answers(r, {"saved", "exported"}) =>
                   \A g \in Present : disk.generations[g] # Bad =>
                      \A s \in Kept(disk.generations[g].records) :
                         /\ Allowed(world.config, s, disk.generations[g].records[s])
                         /\ ~Expired(disk.generations[g].records[s], run[r].at)]_catalogVars
             /\ [\A r \in Writers : Answers(r, {"saved"}) =>
                   /\ Cardinality(Present) <= 2
                   /\ \A g \in Present : disk.generations[g] # Bad =>
                        Kept(disk.generations[g].records) \subseteq Kept(run[r].records)]_catalogVars
             /\ [\A r \in Writers : Answers(r, {"saved"}) =>
                   \A s \in run[r].hits :
                      /\ run[r].first[s] <= run[r].records[s].state
                      /\ run[r].records[s].state <= world.version[s]
                      /\ world.now - run[r].records[s].observed <= CacheAge]_catalogVars
    BY <1>1, WithdrawnStep, DroppedStep, HitsStep
<1> QED BY <1>1, InformedHolds, PTL
        DEF Spec, AcknowledgedIsTrue, WithdrawnIsGone, DroppedNeverReturns, HitsAreFresh

\* A step of a run that takes a generation away.
LEMMA RemovalStep ==
    ASSUME Informed, Next, NEW r \in Writers, NEW g \in Present, run[r] # run'[r],
           disk'.generations[g] = None, disk.generations[g] # Bad
    PROVE  \/ Withdrawn(r, disk.generations[g])
           \/ \E newer \in Present : newer > g /\ disk'.generations[newer] # None
<1>0. /\ g \in Generations /\ disk.generations[g] # None /\ GensTyped(disk.generations)
      /\ DiskShaped(disk) /\ Facts(run[r], disk.generations, world)
    BY DEF Present, Informed, Inv, DiskGood
<1>1. ASSUME disk'.generations = disk.generations
      PROVE  FALSE
    BY <1>0, <1>1
<1>2. ASSUME NEW q \in Writers, q # r, NEW s, Update(q, s)
      PROVE  FALSE
    BY <1>2, OwnStep
<1>3. ASSUME NEW q \in Writers, Transaction(q), ~Examine(q)
      PROVE  FALSE
    BY <1>0, <1>1, <1>3
       DEF Transaction, Refuse, TakeLock, Scan, Open, Break, Release, DiskShaped
<1>4. ASSUME NEW q \in Writers,
             \/ \E command \in Duties[q] : Begin(q, command)
             \/ Export(q) \/ Select(q) \/ Delete(q) \/ Crash(q)
      PROVE  FALSE
    BY <1>0, <1>1, <1>4
       DEF Begin, Export, Select, Choose, Probe, Judge, Collected, Settle, Delete, Crash, DiskShaped
<1>5. ASSUME NEW q \in Writers, Clear(q)
      PROVE  FALSE
    <2>1. ASSUME UNCHANGED run PROVE FALSE
        BY <2>1
    <2> QED BY <1>1, <1>5, <2>1 DEF Clear
<1>6. ASSUME NEW q \in Writers,
             Stage(q) \/ BeforeActivate(q) \/ Verify(q) \/ Unstage(q) \/ Confirm(q)
      PROVE  FALSE
    BY <1>0, <1>1, <1>6 DEF Stage, BeforeActivate, Verify, Unstage, Confirm, DiskShaped
<1>7. ASSUME Environment
      PROVE  FALSE
    <2>1. UNCHANGED run
        BY <1>7 DEF Environment, Recover, Tick, Damage, Change, Edit
    <2> QED BY <2>1
<1>8. ASSUME NEW q \in Writers, Examine(q)
      PROVE  Withdrawn(r, disk.generations[g])
    <2> DEFINE h == Max(run[q].left)
               read == disk.generations[h]
               usable == read \notin {None, Bad} /\ ~Withdrawn(q, read)
    <2>1. q = r
        BY <1>2, <1>8 DEF Examine
    <2>2. disk' = IF usable THEN disk ELSE [disk EXCEPT !.generations[h] = None]
        BY <1>8 DEF Examine
    <2>3. ~usable
        BY <1>1, <2>2
    <2> HIDE DEF h
    <2>4. g = h
        BY <1>0, <2>2, <2>3 DEF DiskShaped, GensTyped
    <2> QED BY <1>0, <2>1, <2>3, <2>4
<1>9. ASSUME NEW q \in Writers, Activate(q)
      PROVE  FALSE
    <2> DEFINE next == NextGeneration(q)
               written == Envelope(q)
    <2>1. run[q].pc \in Choosing
        BY <1>9 DEF Activate, Sole, At, Choosing
    <2>2. run[q].config \in Configurations /\ Recorded(run[q].records)
        BY <2>1, ChoosingFacts
    <2>3. written # None
        BY <2>2, EnvelopeAssumption DEF Envelope, Envelopes, Identities, Recorded
    <2>4. disk' = [disk EXCEPT !.generations[next] = written]
        BY <1>9 DEF Activate
    <2> HIDE DEF next, written
    <2> QED BY <1>0, <2>3, <2>4 DEF DiskShaped, GensTyped
<1>10. ASSUME NEW q \in Writers, Prune(q)
       PROVE  \E newer \in Present : newer > g /\ disk'.generations[newer] # None
    <2> DEFINE h == Max(run[q].left)
    <2>1. q = r
        BY <1>2, <1>10 DEF Prune
    <2>2. /\ run[r].pc = "prune" /\ run[r].left # {}
          /\ disk' = [disk EXCEPT !.generations[h] = None]
        BY <1>10, <2>1 DEF Prune, Sole, At
    <2>3. PICK new \in Generations :
             /\ disk.generations[new] # None
             /\ run[r].left \subseteq Generations
             /\ \A k \in run[r].left : k < new
        BY <1>0, <2>2 DEF Facts, Pruned, Activated
    <2>4. h \in run[r].left
        BY <2>1, <2>2, <2>3, MaxFacts, CatalogAssumption DEF Generations
    <2> HIDE DEF h
    <2>5. h < new /\ h # new
        BY <2>3, <2>4, CatalogAssumption DEF Generations
    <2>6. g = h
        BY <1>0, <2>2 DEF DiskShaped, GensTyped
    <2>7. disk'.generations[new] # None /\ new \in Present
        BY <1>0, <2>2, <2>3, <2>5 DEF DiskShaped, GensTyped, Present
    <2>8. new > g
        BY <2>3, <2>5, <2>6, CatalogAssumption DEF Generations
    <2> QED BY <2>7, <2>8
<1> QED BY <1>3, <1>4, <1>5, <1>6, <1>7, <1>8, <1>9, <1>10 DEF Next, Save

\* No order of activation, pruning, errors and crashes of any number of runs takes a
\* generation away that is neither damaged nor withdrawn nor followed by a newer one.
THEOREM NothingIsLost == Spec => NothingLost
<1>1. ASSUME Informed, [Next]_catalogVars
      PROVE  [\A r \in Writers, g \in Present :
                run[r] # run'[r] /\ disk'.generations[g] = None /\ disk.generations[g] # Bad =>
                   \/ Withdrawn(r, disk.generations[g])
                   \/ \E newer \in Present :
                         newer > g /\ disk'.generations[newer] # None]_catalogVars
    BY <1>1, RemovalStep
<1> QED BY <1>1, InformedHolds, PTL DEF Spec, NothingLost
=============================================================================
