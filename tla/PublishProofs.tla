-------------------------- MODULE PublishProofs --------------------------
(***************************************************************************)
(* Proofs about the road from a manifest to a web site, for any manifests, *)
(* regions, sources, revisions and versions, any number of runs, jobs and  *)
(* deployments, and any of them that dies.  First the batch; then what the *)
(* publisher makes of its output, and the pages made of what is published: *)
(* what a release's assets, and the graphs of a site, have to do with the  *)
(* index beside them.                                                      *)
(***************************************************************************)
EXTENDS Pages, TLAPS

\* The manifest read at startup is valid and `pos` walks through it: what the
\* type of Row rests on.
PlanInv ==
    /\ pc # Idle => plan \in Manifests /\ Valid(plan) /\ runs # 0
    /\ pc \notin {Idle, "region", "index"} => pos \in DOMAIN plan

TypeInv == TypeOK /\ PlanInv

----------------------------------------------------------------------------
(* Facts the step proofs share *)

\* A row of the manifest has the fields of a region.
LEMMA RowType ==
    ASSUME TypeInv, pos \in DOMAIN plan, pc # Idle
    PROVE  Row \in Rows
<1>1. plan \in Seq(Rows)
  BY DataAssumption DEF TypeInv, PlanInv
<1> QED BY <1>1 DEF Row

\* At the head of the loop, a position within the plan is one of its rows.
LEMMA AtRegionRow ==
    ASSUME TypeInv, AtRegion
    PROVE  pos \in DOMAIN plan /\ Row \in Rows
<1>1. plan \in Seq(Rows)
  BY DataAssumption DEF TypeInv, PlanInv, AtRegion, Idle
<1>2. pos \in DOMAIN plan
  BY <1>1 DEF TypeInv, TypeOK, AtRegion
<1> QED BY <1>2, RowType DEF AtRegion, Idle

\* The map read from an index holds entries of that index.
LEMMA LastWinsSubset ==
    ASSUME NEW idx \in Seq(Entries)
    PROVE  LastWins(idx) \subseteq {idx[i] : i \in DOMAIN idx}
  BY DEF LastWins

LEMMA LastWinsType ==
    ASSUME NEW idx \in Seq(Entries)
    PROVE  LastWins(idx) \subseteq Entries
  BY DEF LastWins

----------------------------------------------------------------------------
(* Type correctness *)

LEMMA InitType == Init => TypeInv
<1> SUFFICES ASSUME Init PROVE TypeInv
  OBVIOUS
<1>1. index \in Seq(Entries)
  BY DataAssumption DEF Init
<1>2. opts \in Options
  BY DEF Init, Options
<1>3. upstream \in [Urls -> 1..MaxRev] /\ graphs \in [Ids -> Graphs \cup {NoFile}]
  BY BoundsAssumption DEF Init
<1>4. version \in 1..MaxVersion /\ pbfRev \in 1..MaxRev /\ runs \in 0..MaxRuns
  BY BoundsAssumption DEF Init
<1>5. entries \in Seq(Entries) /\ plan = <<>> /\ pos \in Nat \ {0}
  BY DEF Init
<1>6. pc = Idle /\ exit \in Exits
  BY DEF Init, Exits
<1>7. TypeOK
  BY <1>1, <1>2, <1>3, <1>4, <1>5, <1>6, Zenon DEF TypeOK, Init
<1> QED
  BY <1>6, <1>7 DEF TypeInv, PlanInv

LEMMA StartType ==
    ASSUME TypeInv, NEW o \in Options, Start(o)
    PROVE  TypeInv'
<1>1. existing' \subseteq Entries
  BY LastWinsType DEF Start, TypeInv, TypeOK
<1>2. runs' \in 0..MaxRuns
  BY BoundsAssumption DEF Start, TypeInv, TypeOK
<1>3. strays' \subseteq (Ids \cup {IndexFile}) \X (1..MaxRuns)
  BY DEF Start, TypeInv, TypeOK, dir
<1> QED
  BY <1>1, <1>2, <1>3
  DEF Start, TypeInv, TypeOK, PlanInv, Exits, Idle, world, RemoveScratch

\* One step of the region loop.
LEMMA LoopType ==
    ASSUME TypeInv, SkipRegion \/ GatePass \/ GateRefuse
    PROVE  TypeInv'
<1>1. CASE SkipRegion
  <2>1. pos' \in Nat \ {0}
    BY <1>1 DEF SkipRegion, TypeInv, TypeOK
  <2>2. Row \in Rows
    BY <1>1, AtRegionRow DEF SkipRegion
  <2>3. PICK e \in existing : entries' = Append(entries, [e EXCEPT !.link = opts.base])
    BY <1>1 DEF SkipRegion
  <2>4. [e EXCEPT !.link = opts.base] \in Entries
    <3>1. e \in Entries
      BY <2>3 DEF TypeInv, TypeOK
    <3>2. opts \in Options
      BY DEF TypeInv, TypeOK
    <3> QED
      BY <3>1, <3>2 DEF Options, Entries
  <2>5. entries' \in Seq(Entries)
    BY <2>3, <2>4 DEF TypeInv, TypeOK
  <2> QED
    BY <1>1, <2>1, <2>5
    DEF SkipRegion, AtRegion, TypeInv, TypeOK, PlanInv, world, dir, Idle
<1>2. CASE GatePass
  BY <1>2, AtRegionRow
  DEF GatePass, MustBuild, TypeInv, TypeOK, PlanInv, AtRegion, world, dir, Idle
<1>3. CASE GateRefuse
  BY <1>3 DEF GateRefuse, RemoveScratch, TypeInv, TypeOK, PlanInv, world, Idle, Exits
<1> QED BY <1>1, <1>2, <1>3

\* The temp files of this run have its process id.
LEMMA TmpFileType ==
    ASSUME TypeInv, NEW name \in Ids \cup {IndexFile}, pc # Idle
    PROVE  TmpFile(name) \in (Ids \cup {IndexFile}) \X (1..MaxRuns)
  BY BoundsAssumption DEF TypeInv, TypeOK, PlanInv, TmpFile

\* One step of build_region.
LEMMA BuildType ==
    ASSUME TypeInv,
           Download \/ DownloadFails \/ WriteGraph \/ BuildFails
           \/ InstallGraph \/ VerifyGraph \/ VerifyFails \/ Cleanup
    PROVE  TypeInv'
<1>0. Row \in Rows /\ pos \in DOMAIN plan
  BY RowType
  DEF Download, DownloadFails, WriteGraph, BuildFails, InstallGraph,
      VerifyGraph, VerifyFails, Cleanup, TypeInv, PlanInv, Idle
<1>1. Row.id \in Ids /\ Row.url \in Urls /\ Row.keep \in Keeps
  BY <1>0 DEF Rows
<1>2. CASE Download
  BY <1>0, <1>1, <1>2 DEF Download, TypeInv, TypeOK, PlanInv, world, Idle
<1>3. CASE DownloadFails
  BY <1>0, <1>1, <1>3 DEF DownloadFails, TypeInv, TypeOK, PlanInv, world, Idle
<1>4. CASE WriteGraph
  BY <1>0, <1>1, <1>4, TmpFileType DEF WriteGraph, TypeInv, TypeOK, PlanInv, world, Idle
<1>5. CASE BuildFails
  BY <1>0, <1>1, <1>5, TmpFileType DEF BuildFails, TypeInv, TypeOK, PlanInv, world, Idle
<1>6. CASE InstallGraph
  <2>1. BuiltGraph \in Graphs
    BY <1>1 DEF BuiltGraph, Graphs, TypeInv, TypeOK
  <2> QED
    BY <1>0, <1>1, <1>6, <2>1 DEF InstallGraph, TypeInv, TypeOK, PlanInv, world, Idle
<1>7. CASE VerifyGraph
  <2>1. MadeEntry(graphs[Row.id]) \in Entries
    BY <1>1 DEF MadeEntry, Entries, TypeInv, TypeOK, Options
  <2> QED
    BY <1>0, <1>7, <2>1 DEF VerifyGraph, TypeInv, TypeOK, PlanInv, world, dir, Idle
<1>8. CASE VerifyFails
  BY <1>0, <1>8 DEF VerifyFails, TypeInv, TypeOK, PlanInv, world, dir, Idle
<1>9. CASE Cleanup
  <2>1. pos' \in Nat \ {0}
    BY <1>9 DEF Cleanup, NextRegion, TypeInv, TypeOK
  <2>2. CASE made = NoFile
    BY <1>0, <1>1, <1>9, <2>1, <2>2
    DEF Cleanup, TypeInv, TypeOK, PlanInv, world, Idle
  <2>3. CASE made # NoFile
    <3>1. made \in Entries /\ entries' = Append(entries, made)
      BY <1>9, <2>3 DEF Cleanup, TypeInv, TypeOK
    <3>2. entries' \in Seq(Entries)
      BY <3>1 DEF TypeInv, TypeOK
    <3> QED
      BY <1>0, <1>1, <1>9, <2>1, <2>3, <3>2
      DEF Cleanup, TypeInv, TypeOK, PlanInv, world, Idle
  <2> QED
    BY <2>2, <2>3
<1> QED BY <1>2, <1>3, <1>4, <1>5, <1>6, <1>7, <1>8, <1>9

\* The end of a run, however it ends.
LEMMA EndType ==
    ASSUME TypeInv, WriteIndex \/ IndexFails \/ CommitIndex \/ Crash
    PROVE  TypeInv'
<1>1. CASE WriteIndex
  BY <1>1, TmpFileType
  DEF WriteIndex, RemoveScratch, TypeInv, TypeOK, PlanInv, world, Idle
<1>2. CASE IndexFails
  BY <1>2 DEF IndexFails, TypeInv, TypeOK, PlanInv, world, dir, Idle, Exits
<1>3. CASE CommitIndex
  <2>1. exit' \in Exits
    BY <1>3 DEF CommitIndex, Exits
  <2> QED
    BY <1>3, <2>1 DEF CommitIndex, TypeInv, TypeOK, PlanInv, world, Idle
<1>4. CASE Crash
  BY <1>4 DEF Crash, TypeInv, TypeOK, PlanInv, world, dir, Idle, Exits
<1> QED BY <1>1, <1>2, <1>3, <1>4

\* Everything outside the process, and a manifest that is refused.
LEMMA OutsideType ==
    ASSUME TypeInv, Environment \/ Refuse
    PROVE  TypeInv'
<1>1. ASSUME NEW m \in Manifests, EditManifest(m) PROVE TypeInv'
  BY <1>1 DEF EditManifest, TypeInv, TypeOK, PlanInv, dir, proc
<1>2. ASSUME NEW x \in Urls, Republish(x) PROVE TypeInv'
  <2>1. upstream' \in [Urls -> 1..MaxRev]
    BY <1>2, BoundsAssumption DEF Republish, TypeInv, TypeOK
  <2> QED
    BY <1>2, <2>1 DEF Republish, TypeInv, TypeOK, PlanInv, dir, proc
<1>3. CASE Upgrade
  <2>1. version' \in 1..MaxVersion
    BY <1>3, BoundsAssumption DEF Upgrade, TypeInv, TypeOK
  <2> QED
    BY <1>3, <2>1 DEF Upgrade, TypeInv, TypeOK, PlanInv, dir, proc
<1>4. ASSUME NEW r \in Ids, LoseGraph(r) PROVE TypeInv'
  BY <1>4 DEF LoseGraph, TypeInv, TypeOK, PlanInv, world, proc
<1>5. CASE Refuse
  <2>1. runs' \in 0..MaxRuns
    BY <1>5, BoundsAssumption DEF Refuse, TypeInv, TypeOK
  <2> QED
    BY <1>5, <2>1 DEF Refuse, TypeInv, TypeOK, PlanInv, world, dir, Exits
<1> QED BY <1>1, <1>2, <1>3, <1>4, <1>5 DEF Environment

LEMMA TypeStep == TypeInv /\ [Next]_vars => TypeInv'
<1> SUFFICES ASSUME TypeInv, [Next]_vars PROVE TypeInv'
  OBVIOUS
<1>1. CASE Next
  BY <1>1, StartType, LoopType, BuildType, EndType, OutsideType
  DEF Next, RunStep
<1>2. CASE UNCHANGED vars
  BY <1>2 DEF vars, world, dir, proc, TypeInv, TypeOK, PlanInv
<1> QED BY <1>1, <1>2

LEMMA TypeAlways == Spec => []TypeInv
  BY InitType, TypeStep, PTL DEF Spec

\* Every variable of cmd_batch's state keeps its type through every run, crash
\* and change of the world.
THEOREM TypeCorrect == Spec => []TypeOK
<1>1. TypeInv => TypeOK
  BY DEF TypeInv
<1> QED BY <1>1, TypeAlways, PTL

----------------------------------------------------------------------------
(* The index only describes verified files *)

\* An entry that may stand in an index file.
MayStand(e) == e.version = 0 \/ Honest(e)

\* IndexHonest alone is not inductive: the index is written from entries that
\* were carried from the file read at startup or made from the file on disk.
HonestInv ==
    /\ IndexHonest
    /\ \A e \in existing : MayStand(e)
    /\ \A i \in DOMAIN entries : Honest(entries[i])
    /\ made # NoFile => Honest(made)
    /\ pc = "verify" => graphs[Row.id] = BuiltGraph

LEMMA HonestInit == Init => HonestInv
  BY OldIndexAssumption DEF Init, HonestInv, IndexHonest, MayStand, Idle

\* A cached entry that lets its region be skipped has the binary's version, so
\* it is not one of those from before versions were recorded.
LEMMA SkippedIsHonest ==
    ASSUME TypeInv, HonestInv, NEW e \in existing, CanSkip(Row, e)
    PROVE  Honest([e EXCEPT !.link = opts.base])
<1>1. e \in Entries /\ e.version # 0
  BY BoundsAssumption DEF CanSkip, Trustworthy, FreshOnDisk, TypeInv, TypeOK
<1>2. Honest(e)
  BY <1>1 DEF HonestInv, MayStand
<1> QED BY <1>1, <1>2 DEF Honest, Entries

\* The entry made of the file that was just installed is true of it.
LEMMA MadeIsHonest ==
    ASSUME TypeInv, HonestInv, VerifyGraph
    PROVE  Honest(made')
<1>1. Row \in Rows
  BY RowType DEF VerifyGraph, TypeInv, PlanInv, Idle
<1>2. BuiltGraph \in Graphs
  BY <1>1 DEF BuiltGraph, Graphs, Rows, TypeInv, TypeOK
<1>3. made' = MadeEntry(BuiltGraph) /\ HasRoads(BuiltGraph)
  BY DEF VerifyGraph, VerifyGraphBytes, HonestInv
<1> QED BY <1>2, <1>3 DEF Honest, MadeEntry, BuiltGraph

LEMMA HonestStep == TypeInv /\ HonestInv /\ [Next]_vars => HonestInv'
<1> SUFFICES ASSUME TypeInv, HonestInv, [Next]_vars PROVE HonestInv'
  OBVIOUS
<1> USE DEF Idle
<1>1. ASSUME NEW o \in Options, Start(o) PROVE HonestInv'
  <2>1. LastWins(index) \subseteq {index[i] : i \in DOMAIN index}
    BY LastWinsSubset DEF TypeInv, TypeOK
  <2>2. \A e \in existing' : MayStand(e)
    BY <1>1, <2>1 DEF Start, HonestInv, IndexHonest, MayStand
  <2> QED
    BY <1>1, <2>2 DEF Start, HonestInv, IndexHonest
<1>2. CASE SkipRegion
  <2>1. PICK e \in existing : /\ CanSkip(Row, e)
                             /\ entries' = Append(entries, [e EXCEPT !.link = opts.base])
    BY <1>2 DEF SkipRegion
  <2>2. Honest([e EXCEPT !.link = opts.base])
    BY <2>1, SkippedIsHonest
  <2>3. \A i \in DOMAIN entries' : Honest(entries'[i])
    BY <2>1, <2>2 DEF HonestInv, TypeInv, TypeOK
  <2> QED
    BY <1>2, <2>3 DEF SkipRegion, AtRegion, HonestInv, IndexHonest, dir
<1>3. CASE GatePass \/ GateRefuse \/ Download \/ DownloadFails \/ WriteGraph
           \/ BuildFails \/ VerifyFails \/ WriteIndex \/ IndexFails
  BY <1>3
  DEF GatePass, GateRefuse, Download, DownloadFails, WriteGraph, BuildFails,
      VerifyFails, WriteIndex, IndexFails, HonestInv, IndexHonest, dir
<1>4. CASE InstallGraph
  <2>1. Row.id \in Ids
    BY <1>4, RowType DEF InstallGraph, Rows, TypeInv, PlanInv
  <2>2. graphs'[Row.id] = BuiltGraph
    BY <1>4, <2>1 DEF InstallGraph, TypeInv, TypeOK
  <2>3. Row' = Row /\ BuiltGraph' = BuiltGraph
    BY <1>4 DEF InstallGraph, Row, BuiltGraph, world
  <2> QED
    BY <1>4, <2>2, <2>3 DEF InstallGraph, HonestInv, IndexHonest
<1>5. CASE VerifyGraph
  BY <1>5, MadeIsHonest DEF VerifyGraph, HonestInv, IndexHonest, dir
<1>6. CASE Cleanup
  <2>1. \A i \in DOMAIN entries' : Honest(entries'[i])
    <3>1. CASE made = NoFile
      BY <1>6, <3>1 DEF Cleanup, HonestInv
    <3>2. CASE made # NoFile
      <4>1. /\ made \in Entries /\ Honest(made)
            /\ entries \in Seq(Entries) /\ entries' = Append(entries, made)
        BY <1>6, <3>2 DEF Cleanup, HonestInv, TypeInv, TypeOK
      <4> QED
        BY <4>1 DEF HonestInv
    <3> QED BY <3>1, <3>2
  <2> QED
    BY <1>6, <2>1 DEF Cleanup, HonestInv, IndexHonest
<1>7. CASE CommitIndex
  BY <1>7 DEF CommitIndex, HonestInv, IndexHonest
<1>8. CASE Crash
  BY <1>8 DEF Crash, HonestInv, IndexHonest, dir
<1>9. CASE Environment \/ Refuse
  <2>1. index' = index /\ UNCHANGED <<pc, plan, pos, existing, entries, made, pbfRev>>
    BY <1>9
    DEF Environment, EditManifest, Republish, Upgrade, LoseGraph, Refuse, dir, proc
  <2>2. pc = "verify" => graphs' = graphs /\ version' = version
    BY <1>9
    DEF Environment, EditManifest, Republish, Upgrade, LoseGraph, Refuse, dir, world
  <2> QED
    BY <2>1, <2>2 DEF HonestInv, IndexHonest, Row, BuiltGraph
<1>10. CASE UNCHANGED vars
  BY <1>10 DEF vars, world, dir, proc, HonestInv, IndexHonest, Row, BuiltGraph
<1> QED
  BY <1>1, <1>2, <1>3, <1>4, <1>5, <1>6, <1>7, <1>8, <1>9, <1>10 DEF Next, RunStep

\* index.json describes only files that verification accepted, with what they
\* were really built from, through any sequence of runs, faults and crashes.
THEOREM IndexAlwaysHonest == Spec => []IndexHonest
<1>1. HonestInv => IndexHonest
  BY DEF HonestInv
<1> QED BY <1>1, HonestInit, HonestStep, TypeAlways, PTL DEF Spec

----------------------------------------------------------------------------
(* Disk discipline *)

\* While a region is being built the only .pbf is its own; everywhere else in
\* the loop there is none.  A crash may leave that one behind for the sweep.
PbfInv ==
    /\ OnePbfAtATime
    /\ pc \in {"build", "rename", "verify", "cleanup"} => scratch \subseteq {Row.id}

LEMMA PbfInit == Init => PbfInv
  BY DEF Init, PbfInv, OnePbfAtATime, Idle

LEMMA PbfStep == TypeInv /\ PbfInv /\ [Next]_vars => PbfInv'
<1> SUFFICES ASSUME TypeInv, PbfInv, [Next]_vars PROVE PbfInv'
  OBVIOUS
<1> USE DEF PbfInv, OnePbfAtATime, Row, Idle
<1>1. ASSUME NEW o \in Options, Start(o) PROVE PbfInv'
  BY <1>1 DEF Start, RemoveScratch
<1>2. CASE SkipRegion \/ GatePass \/ GateRefuse
  BY <1>2 DEF SkipRegion, GatePass, GateRefuse, MustBuild, AtRegion, RemoveScratch, dir
<1>3. CASE Download \/ DownloadFails
  BY <1>3 DEF Download, DownloadFails
<1>4. CASE WriteGraph \/ BuildFails \/ InstallGraph \/ VerifyGraph \/ VerifyFails
  BY <1>4 DEF WriteGraph, BuildFails, InstallGraph, VerifyGraph, VerifyFails, dir
<1>5. CASE Cleanup
  BY <1>5 DEF Cleanup
<1>6. CASE WriteIndex \/ IndexFails \/ CommitIndex \/ Crash
  BY <1>6 DEF WriteIndex, IndexFails, CommitIndex, Crash, RemoveScratch, dir
<1>7. CASE Environment \/ Refuse
  BY <1>7 DEF Environment, EditManifest, Republish, Upgrade, LoseGraph, Refuse, dir, proc
<1>8. CASE UNCHANGED vars
  BY <1>8 DEF vars, dir, proc
<1> QED
  BY <1>1, <1>2, <1>3, <1>4, <1>5, <1>6, <1>7, <1>8 DEF Next, RunStep

\* There are never two .pbf files, and none when a download begins, whatever
\* was killed before.
THEOREM PbfDiscipline == Spec => []OnePbfAtATime
<1>1. PbfInv => OnePbfAtATime
  BY DEF PbfInv
<1> QED BY <1>1, PbfInit, PbfStep, TypeAlways, PTL DEF Spec


----------------------------------------------------------------------------
(* Whole runs: the index is replaced the way module Catalogue says, a       *)
(* disk-mode run leaves an index that matches the files, and regions that   *)
(* are up to date are left alone.                                          *)

\* The regions the loop has dealt with are the rows of `p` before `n`.
Passed(p, n, r) == \E k \in DOMAIN p : k < n /\ p[k].id = r
Before(r) == Passed(plan, pos, r)

\* An entry whose file an index, the one on disk, already lists.
ListedIn(idx, e) == \E j \in DOMAIN idx : Cat!SameFile(e, idx[j])
Carried(e) == ListedIn(index, e)

\* What a run remembers about itself: the map it read is the index's, which
\* it has not replaced yet; its entries and results belong to the rows it has
\* passed, each row giving at most one entry; an entry it did not build was
\* listed before; and a region has no result until it is verified.
RunInv ==
    pc # Idle =>
        /\ existing = LastWins(index)
        /\ \A i \in DOMAIN entries : Before(entries[i].id)
        /\ \A i, j \in DOMAIN entries : entries[i].id = entries[j].id => i = j
        /\ \A r \in built \cup failed : Before(r)
        /\ \A i \in DOMAIN entries : entries[i].id \in built \/ Carried(entries[i])
        /\ pc \in {"download", "build", "rename", "verify"} => made = NoFile
        /\ pc = "cleanup" /\ made # NoFile => made.id = Row.id

----------------------------------------------------------------------------
(* Facts about rows *)

\* No row before the current one has its id: ids are not repeated.
LEMMA CurrentIsNew ==
    ASSUME TypeInv, pc # Idle, pos \in DOMAIN plan
    PROVE  ~Before(Row.id)
<1>1. plan \in Seq(Rows) /\ Valid(plan)
  BY DataAssumption DEF TypeInv, PlanInv
<1>2. pos \in Nat
  BY DEF TypeInv, TypeOK
<1> SUFFICES ASSUME NEW k \in DOMAIN plan, k < pos, plan[k].id = Row.id
             PROVE  FALSE
  BY DEF Before, Passed
<1>3. k = pos
  BY <1>1 DEF Valid, Row
<1> QED BY <1>2, <1>3

\* Once the loop has moved on, the current row is one of those before.
LEMMA PassedIsBefore ==
    ASSUME TypeInv, pc # Idle, pos \in DOMAIN plan
    PROVE  /\ Passed(plan, pos + 1, Row.id)
           /\ \A r : Before(r) => Passed(plan, pos + 1, r)
<1>1. plan \in Seq(Rows) /\ pos \in Nat
  BY DataAssumption DEF TypeInv, TypeOK, PlanInv
<1> QED BY <1>1 DEF Passed, Before, Row

\* Appending one entry for the current row keeps ids apart.
LEMMA AppendKeepsApart ==
    ASSUME TypeInv, RunInv, pc # Idle, pos \in DOMAIN plan,
           NEW e \in Entries, e.id = Row.id,
           NEW new, new = Append(entries, e)
    PROVE  /\ \A i \in DOMAIN new : Passed(plan, pos + 1, new[i].id)
           /\ \A i, j \in DOMAIN new : new[i].id = new[j].id => i = j
           /\ \A i \in DOMAIN entries : new[i] = entries[i]
           /\ DOMAIN new = DOMAIN entries \cup {Len(entries) + 1}
           /\ new[Len(entries) + 1] = e
<1>1. entries \in Seq(Entries) /\ new \in Seq(Entries)
  BY DEF TypeInv, TypeOK
<1>2. \A i \in DOMAIN entries : Before(entries[i].id) /\ entries[i].id # Row.id
  BY CurrentIsNew DEF RunInv
<1>3. /\ \A i \in DOMAIN entries : new[i] = entries[i]
      /\ DOMAIN new = DOMAIN entries \cup {Len(entries) + 1}
      /\ new[Len(entries) + 1] = e
  BY <1>1
<1>4. \A i \in DOMAIN new : Passed(plan, pos + 1, new[i].id)
  BY <1>2, <1>3, PassedIsBefore
<1>5. \A i, j \in DOMAIN new : new[i].id = new[j].id => i = j
  BY <1>2, <1>3 DEF RunInv
<1> QED BY <1>3, <1>4, <1>5

----------------------------------------------------------------------------
(* RunInv is inductive *)

LEMMA RunInit == Init => RunInv
  BY DEF Init, RunInv

\* A region is skipped: its entry was in the index.
LEMMA RunSkip ==
    ASSUME TypeInv, RunInv, SkipRegion
    PROVE  RunInv'
<1>1. pos \in DOMAIN plan /\ pc # Idle
  BY AtRegionRow DEF SkipRegion, AtRegion, Idle
<1>2. PICK e \in existing : /\ CanSkip(Row, e)
                           /\ entries' = Append(entries, [e EXCEPT !.link = opts.base])
  BY DEF SkipRegion
<1> DEFINE f == [e EXCEPT !.link = opts.base]
<1>3. f \in Entries /\ f.id = Row.id /\ Cat!SameFile(f, e)
  BY <1>2 DEF CanSkip, Entries, TypeInv, TypeOK, Options, Cat!SameFile
<1>4. Carried(f)
  <2>1. \E j \in DOMAIN index : e = index[j]
    BY <1>1, <1>2, LastWinsSubset DEF RunInv, TypeInv, TypeOK
  <2> QED BY <1>3, <2>1 DEF Carried, ListedIn
<1>5. /\ pos' = pos + 1 /\ pc' = "region"
      /\ UNCHANGED <<plan, index, existing, built, failed>>
  BY DEF SkipRegion, AtRegion, dir
<1>6. entries' = Append(entries, f)
  BY <1>2
<1> HIDE DEF f
<1>7. /\ \A i \in DOMAIN entries' : Passed(plan, pos + 1, entries'[i].id)
      /\ \A i, j \in DOMAIN entries' : entries'[i].id = entries'[j].id => i = j
      /\ \A i \in DOMAIN entries : entries'[i] = entries[i]
      /\ DOMAIN entries' = DOMAIN entries \cup {Len(entries) + 1}
      /\ entries'[Len(entries) + 1] = f
  BY <1>1, <1>3, <1>6, AppendKeepsApart
<1>8. \A r \in built' \cup failed' : Passed(plan, pos + 1, r)
  BY <1>1, <1>5, PassedIsBefore DEF RunInv
<1>9. \A i \in DOMAIN entries' : entries'[i].id \in built' \/ ListedIn(index, entries'[i])
  BY <1>1, <1>4, <1>5, <1>7 DEF RunInv, Carried
<1> QED
  BY <1>1, <1>5, <1>7, <1>8, <1>9 DEF RunInv, Before, Carried

\* A region was built or failed: its id was not seen before.
LEMMA RunCleanup ==
    ASSUME TypeInv, RunInv, Cleanup
    PROVE  RunInv'
<1>1. pos \in DOMAIN plan /\ pc = "cleanup" /\ pc # Idle
  BY DEF Cleanup, TypeInv, PlanInv, Idle
<1>2. pos' = pos + 1 /\ pc' = "region" /\ UNCHANGED <<plan, index, existing>>
  BY DEF Cleanup, NextRegion
<1>3. CASE made = NoFile
  <2>1. failed' = failed \cup {Row.id} /\ UNCHANGED <<entries, built>>
    BY <1>3 DEF Cleanup
  <2>2. \A r \in built' \cup failed' : Passed(plan, pos + 1, r)
    BY <1>1, <2>1, PassedIsBefore DEF RunInv
  <2>3. \A i \in DOMAIN entries : Passed(plan, pos + 1, entries[i].id)
    BY <1>1, PassedIsBefore DEF RunInv
  <2> QED
    BY <1>1, <1>2, <2>1, <2>2, <2>3 DEF RunInv, Before, Carried
<1>4. CASE made # NoFile
  <2>1. /\ entries' = Append(entries, made) /\ built' = built \cup {Row.id}
        /\ failed' = failed
    BY <1>4 DEF Cleanup
  <2>2. made \in Entries /\ made.id = Row.id
    BY <1>1, <1>4 DEF RunInv, TypeInv, TypeOK
  <2>3. /\ \A i \in DOMAIN entries' : Passed(plan, pos + 1, entries'[i].id)
        /\ \A i, j \in DOMAIN entries' : entries'[i].id = entries'[j].id => i = j
        /\ \A i \in DOMAIN entries : entries'[i] = entries[i]
        /\ DOMAIN entries' = DOMAIN entries \cup {Len(entries) + 1}
        /\ entries'[Len(entries) + 1] = made
    BY <1>1, <2>1, <2>2, AppendKeepsApart
  <2>4. \A r \in built' \cup failed' : Passed(plan, pos + 1, r)
    BY <1>1, <2>1, PassedIsBefore DEF RunInv
  <2>5. \A i \in DOMAIN entries' : entries'[i].id \in built' \/ ListedIn(index, entries'[i])
    BY <1>1, <1>2, <2>1, <2>2, <2>3 DEF RunInv, Carried
  <2> QED
    BY <1>1, <1>2, <2>3, <2>4, <2>5 DEF RunInv, Before, Carried
<1> QED BY <1>3, <1>4

\* A step inside a region, or one that writes the index's temp file.
LEMMA RunFrame ==
    ASSUME RunInv, pc # Idle,
           UNCHANGED <<index, plan, pos, existing, entries, built, failed>>,
           pc' \in {"download", "build", "rename", "verify"} => made' = NoFile,
           pc' = "cleanup" /\ made' # NoFile => made'.id = Row.id
    PROVE  RunInv'
  BY DEF RunInv, Before, Carried, Row

LEMMA RunStepInv == TypeInv /\ RunInv /\ [Next]_vars => RunInv'
<1> SUFFICES ASSUME TypeInv, RunInv, [Next]_vars PROVE RunInv'
  OBVIOUS
<1>1. ASSUME NEW o \in Options, Start(o) PROVE RunInv'
  BY <1>1 DEF Start, RunInv, LastWins
<1>2. CASE SkipRegion
  BY <1>2, RunSkip
<1>3. CASE GatePass \/ Download \/ WriteGraph \/ InstallGraph
  BY <1>3, RunFrame
  DEF GatePass, MustBuild, AtRegion, Download, WriteGraph, InstallGraph, RunInv,
      dir, Idle
<1>4. CASE DownloadFails \/ BuildFails \/ VerifyFails
  BY <1>4, RunFrame
  DEF DownloadFails, BuildFails, VerifyFails, RunInv, dir, Idle
<1>5. CASE VerifyGraph
  <2>1. made'.id = Row.id
    BY <1>5 DEF VerifyGraph, MadeEntry
  <2> QED
    BY <1>5, <2>1, RunFrame DEF VerifyGraph, dir, Idle
<1>6. CASE Cleanup
  BY <1>6, RunCleanup
<1>7. CASE WriteIndex
  BY <1>7, RunFrame DEF WriteIndex, Idle
<1>8. CASE GateRefuse \/ IndexFails \/ CommitIndex \/ Crash
  BY <1>8 DEF GateRefuse, IndexFails, CommitIndex, Crash, RunInv
<1>9. CASE Environment \/ Refuse \/ UNCHANGED vars
  <2>1. UNCHANGED <<pc, index, plan, pos, existing, entries, built, failed, made>>
    BY <1>9
    DEF Environment, EditManifest, Republish, Upgrade, LoseGraph, Refuse, vars,
        dir, proc
  <2> QED
    BY <2>1 DEF RunInv, Before, Carried, Row
<1> QED
  BY <1>1, <1>2, <1>3, <1>4, <1>5, <1>6, <1>7, <1>8, <1>9 DEF Next, RunStep

LEMMA RunAlways == Spec => []RunInv
  BY RunInit, RunStepInv, TypeAlways, PTL DEF Spec

----------------------------------------------------------------------------
(* Batch implements Catalogue *)

\* What the refinement mapping gives Catalogue's `fresh`.
Fresh == IF pc = Idle THEN {}
         ELSE {entries[i] : i \in {k \in DOMAIN entries : entries[k].id \in built}}

LEMMA FreshSame ==
    ASSUME UNCHANGED <<entries, built>>, pc # Idle, pc' # Idle
    PROVE  Fresh' = Fresh
  BY DEF Fresh

\* Skipping a region lists its entry among the carried ones.
LEMMA FreshSkip ==
    ASSUME TypeInv, RunInv, SkipRegion
    PROVE  Fresh' = Fresh
<1>1. pos \in DOMAIN plan /\ pc # Idle /\ pc' # Idle /\ built' = built
  BY AtRegionRow DEF SkipRegion, AtRegion, Idle
<1>2. PICK e \in existing : /\ CanSkip(Row, e)
                           /\ entries' = Append(entries, [e EXCEPT !.link = opts.base])
  BY DEF SkipRegion
<1> DEFINE f == [e EXCEPT !.link = opts.base]
<1>3. f \in Entries /\ f.id = Row.id /\ entries' = Append(entries, f)
  BY <1>2 DEF CanSkip, Entries, TypeInv, TypeOK, Options
<1> HIDE DEF f
<1>4. /\ \A i \in DOMAIN entries : entries'[i] = entries[i]
      /\ DOMAIN entries' = DOMAIN entries \cup {Len(entries) + 1}
      /\ entries'[Len(entries) + 1] = f
  BY <1>1, <1>3, AppendKeepsApart
<1>5. f.id \notin built
  BY <1>1, <1>3, CurrentIsNew DEF RunInv
<1> QED BY <1>1, <1>4, <1>5 DEF Fresh

\* A region that was built adds its entry to the verified ones.
LEMMA FreshCleanup ==
    ASSUME TypeInv, RunInv, Cleanup
    PROVE  Fresh' = IF made = NoFile THEN Fresh ELSE Fresh \cup {made}
<1>1. pos \in DOMAIN plan /\ pc = "cleanup" /\ pc # Idle /\ pc' # Idle
  BY DEF Cleanup, TypeInv, PlanInv, Idle
<1>2. CASE made = NoFile
  BY <1>1, <1>2, FreshSame DEF Cleanup
<1>3. CASE made # NoFile
  <2>1. entries' = Append(entries, made) /\ built' = built \cup {Row.id}
    BY <1>3 DEF Cleanup
  <2>2. made \in Entries /\ made.id = Row.id
    BY <1>1, <1>3 DEF RunInv, TypeInv, TypeOK
  <2>3. /\ \A i \in DOMAIN entries : entries'[i] = entries[i]
        /\ DOMAIN entries' = DOMAIN entries \cup {Len(entries) + 1}
        /\ entries'[Len(entries) + 1] = made
    BY <1>1, <2>1, <2>2, AppendKeepsApart
  <2>4. \A i \in DOMAIN entries : entries[i].id # Row.id
    BY <1>1, CurrentIsNew DEF RunInv
  <2> QED BY <1>1, <1>3, <2>1, <2>2, <2>3, <2>4 DEF Fresh
<1> QED BY <1>2, <1>3

\* Completing a run publishes carried and verified entries, one per region.
LEMMA CommitPublishes ==
    ASSUME TypeInv, RunInv, CommitIndex
    PROVE  Cat!Next
<1>1. pc # Idle /\ pc' = Idle /\ index' = entries
  BY DEF CommitIndex, Idle
<1>2. \A i \in DOMAIN entries :
        entries[i] \in Fresh \/ \E j \in DOMAIN index : Cat!SameFile(entries[i], index[j])
  BY <1>1 DEF RunInv, Carried, ListedIn, Fresh
<1>3. \A i, j \in DOMAIN entries : entries[i].id = entries[j].id => i = j
  BY <1>1 DEF RunInv
<1>4. index' \in Seq(Entries)
  BY <1>1 DEF TypeInv, TypeOK
<1> QED
  BY <1>1, <1>2, <1>3, <1>4 DEF Cat!Next, Cat!Publish, Fresh

LEMMA CatalogueStep ==
    TypeInv /\ HonestInv /\ RunInv /\ [Next]_vars => [Cat!Next]_(Cat!vars)
<1> SUFFICES ASSUME TypeInv, HonestInv, RunInv, [Next]_vars
             PROVE  [Cat!Next]_(Cat!vars)
  OBVIOUS
<1>0. Fresh' = Fresh /\ index' = index => [Cat!Next]_(Cat!vars)
  BY DEF Cat!vars, Fresh
<1>1. ASSUME NEW o \in Options, Start(o) PROVE [Cat!Next]_(Cat!vars)
  <2>1. Fresh = {} /\ Fresh' = {} /\ index' = index
    BY <1>1 DEF Start, Fresh
  <2> QED BY <2>1, <1>0
<1>2. CASE SkipRegion
  BY <1>0, <1>2, FreshSkip DEF SkipRegion, dir
<1>3. CASE GatePass \/ Download \/ DownloadFails \/ WriteGraph \/ BuildFails
           \/ InstallGraph \/ VerifyGraph \/ VerifyFails \/ WriteIndex
  <2>1. UNCHANGED <<index, entries, built>> /\ pc # Idle /\ pc' # Idle
    BY <1>3
    DEF GatePass, MustBuild, AtRegion, Download, DownloadFails, WriteGraph,
        BuildFails, InstallGraph, VerifyGraph, VerifyFails, WriteIndex, dir, Idle
  <2> QED BY <1>0, <2>1, FreshSame
<1>4. CASE Cleanup
  <2>1. index' = index
    BY <1>4 DEF Cleanup
  <2>2. CASE made = NoFile
    BY <1>0, <1>4, <2>1, <2>2, FreshCleanup
  <2>3. CASE made # NoFile
    <3>1. Fresh' = Fresh \cup {made} /\ made \in {e \in Entries : Honest(e)}
      BY <1>4, <2>3, FreshCleanup DEF HonestInv, TypeInv, TypeOK
    <3> QED BY <2>1, <3>1 DEF Cat!Next, Cat!Verify, Fresh
  <2> QED BY <2>2, <2>3
<1>5. CASE GateRefuse \/ IndexFails \/ Crash
  <2>1. index' = index /\ Fresh' = {}
    BY <1>5 DEF GateRefuse, IndexFails, Crash, Fresh, dir
  <2> QED BY <2>1 DEF Cat!Next, Cat!Discard, Fresh
<1>6. CASE CommitIndex
  BY <1>6, CommitPublishes
<1>7. CASE Environment \/ Refuse \/ UNCHANGED vars
  <2>1. UNCHANGED <<pc, index, entries, built>>
    BY <1>7
    DEF Environment, EditManifest, Republish, Upgrade, LoseGraph, Refuse, vars,
        dir, proc
  <2> QED BY <1>0, <2>1 DEF Fresh
<1> QED
  BY <1>1, <1>2, <1>3, <1>4, <1>5, <1>6, <1>7 DEF Next, RunStep

LEMMA CatalogueInit == Init => Cat!Init
  BY DEF Init, Cat!Init

\* Readers of index.json see a catalogue: it is replaced as a whole, by runs
\* that complete, out of entries it had and files that were verified.
THEOREM BatchIsCatalogue == Spec => RefinesCatalogue
<1>1. Spec => [](TypeInv /\ HonestInv /\ RunInv)
  BY TypeAlways, RunAlways, HonestInit, HonestStep, PTL DEF Spec
<1> QED
  BY <1>1, CatalogueInit, CatalogueStep, PTL DEF Spec, RefinesCatalogue, Cat!Spec

----------------------------------------------------------------------------
(* The index and the files *)

\* In disk mode every entry gathered so far hashes to its file, and a region
\* is only under construction if no cached entry lets it be skipped.
DiskInv ==
    pc # Idle =>
        /\ ~opts.trust => \A i \in DOMAIN entries : graphs[entries[i].id] = entries[i].sha
        /\ pc = "cleanup" /\ made # NoFile => graphs[Row.id] = made.sha
        /\ pc \in {"download", "build", "rename"} => \A e \in existing : ~CanSkip(Row, e)

LEMMA DiskInit == Init => DiskInv
  BY DEF Init, DiskInv

\* A graph is installed: it is no entry's file yet.
LEMMA DiskInstall ==
    ASSUME TypeInv, RunInv, DiskInv, InstallGraph
    PROVE  DiskInv'
<1>1. pos \in DOMAIN plan /\ pc # Idle
  BY DEF InstallGraph, TypeInv, PlanInv, Idle
<1>2. \A i \in DOMAIN entries : entries[i].id # Row.id /\ entries[i].id \in Ids
  <2>1. \A i \in DOMAIN entries : Before(entries[i].id)
    BY <1>1 DEF RunInv
  <2>2. \A i \in DOMAIN entries : entries[i] \in Entries
    BY DEF TypeInv, TypeOK
  <2>3. \A e \in Entries : e.id \in Ids
    BY DEF Entries
  <2> QED BY <1>1, <2>1, <2>2, <2>3, CurrentIsNew
<1>3. \A r \in Ids : r # Row.id => graphs'[r] = graphs[r]
  BY DEF InstallGraph, TypeInv, TypeOK
<1>4. pc' = "verify" /\ UNCHANGED <<entries, opts>>
  BY DEF InstallGraph
<1> QED BY <1>1, <1>2, <1>3, <1>4 DEF DiskInv

\* A region is skipped: in disk mode its file was just hashed.
LEMMA DiskSkip ==
    ASSUME TypeInv, RunInv, DiskInv, SkipRegion
    PROVE  DiskInv'
<1>1. pos \in DOMAIN plan /\ pc # Idle /\ pc' = "region"
  BY AtRegionRow DEF SkipRegion, AtRegion, Idle
<1>2. PICK e \in existing : /\ CanSkip(Row, e)
                           /\ entries' = Append(entries, [e EXCEPT !.link = opts.base])
  BY DEF SkipRegion
<1> DEFINE f == [e EXCEPT !.link = opts.base]
<1>3. f \in Entries /\ f.id = Row.id /\ entries' = Append(entries, f)
  BY <1>2 DEF CanSkip, Entries, TypeInv, TypeOK, Options
<1>4. ~opts.trust => graphs[f.id] = f.sha
  BY <1>2 DEF CanSkip, FreshOnDisk, Entries, TypeInv, TypeOK
<1> HIDE DEF f
<1>5. /\ \A i \in DOMAIN entries : entries'[i] = entries[i]
      /\ DOMAIN entries' = DOMAIN entries \cup {Len(entries) + 1}
      /\ entries'[Len(entries) + 1] = f
  BY <1>1, <1>3, AppendKeepsApart
<1>6. UNCHANGED <<graphs, opts>>
  BY DEF SkipRegion, dir
<1> QED BY <1>1, <1>4, <1>5, <1>6 DEF DiskInv

\* A built region's entry was made of the file on disk.
LEMMA DiskCleanup ==
    ASSUME TypeInv, RunInv, DiskInv, Cleanup
    PROVE  DiskInv'
<1>1. pos \in DOMAIN plan /\ pc = "cleanup" /\ pc # Idle /\ pc' = "region"
  BY DEF Cleanup, TypeInv, PlanInv, Idle
<1>2. UNCHANGED <<graphs, opts>>
  BY DEF Cleanup
<1>3. CASE made = NoFile
  BY <1>1, <1>2, <1>3 DEF Cleanup, DiskInv
<1>4. CASE made # NoFile
  <2>1. made \in Entries /\ made.id = Row.id /\ entries' = Append(entries, made)
    BY <1>1, <1>4 DEF Cleanup, RunInv, TypeInv, TypeOK
  <2>2. /\ \A i \in DOMAIN entries : entries'[i] = entries[i]
        /\ DOMAIN entries' = DOMAIN entries \cup {Len(entries) + 1}
        /\ entries'[Len(entries) + 1] = made
    BY <1>1, <2>1, AppendKeepsApart
  <2> QED BY <1>1, <1>2, <1>4, <2>1, <2>2 DEF DiskInv
<1> QED BY <1>3, <1>4

LEMMA DiskStep == TypeInv /\ RunInv /\ DiskInv /\ [Next]_vars => DiskInv'
<1> SUFFICES ASSUME TypeInv, RunInv, DiskInv, [Next]_vars PROVE DiskInv'
  OBVIOUS
<1>1. ASSUME NEW o \in Options, Start(o) PROVE DiskInv'
  BY <1>1 DEF Start, DiskInv
<1>2. CASE SkipRegion
  BY <1>2, DiskSkip
<1>3. CASE GatePass
  <2>1. /\ \A e \in existing : ~CanSkip(Row, e)
        /\ pc # Idle /\ pc' = "download"
        /\ UNCHANGED <<existing, opts, plan, pos, graphs, version, entries>>
    BY <1>3 DEF GatePass, MustBuild, AtRegion, dir, world, Idle
  <2> QED
    BY <2>1 DEF DiskInv, Row, CanSkip, Trustworthy, FreshOnDisk
<1>4. CASE Download \/ WriteGraph
  BY <1>4
  DEF Download, WriteGraph, DiskInv, Row, CanSkip, Trustworthy, FreshOnDisk,
      world, Idle
<1>5. CASE DownloadFails \/ BuildFails \/ VerifyFails
  <2>1. /\ pc # Idle /\ pc' = "cleanup" /\ made' = NoFile
        /\ UNCHANGED <<graphs, entries, opts>>
    BY <1>5 DEF DownloadFails, BuildFails, VerifyFails, RunInv, dir, Idle
  <2> QED BY <2>1 DEF DiskInv
<1>6. CASE InstallGraph
  BY <1>6, DiskInstall
<1>7. CASE VerifyGraph
  BY <1>7 DEF VerifyGraph, MadeEntry, DiskInv, Row, dir, Idle
<1>8. CASE Cleanup
  BY <1>8, DiskCleanup
<1>9. CASE WriteIndex
  BY <1>9 DEF WriteIndex, DiskInv, Idle
<1>10. CASE GateRefuse \/ IndexFails \/ CommitIndex \/ Crash
  BY <1>10 DEF GateRefuse, IndexFails, CommitIndex, Crash, DiskInv
<1>11. CASE Environment \/ Refuse \/ UNCHANGED vars
  <2>1. UNCHANGED <<pc, opts, plan, pos, existing, entries, made>>
    BY <1>11
    DEF Environment, EditManifest, Republish, Upgrade, LoseGraph, Refuse, vars, dir, proc
  <2>2. pc # Idle => UNCHANGED <<graphs, version>>
    BY <1>11
    DEF Environment, EditManifest, Republish, Upgrade, LoseGraph, Refuse, vars,
        dir, world
  <2> QED
    BY <2>1, <2>2 DEF DiskInv, Row, CanSkip, Trustworthy, FreshOnDisk
<1> QED
  BY <1>1, <1>2, <1>3, <1>4, <1>5, <1>6, <1>7, <1>8, <1>9, <1>10, <1>11
  DEF Next, RunStep

LEMMA DiskAlways == Spec => [](TypeInv /\ RunInv /\ DiskInv)
  BY DiskInit, DiskStep, TypeAlways, RunAlways, PTL DEF Spec

\* The only step that ends a run and writes the index is CommitIndex.
LEMMA CommitsIsCommit ==
    ASSUME [Next]_vars, Commits
    PROVE  CommitIndex
  BY DEF Commits, Next, RunStep, Start, Refuse, SkipRegion, GatePass, GateRefuse,
         MustBuild, AtRegion, Download, DownloadFails, WriteGraph, BuildFails,
         InstallGraph, VerifyGraph, VerifyFails, Cleanup, WriteIndex, IndexFails,
         Crash, Environment, EditManifest, Republish, Upgrade, LoseGraph, vars,
         proc, Idle

LEMMA CommitHeals ==
    ASSUME DiskInv, [Next]_vars, Commits, ~opts.trust
    PROVE  \A i \in DOMAIN index' : graphs'[index'[i].id] = index'[i].sha
  BY CommitsIsCommit DEF CommitIndex, DiskInv, Idle

\* A disk-mode run that completes leaves an index whose every entry hashes to
\* the file next to it, whatever crashed or was deleted before.
THEOREM DiskModeAlwaysHeals == Spec => DiskModeHeals
<1>1. DiskInv /\ [Next]_vars =>
        [Commits /\ ~opts.trust =>
            \A i \in DOMAIN index' : graphs'[index'[i].id] = index'[i].sha]_vars
  BY CommitHeals
<1> QED BY <1>1, DiskAlways, PTL DEF Spec, DiskModeHeals

\* During a run only InstallGraph changes a file, and only the current row's.
LEMMA OnlyInstallWrites ==
    ASSUME TypeInv, [Next]_vars, pc # Idle, NEW r \in Ids, graphs'[r] # graphs[r]
    PROVE  InstallGraph /\ r = Row.id
<1>1. InstallGraph
  BY DEF Next, RunStep, Start, Refuse, SkipRegion, GatePass, GateRefuse, Download,
         DownloadFails, WriteGraph, BuildFails, VerifyGraph, VerifyFails, Cleanup,
         WriteIndex, IndexFails, CommitIndex, Crash, Environment, EditManifest,
         Republish, Upgrade, LoseGraph, vars, dir, Idle
<1> QED BY <1>1 DEF InstallGraph, TypeInv, TypeOK

\* A run never rewrites the file of a region that was up to date.
THEOREM UpToDateStaysUntouched == Spec => UpToDateUntouched
<1> DEFINE Only ==
      \A r \in Ids : (pc # Idle /\ graphs'[r] # graphs[r]) =>
          ~\E e \in existing : \E k \in DOMAIN plan :
              plan[k].id = r /\ CanSkip(plan[k], e)
<1>1. ASSUME TypeInv, DiskInv, [Next]_vars PROVE Only
  <2> SUFFICES ASSUME NEW r \in Ids, pc # Idle, graphs'[r] # graphs[r],
                      NEW e \in existing, NEW k \in DOMAIN plan,
                      plan[k].id = r, CanSkip(plan[k], e)
               PROVE  FALSE
    OBVIOUS
  <2>1. InstallGraph /\ r = Row.id
    BY <1>1, OnlyInstallWrites
  <2>2. pos \in DOMAIN plan /\ Valid(plan)
    BY <1>1, <2>1 DEF InstallGraph, TypeInv, PlanInv, Idle
  <2>3. k = pos
    BY <2>1, <2>2 DEF Valid, Row
  <2> QED BY <1>1, <2>1, <2>3 DEF DiskInv, InstallGraph, Row
<1>2. TypeInv /\ DiskInv /\ [Next]_vars => [Only]_vars
  BY <1>1
<1> QED BY <1>2, DiskAlways, PTL DEF Spec, UpToDateUntouched

----------------------------------------------------------------------------
(* The new index is of this run: no stale entry, the manifest's order *)

\* What an entry of the new index owes to the run that writes it.
Current(e) ==
    /\ e.version = version
    /\ e.link = opts.base
    /\ opts.trust => \E k \in DOMAIN plan : plan[k].id = e.id /\ plan[k].url = e.source
    /\ opts.force => e.id \in built

\* The entry just made is the current row's.
OfRow(e) ==
    /\ e.version = version
    /\ e.link = opts.base
    /\ e.source = Row.url

\* Every entry gathered so far is current; the binary does not change while
\* it runs.
CurrentInv ==
    pc # Idle =>
        /\ \A i \in DOMAIN entries : Current(entries[i])
        /\ pc = "cleanup" /\ made # NoFile => OfRow(made)

LEMMA CurrentInit == Init => CurrentInv
  BY DEF Init, CurrentInv

\* An entry stays current while the run goes on.
LEMMA CurrentFrame ==
    ASSUME UNCHANGED <<version, opts, plan>>, built \subseteq built',
           NEW e, Current(e)
    PROVE  Current(e)'
  BY DEF Current

\* A skipped region's entry is current: it was compared with the binary and,
\* under --trust-index, with the row; under --force nothing is skipped.
LEMMA CurrentSkip ==
    ASSUME TypeInv, RunInv, CurrentInv, SkipRegion
    PROVE  CurrentInv'
<1>1. pos \in DOMAIN plan /\ pc # Idle /\ pc' = "region"
  BY AtRegionRow DEF SkipRegion, AtRegion, Idle
<1>2. PICK e \in existing : /\ CanSkip(Row, e)
                           /\ entries' = Append(entries, [e EXCEPT !.link = opts.base])
  BY DEF SkipRegion
<1> DEFINE f == [e EXCEPT !.link = opts.base]
<1>3. /\ f \in Entries /\ f.id = Row.id /\ entries' = Append(entries, f)
      /\ f.link = opts.base /\ f.version = e.version /\ f.source = e.source
  BY <1>2 DEF CanSkip, Entries, TypeInv, TypeOK, Options
<1>4. ~opts.force /\ e.version = version /\ (opts.trust => e.source = Row.url)
  BY <1>2 DEF CanSkip, Trustworthy, FreshOnDisk
<1> HIDE DEF f
<1>5. Current(f)
  BY <1>1, <1>3, <1>4 DEF Current, Row
<1>6. UNCHANGED <<version, opts, plan, built>>
  BY DEF SkipRegion, world
<1>7. /\ \A i \in DOMAIN entries : entries'[i] = entries[i]
      /\ DOMAIN entries' = DOMAIN entries \cup {Len(entries) + 1}
      /\ entries'[Len(entries) + 1] = f
  BY <1>1, <1>3, AppendKeepsApart
<1>8. \A i \in DOMAIN entries' : Current(entries'[i])
  BY <1>1, <1>5, <1>7 DEF CurrentInv
<1>9. \A i \in DOMAIN entries' : Current(entries[i])'
  BY <1>6, <1>8 DEF Current
<1> QED BY <1>1, <1>9, Zenon DEF CurrentInv, Idle

\* A built region's entry is current.
LEMMA CurrentCleanup ==
    ASSUME TypeInv, RunInv, CurrentInv, Cleanup
    PROVE  CurrentInv'
<1>1. pos \in DOMAIN plan /\ pc = "cleanup" /\ pc # Idle /\ pc' = "region"
  BY DEF Cleanup, TypeInv, PlanInv, Idle
<1>2. UNCHANGED <<version, opts, plan>> /\ built \subseteq built'
  BY DEF Cleanup, world
<1>3. \A i \in DOMAIN entries : Current(entries[i])
  BY <1>1 DEF CurrentInv
<1>4. CASE made = NoFile
  <2>1. entries' = entries /\ built' = built
    BY <1>4 DEF Cleanup
  <2> QED BY <1>1, <1>2, <1>3, <2>1 DEF CurrentInv, Current
<1>5. CASE made # NoFile
  <2>1. /\ entries' = Append(entries, made) /\ built' = built \cup {Row.id}
        /\ made \in Entries /\ made.id = Row.id /\ OfRow(made)
    BY <1>1, <1>5 DEF Cleanup, RunInv, CurrentInv, TypeInv, TypeOK
  <2>2. /\ \A i \in DOMAIN entries : entries'[i] = entries[i]
        /\ DOMAIN entries' = DOMAIN entries \cup {Len(entries) + 1}
        /\ entries'[Len(entries) + 1] = made
    BY <1>1, <2>1, AppendKeepsApart
  <2> QED
    BY <1>1, <1>2, <1>3, <2>1, <2>2 DEF CurrentInv, Current, OfRow, Row
<1> QED BY <1>4, <1>5

LEMMA CurrentStep == TypeInv /\ RunInv /\ CurrentInv /\ [Next]_vars => CurrentInv'
<1> SUFFICES ASSUME TypeInv, RunInv, CurrentInv, [Next]_vars PROVE CurrentInv'
  OBVIOUS
<1>1. ASSUME NEW o \in Options, Start(o) PROVE CurrentInv'
  BY <1>1 DEF Start, CurrentInv
<1>2. CASE SkipRegion
  BY <1>2, CurrentSkip
<1>3. CASE GatePass \/ Download \/ WriteGraph \/ InstallGraph \/ WriteIndex
  <2>1. /\ UNCHANGED <<version, opts, plan, built, entries>>
        /\ pc # Idle /\ pc' # "cleanup"
    BY <1>3
    DEF GatePass, MustBuild, AtRegion, Download, WriteGraph, InstallGraph,
        WriteIndex, world, Idle
  <2> QED BY <2>1 DEF CurrentInv, Current
<1>4. CASE DownloadFails \/ BuildFails \/ VerifyFails
  <2>1. /\ UNCHANGED <<version, opts, plan, built, entries>>
        /\ pc # Idle /\ made' = NoFile
    BY <1>4 DEF DownloadFails, BuildFails, VerifyFails, RunInv, world, Idle
  <2> QED BY <2>1 DEF CurrentInv, Current
<1>5. CASE VerifyGraph
  <2>1. /\ UNCHANGED <<version, opts, plan, pos, built, entries>> /\ pc # Idle
        /\ OfRow(made')
    BY <1>5 DEF VerifyGraph, MadeEntry, OfRow, world, Idle
  <2> QED BY <2>1 DEF CurrentInv, Current, OfRow, Row
<1>6. CASE Cleanup
  BY <1>6, CurrentCleanup
<1>7. CASE GateRefuse \/ IndexFails \/ CommitIndex \/ Crash
  BY <1>7 DEF GateRefuse, IndexFails, CommitIndex, Crash, CurrentInv
<1>8. CASE Environment \/ Refuse \/ UNCHANGED vars
  <2>1. UNCHANGED <<pc, opts, plan, pos, built, entries, made>>
    BY <1>8
    DEF Environment, EditManifest, Republish, Upgrade, LoseGraph, Refuse, vars,
        dir, proc
  <2>2. pc # Idle => version' = version
    BY <1>8
    DEF Environment, EditManifest, Republish, Upgrade, LoseGraph, Refuse, vars, world
  <2> QED BY <2>1, <2>2 DEF CurrentInv, Current, OfRow, Row
<1> QED
  BY <1>1, <1>2, <1>3, <1>4, <1>5, <1>6, <1>7, <1>8 DEF Next, RunStep

\* No entry outlives what it was made for: a completed run's index has the
\* binary's version and the run's base URL throughout, the manifest's source
\* under --trust-index, and only what the run built under --force.
THEOREM IndexAlwaysCurrent == Spec => IndexIsCurrent
<1> DEFINE Now ==
      Commits =>
        \A i \in DOMAIN index' :
            /\ index'[i].version = version
            /\ index'[i].link = opts.base
            /\ opts.trust => \E k \in DOMAIN plan :
                                /\ plan[k].id = index'[i].id
                                /\ plan[k].url = index'[i].source
            /\ opts.force => index'[i].id \in built
<1>1. ASSUME CurrentInv, [Next]_vars, Commits PROVE Now
  <2>1. index' = entries /\ pc # Idle
    BY <1>1, CommitsIsCommit DEF CommitIndex, Idle
  <2> QED BY <1>1, <2>1 DEF CurrentInv, Current
<1>2. CurrentInv /\ [Next]_vars => [Now]_vars
  BY <1>1
<1>3. Spec => []CurrentInv
  BY CurrentInit, CurrentStep, TypeAlways, RunAlways, PTL DEF Spec
<1> QED BY <1>2, <1>3, PTL DEF Spec, IndexIsCurrent

\* Region r stands before region s among the first n rows of p.
InOrder(p, n, r, s) ==
    \E k, l \in DOMAIN p : k < l /\ l < n /\ p[k].id = r /\ p[l].id = s

\* The rows passed either failed or have an entry, never both, and the entries
\* are in the order of their rows.
FollowInv ==
    pc # Idle =>
        /\ \A k \in DOMAIN plan : k < pos =>
             \/ plan[k].id \in failed
             \/ \E i \in DOMAIN entries : entries[i].id = plan[k].id
        /\ \A i \in DOMAIN entries : entries[i].id \notin failed
        /\ \A i, j \in DOMAIN entries :
             i < j => InOrder(plan, pos, entries[i].id, entries[j].id)
        /\ pc = "index" => pos > Len(plan)

LEMMA FollowInit == Init => FollowInv
  BY DEF Init, FollowInv

\* The current row gives an entry: it comes after all the others.
LEMMA FollowAppend ==
    ASSUME TypeInv, RunInv, FollowInv, pc # Idle, pos \in DOMAIN plan,
           NEW e \in Entries, e.id = Row.id, entries' = Append(entries, e),
           pos' = pos + 1, pc' = "region", UNCHANGED <<plan, failed>>
    PROVE  FollowInv'
<1>1. /\ \A i \in DOMAIN entries : entries'[i] = entries[i]
      /\ DOMAIN entries' = DOMAIN entries \cup {Len(entries) + 1}
      /\ entries'[Len(entries) + 1] = e
  BY AppendKeepsApart
<1>2. plan \in Seq(Rows) /\ pos \in Nat /\ entries \in Seq(Entries)
  BY DataAssumption DEF TypeInv, TypeOK, PlanInv
<1>3. \A k \in DOMAIN plan : k < pos + 1 =>
        \/ plan[k].id \in failed
        \/ \E i \in DOMAIN entries' : entries'[i].id = plan[k].id
  <2> SUFFICES ASSUME NEW k \in DOMAIN plan, k < pos + 1, plan[k].id \notin failed
               PROVE  \E i \in DOMAIN entries' : entries'[i].id = plan[k].id
    OBVIOUS
  <2>1. CASE k = pos
    BY <1>1, <2>1 DEF Row
  <2>2. CASE k # pos
    <3>1. k < pos
      BY <1>2, <2>2
    <3>2. PICK i \in DOMAIN entries : entries[i].id = plan[k].id
      BY <3>1 DEF FollowInv
    <3> QED BY <1>1, <3>2
  <2> QED BY <2>1, <2>2
<1>4. \A i \in DOMAIN entries' : entries'[i].id \notin failed
  BY <1>1, CurrentIsNew DEF RunInv, FollowInv
<1>5. ASSUME NEW i \in DOMAIN entries', NEW j \in DOMAIN entries', i < j
      PROVE  InOrder(plan, pos + 1, entries'[i].id, entries'[j].id)
  <2>1. i \in DOMAIN entries
    BY <1>1, <1>2, <1>5
  <2>2. CASE j \in DOMAIN entries
    <3>1. InOrder(plan, pos, entries[i].id, entries[j].id)
      BY <1>5, <2>1, <2>2 DEF FollowInv
    <3>2. entries'[i] = entries[i] /\ entries'[j] = entries[j]
      BY <1>1, <2>1, <2>2
    <3>3. InOrder(plan, pos + 1, entries[i].id, entries[j].id)
      BY <1>2, <3>1 DEF InOrder
    <3> QED BY <3>2, <3>3
  <2>3. CASE j = Len(entries) + 1
    <3>1. Passed(plan, pos, entries[i].id)
      BY <2>1 DEF RunInv, Before
    <3>2. PICK k \in DOMAIN plan : k < pos /\ plan[k].id = entries[i].id
      BY <3>1 DEF Passed
    <3>3. entries'[i].id = entries[i].id /\ entries'[j].id = plan[pos].id
      BY <1>1, <2>1, <2>3 DEF Row
    <3>4. pos < pos + 1
      BY <1>2
    <3> QED BY <3>2, <3>3, <3>4 DEF InOrder
  <2> QED BY <1>1, <1>5, <2>2, <2>3
<1> QED BY <1>3, <1>4, <1>5 DEF FollowInv

LEMMA FollowStep == TypeInv /\ RunInv /\ FollowInv /\ [Next]_vars => FollowInv'
<1> SUFFICES ASSUME TypeInv, RunInv, FollowInv, [Next]_vars PROVE FollowInv'
  OBVIOUS
<1>1. ASSUME NEW o \in Options, Start(o) PROVE FollowInv'
  <2>1. /\ plan' \in Seq(Rows) /\ pos' = 1 /\ entries' = <<>>
        /\ pc' = "region"
    BY <1>1, DataAssumption DEF Start, TypeInv, TypeOK
  <2> QED BY <2>1 DEF FollowInv
<1>2. CASE SkipRegion
  <2>1. /\ pos \in DOMAIN plan /\ pc # Idle /\ pc' = "region"
        /\ pos' = pos + 1 /\ UNCHANGED <<plan, failed>>
    BY <1>2, AtRegionRow DEF SkipRegion, AtRegion, Idle
  <2>2. PICK e \in existing : /\ CanSkip(Row, e)
                             /\ entries' = Append(entries, [e EXCEPT !.link = opts.base])
    BY <1>2 DEF SkipRegion
  <2>3. [e EXCEPT !.link = opts.base] \in Entries /\ [e EXCEPT !.link = opts.base].id = Row.id
    BY <2>2 DEF CanSkip, Entries, TypeInv, TypeOK, Options
  <2> QED BY <2>1, <2>2, <2>3, FollowAppend
<1>3. CASE Cleanup
  <2>1. /\ pos \in DOMAIN plan /\ pc = "cleanup" /\ pc # Idle /\ pc' = "region"
        /\ pos' = pos + 1 /\ plan' = plan
    BY <1>3 DEF Cleanup, NextRegion, TypeInv, PlanInv, Idle
  <2>2. CASE made = NoFile
    <3>1. failed' = failed \cup {Row.id} /\ entries' = entries
      BY <1>3, <2>2 DEF Cleanup
    <3>2. \A i \in DOMAIN entries : entries[i].id # Row.id
      BY <2>1, CurrentIsNew DEF RunInv
    <3>3. plan \in Seq(Rows) /\ pos \in Nat
      BY <2>1, DataAssumption DEF TypeInv, TypeOK, PlanInv
    <3>4. \A k \in DOMAIN plan : k < pos + 1 => k < pos \/ k = pos
      BY <3>3
    <3>5. \A i, j \in DOMAIN entries :
            i < j => InOrder(plan, pos + 1, entries[i].id, entries[j].id)
      BY <2>1, <3>3 DEF FollowInv, InOrder
    <3> QED BY <2>1, <3>1, <3>2, <3>4, <3>5 DEF FollowInv, Row
  <2>3. CASE made # NoFile
    <3>1. /\ entries' = Append(entries, made) /\ failed' = failed
          /\ made \in Entries /\ made.id = Row.id
      BY <1>3, <2>1, <2>3 DEF Cleanup, RunInv, TypeInv, TypeOK
    <3> QED BY <2>1, <3>1, FollowAppend
  <2> QED BY <2>2, <2>3
<1>4. CASE GatePass \/ Download \/ DownloadFails \/ WriteGraph \/ BuildFails
           \/ InstallGraph \/ VerifyGraph \/ VerifyFails
  <2>1. /\ UNCHANGED <<plan, pos, failed, entries>>
        /\ pc # Idle /\ pc' # "index"
    BY <1>4
    DEF GatePass, MustBuild, AtRegion, Download, DownloadFails, WriteGraph,
        BuildFails, InstallGraph, VerifyGraph, VerifyFails, Idle
  <2> QED BY <2>1 DEF FollowInv
<1>5. CASE WriteIndex
  BY <1>5 DEF WriteIndex, FollowInv, Idle
<1>6. CASE GateRefuse \/ IndexFails \/ CommitIndex \/ Crash
  BY <1>6 DEF GateRefuse, IndexFails, CommitIndex, Crash, FollowInv
<1>7. CASE Environment \/ Refuse \/ UNCHANGED vars
  <2>1. UNCHANGED <<pc, plan, pos, failed, entries>>
    BY <1>7
    DEF Environment, EditManifest, Republish, Upgrade, LoseGraph, Refuse, vars,
        dir, proc
  <2> QED BY <2>1 DEF FollowInv
<1> QED
  BY <1>1, <1>2, <1>3, <1>4, <1>5, <1>6, <1>7 DEF Next, RunStep

\* A completed run's index lists the regions of the manifest that did not
\* fail, in the manifest's order and each once.
THEOREM IndexAlwaysFollowsManifest == Spec => IndexFollowsManifest
<1> DEFINE Follows ==
      Commits =>
        /\ {index'[i].id : i \in DOMAIN index'} =
             {plan[k].id : k \in DOMAIN plan} \ failed
        /\ \A i, j \in DOMAIN index' : i < j =>
             \E k, l \in DOMAIN plan :
                 /\ k < l
                 /\ plan[k].id = index'[i].id /\ plan[l].id = index'[j].id
<1>1. ASSUME TypeInv, RunInv, FollowInv, [Next]_vars, Commits PROVE Follows
  <2>1. index' = entries /\ pc # Idle /\ pos > Len(plan)
    BY <1>1, CommitsIsCommit DEF CommitIndex, FollowInv, Idle
  <2>2. plan \in Seq(Rows) /\ pos \in Nat
    BY <1>1, <2>1, DataAssumption DEF TypeInv, TypeOK, PlanInv
  <2>3. \A k \in DOMAIN plan : k < pos
    BY <2>1, <2>2
  <2>4. \A i \in DOMAIN entries :
          /\ entries[i].id \notin failed
          /\ \E k \in DOMAIN plan : plan[k].id = entries[i].id
    BY <1>1, <2>1 DEF FollowInv, RunInv, Before, Passed
  <2>5. \A k \in DOMAIN plan : plan[k].id \notin failed =>
          \E i \in DOMAIN entries : entries[i].id = plan[k].id
    BY <1>1, <2>1, <2>3 DEF FollowInv
  <2>6. {entries[i].id : i \in DOMAIN entries} = {plan[k].id : k \in DOMAIN plan} \ failed
    BY <2>4, <2>5
  <2>7. \A i, j \in DOMAIN entries :
          i < j => InOrder(plan, pos, entries[i].id, entries[j].id)
    BY <1>1, <2>1 DEF FollowInv
  <2> QED BY <2>1, <2>6, <2>7 DEF InOrder
<1>2. TypeInv /\ RunInv /\ FollowInv /\ [Next]_vars => [Follows]_vars
  BY <1>1
<1>3. Spec => []FollowInv
  BY FollowInit, FollowStep, TypeAlways, RunAlways, PTL DEF Spec
<1> QED
  BY <1>2, <1>3, TypeAlways, RunAlways, PTL DEF Spec, IndexFollowsManifest

----------------------------------------------------------------------------
(* The release and the pages *)

ReleaseType ==
    /\ assets \in [Ids -> Graphs \cup {NoFile}]
    /\ published \in Seq(Entries)
    /\ job \in {NoJob, "batch", "publish"}
    /\ todo \subseteq Ids \cup {IndexFile}
    /\ torn \in BOOLEAN

\* What the runner's output directory holds was put there by this very job:
\* a region it has dealt with, or the one it is at.
Touched(r) ==
    \/ Before(r)
    \/ pos \in DOMAIN plan /\ r = Row.id /\ pc \in {"verify", "cleanup"}

\* An entry of the run: its region was built here, or has no file here and
\* (unless a job was torn) the asset it had.
Backed(e) ==
    IF e.id \in built
    THEN graphs[e.id] = e.sha /\ e.sha # NoFile
    ELSE graphs[e.id] = NoFile /\ (~torn => assets[e.id] = e.sha)

\* An entry of the index being published: its asset is still to be uploaded,
\* or is the one it describes.
Settled(e) ==
    IF e.id \in todo
    THEN e.id \in built /\ graphs[e.id] = e.sha
    ELSE e.id \in built \/ ~torn => assets[e.id] = e.sha

Fetched == index \in {published, <<>>}

ForcedAreBuilt(es) == opts.force => \A i \in DOMAIN es : es[i].id \in built

\* While the program runs in a job.
DirInv ==
    pc # Idle =>
        /\ job = "batch" /\ exit = "running"
        /\ Fetched
        /\ \A r \in Ids : graphs[r] # NoFile => Touched(r)
        /\ \A i \in DOMAIN entries : Backed(entries[i])
        /\ ForcedAreBuilt(entries)
        /\ pc = "verify" => graphs[Row.id] # NoFile
        /\ pc = "cleanup" /\ made # NoFile => made.sha # NoFile

\* Between and around its runs.
StageInv ==
    /\ job # "batch" => pc = Idle
    /\ job # "publish" => todo = {}
    /\ job # "publish" /\ ~torn =>
           \A i \in DOMAIN published : assets[published[i].id] = published[i].sha
    /\ job = "batch" /\ exit = "none" =>
           Fetched /\ \A r \in Ids : graphs[r] = NoFile
    /\ job = "batch" /\ pc = Idle /\ IndexIsFresh =>
           ForcedAreBuilt(index) /\ \A i \in DOMAIN index : Backed(index[i])
    /\ job = "publish" =>
           /\ ForcedAreBuilt(index) /\ \A i \in DOMAIN index : Settled(index[i])
           /\ IndexFile \notin todo => published = index

RInv == TypeInv /\ ReleaseType /\ RunInv /\ DiskInv /\ DirInv /\ StageInv

----------------------------------------------------------------------------
(* The release around the batch *)

LEMMA ReleaseInit == RInit => RInv
<1> SUFFICES ASSUME RInit PROVE RInv
  OBVIOUS
<1>1. TypeInv /\ RunInv /\ DiskInv
  BY InitType, RunInit, DiskInit DEF RInit
<1>2. ReleaseType
  <2>1. assets \in [Ids -> Graphs \cup {NoFile}]
    BY DEF RInit
  <2>2. published \in Seq(Entries)
    BY DEF RInit
  <2> QED
    BY <2>1, <2>2 DEF RInit, ReleaseType
<1>3. DirInv /\ StageInv
  BY DEF RInit, Init, DirInv, StageInv, NoJob
<1> QED
  BY <1>1, <1>2, <1>3 DEF RInv

\* Every step of a job but the fetch is a step of the batch or leaves it alone.
LEMMA OtherSteps ==
    ASSUME RInv, [RNext]_rvars, ~FetchIndex
    PROVE  (TypeInv /\ RunInv /\ DiskInv)'
<1>1. [Next]_vars
  <2>1. CASE RunBatch \/ BatchStep
    BY <2>1 DEF RunBatch, BatchStep, Options, Next
  <2>2. CASE BeginPublish \/ SkipPublish \/ UploadIndex \/ EndPublish \/ UNCHANGED rvars
    BY <2>2 DEF BeginPublish, SkipPublish, UploadIndex, EndPublish, rvars
  <2>3. ASSUME NEW r \in Ids, UploadGraph(r) PROVE UNCHANGED vars
    BY <2>3 DEF UploadGraph
  <2>4. CASE JobDies
    BY <2>4 DEF JobDies, Next
  <2>5. CASE RWorld
    BY <2>5 DEF RWorld, Next, Environment
  <2> QED
    BY <2>1, <2>2, <2>3, <2>4, <2>5 DEF RNext, JobStep
<1> QED
  BY <1>1, TypeStep, RunStepInv, DiskStep DEF RInv

\* The fetch starts a job on an empty runner.
LEMMA FetchStep ==
    ASSUME RInv, FetchIndex
    PROVE  RInv'
<1>1. pc = Idle /\ todo = {}
  BY DEF RInv, StageInv, FetchIndex, NoJob
<1>2. index' \in Seq(Entries) /\ graphs' \in [Ids -> Graphs \cup {NoFile}]
  <2>1. <<>> \in Seq(Entries)
    OBVIOUS
  <2>2. index' \in Seq(Entries)
    BY <2>1 DEF FetchIndex, RInv, ReleaseType
  <2> QED
    BY <2>2 DEF FetchIndex, EmptyRunner
<1>3. TypeInv'
  BY <1>1, <1>2 DEF FetchIndex, RInv, TypeInv, TypeOK, PlanInv, world, Exits
<1>4. ReleaseType'
  BY DEF FetchIndex, RInv, ReleaseType
<1>5. RunInv' /\ DiskInv' /\ DirInv'
  BY <1>1 DEF FetchIndex, RunInv, DiskInv, DirInv
<1>6. StageInv'
  BY <1>1 DEF FetchIndex, EmptyRunner, Fetched, IndexIsFresh, RInv, StageInv, NoJob
<1> QED
  BY <1>3, <1>4, <1>5, <1>6 DEF RInv
----------------------------------------------------------------------------
(* The run inside a job *)

\* The program starts, or refuses the manifest.
LEMMA RunBatchStep ==
    ASSUME RInv, RunBatch
    PROVE  RInv'
<1>1. job = "batch" /\ exit = "none" /\ pc = Idle /\ UNCHANGED release
  BY DEF RunBatch, Start, Refuse
<1>2. Fetched /\ \A r \in Ids : graphs[r] = NoFile
  BY <1>1 DEF RInv, StageInv
<1>3. UNCHANGED <<graphs, index>> /\ (pc' = Idle => exit' = "refused")
  BY DEF RunBatch, Start, Refuse, dir, Idle
<1>4. (TypeInv /\ RunInv /\ DiskInv)'
  BY <1>1, OtherSteps DEF RNext, JobStep, FetchIndex, NoJob
<1>5. ReleaseType'
  BY <1>1 DEF RInv, ReleaseType, release
<1>6. DirInv'
  BY <1>1, <1>2, <1>3 DEF RunBatch, Start, Refuse, DirInv, Fetched, ForcedAreBuilt, release
<1>7. StageInv'
  BY <1>1, <1>2, <1>3
  DEF RInv, StageInv, Fetched, IndexIsFresh, release, NoJob, RunBatch, Start, Refuse
<1> QED
  BY <1>4, <1>5, <1>6, <1>7 DEF RInv

\* A step of the program that goes on with the run leaves StageInv to itself.
LEMMA StageDuringRun ==
    ASSUME RInv, pc # Idle, UNCHANGED release, exit' # "none",
           pc' # Idle \/ exit' \notin {"ok", "failed"}
    PROVE  StageInv'
<1>1. job = "batch" /\ exit = "running"
  BY DEF RInv, DirInv
<1> QED
  BY <1>1 DEF RInv, StageInv, IndexIsFresh, release, NoJob

\* A step inside a region that records no entry and installs no file.
LEMMA DirFrame ==
    ASSUME RInv, pc # Idle, pc' \notin {Idle, "verify"}, UNCHANGED release,
           UNCHANGED <<opts, plan, pos, graphs, index, entries, built, exit>>,
           pc \in {"verify", "cleanup"} => pc' \in {"verify", "cleanup"} /\ pos \in DOMAIN plan,
           pc' = "cleanup" /\ made' # NoFile => made'.sha # NoFile
    PROVE  DirInv'
<1>1. \A r \in Ids : Touched(r) => Touched(r)'
  BY DEF Touched, Before, Row
<1>2. \A i \in DOMAIN entries : Backed(entries[i])'
  BY DEF RInv, DirInv, Backed, release
<1> QED
  BY <1>1, <1>2 DEF RInv, DirInv, Fetched, ForcedAreBuilt, release

\* A region is skipped: nothing of it is on the runner, and the index it was
\* fetched with matches its asset.
LEMMA DirSkip ==
    ASSUME RInv, SkipRegion, UNCHANGED release
    PROVE  DirInv'
<1>1. pos \in DOMAIN plan /\ Row \in Rows /\ pc = "region" /\ pc # Idle
  BY AtRegionRow DEF RInv, SkipRegion, AtRegion, Idle
<1>2. PICK e \in existing : /\ CanSkip(Row, e)
                           /\ entries' = Append(entries, [e EXCEPT !.link = opts.base])
  BY DEF SkipRegion
<1> DEFINE f == [e EXCEPT !.link = opts.base]
<1>3. /\ f \in Entries /\ f.id = Row.id /\ f.sha = e.sha /\ f.id = e.id
      /\ entries' = Append(entries, f)
  BY <1>2 DEF CanSkip, Entries, RInv, TypeInv, TypeOK, Options
<1>4. ~torn => assets[e.id] = e.sha
  <2>1. existing = LastWins(index) /\ index \in Seq(Entries)
    BY <1>1 DEF RInv, RunInv, TypeInv, TypeOK
  <2>2. PICK i \in DOMAIN index : e = index[i]
    BY <1>2, <2>1, LastWinsSubset
  <2>3. index = published
    BY <1>1, <2>2 DEF RInv, DirInv, Fetched
  <2> QED
    BY <1>1, <2>2, <2>3 DEF RInv, DirInv, StageInv
<1>5. ~Before(Row.id) /\ Row.id \in Ids
  BY <1>1, CurrentIsNew DEF RInv, Rows
<1>6. Row.id \notin built /\ graphs[Row.id] = NoFile
  BY <1>1, <1>5 DEF RInv, RunInv, DirInv, Touched
<1>7. ~opts.force
  BY <1>2 DEF CanSkip
<1> HIDE DEF f
<1>8. /\ \A i \in DOMAIN entries : entries'[i] = entries[i]
      /\ DOMAIN entries' = DOMAIN entries \cup {Len(entries) + 1}
      /\ entries'[Len(entries) + 1] = f
  BY <1>1, <1>3, AppendKeepsApart DEF RInv
<1>9. pos' = pos + 1 /\ pc' = "region" /\ UNCHANGED <<opts, plan, graphs, index, built, made, exit>>
  BY <1>1 DEF SkipRegion, dir
<1>10. (\A i \in DOMAIN entries : Backed(entries[i]))'
  <2>1. \A i \in DOMAIN entries : Backed(entries'[i])
    BY <1>1, <1>8 DEF RInv, DirInv
  <2>2. Backed(entries'[Len(entries) + 1])
    BY <1>3, <1>4, <1>6, <1>8 DEF Backed
  <2>3. \A i \in DOMAIN entries' : Backed(entries'[i])
    BY <1>8, <2>1, <2>2
  <2> QED
    BY <1>9, <2>3 DEF Backed, release
<1>11. \A r \in Ids : Touched(r) => Touched(r)'
  BY <1>1, <1>9, PassedIsBefore DEF RInv, Touched, Before
<1>12. pc' # Idle /\ job = "batch" /\ exit = "running" /\ Fetched
  BY <1>1, <1>9 DEF RInv, DirInv, Idle
<1>13. \A r \in Ids : graphs[r] # NoFile => Touched(r)
  BY <1>1 DEF RInv, DirInv
<1> QED
  BY <1>7, <1>9, <1>10, <1>11, <1>12, <1>13 DEF DirInv, Fetched, ForcedAreBuilt, release

\* A graph is installed: the region is no entry's.
LEMMA DirInstall ==
    ASSUME RInv, InstallGraph, UNCHANGED release
    PROVE  DirInv'
<1>1. pos \in DOMAIN plan /\ pc # Idle /\ pc' = "verify"
  BY DEF InstallGraph, RInv, TypeInv, PlanInv, Idle
<1>2. \A i \in DOMAIN entries : entries[i].id # Row.id /\ entries[i].id \in Ids
  <2>1. \A i \in DOMAIN entries : Before(entries[i].id)
    BY <1>1 DEF RInv, RunInv
  <2>2. \A i \in DOMAIN entries : entries[i] \in Entries
    BY DEF RInv, TypeInv, TypeOK
  <2>3. \A e \in Entries : e.id \in Ids
    BY DEF Entries
  <2> QED
    BY <1>1, <2>1, <2>2, <2>3, CurrentIsNew DEF RInv
<1>3. \A r \in Ids : r # Row.id => graphs'[r] = graphs[r]
  BY DEF InstallGraph, RInv, TypeInv, TypeOK
<1>4. UNCHANGED <<opts, plan, pos, index, entries, built, exit>>
  BY DEF InstallGraph
<1>5. \A i \in DOMAIN entries : Backed(entries[i])'
  BY <1>1, <1>2, <1>3, <1>4 DEF RInv, DirInv, Backed, release
<1>6. graphs'[Row.id] # NoFile
  <2>1. Row \in Rows
    BY <1>1, RowType DEF RInv
  <2>2. BuiltGraph \in Graphs
    BY <2>1 DEF BuiltGraph, Graphs, Rows, RInv, TypeInv, TypeOK
  <2>3. graphs'[Row.id] = BuiltGraph
    BY <2>1 DEF InstallGraph, Rows, RInv, TypeInv, TypeOK
  <2> QED
    BY <2>2, <2>3, DataAssumption
<1>8. \A r \in Ids : graphs'[r] # NoFile => Touched(r)'
  <2> SUFFICES ASSUME NEW r \in Ids, graphs'[r] # NoFile PROVE Touched(r)'
    OBVIOUS
  <2>1. CASE r = Row.id
    BY <1>1, <1>4, <2>1 DEF Touched, Row
  <2>2. CASE r # Row.id
    BY <1>1, <1>3, <1>4, <2>2 DEF RInv, DirInv, Touched, Before, InstallGraph
  <2> QED
    BY <2>1, <2>2
<1> QED
  BY <1>1, <1>4, <1>5, <1>6, <1>8 DEF RInv, DirInv, Fetched, ForcedAreBuilt, Row, release

\* A region is done: its entry is of the file just verified, or there is none.
LEMMA DirCleanup ==
    ASSUME RInv, Cleanup, UNCHANGED release
    PROVE  DirInv'
<1>1. pos \in DOMAIN plan /\ pc = "cleanup" /\ pc # Idle
  BY DEF Cleanup, RInv, TypeInv, PlanInv, Idle
<1>2. /\ pos' = pos + 1 /\ pc' = "region"
      /\ UNCHANGED <<opts, plan, graphs, index, made, exit>>
  BY DEF Cleanup, NextRegion
<1>3. job = "batch" /\ exit = "running" /\ Fetched
  BY <1>1 DEF RInv, DirInv
<1>4. \A r \in Ids : graphs[r] # NoFile => Touched(r)'
  <2>1. \A r \in Ids : Touched(r) => Touched(r)'
    BY <1>1, <1>2, PassedIsBefore DEF RInv, Touched, Before
  <2> QED
    BY <1>1, <2>1 DEF RInv, DirInv
<1>5. (\A i \in DOMAIN entries : Backed(entries[i]))' /\ ForcedAreBuilt(entries)'
  <2>1. CASE made = NoFile
    <3>1. UNCHANGED <<entries, built>>
      BY <2>1 DEF Cleanup
    <3> QED
      BY <1>1, <1>2, <3>1 DEF RInv, DirInv, Backed, ForcedAreBuilt, release
  <2>2. CASE made # NoFile
    <3>1. made \in Entries /\ made.id = Row.id /\ made.sha # NoFile /\ graphs[made.id] = made.sha
      BY <1>1, <2>2 DEF RInv, RunInv, DiskInv, DirInv, TypeInv, TypeOK
    <3>2. entries' = Append(entries, made) /\ built' = built \cup {made.id}
      BY <2>2, <3>1 DEF Cleanup
    <3>3. /\ \A i \in DOMAIN entries : entries'[i] = entries[i]
          /\ DOMAIN entries' = DOMAIN entries \cup {Len(entries) + 1}
          /\ entries'[Len(entries) + 1] = made
      BY <1>1, <3>1, <3>2, AppendKeepsApart DEF RInv
    <3>4. \A i \in DOMAIN entries : entries[i].id # made.id
      BY <1>1, <3>1, CurrentIsNew DEF RInv, RunInv
    <3>5. \A i \in DOMAIN entries : Backed(entries[i]) /\ (opts.force => entries[i].id \in built)
      BY <1>1 DEF RInv, DirInv, ForcedAreBuilt
    <3>6. \A i \in DOMAIN entries' :
              /\ IF entries'[i].id \in built'
                 THEN graphs[entries'[i].id] = entries'[i].sha /\ entries'[i].sha # NoFile
                 ELSE /\ graphs[entries'[i].id] = NoFile
                      /\ ~torn => assets[entries'[i].id] = entries'[i].sha
              /\ opts.force => entries'[i].id \in built'
      BY <3>1, <3>2, <3>3, <3>4, <3>5 DEF Backed
    <3> QED
      BY <1>2, <3>6 DEF Backed, ForcedAreBuilt, release
  <2> QED
    BY <2>1, <2>2
<1> QED
  BY <1>2, <1>3, <1>4, <1>5 DEF DirInv, Fetched, release

\* The program's steps, in a job.
LEMMA BatchStepInv ==
    ASSUME RInv, BatchStep
    PROVE  RInv'
<1>1. UNCHANGED release /\ (TypeInv /\ RunInv /\ DiskInv)' /\ ReleaseType'
  <2>1. ~FetchIndex /\ [RNext]_rvars /\ UNCHANGED release
    BY DEF BatchStep, FetchIndex, NoJob, RNext, JobStep
  <2> QED
    BY <2>1, OtherSteps DEF RInv, ReleaseType, release
<1>2. RunStep
  BY DEF BatchStep
<1>3. CASE GatePass \/ Download \/ DownloadFails \/ WriteGraph \/ BuildFails \/ VerifyGraph
           \/ VerifyFails \/ WriteIndex \/ SkipRegion \/ InstallGraph \/ Cleanup
  <2>1. pc # Idle /\ pc' # Idle /\ exit' = exit
    BY <1>3 DEF GatePass, MustBuild, AtRegion, Download, DownloadFails, WriteGraph, BuildFails,
                VerifyGraph, VerifyFails, WriteIndex, SkipRegion, InstallGraph, Cleanup, Idle
  <2>2. StageInv'
    BY <1>1, <2>1, StageDuringRun DEF RInv, DirInv
  <2>3. DirInv'
    <3>1. CASE GatePass \/ Download \/ DownloadFails \/ WriteGraph \/ BuildFails \/ WriteIndex
      <4>1. /\ UNCHANGED <<opts, plan, pos, graphs, index, entries, built, exit>>
            /\ pc \notin {"verify", "cleanup"} /\ pc' # "verify"
            /\ pc' = "cleanup" => made' = NoFile
        BY <2>1, <3>1
        DEF GatePass, MustBuild, AtRegion, Download, DownloadFails, WriteGraph, BuildFails,
            WriteIndex, dir, RInv, RunInv
      <4> QED
        BY <1>1, <2>1, <4>1, DirFrame
    <3>2. CASE VerifyFails
      <4>1. /\ UNCHANGED <<opts, plan, pos, graphs, index, entries, built, exit>>
            /\ pc = "verify" /\ pc' = "cleanup" /\ pos \in DOMAIN plan /\ made' = NoFile
        BY <3>2 DEF VerifyFails, dir, RInv, TypeInv, PlanInv, Idle
      <4> QED
        BY <1>1, <2>1, <4>1, DirFrame
    <3>3. CASE VerifyGraph
      <4>1. /\ UNCHANGED <<opts, plan, pos, graphs, index, entries, built, exit>>
            /\ pc = "verify" /\ pc' = "cleanup" /\ pos \in DOMAIN plan
            /\ made'.sha = graphs[Row.id]
        BY <3>3 DEF VerifyGraph, MadeEntry, dir, RInv, TypeInv, PlanInv, Idle
      <4>2. graphs[Row.id] # NoFile
        BY <4>1 DEF RInv, DirInv, Idle
      <4> QED
        BY <1>1, <2>1, <4>1, <4>2, DirFrame
    <3> QED
      BY <1>1, <1>3, <3>1, <3>2, <3>3, DirSkip, DirInstall, DirCleanup
  <2> QED
    BY <1>1, <2>2, <2>3 DEF RInv
<1>4. CASE GateRefuse \/ IndexFails
  <2>1. pc # Idle /\ pc' = Idle /\ exit' \in {"aborted", "error"}
    BY <1>4 DEF GateRefuse, MustBuild, AtRegion, IndexFails, Idle
  <2>2. StageInv' /\ DirInv'
    BY <1>1, <2>1, StageDuringRun DEF DirInv
  <2> QED
    BY <1>1, <2>2 DEF RInv
<1>5. CASE CommitIndex
  <2>1. /\ pc # Idle /\ pc' = Idle /\ exit' \in {"ok", "failed"} /\ index' = entries
        /\ UNCHANGED <<opts, graphs, built>>
    BY <1>5 DEF CommitIndex, Idle
  <2>2. job = "batch" /\ ForcedAreBuilt(entries) /\ \A i \in DOMAIN entries : Backed(entries[i])
    BY <2>1 DEF RInv, DirInv
  <2>3. StageInv'
    BY <1>1, <2>1, <2>2 DEF RInv, StageInv, ForcedAreBuilt, Backed, release, NoJob
  <2> QED
    BY <1>1, <2>1, <2>3 DEF RInv, DirInv
<1> QED
  BY <1>2, <1>3, <1>4, <1>5 DEF RunStep

----------------------------------------------------------------------------
(* Publishing *)

LEMMA ListedIds ==
    ASSUME RInv
    PROVE  \A i \in DOMAIN index : index[i].id \in Ids
<1>1. \A i \in DOMAIN index : index[i] \in Entries
  BY DEF RInv, TypeInv, TypeOK
<1>2. \A e \in Entries : e.id \in Ids
  BY DEF Entries
<1> QED
  BY <1>1, <1>2

\* What BeginPublish uploads is what the run built.
LEMMA PublishStep ==
    ASSUME RInv, BeginPublish
    PROVE  RInv'
<1>1. /\ pc = Idle /\ job = "batch" /\ job' = "publish" /\ torn' = torn /\ published' = published
      /\ assets' = assets /\ UNCHANGED vars
      /\ todo' = {r \in Ids : graphs[r] # NoFile} \cup {IndexFile}
  BY DEF BeginPublish
<1>2. (TypeInv /\ RunInv /\ DiskInv)'
  BY <1>1, OtherSteps DEF RNext, JobStep, FetchIndex, NoJob
<1>3. ReleaseType'
  BY <1>1 DEF RInv, ReleaseType
<1>4. UNCHANGED <<pc, opts, graphs, index, built>>
  BY <1>1 DEF vars, dir, proc
<1>5. ForcedAreBuilt(index) /\ \A i \in DOMAIN index : Backed(index[i])
  BY <1>1 DEF RInv, StageInv, BeginPublish
<1>6. \A i \in DOMAIN index : index[i].id \in Ids
  BY ListedIds
<1>7. \A i \in DOMAIN index : index[i].id \in todo' <=> graphs[index[i].id] # NoFile
  BY <1>1, <1>6, NameAssumption
<1>8. (\A i \in DOMAIN index : Settled(index[i]))'
  BY <1>1, <1>4, <1>5, <1>7 DEF Settled, Backed
<1>9. StageInv' /\ DirInv'
  BY <1>1, <1>4, <1>5, <1>8 DEF StageInv, DirInv, ForcedAreBuilt, NoJob, Idle
<1> QED
  BY <1>2, <1>3, <1>9 DEF RInv

\* Each upload settles its asset.
LEMMA UploadStep ==
    ASSUME RInv, UploadIndex \/ \E r \in Ids : UploadGraph(r)
    PROVE  RInv'
<1>1. job = "publish" /\ pc = Idle /\ UNCHANGED vars /\ UNCHANGED <<job, torn>>
  BY DEF UploadIndex, UploadGraph, RInv, StageInv
<1>2. (TypeInv /\ RunInv /\ DiskInv)'
  BY <1>1, OtherSteps DEF RNext, JobStep, FetchIndex, NoJob
<1>3. UNCHANGED <<pc, opts, graphs, index, built>>
  BY <1>1 DEF vars, dir, proc
<1>4. ForcedAreBuilt(index) /\ \A i \in DOMAIN index : Settled(index[i])
  BY <1>1 DEF RInv, StageInv
<1>5. \A i \in DOMAIN index : index[i].id \in Ids
  BY ListedIds
<1>6. CASE UploadIndex
  <2>1. /\ published' = index /\ todo' = todo \ {IndexFile} /\ assets' = assets
    BY <1>6 DEF UploadIndex
  <2>2. ReleaseType'
    BY <1>1, <2>1 DEF RInv, TypeInv, TypeOK, ReleaseType
  <2>3. (\A i \in DOMAIN index : Settled(index[i]))'
    BY <1>1, <1>3, <1>4, <1>5, <2>1, NameAssumption DEF Settled
  <2>4. StageInv' /\ DirInv'
    BY <1>1, <1>3, <1>4, <2>1, <2>3 DEF StageInv, DirInv, ForcedAreBuilt, NoJob, Idle
  <2> QED
    BY <1>2, <2>2, <2>4 DEF RInv
<1>7. ASSUME NEW r \in Ids, UploadGraph(r) PROVE RInv'
  <2>1. /\ published' = published /\ todo' = todo \ {r}
        /\ assets' = [assets EXCEPT ![r] = graphs[r]] /\ r \in todo
    BY <1>7 DEF UploadGraph
  <2>2. ReleaseType'
    <3>1. graphs[r] \in Graphs \cup {NoFile}
      BY DEF RInv, TypeInv, TypeOK
    <3> QED
      BY <1>1, <2>1, <3>1 DEF RInv, ReleaseType
  <2>3. assets'[r] = graphs[r] /\ \A s \in Ids : s # r => assets'[s] = assets[s]
    BY <2>1 DEF RInv, ReleaseType
  <2>4. (\A i \in DOMAIN index : Settled(index[i]))'
    BY <1>1, <1>3, <1>4, <1>5, <2>1, <2>3 DEF Settled
  <2>5. IndexFile \notin todo' => published' = index
    BY <1>1, <2>1, NameAssumption DEF RInv, StageInv
  <2>6. StageInv' /\ DirInv'
    BY <1>1, <1>3, <1>4, <2>4, <2>5 DEF StageInv, DirInv, ForcedAreBuilt, NoJob, Idle
  <2> QED
    BY <1>2, <2>2, <2>6 DEF RInv
<1> QED
  BY <1>6, <1>7

\* With everything uploaded, the published index is the run's, and settled.
LEMMA AllSettled ==
    ASSUME RInv, job = "publish", todo = {}
    PROVE  /\ published = index
           /\ \A i \in DOMAIN published :
                  /\ published[i].id \in built \/ ~torn =>
                         assets[published[i].id] = published[i].sha
                  /\ opts.force => published[i].id \in built
  BY DEF RInv, StageInv, Settled, ForcedAreBuilt

\* A job ends: done, without publishing, or dead.
LEMMA EndStep ==
    ASSUME RInv, EndPublish \/ SkipPublish \/ JobDies
    PROVE  RInv'
<1>1. (TypeInv /\ RunInv /\ DiskInv)'
  BY OtherSteps
  DEF RNext, JobStep, EndPublish, SkipPublish, JobDies, FetchIndex, NoJob
<1>2. job' = NoJob /\ UNCHANGED <<assets, published>> /\ pc' = Idle
  BY DEF EndPublish, SkipPublish, JobDies, Crash, vars, proc, RInv, StageInv
<1>3. todo' = {} /\ torn' \in BOOLEAN
  BY DEF EndPublish, SkipPublish, JobDies, RInv, StageInv, ReleaseType
<1>4. ReleaseType'
  BY <1>2, <1>3 DEF RInv, ReleaseType, NoJob
<1>5. ~torn' => ~torn /\ (job = "publish" => todo = {})
  BY DEF EndPublish, SkipPublish, JobDies, AllUploaded, RInv, ReleaseType
<1>6. ~torn' => \A i \in DOMAIN published : assets[published[i].id] = published[i].sha
  BY <1>5, AllSettled DEF RInv, StageInv
<1>7. StageInv' /\ DirInv'
  BY <1>2, <1>3, <1>6 DEF StageInv, DirInv, NoJob, Idle
<1> QED
  BY <1>1, <1>4, <1>7 DEF RInv

\* The world outside, and steps that change nothing.
LEMMA WorldStep ==
    ASSUME RInv, RWorld \/ UNCHANGED rvars
    PROVE  RInv'
<1>1. UNCHANGED <<release, dir, proc>>
  BY DEF RWorld, EditManifest, Republish, Upgrade, rvars, vars
<1>2. ~FetchIndex
  BY <1>1 DEF FetchIndex, release, NoJob
<1>3. (TypeInv /\ RunInv /\ DiskInv)'
  BY <1>2, OtherSteps DEF RNext
<1>4. ReleaseType'
  BY <1>1 DEF RInv, ReleaseType, release
<1>5. DirInv'
  BY <1>1
  DEF RInv, DirInv, Fetched, Touched, Before, Row, Backed, ForcedAreBuilt, release, dir,
      proc
<1>6. StageInv'
  BY <1>1
  DEF RInv, StageInv, Fetched, Backed, Settled, ForcedAreBuilt, IndexIsFresh, release,
      dir, proc
<1> QED
  BY <1>3, <1>4, <1>5, <1>6 DEF RInv

LEMMA ReleaseStep == RInv /\ [RNext]_rvars => RInv'
  BY FetchStep, RunBatchStep, BatchStepInv, PublishStep, UploadStep, EndStep, WorldStep
  DEF RNext, JobStep

LEMMA ReleaseAlways == RSpec => []RInv
  BY ReleaseInit, ReleaseStep, PTL DEF RSpec

----------------------------------------------------------------------------
(* The theorems *)

\* The release, the job and the batch it runs keep their types.
THEOREM ReleaseTypeCorrect == RSpec => []RTypeOK
<1>1. RInv => RTypeOK
  BY DEF RInv, TypeInv, ReleaseType, RTypeOK
<1> QED
  BY <1>1, ReleaseAlways, PTL

\* As long as no job has died between two uploads, every region the published
\* index lists has an asset that hashes to what the index says.
THEOREM ReleaseAlwaysConsistent == RSpec => []ReleaseConsistent
<1>1. RInv => ReleaseConsistent
  BY DEF RInv, StageInv, ReleaseConsistent, NoJob
<1> QED
  BY <1>1, ReleaseAlways, PTL

\* The workflow never uploads an asset of a region its index carried over.
THEOREM SkippedAssetNeverTouched == RSpec => []SkippedAssetUntouched
<1>1. RInv => SkippedAssetUntouched
  BY DEF RInv, StageInv, Settled, SkippedAssetUntouched
<1> QED
  BY <1>1, ReleaseAlways, PTL

\* A job that publishes to the end leaves matching assets for what it built,
\* and for everything listed if it was forced, whatever died before it.
THEOREM FullPublishAlwaysRepairs == RSpec => FullPublishRepairs
<1>1. RInv /\ [RNext]_rvars =>
        [EndPublish =>
            \A i \in DOMAIN published' :
                published'[i].id \in built \/ opts.force =>
                    assets'[published'[i].id] = published'[i].sha]_rvars
  <2> SUFFICES ASSUME RInv, EndPublish
               PROVE  \A i \in DOMAIN published' :
                          published'[i].id \in built \/ opts.force =>
                              assets'[published'[i].id] = published'[i].sha
    OBVIOUS
  <2>1. job = "publish" /\ todo = {} /\ UNCHANGED <<assets, published>>
    BY DEF EndPublish, AllUploaded
  <2> QED
    BY <2>1, AllSettled
<1> QED
  BY <1>1, ReleaseAlways, PTL DEF RSpec, FullPublishRepairs

----------------------------------------------------------------------------
(* The pages *)

\* While nothing is published, what has been copied is what is there.
Mirror ==
    staging # NoFile /\ quiet /\ ~torn =>
        /\ job # "publish"
        /\ staged.index = (IF IndexFile \in staging THEN <<>> ELSE published)
        /\ \A r \in Demo : staged.graph[r] = IF r \in staging THEN NoFile ELSE assets[r]

StagedType ==
    /\ staged = [index |-> staged.index, graph |-> staged.graph]
    /\ staged.graph \in [Ids -> Graphs \cup {NoFile}]

PInv == RInv /\ StagedType /\ Mirror

LEMMA PagesInit == PInit => PInv
<1> SUFFICES ASSUME PInit PROVE PInv
  OBVIOUS
<1>1. RInv
  BY ReleaseInit DEF PInit
<1>2. StagedType /\ Mirror
  BY DEF PInit, NoSite, StagedType, Mirror
<1> QED
  BY <1>1, <1>2 DEF PInv

\* A deployment reads the release and never changes it.
LEMMA PagesStepIsReleaseStep == [PNext]_pvars => [RNext]_rvars
  BY DEF PNext, BeginDeploy, DeployStep, StageIndex, StageGraph, Push, DeployDies,
         ReleaseGoesOn, pvars

\* The publisher's steps outside its last one change neither assets nor index.
LEMMA QuietStep ==
    ASSUME RNext, job # "publish"
    PROVE  UNCHANGED <<assets, published>>
<1>1. CASE FetchIndex
  BY <1>1 DEF FetchIndex
<1>2. CASE JobStep
  BY <1>2 DEF JobStep, RunBatch, BatchStep, BeginPublish, SkipPublish, UploadGraph,
              UploadIndex, EndPublish, release
<1>3. CASE JobDies
  BY <1>3 DEF JobDies
<1>4. CASE RWorld
  BY <1>4 DEF RWorld, release
<1> QED
  BY <1>1, <1>2, <1>3, <1>4 DEF RNext

LEMMA PagesStep == PInv /\ [PNext]_pvars => PInv'
<1> SUFFICES ASSUME PInv, [PNext]_pvars PROVE PInv'
  OBVIOUS
<1>1. RInv'
  BY PagesStepIsReleaseStep, ReleaseStep DEF PInv
<1>2. Demo \subseteq Ids /\ IndexFile \notin Demo
  BY PagesAssumption, NameAssumption
<1>3. assets \in [Ids -> Graphs \cup {NoFile}]
  BY DEF PInv, RInv, ReleaseType
<1>4. CASE BeginDeploy
  <2>1. StagedType'
    BY <1>4 DEF BeginDeploy, CleanCheckout, NoSite, StagedType
  <2>2. Mirror'
    BY <1>2, <1>4 DEF BeginDeploy, CleanCheckout, NoSite, Mirror, rvars, release
  <2> QED
    BY <1>1, <2>1, <2>2 DEF PInv
<1>5. CASE StageIndex
  <2>1. /\ staging # NoFile /\ IndexFile \in staging /\ staging' = staging \ {IndexFile}
        /\ staged' = [staged EXCEPT !.index = published]
        /\ UNCHANGED <<quiet, assets, published, job, torn>>
    BY <1>5 DEF StageIndex, rvars, release
  <2>2. staged'.index = published /\ staged'.graph = staged.graph /\ StagedType'
    BY <2>1 DEF PInv, StagedType
  <2>3. Mirror'
    BY <1>2, <2>1, <2>2 DEF PInv, Mirror
  <2> QED
    BY <1>1, <2>2, <2>3 DEF PInv
<1>6. ASSUME NEW s \in Demo, StageGraph(s) PROVE PInv'
  <2>1. /\ staging # NoFile /\ s \in staging /\ staging' = staging \ {s}
        /\ UNCHANGED <<quiet, assets, published, job, torn>>
    BY <1>6 DEF StageGraph, rvars, release
  <2>2. /\ staged' = [index |-> staged'.index, graph |-> staged'.graph]
        /\ staged'.index = staged.index
        /\ staged'.graph = IF assets[s] = NoFile THEN staged.graph
                           ELSE [staged.graph EXCEPT ![s] = assets[s]]
    BY <1>6 DEF StageGraph, PInv, StagedType
  <2>3. StagedType'
    BY <1>2, <1>3, <2>2 DEF PInv, StagedType
  <2>4. \A r \in Demo : staged'.graph[r] = IF assets[s] = NoFile THEN staged.graph[r]
                                          ELSE IF r = s THEN assets[s] ELSE staged.graph[r]
    BY <1>2, <2>2 DEF PInv, StagedType
  <2>5. Mirror'
    BY <1>2, <2>1, <2>2, <2>4 DEF PInv, Mirror
  <2> QED
    BY <1>1, <2>3, <2>5 DEF PInv
<1>7. CASE Push \/ DeployDies
  <2>1. staging' = NoFile /\ staged' = staged
    BY <1>7 DEF Push, DeployDies
  <2> QED
    BY <1>1, <2>1 DEF PInv, StagedType, Mirror
<1>8. CASE ReleaseGoesOn
  <2>1. RNext /\ quiet' = (quiet /\ job' # "publish") /\ UNCHANGED <<staging, staged>>
    BY <1>8 DEF ReleaseGoesOn
  <2>2. quiet' => quiet /\ job' # "publish"
    BY <2>1, Zenon
  <2>3. Mirror'
    <3> SUFFICES ASSUME staging # NoFile, quiet', ~torn' PROVE Mirror'
      BY <2>1 DEF Mirror
    <3>1. torn => torn'
      BY <2>1 DEF RNext, FetchIndex, JobStep, RunBatch, BatchStep, BeginPublish, SkipPublish,
                  UploadGraph, UploadIndex, EndPublish, JobDies, RWorld, release
    <3>2. ~torn /\ job # "publish" /\ job' # "publish"
      BY <2>2, <3>1 DEF PInv, Mirror
    <3>3. UNCHANGED <<assets, published>>
      BY <2>1, <3>2, QuietStep
    <3> QED
      BY <2>1, <2>2, <3>2, <3>3 DEF PInv, Mirror
  <2> QED
    BY <1>1, <2>1, <2>3 DEF PInv, StagedType
<1>9. CASE UNCHANGED pvars
  BY <1>1, <1>9 DEF PInv, StagedType, Mirror, pvars, pages, rvars, release
<1> QED
  BY <1>4, <1>5, <1>6, <1>7, <1>8, <1>9 DEF PNext, DeployStep

\* A deployment during which nothing was published, after jobs of which none
\* died between two uploads, pushes an index that agrees with its graphs.
THEOREM QuietDeployAlwaysAgrees == PSpec => QuietDeployAgrees
<1>1. PInv /\ [PNext]_pvars => [Push /\ quiet /\ ~torn => SiteAgrees(site')]_pvars
  <2> SUFFICES ASSUME PInv, Push, quiet, ~torn PROVE SiteAgrees(site')
    OBVIOUS
  <2>1. staging # NoFile /\ staging = {} /\ site' = staged
    BY DEF Push
  <2>2. job # "publish" /\ staged.index = published /\ \A r \in Demo : staged.graph[r] = assets[r]
    BY <2>1 DEF PInv, Mirror
  <2>3. \A i \in DOMAIN published : assets[published[i].id] = published[i].sha
    BY <2>2 DEF PInv, RInv, StageInv
  <2> QED
    BY <2>1, <2>2, <2>3 DEF SiteAgrees
<1> QED
  BY <1>1, PagesInit, PagesStep, PTL DEF PSpec, QuietDeployAgrees
=============================================================================
