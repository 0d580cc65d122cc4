------------------------------- MODULE Batch -------------------------------
(***************************************************************************)
(* `roughroute batch` (crates/cli/src/batch.rs): build and index every     *)
(* region of a manifest, one after the other, in one output directory.     *)
(*                                                                         *)
(* The program is one thread, so what makes it hard is what happens        *)
(* between its steps: it can be killed anywhere (Crash), every download,   *)
(* build, write and re-read can fail, and between two runs the manifest,   *)
(* the upstream extracts, the binary and the files can all change.         *)
(*                                                                         *)
(* Abstracted data: a .graph file is what it was built from (source URL,   *)
(* revision of the extract, kept profiles, format version), and its sha256 *)
(* is the file itself, i.e. the hash has no collisions.                    *)
(***************************************************************************)
EXTENDS Integers, Sequences, FiniteSets

CONSTANTS
    Ids,         \* region ids a manifest can name
    Urls,        \* source URLs a manifest can name
    Keeps,       \* keep-masks a `profiles` list can fold to
    Bases,       \* values of --release-url-base
    Manifests,   \* what regions.toml can contain: sequences of rows
    OldIndexes,  \* what index.json can contain before the first run
    EmptyRevs,   \* revisions of an extract that hold no road: their graph
                 \* is written, then refused by verify_graph_bytes
    NoFile,      \* stands for an absent file
    MaxRev,      \* bound: revisions an upstream extract goes through
    MaxVersion,  \* bound: format versions the binary goes through
    MaxRuns      \* bound: batch runs started

Rows == [id : Ids, url : Urls, keep : Keeps]

Graphs == [url : Urls, rev : 1..MaxRev, keep : Keeps, version : 1..MaxVersion]

\* IndexRegion.  sha = NoFile stands for a `bytes`/`sha256` pair that is not
\* a recorded hash; version 0 is the serde default of an index without it.
Entries == [id : Ids, link : Bases, sha : Graphs \cup {NoFile},
            source : Urls, version : 0..MaxVersion, profiles : Keeps]

Options == [force : BOOLEAN, trust : BOOLEAN, base : Bases]

ASSUME BoundsAssumption ==
    /\ MaxRev \in Nat \ {0}
    /\ MaxVersion \in Nat \ {0}
    /\ MaxRuns \in Nat
ASSUME DataAssumption ==
    /\ Manifests \subseteq Seq(Rows)
    /\ OldIndexes \subseteq Seq(Entries)
    /\ EmptyRevs \subseteq 1..MaxRev
    /\ NoFile \notin Graphs
    /\ NoFile \notin Entries

\* The graph has roads to route on.
HasRoads(g) == g.rev \notin EmptyRevs

\* The entry is true of a file that verification accepted.
Honest(e) ==
    /\ e.sha \in Graphs /\ HasRoads(e.sha)
    /\ e.source = e.sha.url
    /\ e.version = e.sha.version
    /\ e.profiles = e.sha.keep

\* An entry that lacks a format version predates the field and may say
\* anything; this program wrote the others.
ASSUME OldIndexAssumption ==
    \A idx \in OldIndexes : \A i \in DOMAIN idx :
        idx[i].version = 0 \/ Honest(idx[i])

VARIABLES
    \* the world between and around the runs
    manifest,  \* regions.toml
    upstream,  \* url -> revision of the extract it serves
    version,   \* format::VERSION of the installed binary
    \* the output directory
    graphs,    \* id -> content of <id>.graph
    index,     \* index.json; missing and unparsable files read as <<>>
    scratch,   \* ids with an .osm.pbf in .tmp/
    strays,    \* write_atomic's temp files, named by target and process id
    \* the process
    pc,
    opts,      \* command line
    plan,      \* the manifest as read at startup
    pos,       \* the region being worked on
    existing,  \* index.json as read at startup, one entry per id
    entries,   \* index_entries
    built,     \* ids built and verified in this run (built_count)
    failed,    \* ids in `failed`
    pbfRev,    \* revision in the downloaded .pbf
    made,      \* build_region's result: an entry, or NoFile for Skip
    exit,      \* outcome of the latest run
    runs       \* runs started so far; stands for the process id

world == <<manifest, upstream, version>>
dir   == <<graphs, index, scratch, strays>>
proc  == <<pc, opts, plan, pos, existing, entries, built, failed, pbfRev,
           made, exit, runs>>
vars  == <<world, dir, proc>>

Idle == "off"
Exits == {"none", "running", "ok", "failed", "aborted", "refused", "error",
          "crashed"}

----------------------------------------------------------------------------
(* Helpers *)

\* Faulty: a manifest may name a region twice.
BugAnyIds(m) == m # <<>>

\* validate_manifest: at least one region, no id twice.
Valid(m) ==
    /\ m # <<>>
    /\ \A i, j \in DOMAIN m : m[i].id = m[j].id => i = j

\* load_existing_index: the id -> entry map of a file's entries, the last
\* entry of an id winning.
LastWins(idx) ==
    {idx[i] : i \in {k \in DOMAIN idx :
                        \A j \in DOMAIN idx : j > k => idx[j].id # idx[k].id}}

\* Faulty: the file only has to exist.
BugFreshIfPresent(e) == e.version = version /\ graphs[e.id] # NoFile

\* cached_entry_is_fresh: the file on disk hashes to what the entry says.
FreshOnDisk(e) ==
    /\ e.version = version
    /\ graphs[e.id] # NoFile
    /\ graphs[e.id] = e.sha

\* Faulty: a region whose source moved is still trusted.
BugTrustMoved(row, e) == e.version = version /\ e.sha # NoFile

\* index_entry_is_trustworthy: same source, same version, a real hash.
Trustworthy(row, e) ==
    /\ e.source = row.url
    /\ e.version = version
    /\ e.sha # NoFile

\* skip_decision's test of one cached entry.
CanSkip(row, e) ==
    /\ ~opts.force
    /\ e.id = row.id
    /\ IF opts.trust THEN Trustworthy(row, e) ELSE FreshOnDisk(e)

\* Faulty: any file that can be read is accepted.
BugAcceptAll(g) == TRUE

\* verify_graph_bytes: the file loads, has nodes and edges, and a route
\* between the ends of an edge works.
VerifyGraphBytes(g) == HasRoads(g)

\* Faulty: what an earlier run left in .tmp/ stays.
BugNoSweep == UNCHANGED scratch

\* remove_dir_all of .tmp/.
RemoveScratch == scratch' = {}

\* Faulty: a region that failed is tried again.
BugRetryFailed == pos' = IF made = NoFile THEN pos ELSE pos + 1

\* The loop goes on with the next region, whatever became of this one.
NextRegion == pos' = pos + 1

Row == plan[pos]
TmpFile(name) == <<name, runs>>
IndexFile == "index.json"

----------------------------------------------------------------------------
(* Startup *)

Init ==
    /\ manifest \in Manifests
    /\ upstream = [u \in Urls |-> 1]
    /\ version = 1
    /\ graphs = [r \in Ids |-> NoFile]
    /\ index \in OldIndexes
    /\ scratch = {} /\ strays = {}
    /\ pc = Idle
    /\ opts \in [force : {FALSE}, trust : {FALSE}, base : Bases]
    /\ plan = <<>> /\ pos = 1
    /\ existing = {} /\ entries = <<>>
    /\ built = {} /\ failed = {}
    /\ pbfRev = 1 /\ made = NoFile
    /\ exit = "none" /\ runs = 0

\* cmd_batch up to the loop: the scratch sweep and load_existing_index.
Start(o) ==
    /\ pc = Idle /\ runs < MaxRuns
    /\ Valid(manifest)
    /\ pc' = "region"
    /\ opts' = o
    /\ plan' = manifest /\ pos' = 1
    /\ RemoveScratch
    /\ existing' = LastWins(index)
    /\ entries' = <<>> /\ built' = {} /\ failed' = {} /\ made' = NoFile
    /\ exit' = "running" /\ runs' = runs + 1
    /\ UNCHANGED <<world, graphs, index, strays, pbfRev>>

\* A manifest validate_manifest rejects: nothing is touched.
Refuse ==
    /\ pc = Idle /\ runs < MaxRuns
    /\ ~Valid(manifest)
    /\ exit' = "refused" /\ runs' = runs + 1
    /\ UNCHANGED <<world, dir, pc, opts, plan, pos, existing, entries, built,
                   failed, pbfRev, made>>

----------------------------------------------------------------------------
(* The region loop *)

AtRegion == pc = "region" /\ pos <= Len(plan)

\* Up to date: the cached entry is carried over, its url recomputed.
SkipRegion ==
    /\ AtRegion
    /\ \E e \in existing :
        /\ CanSkip(Row, e)
        /\ entries' = Append(entries, [e EXCEPT !.link = opts.base])
    /\ pos' = pos + 1
    /\ UNCHANGED <<world, dir, pc, opts, plan, existing, built, failed, pbfRev,
                   made, exit, runs>>

\* Faulty: the region is built although it is up to date.
BugBuildAnyway == AtRegion

\* No cached entry lets the region be skipped.
MustBuild == AtRegion /\ ~\E e \in existing : CanSkip(Row, e)

\* gate_download lets the region through.
GatePass ==
    /\ MustBuild
    /\ pc' = "download"
    /\ made' = NoFile
    /\ UNCHANGED <<world, dir, opts, plan, pos, existing, entries, built,
                   failed, pbfRev, exit, runs>>

\* gate_download refuses (size unknown, over the ceiling, or disk short or
\* unreadable): AbortRun, out of cmd_batch without an index.
GateRefuse ==
    /\ MustBuild
    /\ pc' = Idle
    /\ RemoveScratch
    /\ exit' = "aborted"
    /\ UNCHANGED <<world, graphs, index, strays, opts, plan, pos, existing,
                   entries, built, failed, pbfRev, made, runs>>

\* net::download copies the whole extract into .tmp/.
Download ==
    /\ pc = "download"
    /\ scratch' = scratch \cup {Row.id}
    /\ pbfRev' = upstream[Row.url]
    /\ pc' = "build"
    /\ UNCHANGED <<world, graphs, index, strays, opts, plan, pos, existing,
                   entries, built, failed, made, exit, runs>>

\* The GET fails, or the copy does and leaves a partial file behind.
DownloadFails ==
    /\ pc = "download"
    /\ scratch' \in {scratch, scratch \cup {Row.id}}
    /\ pc' = "cleanup"
    /\ UNCHANGED <<world, graphs, index, strays, opts, plan, pos, existing,
                   entries, built, failed, pbfRev, made, exit, runs>>

\* read, mask, build, and write_atomic's fs::write of the temp file.
WriteGraph ==
    /\ pc = "build"
    /\ strays' = strays \cup {TmpFile(Row.id)}
    /\ pc' = "rename"
    /\ UNCHANGED <<world, graphs, index, scratch, opts, plan, pos, existing,
                   entries, built, failed, pbfRev, made, exit, runs>>

\* The extract does not read, the graph does not build, or its temp file is
\* written only in part or cannot be renamed.
BuildFails ==
    /\ pc \in {"build", "rename"}
    /\ strays' \in {strays, strays \cup {TmpFile(Row.id)}}
    /\ pc' = "cleanup"
    /\ UNCHANGED <<world, graphs, index, scratch, opts, plan, pos, existing,
                   entries, built, failed, pbfRev, made, exit, runs>>

\* The graph build_graph_compact makes of the downloaded extract.
BuiltGraph ==
    [url |-> Row.url, rev |-> pbfRev, keep |-> Row.keep, version |-> version]

\* write_atomic's rename: the new file replaces the old one.
InstallGraph ==
    /\ pc = "rename"
    /\ graphs' = [graphs EXCEPT ![Row.id] = BuiltGraph]
    /\ strays' = strays \ {TmpFile(Row.id)}
    /\ pc' = "verify"
    /\ UNCHANGED <<world, index, scratch, opts, plan, pos, existing, entries,
                   built, failed, pbfRev, made, exit, runs>>

\* Faulty: the profiles recorded are not the mask the graph was built with.
BugDefaultProfiles(g) ==
    [id |-> Row.id, link |-> opts.base, sha |-> g, source |-> Row.url,
     version |-> version, profiles |-> plan[1].keep]

\* The entry recorded for the file that was read back.
MadeEntry(g) ==
    [id |-> Row.id, link |-> opts.base, sha |-> g, source |-> Row.url,
     version |-> version, profiles |-> Row.keep]

\* The file is read back from disk and verified.
VerifyGraph ==
    /\ pc = "verify"
    /\ VerifyGraphBytes(graphs[Row.id])
    /\ made' = MadeEntry(graphs[Row.id])
    /\ pc' = "cleanup"
    /\ UNCHANGED <<world, dir, opts, plan, pos, existing, entries, built,
                   failed, pbfRev, exit, runs>>

\* Verification refuses the file, or it cannot be read back.  The file stays.
VerifyFails ==
    /\ pc = "verify"
    /\ made' = NoFile
    /\ pc' = "cleanup"
    /\ UNCHANGED <<world, dir, opts, plan, pos, existing, entries, built,
                   failed, pbfRev, exit, runs>>

\* build_region deletes the .pbf whatever happened; the loop takes its result.
Cleanup ==
    /\ pc = "cleanup"
    /\ scratch' = scratch \ {Row.id}
    /\ IF made = NoFile
       THEN /\ failed' = failed \cup {Row.id}
            /\ UNCHANGED <<entries, built>>
       ELSE /\ entries' = Append(entries, made)
            /\ built' = built \cup {Row.id}
            /\ UNCHANGED failed
    /\ NextRegion
    /\ pc' = "region"
    /\ UNCHANGED <<world, graphs, index, strays, opts, plan, existing, pbfRev,
                   made, exit, runs>>

----------------------------------------------------------------------------
(* After the loop: remove .tmp/, then write_atomic of the index *)

WriteIndex ==
    /\ pc = "region" /\ pos > Len(plan)
    /\ RemoveScratch
    /\ strays' = strays \cup {TmpFile(IndexFile)}
    /\ pc' = "index"
    /\ UNCHANGED <<world, graphs, index, opts, plan, pos, existing, entries,
                   built, failed, pbfRev, made, exit, runs>>

\* Writing or renaming the index's temp file fails.
IndexFails ==
    /\ pc = "index"
    /\ pc' = Idle
    /\ exit' = "error"
    /\ UNCHANGED <<world, dir, opts, plan, pos, existing, entries, built,
                   failed, pbfRev, made, runs>>

CommitIndex ==
    /\ pc = "index"
    /\ index' = entries
    /\ strays' = strays \ {TmpFile(IndexFile)}
    /\ pc' = Idle
    /\ exit' = IF failed = {} THEN "ok" ELSE "failed"
    /\ UNCHANGED <<world, graphs, scratch, opts, plan, pos, existing, entries,
                   built, failed, pbfRev, made, runs>>

----------------------------------------------------------------------------
(* What the program does not control *)

\* Panic, OOM kill, power loss: memory is gone, the files stay.
Crash ==
    /\ pc # Idle
    /\ pc' = Idle /\ exit' = "crashed"
    /\ plan' = <<>> /\ pos' = 1 /\ existing' = {} /\ entries' = <<>>
    /\ built' = {} /\ failed' = {} /\ made' = NoFile
    /\ UNCHANGED <<world, dir, opts, pbfRev, runs>>

\* Somebody edits regions.toml, possibly during a run.
EditManifest(m) ==
    /\ manifest' = m
    /\ UNCHANGED <<upstream, version, dir, proc>>

\* Geofabrik republishes an extract under the same URL.
Republish(u) ==
    /\ upstream[u] < MaxRev
    /\ upstream' = [upstream EXCEPT ![u] = @ + 1]
    /\ UNCHANGED <<manifest, version, dir, proc>>

\* A binary with the next format version is installed.
Upgrade ==
    /\ pc = Idle /\ version < MaxVersion
    /\ version' = version + 1
    /\ UNCHANGED <<manifest, upstream, dir, proc>>

\* A built graph is removed from the output directory by hand.
LoseGraph(r) ==
    /\ pc = Idle /\ graphs[r] # NoFile
    /\ graphs' = [graphs EXCEPT ![r] = NoFile]
    /\ UNCHANGED <<world, index, scratch, strays, proc>>

\* What the process does once started, failures included.
RunStep ==
    \/ SkipRegion \/ GatePass \/ GateRefuse
    \/ Download \/ DownloadFails
    \/ WriteGraph \/ BuildFails \/ InstallGraph
    \/ VerifyGraph \/ VerifyFails \/ Cleanup
    \/ WriteIndex \/ IndexFails \/ CommitIndex

Environment ==
    \/ \E m \in Manifests : EditManifest(m)
    \/ \E u \in Urls : Republish(u)
    \/ Upgrade
    \/ \E r \in Ids : LoseGraph(r)

Next ==
    \/ \E o \in Options : Start(o)
    \/ Refuse
    \/ RunStep
    \/ Crash
    \/ Environment

\* Network calls carry timeouts (net::agent) and every loop is bounded by the
\* manifest, so a started run keeps taking steps.  Starting one, crashing and
\* the environment are never owed.
Spec == Init /\ [][Next]_vars /\ WF_vars(RunStep)
----------------------------------------------------------------------------
(* Properties *)

\* Every variable has its type: the shape of cmd_batch's state.
TypeOK ==
    /\ manifest \in Manifests
    /\ upstream \in [Urls -> 1..MaxRev]
    /\ version \in 1..MaxVersion
    /\ graphs \in [Ids -> Graphs \cup {NoFile}]
    /\ index \in Seq(Entries)
    /\ scratch \subseteq Ids
    /\ strays \subseteq (Ids \cup {IndexFile}) \X (1..MaxRuns)
    /\ pc \in {Idle, "region", "download", "build", "rename", "verify",
              "cleanup", "index"}
    /\ opts \in Options
    /\ plan \in Manifests \cup {<<>>}
    /\ pos \in Nat \ {0}
    /\ existing \subseteq Entries
    /\ entries \in Seq(Entries)
    /\ built \subseteq Ids /\ failed \subseteq Ids
    /\ pbfRev \in 1..MaxRev
    /\ made \in Entries \cup {NoFile}
    /\ exit \in Exits
    /\ runs \in 0..MaxRuns

\* Never two .pbf files at once, and none when a download begins, whatever
\* crashed before (the disk rule of the file's header, cleanup and sweep).
OnePbfAtATime ==
    /\ \A p, q \in scratch : p = q
    /\ pc \in {"region", "download", "index"} => scratch = {}

\* index.json only ever describes files that a verification accepted, with
\* the source, version and profiles they were really built from: not after
\* a crash, a failed region, a changed manifest or a new binary either.
IndexHonest ==
    \A i \in DOMAIN index : index[i].version = 0 \/ Honest(index[i])

\* The step that ends a run and replaces index.json.
Commits == pc = "index" /\ pc' = Idle /\ exit' \in {"ok", "failed"}

\* Whatever the earlier runs left behind (a crash between a graph and the
\* index, a file deleted or rebuilt since), a disk-mode run that completes
\* leaves an index whose every entry hashes to the file next to it.
DiskModeHeals ==
    [][Commits /\ ~opts.trust =>
        \A i \in DOMAIN index' :
            graphs'[index'[i].id] = index'[i].sha]_vars

\* The new index lists the manifest's regions except the ones that failed, in
\* the manifest's order and each once.
IndexFollowsManifest ==
    [][Commits =>
        /\ {index'[i].id : i \in DOMAIN index'} =
             {plan[k].id : k \in DOMAIN plan} \ failed
        /\ \A i, j \in DOMAIN index' : i < j =>
             \E k, l \in DOMAIN plan :
                 /\ k < l
                 /\ plan[k].id = index'[i].id /\ plan[l].id = index'[j].id]_vars

\* No entry outlives what it was made for: every entry of the new index has
\* the binary's format version and this run's base URL, under --trust-index
\* the manifest's source, and under --force it was built by this very run.
IndexIsCurrent ==
    [][Commits =>
        \A i \in DOMAIN index' :
            /\ index'[i].version = version
            /\ index'[i].link = opts.base
            /\ opts.trust => \E k \in DOMAIN plan :
                                /\ plan[k].id = index'[i].id
                                /\ plan[k].url = index'[i].source
            /\ opts.force => index'[i].id \in built]_vars

\* A run never rewrites the file of a region that was up to date when it
\* started: only a region without a fresh entry is built again.
UpToDateUntouched ==
    [][\A r \in Ids :
        (pc # Idle /\ graphs'[r] # graphs[r]) =>
            ~\E e \in existing : \E k \in DOMAIN plan :
                plan[k].id = r /\ CanSkip(plan[k], e)]_vars

\* A started run ends: every path through the loop and its failures leads
\* out of cmd_batch.
RunEnds == (pc # Idle) ~> (pc = Idle)

\* index.json seen by its readers: see module Catalogue.
Cat == INSTANCE Catalogue WITH
         Entry <- Entries,
         Verified <- {e \in Entries : Honest(e)},
         FirstLists <- OldIndexes,
         listed <- index,
         fresh <- IF pc = Idle THEN {}
                  ELSE {entries[i] : i \in {k \in DOMAIN entries :
                                               entries[k].id \in built}}

\* The index is replaced as a whole by the runs that complete, out of carried
\* and newly verified entries; aborted and crashed runs leave it alone.
RefinesCatalogue == Cat!Spec
=============================================================================
