------------------------------ MODULE Release ------------------------------
(***************************************************************************)
(* The publisher, .github/workflows/build-regions.yml, composed with Batch *)
(* (the program it drives) and the GitHub release it updates.  A job runs  *)
(* on a fresh runner: it fetches the published index.json alone, runs      *)
(* `roughroute batch --trust-index` and, if that wrote an index, uploads   *)
(* every .graph of the output directory and the index.                     *)
(*                                                                         *)
(* Jobs are serialized (the concurrency group), but a job may die anywhere *)
(* and `gh release upload` replaces the assets one after the other, in an  *)
(* order it does not promise.                                              *)
(***************************************************************************)
EXTENDS Batch

\* Asset names: no graph is called index.json.
ASSUME NameAssumption == IndexFile \notin Ids

VARIABLES
    assets,     \* id -> content of the release asset <id>.graph
    published,  \* the release asset index.json; <<>> if there is none
    job,        \* the step the running job is at
    todo,       \* assets still to be uploaded by this job
    torn        \* history: some job died between two uploads

release == <<assets, published, job, todo, torn>>
rvars   == <<vars, release>>

NoJob == "none"

RInit ==
    /\ Init
    /\ assets = [r \in Ids |-> NoFile]
    /\ published = <<>>
    /\ job = NoJob /\ todo = {} /\ torn = FALSE

----------------------------------------------------------------------------
(* The job *)

\* Faulty: the runner keeps the output directory of the job before.
BugWarmRunner == UNCHANGED graphs

\* Nothing but the index reaches the runner's output directory.
EmptyRunner == graphs' = [r \in Ids |-> NoFile]

\* "Fetch currently-published index.json": a failed download is ignored.
FetchIndex ==
    /\ job = NoJob /\ runs < MaxRuns
    /\ job' = "batch"
    /\ index' \in {published, <<>>}
    /\ EmptyRunner
    /\ scratch' = {} /\ strays' = {}
    /\ exit' = "none"
    /\ UNCHANGED <<world, assets, published, todo, torn, pc, opts, plan, pos,
                   existing, entries, built, failed, pbfRev, made, runs>>

\* "Build regions (incremental)": force is the dispatch input.
RunBatch ==
    /\ job = "batch" /\ exit = "none"
    /\ \/ \E f \in BOOLEAN, b \in Bases :
            Start([force |-> f, trust |-> TRUE, base |-> b])
       \/ Refuse
    /\ UNCHANGED release

BatchStep == job = "batch" /\ RunStep /\ UNCHANGED release

\* Faulty: the upload does not wait for a fresh index.
BugAlwaysPublish == exit \notin {"none", "running"}

\* index_fresh: index.json is newer than the marker left before the run.
IndexIsFresh == exit \in {"ok", "failed"}

\* "Publish built graphs + index": every .graph present, and the index.
BeginPublish ==
    /\ job = "batch" /\ pc = Idle /\ IndexIsFresh
    /\ job' = "publish"
    /\ todo' = {r \in Ids : graphs[r] # NoFile} \cup {IndexFile}
    /\ UNCHANGED <<vars, assets, published, torn>>

\* No fresh index: nothing is published and the job fails.
SkipPublish ==
    /\ job = "batch" /\ pc = Idle
    /\ exit # "none" /\ ~IndexIsFresh
    /\ job' = NoJob
    /\ UNCHANGED <<vars, assets, published, todo, torn>>

UploadGraph(r) ==
    /\ job = "publish" /\ r \in todo
    /\ assets' = [assets EXCEPT ![r] = graphs[r]]
    /\ todo' = todo \ {r}
    /\ UNCHANGED <<vars, published, job, torn>>

UploadIndex ==
    /\ job = "publish" /\ IndexFile \in todo
    /\ published' = index
    /\ todo' = todo \ {IndexFile}
    /\ UNCHANGED <<vars, assets, job, torn>>

\* Faulty: the job is done once the index is uploaded.
BugDoneWithIndex == IndexFile \notin todo

AllUploaded == todo = {}

EndPublish ==
    /\ job = "publish" /\ AllUploaded
    /\ job' = NoJob
    /\ todo' = {}
    /\ UNCHANGED <<vars, assets, published, torn>>

\* The runner is lost, the job times out, or an upload fails.
JobDies ==
    /\ job # NoJob
    /\ job' = NoJob /\ todo' = {}
    /\ torn' = (torn \/ todo # {})
    /\ IF pc = Idle THEN UNCHANGED vars ELSE Crash
    /\ UNCHANGED <<assets, published>>

JobStep ==
    \/ RunBatch \/ BatchStep
    \/ BeginPublish \/ SkipPublish
    \/ \E r \in Ids : UploadGraph(r)
    \/ UploadIndex \/ EndPublish

\* Pushes to regions.toml, upstream updates and new binaries.
RWorld ==
    /\ \/ \E m \in Manifests : EditManifest(m)
       \/ \E x \in Urls : Republish(x)
       \/ job = NoJob /\ Upgrade
    /\ UNCHANGED release

RNext == FetchIndex \/ JobStep \/ JobDies \/ RWorld

\* A job that runs goes on; GitHub kills one that does not.
RSpec == RInit /\ [][RNext]_rvars /\ WF_rvars(JobStep)

----------------------------------------------------------------------------
(* Properties *)

\* Every variable of the release and the job has its type.
RTypeOK ==
    /\ TypeOK
    /\ assets \in [Ids -> Graphs \cup {NoFile}]
    /\ published \in Seq(Entries)
    /\ job \in {NoJob, "batch", "publish"}
    /\ todo \subseteq Ids \cup {IndexFile}
    /\ torn \in BOOLEAN

\* Between jobs, every region the published index lists can be downloaded and
\* hashes to what the index says (D17: "the app verifies after download").
\* This is what the gate on a fresh index and the serialized jobs are for; it
\* holds as long as no job has died between two uploads.
ReleaseConsistent ==
    job = NoJob /\ ~torn =>
        \A i \in DOMAIN published : assets[published[i].id] = published[i].sha

\* The workflow's "a skipped region's release asset is never touched": what
\* is uploaded never includes a region the new index merely carries over.
SkippedAssetUntouched ==
    job = "publish" =>
        \A i \in DOMAIN index : index[i].id \in todo => index[i].id \in built

\* A job that publishes to the end repairs what it built, whatever an earlier
\* job left half uploaded: those assets match the index; after a forced run,
\* that is every region listed.
FullPublishRepairs ==
    [][EndPublish =>
        \A i \in DOMAIN published' :
            published'[i].id \in built \/ opts.force =>
                assets'[published'[i].id] = published'[i].sha]_rvars

\* D20 addendum: --trust-index "trusts that the published release asset
\* actually matches its recorded hash", which only tampering could break.  So
\* whenever a run carries an entry over, the asset should match it.
TrustIsJustified ==
    [][SkipRegion => LET e == entries'[Len(entries')]
                     IN  assets[e.id] = e.sha]_rvars
=============================================================================
