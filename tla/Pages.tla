------------------------------- MODULE Pages -------------------------------
(***************************************************************************)
(* The landing page's deployment, .github/workflows/deploy-pages.yml: a    *)
(* fresh runner copies index.json and the demo regions' graphs from the    *)
(* release, one asset at a time, and pushes them as the site.  It is not   *)
(* in the publisher's concurrency group, so the two interleave.            *)
(***************************************************************************)
EXTENDS Release

CONSTANTS
    Demo,       \* DEMO_REGIONS
    MaxDeploys  \* bound: deployments pushed

ASSUME PagesAssumption == Demo \subseteq Ids /\ MaxDeploys \in Nat

VARIABLES
    staging,  \* what the deployment still has to copy; NoFile without one
    staged,   \* what it has copied: an index, and id -> graph
    site,     \* what gh-pages serves
    pushes,   \* deployments pushed so far
    quiet     \* history: no publish was on since the deployment began

pages == <<staging, staged, site, pushes, quiet>>
pvars == <<rvars, pages>>

NoSite == [index |-> <<>>, graph |-> [r \in Ids |-> NoFile]]

PInit ==
    /\ RInit
    /\ staging = NoFile /\ staged = NoSite /\ site = NoSite
    /\ pushes = 0 /\ quiet = TRUE

----------------------------------------------------------------------------

\* The checkout holds no graph and no index.
CleanCheckout == staged' = NoSite

\* A deployment starts: on its own, or cancelling the one in progress.
BeginDeploy ==
    /\ pushes < MaxDeploys
    /\ staging' = Demo \cup {IndexFile}
    /\ CleanCheckout
    /\ quiet' = (job # "publish")
    /\ UNCHANGED <<rvars, site, pushes>>

\* `gh release download` of one asset; a pattern nothing matches is skipped.
StageIndex ==
    /\ staging # NoFile /\ IndexFile \in staging
    /\ staging' = staging \ {IndexFile}
    /\ staged' = [staged EXCEPT !.index = published]
    /\ UNCHANGED <<rvars, site, pushes, quiet>>

StageGraph(r) ==
    /\ staging # NoFile /\ r \in staging
    /\ staging' = staging \ {r}
    /\ staged' = IF assets[r] = NoFile THEN staged
                 ELSE [staged EXCEPT !.graph[r] = assets[r]]
    /\ UNCHANGED <<rvars, site, pushes, quiet>>

\* One forced push replaces the whole site; the step before it lists the
\* staged graphs and fails if there is none.
Push ==
    /\ staging # NoFile /\ staging = {}
    /\ \E r \in Demo : staged.graph[r] # NoFile
    /\ site' = staged
    /\ staging' = NoFile
    /\ pushes' = pushes + 1
    /\ UNCHANGED <<rvars, staged, quiet>>

\* A failed download, or a lost runner.
DeployDies ==
    /\ staging # NoFile
    /\ staging' = NoFile
    /\ UNCHANGED <<rvars, staged, site, pushes, quiet>>

\* The publisher and the world go on meanwhile.
ReleaseGoesOn ==
    /\ RNext
    /\ quiet' = (quiet /\ job' # "publish")
    /\ UNCHANGED <<staging, staged, site, pushes>>

DeployStep ==
    \/ StageIndex \/ (\E r \in Demo : StageGraph(r))
    \/ Push

PNext == BeginDeploy \/ DeployStep \/ DeployDies \/ ReleaseGoesOn

PSpec == PInit /\ [][PNext]_pvars

----------------------------------------------------------------------------
(* Properties *)

\* The site's index tells the truth about the graphs beside it.
SiteAgrees(s) ==
    \A i \in DOMAIN s.index :
        s.index[i].id \in Demo => s.graph[s.index[i].id] = s.index[i].sha

\* A deployment during which nothing was published pushes an index that agrees
\* with the graphs: the page's sha256 check will accept them.  It rests on the
\* publisher: jobs that stop early must leave the release as it was, unless
\* one died between two uploads.
QuietDeployAgrees == [][Push /\ quiet /\ ~torn => SiteAgrees(site')]_pvars
=============================================================================
