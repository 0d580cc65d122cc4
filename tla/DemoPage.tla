------------------------------ MODULE DemoPage ------------------------------
(***************************************************************************)
(* The live demo of design-gh-page/index.html: one page, one event loop.   *)
(* loadRegion awaits Leaflet, the cache, the network, hashes and the wasm  *)
(* module; between two awaits the site can be redeployed and other tabs    *)
(* can change the shared cache.  While a load is on, an overlay covers the *)
(* map and the controls, and the region list is disabled; a drag already   *)
(* begun is still in flight.                                               *)
(*                                                                         *)
(* Abstracted data: a graph file is a value that is its own sha256, and    *)
(* which points lie near a road is given by Snaps.                         *)
(***************************************************************************)
EXTENDS Integers, Sequences

CONSTANTS
    Regions,     \* CFG.REGIONS
    Default,     \* CFG.DEFAULT_REGION, also the one of CFG.FALLBACK_INDEX
    Offers,      \* region -> the profiles it was built for
    Contents,    \* graph files ever deployed
    Broken,      \* those the page's wasm module refuses to parse
    Sites,       \* what a deployment can serve: an index and graphs
    Points,      \* places on the map
    Snaps,       \* <<region, profile, point>>: the point is near a usable road
    None,        \* absent, null
    NoSha,       \* the empty sha256 of the fallback index
    ReleaseCors, \* whether the release host answers cross-origin requests
    HasCrypto,   \* whether the page is a secure context
    Shared,      \* regions that other tabs of the site are open on
    MaxPoints,   \* bound: waypoints placed
    MaxDeploys   \* bound: deployments while the page is open

Profiles == {"car", "foot"}

\* ./<file> and RELEASE_BASE/<file>, in the order they are tried
Sources == 1..2

SiteRecords ==
    [index : UNION {[S -> Contents] : S \in SUBSET Regions},
     graph : [Regions -> Contents \cup {None}]]

Routers == [region : Regions, graph : Contents, live : BOOLEAN]
Routes == [region : Regions, graph : Contents, profile : Profiles,
           points : Seq(Points)]

ASSUME PageAssumption ==
    /\ Default \in Regions
    /\ Offers \in [Regions -> (SUBSET Profiles) \ {{}}]
    /\ Broken \subseteq Contents
    /\ Sites \subseteq SiteRecords
    /\ Snaps \subseteq Regions \X Profiles \X Points
    /\ None \notin Regions \cup Contents \cup Points
    /\ None \notin Routers /\ None \notin Routes
    /\ NoSha \notin Contents
    /\ {ReleaseCors, HasCrypto} \subseteq BOOLEAN /\ Shared \subseteq Regions
    /\ MaxPoints \in Nat /\ MaxDeploys \in Nat

VARIABLES
    site,       \* what the server serves now
    deploys,    \* deployments so far
    cache,      \* region -> source -> cached copy; shared by all tabs
    regions,    \* region -> sha256, once index.json is read
    selected,   \* regionSel.value
    currentId,
    view,       \* the region the map is framed on
    shown,      \* the visible box: an overlay, or the card over the map
    load,       \* where loadRegion is, and its locals
    wasmMod,
    router,
    profile,
    waypoints,
    lastRes,    \* the drawn route
    drag        \* the marker being dragged and where it was

server == <<site, deploys>>
picker == <<regions, selected>>
loader == <<currentId, view, shown, load, wasmMod, router>>
routing == <<profile, waypoints, lastRes, drag>>
vars == <<server, cache, picker, loader, routing>>

NoLoad == [at |-> "off", rg |-> None, cached |-> FALSE, src |-> 1,
           bytes |-> None]

Loading == load.at # "off"

Init ==
    /\ site \in Sites /\ deploys = 0
    /\ cache = [r \in Regions |-> [s \in Sources |-> None]]
    /\ regions = None /\ selected = None
    /\ currentId = None /\ view = None
    /\ shown = "idle"
    /\ load = NoLoad
    /\ wasmMod = "none" /\ router = None
    /\ profile = "car"
    /\ waypoints = <<>> /\ lastRes = None /\ drag = None

----------------------------------------------------------------------------
(* The region list *)

FallbackIndex == [r \in {Default} |-> NoSha]

FirstOf(idx) ==
    IF Default \in DOMAIN idx THEN Default
    ELSE IF DOMAIN idx = {} THEN None
    ELSE CHOOSE r \in DOMAIN idx : TRUE

\* initRegions: the index is read once; an unreadable one is replaced.
InitRegions ==
    /\ regions = None
    /\ regions' \in {site.index, FallbackIndex}
    /\ selected' = FirstOf(regions')
    /\ UNCHANGED <<server, cache, loader, routing>>

Listed(r) == regions # None /\ r \in DOMAIN regions

\* resetRoute; a removed marker ends its drag without a dragend event.
ResetRoute == waypoints' = <<>> /\ lastRes' = None /\ drag' = None

\* loadRegion up to its first await.
BeginLoad(r) ==
    /\ ~Loading /\ Listed(r)
    /\ load' = [NoLoad EXCEPT !.at = "leaflet", !.rg = r]
    /\ shown' = "progress"
    /\ ResetRoute
    /\ UNCHANGED <<server, cache, regions, currentId, view, wasmMod, router,
                   profile>>

\* demoLoadBtn and demoRetryBtn, each on its own overlay.
PressLoad ==
    /\ shown \in {"idle", "error"}
    /\ BeginLoad(selected)
    /\ UNCHANGED selected

Switches(r) == currentId # None /\ r # currentId

\* regionSel's change event.
ChooseRegion(r) ==
    /\ ~Loading /\ Listed(r) /\ r # selected
    /\ selected' = r
    /\ \/ Switches(r) /\ BeginLoad(r)
       \/ ~Switches(r) /\ UNCHANGED <<server, cache, regions, loader, routing>>

----------------------------------------------------------------------------
(* loadRegion after its first await *)

\* Faulty: a failed load leaves `loading` set.
BugStayLoading == shown' = "error" /\ UNCHANGED load

\* loadRegion's catch and finally.
LoadFails == shown' = "error" /\ load' = NoLoad

\* loadLeaflet, initMap and applyRegionView; then the cache is opened, if
\* the browser has one.
LeafletReady ==
    /\ load.at = "leaflet"
    /\ view' = load.rg
    /\ load' \in {[load EXCEPT !.at = "match", !.cached = TRUE],
                  [load EXCEPT !.at = "fetch"]}
    /\ UNCHANGED <<server, cache, picker, currentId, shown, wasmMod,
                   router, routing>>

LeafletFails ==
    /\ load.at = "leaflet"
    /\ LoadFails
    /\ UNCHANGED <<server, cache, picker, currentId, view, wasmMod, router,
                   routing>>

\* Faulty: after a miss the network is asked at once.
BugFirstCopyOnly == [load EXCEPT !.at = "fetch", !.src = 1, !.bytes = None]

\* On to the next cached copy, or to the network.
NextCopy ==
    IF load.src = 2 THEN [load EXCEPT !.at = "fetch", !.src = 1, !.bytes = None]
    ELSE [load EXCEPT !.at = "match", !.src = 2, !.bytes = None]

\* cache.match and the read of the copy it found.
MatchCache ==
    /\ load.at = "match"
    /\ LET hit == cache[load.rg][load.src]
       IN  load' = IF hit = None THEN NextCopy
                   ELSE [load EXCEPT !.at = "check", !.bytes = hit]
    /\ UNCHANGED <<server, cache, picker, currentId, view, shown,
                   wasmMod, router, routing>>

\* Faulty: the file is not hashed.
BugShaOk == TRUE

\* shaOk of the bytes in hand.
ShaOk ==
    \/ regions[load.rg] = NoSha \/ ~HasCrypto
    \/ load.bytes = regions[load.rg]

\* The copy is used, or deleted as stale.
CheckCopy ==
    /\ load.at = "check"
    /\ \/ ShaOk /\ load' = [load EXCEPT !.at = "start"] /\ UNCHANGED cache
       \/ /\ ~ShaOk
          /\ cache' = [cache EXCEPT ![load.rg][load.src] = None]
          /\ load' = NextCopy
    /\ UNCHANGED <<server, picker, currentId, view, shown, wasmMod,
                   router, routing>>

\* What source s can answer with.  The release serves cross-origin.
Served(s) ==
    IF s = 1 THEN {site.graph[load.rg]} \ {None}
    ELSE IF ReleaseCors THEN Contents ELSE {}

\* streamFetch
FetchGraph(c) ==
    /\ load.at = "fetch" /\ c \in Served(load.src)
    /\ load' = [load EXCEPT !.at = "verify", !.bytes = c]
    /\ UNCHANGED <<server, cache, picker, currentId, view, shown,
                   wasmMod, router, routing>>

\* A source failed, by its status, its hash or the network: on to the next,
\* and the error of the last one is thrown.
SourceFails ==
    \/ /\ load.src = 1
       /\ load' = [load EXCEPT !.at = "fetch", !.src = 2, !.bytes = None]
       /\ UNCHANGED shown
    \/ load.src = 2 /\ LoadFails

FetchFails ==
    /\ load.at = "fetch"
    /\ SourceFails
    /\ UNCHANGED <<server, cache, picker, currentId, view, wasmMod, router,
                   routing>>

\* The download is hashed, then cached if the browser has a cache and room.
VerifyDownload ==
    /\ load.at = "verify"
    /\ \/ /\ ShaOk
          /\ load' = [load EXCEPT !.at = "start"]
          /\ \/ UNCHANGED cache
             \/ /\ load.cached
                /\ cache' = [cache EXCEPT ![load.rg][load.src] = load.bytes]
          /\ UNCHANGED shown
       \/ ~ShaOk /\ SourceFails /\ UNCHANGED cache
    /\ UNCHANGED <<server, picker, currentId, view, wasmMod, router, routing>>

\* The import sets wasmMod, and only then the module is initialized.
ImportWasm ==
    /\ load.at = "start" /\ wasmMod = "none"
    /\ \/ wasmMod' = "ready" /\ UNCHANGED <<shown, load>>
       \/ wasmMod' \in {"none", "imported"} /\ LoadFails
    /\ UNCHANGED <<server, cache, picker, currentId, view, router, routing>>

\* Faulty: the profile of the region before stays.
BugKeepProfile(r) == UNCHANGED profile

\* setupProfiles; car is the first segment of the page.
SetupProfiles(r) ==
    profile' = IF profile \in Offers[r] THEN profile
               ELSE IF "car" \in Offers[r] THEN "car" ELSE "foot"

Constructible == wasmMod = "ready" /\ load.bytes \notin Broken

\* The old router is freed, then the new one constructed.
StartRouter ==
    /\ load.at = "start" /\ wasmMod # "none"
    /\ Constructible
    /\ router' = [region |-> load.rg, graph |-> load.bytes, live |-> TRUE]
    /\ currentId' = load.rg
    /\ SetupProfiles(load.rg)
    /\ shown' = "card" /\ load' = NoLoad
    /\ UNCHANGED <<server, cache, picker, view, wasmMod, waypoints,
                   lastRes, drag>>

\* The constructor throws; the variable keeps the freed router.
RouterRefuses ==
    /\ load.at = "start" /\ wasmMod # "none"
    /\ ~Constructible
    /\ router' = IF router = None THEN None ELSE [router EXCEPT !.live = FALSE]
    /\ LoadFails
    /\ UNCHANGED <<server, cache, picker, currentId, view, wasmMod, routing>>

----------------------------------------------------------------------------
(* The map *)

\* router.route succeeds: the router is alive and every point snaps.
Routable(pf, pts) ==
    /\ router.live
    /\ \A i \in DOMAIN pts : <<router.region, pf, pts[i]>> \in Snaps

RouteOf(pf, pts) ==
    [region |-> router.region, graph |-> router.graph, profile |-> pf,
     points |-> pts]

\* Faulty: a failed call does not revert.
BugNoRevert(pts, old) == waypoints' = pts

\* What the callers pass as `revert`.
Revert(pts, old) == waypoints' = old

\* tryRoute, for waypoints pts that were old.
TryRoute(pf, pts, old) ==
    \/ /\ Len(pts) < 2
       /\ waypoints' = pts /\ lastRes' = None
    \/ /\ Len(pts) >= 2 /\ Routable(pf, pts)
       /\ waypoints' = pts /\ lastRes' = RouteOf(pf, pts)
    \/ /\ Len(pts) >= 2 /\ ~Routable(pf, pts)
       /\ Revert(pts, old) /\ UNCHANGED lastRes

\* Nothing covers the map and its card.
MapOpen == shown = "card"

\* The map's click handler and addWaypoint.
AddWaypoint(p) ==
    /\ MapOpen /\ router # None /\ Len(waypoints) < MaxPoints
    /\ TryRoute(profile, Append(waypoints, p), waypoints)
    /\ UNCHANGED <<server, cache, picker, loader, profile, drag>>

DragStart(i) ==
    /\ MapOpen /\ drag = None /\ i \in DOMAIN waypoints
    /\ drag' = [marker |-> i, from |-> waypoints[i]]
    /\ UNCHANGED <<server, cache, picker, loader, profile, waypoints, lastRes>>

\* dragend; its marker is on the map, or the drag would be gone.
DragEnd(p) ==
    /\ drag # None
    /\ LET at(q) == [waypoints EXCEPT ![drag.marker] = q]
       IN  TryRoute(profile, at(p), at(drag.from))
    /\ drag' = None
    /\ UNCHANGED <<server, cache, picker, loader, profile>>

\* The profile toggle; a hidden or active segment does nothing.
SetProfile(pf) ==
    /\ MapOpen /\ pf # profile /\ pf \in Offers[currentId]
    /\ profile' = pf
    /\ TryRoute(pf, waypoints, waypoints)
    /\ UNCHANGED <<server, cache, picker, loader, drag>>

Clear ==
    /\ MapOpen /\ ResetRoute
    /\ UNCHANGED <<server, cache, picker, loader, profile>>

----------------------------------------------------------------------------
(* Around the page *)

Deploy ==
    /\ deploys < MaxDeploys
    /\ site' \in Sites
    /\ deploys' = deploys + 1
    /\ UNCHANGED <<cache, picker, loader, routing>>

\* Another tab, with its own index, caches or deletes a copy.
TouchCache ==
    /\ \E r \in Shared, s \in Sources, c \in Contents \cup {None} :
        cache' = [cache EXCEPT ![r][s] = c]
    /\ UNCHANGED <<server, picker, loader, routing>>

\* The page is reloaded, in the middle of whatever it was doing.
Reload ==
    /\ regions' = None /\ selected' = None
    /\ currentId' = None /\ view' = None
    /\ shown' = "idle"
    /\ load' = NoLoad
    /\ wasmMod' = "none" /\ router' = None
    /\ profile' = "car"
    /\ waypoints' = <<>> /\ lastRes' = None /\ drag' = None
    /\ UNCHANGED <<server, cache>>

LoadStep ==
    \/ LeafletReady \/ LeafletFails
    \/ MatchCache \/ CheckCopy
    \/ (\E c \in Contents : FetchGraph(c)) \/ FetchFails \/ VerifyDownload
    \/ ImportWasm \/ StartRouter \/ RouterRefuses

UserStep ==
    \/ PressLoad
    \/ \E r \in Regions : ChooseRegion(r)
    \/ \E p \in Points : AddWaypoint(p) \/ DragEnd(p)
    \/ \E i \in 1..MaxPoints : DragStart(i)
    \/ \E pf \in Profiles : SetProfile(pf)
    \/ Clear

Next ==
    \/ InitRegions \/ LoadStep \/ UserStep
    \/ Deploy \/ TouchCache \/ Reload

\* The browser resolves or rejects every promise a load awaits.
Spec == Init /\ [][Next]_vars /\ WF_vars(LoadStep)

----------------------------------------------------------------------------
(* Properties *)

Loads == [at : {"off", "leaflet", "match", "check", "fetch", "verify", "start"},
          rg : Regions \cup {None}, cached : BOOLEAN, src : Sources,
          bytes : Contents \cup {None}]

\* Every variable has its type; a load under way is for a listed region, and
\* past its fetch it has the bytes.
TypeOK ==
    /\ site \in Sites /\ deploys \in 0..MaxDeploys
    /\ cache \in [Regions -> [Sources -> Contents \cup {None}]]
    /\ regions # None =>
          regions \in UNION {[S -> Contents \cup {NoSha}] : S \in SUBSET Regions}
    /\ selected \in Regions \cup {None}
    /\ currentId \in Regions \cup {None} /\ view \in Regions \cup {None}
    /\ shown \in {"idle", "progress", "error", "card"}
    /\ load \in Loads
    /\ Loading => Listed(load.rg)
    /\ load.at \in {"check", "verify", "start"} => load.bytes \in Contents
    /\ wasmMod \in {"none", "imported", "ready"}
    /\ router \in Routers \cup {None}
    /\ profile \in Profiles
    /\ waypoints \in Seq(Points)
    /\ lastRes \in Routes \cup {None}
    /\ drag # None => /\ drag.marker \in DOMAIN waypoints
                      /\ drag.from \in Points

\* Whenever the map can be clicked, the router behind it is alive, belongs to
\* the region the map is framed on, and is asked for a profile that region
\* has: the freed router of a failed switch and the view of an unfinished one
\* are never within reach (loadRegion, setupProfiles).
MapMatchesRouter ==
    MapOpen =>
        /\ router # None /\ router.live
        /\ router.region = currentId /\ currentId = view
        /\ profile \in Offers[currentId]

\* "One bad waypoint must never destroy a valid N-point route": two or more
\* waypoints always have a route drawn, it runs through exactly them, and it
\* was computed on the graph that is loaded, through failed clicks and drags,
\* profile changes, drags in flight and region switches.
RouteMatchesPoints ==
    /\ (lastRes # None) <=> (Len(waypoints) >= 2)
    /\ lastRes # None =>
          /\ lastRes.points = waypoints
          /\ lastRes.region = router.region /\ lastRes.graph = router.graph

\* A region is routed on the very file the page's index lists, whichever copy
\* it came from, unless there was no sha256 or no crypto to check it.
GraphVerified ==
    router # None /\ HasCrypto /\ regions[router.region] # NoSha =>
        router.graph = regions[router.region]

\* "One-time download, cached for repeat visits": the network is asked only
\* when no copy is cached any more, stale ones having been deleted.  With
\* other tabs on the region, a copy can appear behind the search.
DownloadedOnce ==
    [][load.rg \notin Shared /\ load.at \in {"match", "check"} /\ load'.at = "fetch" =>
        \A s \in Sources : cache[load.rg][s] = None
                             \/ (s = load.src /\ ~ShaOk)]_vars

\* The progress overlay always goes away: a load is never left locking the
\* page, whatever fails.
LoadEnds == Loading ~> ~Loading
=============================================================================
