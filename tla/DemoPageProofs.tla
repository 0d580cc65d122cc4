--------------------------- MODULE DemoPageProofs ---------------------------
(***************************************************************************)
(* Proofs about DemoPage, for any regions, profiles, graphs, sites, places *)
(* and bounds, and whatever deployments and other tabs do.                 *)
(***************************************************************************)
EXTENDS DemoPage, TLAPS

\* Off the card nothing is on the map; the progress overlay is there exactly
\* while a load is; a marker in flight has not moved in `waypoints`.
PageInv ==
    /\ ~MapOpen => waypoints = <<>> /\ lastRes = None /\ drag = None
    /\ drag # None => drag.from = waypoints[drag.marker]
    /\ Loading <=> shown = "progress"
    /\ load.at \notin {"off", "leaflet"} => view = load.rg

\* What a load hands to the constructor has been hashed, and the router's
\* region has a hash to be compared with.
HashInv ==
    /\ load.at = "start" => ShaOk
    /\ router # None => Listed(router.region)

Inv == TypeOK /\ PageInv /\ HashInv /\ MapMatchesRouter /\ RouteMatchesPoints
       /\ GraphVerified

----------------------------------------------------------------------------
(* Facts the step proofs share *)

LEMMA NoLoadType == NoLoad \in Loads /\ NoLoad.at = "off"
  BY DEF NoLoad, Loads, Sources

\* The index a page works with has hashes of regions.
LEMMA IndexType ==
    ASSUME TypeOK, NEW r, Listed(r)
    PROVE  r \in Regions /\ regions[r] \in Contents \cup {NoSha}
  BY DEF TypeOK, Listed

LEMMA InitInv == Init => Inv
<1> SUFFICES ASSUME Init PROVE Inv
  OBVIOUS
<1>1. TypeOK
  BY PageAssumption, NoLoadType DEF Init, TypeOK, Loading, Profiles
<1>2. PageInv /\ HashInv /\ GraphVerified
  BY NoLoadType DEF Init, PageInv, HashInv, GraphVerified, MapOpen, Loading
<1>3. MapMatchesRouter /\ RouteMatchesPoints
  BY DEF Init, MapMatchesRouter, RouteMatchesPoints, MapOpen
<1> QED BY <1>1, <1>2, <1>3 DEF Inv

----------------------------------------------------------------------------
(* Before the first await *)

LEMMA InitRegionsInv ==
    ASSUME Inv, InitRegions
    PROVE  Inv'
<1> USE DEF Inv
<1>1. ~Loading /\ router = None
  BY DEF TypeOK, Listed, HashInv, InitRegions
<1>2. regions' \in UNION {[S -> Contents \cup {NoSha}] : S \in SUBSET Regions}
  <2>1. CASE regions' = site.index
    <3>1. site \in SiteRecords
      BY PageAssumption DEF TypeOK
    <3>2. PICK S \in SUBSET Regions : site.index \in [S -> Contents]
      BY <3>1 DEF SiteRecords
    <3> QED BY <2>1, <3>2
  <2>2. CASE regions' = FallbackIndex
    <3>1. FallbackIndex \in [{Default} -> Contents \cup {NoSha}]
      BY DEF FallbackIndex
    <3> QED BY <2>2, <3>1, PageAssumption
  <2> QED BY <2>1, <2>2 DEF InitRegions
<1>3. selected' \in Regions \cup {None}
  BY <1>2 DEF InitRegions, FirstOf
<1>4. TypeOK'
  BY <1>1, <1>2, <1>3
  DEF TypeOK, InitRegions, server, loader, routing, Loading, Listed
<1> QED
  BY <1>1, <1>4
  DEF InitRegions, server, loader, routing, PageInv, HashInv, GraphVerified,
      MapMatchesRouter, RouteMatchesPoints, MapOpen, Loading

LEMMA BeginLoadInv ==
    ASSUME Inv, NEW r, BeginLoad(r), selected' \in Regions \cup {None}
    PROVE  Inv'
<1> USE DEF Inv
<1>1. r \in Regions
  BY IndexType DEF BeginLoad
<1>2. load' \in Loads /\ load'.at = "leaflet" /\ load'.rg = r
  BY <1>1, NoLoadType DEF BeginLoad, Loads
<1>3. TypeOK'
  BY <1>1, <1>2
  DEF TypeOK, BeginLoad, ResetRoute, server, Loading, Listed
<1> QED
  BY <1>2, <1>3
  DEF BeginLoad, ResetRoute, server, PageInv, HashInv, GraphVerified,
      MapMatchesRouter, RouteMatchesPoints, MapOpen, Loading, Listed

LEMMA PickerInv ==
    ASSUME Inv, PressLoad \/ \E r \in Regions : ChooseRegion(r)
    PROVE  Inv'
<1>1. CASE PressLoad
  BY <1>1, BeginLoadInv DEF PressLoad, Inv, TypeOK
<1>2. ASSUME NEW r \in Regions, ChooseRegion(r)
      PROVE  Inv'
  <2>1. CASE BeginLoad(r)
    BY <1>2, <2>1, BeginLoadInv DEF ChooseRegion
  <2>2. CASE UNCHANGED <<server, cache, regions, loader, routing>>
    BY <1>2, <2>2
    DEF ChooseRegion, Inv, TypeOK, server, loader, routing, PageInv, HashInv,
        GraphVerified, MapMatchesRouter, RouteMatchesPoints, MapOpen, Loading,
        Listed, ShaOk
  <2> QED BY <1>2, <2>1, <2>2 DEF ChooseRegion
<1> QED BY <1>1, <1>2

----------------------------------------------------------------------------
(* After the first await *)

\* A load that fails leaves an empty map under the error overlay; it may have
\* freed the router.
LEMMA LoadFailsInv ==
    ASSUME Inv, Loading, LoadFails,
           UNCHANGED <<server, cache, picker, currentId, view, routing>>,
           wasmMod' \in {"none", "imported", "ready"},
           \/ UNCHANGED router
           \/ router # None /\ router' = [router EXCEPT !.live = FALSE]
    PROVE  Inv'
<1> USE DEF Inv
<1>1. load' = NoLoad /\ shown' = "error"
  BY DEF LoadFails
<1>2. /\ router' \in Routers \cup {None}
      /\ router' # None => /\ router # None
                           /\ router'.region = router.region
                           /\ router'.graph = router.graph
  BY DEF TypeOK, Routers
<1>3. waypoints = <<>> /\ lastRes = None /\ drag = None
  BY DEF PageInv, MapOpen
<1>4. TypeOK'
  BY <1>1, <1>2, <1>3, NoLoadType
  DEF TypeOK, server, picker, routing, Loading, Listed
<1> QED
  BY <1>1, <1>2, <1>3, <1>4, NoLoadType
  DEF server, picker, routing, PageInv, HashInv, GraphVerified,
      MapMatchesRouter, RouteMatchesPoints, MapOpen, Loading, Listed

\* A load that goes on only moves its locals.
LEMMA LoadMovesInv ==
    ASSUME Inv, Loading, load' \in Loads, load'.at \notin {"off", "leaflet"},
           load'.rg = load.rg,
           load'.at \in {"check", "verify", "start"} => load'.bytes \in Contents,
           view' = load.rg,
           load'.at = "start" => ShaOk /\ load'.bytes = load.bytes,
           cache' \in [Regions -> [Sources -> Contents \cup {None}]],
           UNCHANGED <<server, picker, currentId, shown, router, routing>>,
           wasmMod' \in {"none", "imported", "ready"}
    PROVE  Inv'
<1> USE DEF Inv
<1>1. TypeOK'
  BY DEF TypeOK, server, picker, routing, Loading, Listed
<1>2. ~MapOpen /\ ~MapOpen'
  BY DEF PageInv, MapOpen
<1>3. PageInv'
  BY <1>2 DEF PageInv, MapOpen, Loading, routing
<1>4. HashInv' /\ GraphVerified'
  BY DEF HashInv, GraphVerified, picker, Listed, ShaOk
<1>5. MapMatchesRouter' /\ RouteMatchesPoints'
  BY <1>2 DEF MapMatchesRouter, RouteMatchesPoints, routing
<1> QED BY <1>1, <1>3, <1>4, <1>5

\* Moving to another copy or source keeps the locals' types.
LEMMA NextCopyType ==
    ASSUME load \in Loads
    PROVE  /\ NextCopy \in Loads /\ NextCopy.rg = load.rg
           /\ NextCopy.at \in {"match", "fetch"}
<1>1. /\ load = [at |-> load.at, rg |-> load.rg, cached |-> load.cached,
                 src |-> load.src, bytes |-> load.bytes]
      /\ load.rg \in Regions \cup {None} /\ load.cached \in BOOLEAN
  BY DEF Loads
<1>2. NextCopy \in
        {[at |-> "fetch", rg |-> load.rg, cached |-> load.cached, src |-> 1,
          bytes |-> None],
         [at |-> "match", rg |-> load.rg, cached |-> load.cached, src |-> 2,
          bytes |-> None]}
  BY <1>1 DEF NextCopy
<1> QED BY <1>1, <1>2 DEF Loads, Sources

LEMMA CacheStepInv ==
    ASSUME Inv, LeafletReady \/ MatchCache \/ CheckCopy
    PROVE  Inv'
<1> USE DEF Inv
<1>0. Loading /\ load \in Loads /\ load.rg \in Regions
  BY IndexType DEF LeafletReady, MatchCache, CheckCopy, Loading, TypeOK
<1>1. CASE LeafletReady
  <2>1. /\ load' \in Loads /\ load'.rg = load.rg
        /\ load'.at \in {"match", "fetch"} /\ load'.bytes = load.bytes
    BY <1>0, <1>1 DEF LeafletReady, Loads
  <2> QED BY <1>0, <1>1, <2>1, LoadMovesInv DEF LeafletReady, TypeOK
<1>2. CASE MatchCache
  <2>1. cache[load.rg][load.src] \in Contents \cup {None}
    BY <1>0 DEF TypeOK, Loads
  <2>2. /\ load' \in Loads /\ load'.rg = load.rg
        /\ load'.at \in {"match", "fetch", "check"}
        /\ load'.at = "check" => load'.bytes \in Contents
    BY <1>0, <1>2, <2>1, NextCopyType DEF MatchCache, Loads
  <2> QED BY <1>0, <1>2, <2>2, LoadMovesInv DEF MatchCache, PageInv, TypeOK
<1>3. CASE CheckCopy
  <2>1. CASE ShaOk /\ load' = [load EXCEPT !.at = "start"] /\ UNCHANGED cache
    <3>1. /\ load' \in Loads /\ load'.rg = load.rg /\ load'.at = "start"
          /\ load'.bytes = load.bytes /\ load.bytes \in Contents
      BY <1>0, <1>3, <2>1 DEF CheckCopy, Loads, TypeOK
    <3> QED
      BY <1>0, <1>3, <2>1, <3>1, LoadMovesInv DEF CheckCopy, PageInv, TypeOK
  <2>2. CASE /\ cache' = [cache EXCEPT ![load.rg][load.src] = None]
             /\ load' = NextCopy
    <3>1. cache' \in [Regions -> [Sources -> Contents \cup {None}]]
      BY <1>0, <2>2 DEF TypeOK
    <3> QED
      BY <1>0, <1>3, <2>2, <3>1, NextCopyType, LoadMovesInv
      DEF CheckCopy, PageInv, TypeOK
  <2> QED BY <1>3, <2>1, <2>2 DEF CheckCopy
<1> QED BY <1>1, <1>2, <1>3

LEMMA FetchStepInv ==
    ASSUME Inv,
           \/ LeafletFails \/ \E c \in Contents : FetchGraph(c)
           \/ FetchFails \/ VerifyDownload
    PROVE  Inv'
<1> USE DEF Inv
<1>0. Loading /\ load \in Loads /\ load.rg \in Regions
  BY IndexType DEF LeafletFails, FetchGraph, FetchFails, VerifyDownload,
                   Loading, TypeOK
<1>1. CASE LeafletFails
  BY <1>0, <1>1, LoadFailsInv DEF LeafletFails, TypeOK
<1>2. ASSUME NEW c \in Contents, FetchGraph(c)
      PROVE  Inv'
  <2>1. /\ load' \in Loads /\ load'.rg = load.rg /\ load'.at = "verify"
        /\ load'.bytes \in Contents
    BY <1>0, <1>2 DEF FetchGraph, Loads
  <2> QED BY <1>0, <1>2, <2>1, LoadMovesInv DEF FetchGraph, PageInv, TypeOK
\* Either the next source is asked or the load fails.
<1>3. ASSUME SourceFails, load.at \in {"fetch", "verify"},
             UNCHANGED <<server, cache, picker, currentId, view, wasmMod,
                         router, routing>>
      PROVE  Inv'
  <2>1. CASE load' = [load EXCEPT !.at = "fetch", !.src = 2, !.bytes = None]
             /\ UNCHANGED shown
    <3>1. load' = [at |-> "fetch", rg |-> load.rg, cached |-> load.cached,
                   src |-> 2, bytes |-> None]
      BY <1>0, <2>1 DEF Loads
    <3>2. load' \in Loads
      BY <1>0, <1>3, <3>1 DEF Loads, Sources
    <3> QED BY <1>0, <1>3, <2>1, <3>1, <3>2, LoadMovesInv DEF PageInv, TypeOK
  <2>2. CASE LoadFails
    BY <1>0, <1>3, <2>2, LoadFailsInv DEF TypeOK
  <2> QED BY <1>3, <2>1, <2>2 DEF SourceFails
<1>4. CASE FetchFails
  BY <1>3, <1>4 DEF FetchFails
<1>5. CASE VerifyDownload
  <2>1. CASE ~ShaOk /\ SourceFails /\ UNCHANGED cache
    BY <1>3, <1>5, <2>1 DEF VerifyDownload
  <2>2. CASE ShaOk /\ load' = [load EXCEPT !.at = "start"]
             /\ UNCHANGED shown
    <3>1. load.bytes \in Contents
      BY <1>5 DEF VerifyDownload, TypeOK
    <3>2. /\ load' \in Loads /\ load'.rg = load.rg /\ load'.at = "start"
          /\ load'.bytes = load.bytes
      <4>1. load \in Loads /\ load' = [load EXCEPT !.at = "start"]
        BY <1>0, <2>2
      <4>2. PICK l \in Loads : l = load
        BY <4>1
      <4>3. [l EXCEPT !.at = "start"] \in Loads
        BY ONLY l \in Loads DEF Loads
      <4>4. /\ [l EXCEPT !.at = "start"].rg = l.rg /\ [l EXCEPT !.at = "start"].at = "start"
            /\ [l EXCEPT !.at = "start"].bytes = l.bytes
        BY ONLY l \in Loads DEF Loads
      <4> QED
        BY ONLY <4>1, <4>2, <4>3, <4>4
    <3>3. cache' \in [Regions -> [Sources -> Contents \cup {None}]]
      <4>1. /\ cache \in [Regions -> [Sources -> Contents \cup {None}]]
            /\ load.rg \in Regions /\ load.bytes \in Contents \cup {None}
        BY <1>0, <3>1 DEF TypeOK
      <4>2. \/ cache' = cache
            \/ cache' = [cache EXCEPT ![load.rg][load.src] = load.bytes]
        BY <1>5, <2>2 DEF VerifyDownload
      <4> QED
        BY ONLY <4>1, <4>2
    <3> QED
      BY <1>0, <1>5, <2>2, <3>1, <3>2, <3>3, LoadMovesInv
      DEF VerifyDownload, PageInv, TypeOK
  <2> QED BY <1>5, <2>1, <2>2 DEF VerifyDownload
<1> QED BY <1>1, <1>2, <1>4, <1>5

LEMMA StartStepInv ==
    ASSUME Inv, ImportWasm \/ StartRouter \/ RouterRefuses
    PROVE  Inv'
<1> USE DEF Inv
<1>0. /\ Loading /\ load \in Loads /\ Listed(load.rg) /\ load.rg \in Regions
      /\ load.at = "start" /\ load.bytes \in Contents /\ ShaOk
      /\ view = load.rg
  BY IndexType DEF ImportWasm, StartRouter, RouterRefuses, Loading, TypeOK,
                   HashInv, PageInv
<1>1. CASE ImportWasm
  <2>1. CASE UNCHANGED <<shown, load>> /\ wasmMod' = "ready"
    BY <1>0, <1>1, <2>1, LoadMovesInv DEF ImportWasm, TypeOK
  <2>2. CASE LoadFails /\ wasmMod' \in {"none", "imported"}
    BY <1>0, <1>1, <2>2, LoadFailsInv DEF ImportWasm
  <2> QED BY <1>1, <2>1, <2>2 DEF ImportWasm
<1>2. CASE RouterRefuses
  BY <1>0, <1>2, LoadFailsInv DEF RouterRefuses, TypeOK
<1>3. CASE StartRouter
  <2>1. /\ router' \in Routers /\ router'.region = load.rg
        /\ router'.graph = load.bytes /\ router'.live
    BY <1>0, <1>3 DEF StartRouter, Routers
  <2>2. profile' \in Profiles /\ profile' \in Offers[load.rg]
    <3>1. Offers[load.rg] # {} /\ Offers[load.rg] \subseteq Profiles
      BY <1>0, PageAssumption
    <3> QED BY <1>3, <3>1 DEF StartRouter, SetupProfiles, Profiles, TypeOK
  <2>3. router' # None
    BY <2>1, PageAssumption
  <2>4. waypoints = <<>> /\ lastRes = None /\ drag = None
    BY <1>0 DEF PageInv, MapOpen
  <2>5. TypeOK'
    BY <1>0, <1>3, <2>1, <2>2, <2>4, NoLoadType
    DEF StartRouter, TypeOK, server, picker, Loading
  <2>6. PageInv' /\ MapMatchesRouter' /\ RouteMatchesPoints'
    BY <1>0, <1>3, <2>1, <2>2, <2>3, <2>4, NoLoadType
    DEF StartRouter, PageInv, MapMatchesRouter, RouteMatchesPoints, MapOpen,
        Loading
  <2>7. HashInv' /\ GraphVerified'
    BY <1>0, <1>3, <2>1, <2>3, NoLoadType
    DEF StartRouter, HashInv, GraphVerified, Listed, ShaOk, picker
  <2> QED BY <2>5, <2>6, <2>7
<1> QED BY <1>1, <1>2, <1>3

----------------------------------------------------------------------------
(* The map *)

\* What tryRoute may do to the route and the waypoints, given that undoing
\* the change gives back what was there.
LEMMA TryRouteInv ==
    ASSUME Inv, MapOpen, NEW pf \in Profiles, NEW pts \in Seq(Points),
           NEW old, TryRoute(pf, pts, old), old = waypoints,
           Len(pts) >= Len(waypoints),
           profile' = pf, pf \in Offers[currentId],
           \/ drag' = None
           \/ drag' = drag /\ \A i \in DOMAIN waypoints : pts[i] = waypoints[i],
           UNCHANGED <<server, cache, picker, loader>>
    PROVE  Inv'
<1> USE DEF Inv
<1>1. router \in Routers /\ router # None
  BY DEF MapMatchesRouter, TypeOK
<1>2. RouteOf(pf, pts) \in Routes /\ RouteOf(pf, pts) # None
  <2>1. RouteOf(pf, pts) \in Routes
    BY <1>1 DEF RouteOf, Routes, Routers
  <2> QED BY <2>1, PageAssumption
<1>3. /\ waypoints' \in Seq(Points) /\ lastRes' \in Routes \cup {None}
  BY <1>2 DEF TryRoute, Revert, TypeOK
<1>4. Len(waypoints') >= Len(waypoints)
  BY <1>3 DEF TryRoute, Revert, TypeOK
<1>5. DOMAIN waypoints \subseteq DOMAIN waypoints'
  BY <1>3, <1>4 DEF TypeOK
<1>6. TypeOK'
  BY <1>3, <1>5 DEF TypeOK, server, picker, loader, Loading, Listed
<1>7. RouteMatchesPoints'
  <2>1. CASE Len(pts) < 2 /\ waypoints' = pts /\ lastRes' = None
    BY <2>1 DEF RouteMatchesPoints
  <2>2. CASE Len(pts) >= 2 /\ waypoints' = pts /\ lastRes' = RouteOf(pf, pts)
    BY <1>2, <2>2 DEF RouteMatchesPoints, RouteOf, loader
  <2>3. CASE waypoints' = waypoints /\ UNCHANGED lastRes
    BY <2>3 DEF RouteMatchesPoints, loader
  <2> QED BY <2>1, <2>2, <2>3 DEF TryRoute, Revert
<1>8. MapMatchesRouter' /\ PageInv'
  <2>1. drag' # None => drag'.from = waypoints'[drag'.marker]
    BY DEF PageInv, TypeOK, TryRoute, Revert
  <2> QED BY <2>1 DEF MapMatchesRouter, PageInv, MapOpen, Loading, loader
<1>9. HashInv' /\ GraphVerified'
  BY DEF HashInv, GraphVerified, Listed, ShaOk, loader, picker
<1> QED BY <1>6, <1>7, <1>8, <1>9

LEMMA AddWaypointInv ==
    ASSUME Inv, NEW p \in Points, AddWaypoint(p)
    PROVE  Inv'
<1>1. MapOpen /\ profile \in Profiles /\ waypoints \in Seq(Points)
      /\ profile \in Offers[currentId]
  BY DEF AddWaypoint, Inv, TypeOK, MapMatchesRouter
<1>2. /\ Append(waypoints, p) \in Seq(Points)
      /\ Len(Append(waypoints, p)) >= Len(waypoints)
      /\ \A i \in DOMAIN waypoints : Append(waypoints, p)[i] = waypoints[i]
  BY <1>1
<1> QED BY <1>1, <1>2, TryRouteInv DEF AddWaypoint

LEMMA DragStartInv ==
    ASSUME Inv, NEW i, DragStart(i)
    PROVE  Inv'
<1> USE DEF Inv
<1>1. /\ drag'.marker = i /\ drag'.from = waypoints[i]
      /\ i \in DOMAIN waypoints /\ waypoints[i] \in Points
  BY DEF DragStart, TypeOK
<1>2. TypeOK'
  BY <1>1
  DEF DragStart, TypeOK, server, picker, loader, Loading, Listed
<1> QED
  BY <1>1, <1>2
  DEF DragStart, picker, loader, PageInv, HashInv, GraphVerified,
      MapMatchesRouter, RouteMatchesPoints, MapOpen, Loading, Listed, ShaOk

\* Dragging back is undoing: the marker has not moved in `waypoints` since.
LEMMA DragEndInv ==
    ASSUME Inv, NEW p \in Points, DragEnd(p)
    PROVE  Inv'
<1> DEFINE moved == [waypoints EXCEPT ![drag.marker] = p]
           back == [waypoints EXCEPT ![drag.marker] = drag.from]
<1>1. /\ MapOpen /\ profile \in Profiles /\ waypoints \in Seq(Points)
      /\ profile \in Offers[currentId] /\ drag.marker \in DOMAIN waypoints
  BY DEF DragEnd, Inv, TypeOK, MapMatchesRouter, PageInv
<1>2. back = waypoints
  BY <1>1 DEF DragEnd, Inv, PageInv
<1>3. moved \in Seq(Points) /\ Len(moved) >= Len(waypoints)
  BY <1>1
<1>4. TryRoute(profile, moved, back)
  BY DEF DragEnd
<1>5. /\ drag' = None /\ profile' = profile
      /\ UNCHANGED <<server, cache, picker, loader>>
  BY DEF DragEnd
<1> HIDE DEF moved, back
<1> QED BY <1>1, <1>2, <1>3, <1>4, <1>5, TryRouteInv

LEMMA SetProfileInv ==
    ASSUME Inv, NEW pf \in Profiles, SetProfile(pf)
    PROVE  Inv'
<1>1. /\ MapOpen /\ waypoints \in Seq(Points)
      /\ Len(waypoints) >= Len(waypoints)
  BY DEF SetProfile, Inv, TypeOK
<1> QED BY <1>1, TryRouteInv DEF SetProfile

\* Clear, and everything around the page.
LEMMA OtherStepInv ==
    ASSUME Inv, Clear \/ Deploy \/ TouchCache \/ Reload
    PROVE  Inv'
<1> USE DEF Inv
<1>1. CASE Clear
  BY <1>1
  DEF Clear, ResetRoute, TypeOK, server, picker, loader, PageInv, HashInv,
      GraphVerified, MapMatchesRouter, RouteMatchesPoints, MapOpen, Loading,
      Listed, ShaOk
<1>2. CASE Deploy
  BY <1>2, PageAssumption
  DEF Deploy, TypeOK, picker, loader, routing, PageInv, HashInv, GraphVerified,
      MapMatchesRouter, RouteMatchesPoints, MapOpen, Loading, Listed, ShaOk
<1>3. CASE TouchCache
  <2>1. cache' \in [Regions -> [Sources -> Contents \cup {None}]]
    BY <1>3, PageAssumption DEF TouchCache, TypeOK
  <2> QED
    BY <1>3, <2>1
    DEF TouchCache, TypeOK, server, picker, loader, routing, PageInv, HashInv,
        GraphVerified, MapMatchesRouter, RouteMatchesPoints, MapOpen, Loading,
        Listed, ShaOk
<1>4. CASE Reload
  <2>1. TypeOK'
    BY <1>4, NoLoadType DEF Reload, TypeOK, server, Loading, Profiles
  <2> QED
    BY <1>4, <2>1, NoLoadType
    DEF Reload, PageInv, HashInv, GraphVerified, MapMatchesRouter,
        RouteMatchesPoints, MapOpen, Loading
<1> QED BY <1>1, <1>2, <1>3, <1>4

LEMMA StepInv == Inv /\ [Next]_vars => Inv'
<1> SUFFICES ASSUME Inv, [Next]_vars PROVE Inv'
  OBVIOUS
<1>1. CASE UNCHANGED vars
  BY <1>1
  DEF vars, Inv, TypeOK, server, picker, loader, routing, PageInv, HashInv,
      GraphVerified, MapMatchesRouter, RouteMatchesPoints, MapOpen, Loading,
      Listed, ShaOk
<1>2. CASE InitRegions
  BY <1>2, InitRegionsInv
<1>3. CASE LoadStep
  BY <1>3, CacheStepInv, FetchStepInv, StartStepInv DEF LoadStep
<1>4. CASE UserStep
  BY <1>4, PickerInv, AddWaypointInv, DragStartInv, DragEndInv, SetProfileInv,
     OtherStepInv
  DEF UserStep
<1>5. CASE Deploy \/ TouchCache \/ Reload
  BY <1>5, OtherStepInv
<1> QED BY <1>1, <1>2, <1>3, <1>4, <1>5 DEF Next

----------------------------------------------------------------------------
(* The theorems *)

THEOREM InvAlways == Spec => []Inv
  BY InitInv, StepInv, PTL DEF Spec

\* The page's state is of its type, a load under way is for a listed region,
\* and a marker being dragged is on the map (loadRegion, addWaypoint).
THEOREM TypeCorrect == Spec => []TypeOK
  BY InvAlways, PTL DEF Inv

\* The map a user can click is framed on the region of a live router and its
\* profile (loadRegion, setupProfiles).
THEOREM MapAlwaysMatchesRouter == Spec => []MapMatchesRouter
  BY InvAlways, PTL DEF Inv

\* The drawn route is the route of the waypoints shown, on the graph that is
\* loaded (tryRoute, addWaypoint, resetRoute).
THEOREM RouteAlwaysMatchesPoints == Spec => []RouteMatchesPoints
  BY InvAlways, PTL DEF Inv

\* A region is only ever routed on the file its index lists (fetchGraph).
THEOREM GraphAlwaysVerified == Spec => []GraphVerified
  BY InvAlways, PTL DEF Inv

----------------------------------------------------------------------------
(* The cache before the network *)

\* A search of the cache starts with the first copy, and has found that one
\* missing, or deleted it, when it looks at the second.
SearchInv ==
    /\ load.at = "leaflet" => load.src = 1
    /\ load.rg \notin Shared /\ load.at \in {"match", "check"} /\ load.src = 2 =>
          cache[load.rg][1] = None

LEMMA SearchInit == Init => SearchInv
  BY DEF Init, NoLoad, SearchInv

\* Moving on from the first copy, once there is none.
LEMMA SearchNext ==
    ASSUME Inv, load.at \in {"match", "check"}, load.rg \in Regions,
           load' = NextCopy, cache'[load.rg][load.src] = None
    PROVE  SearchInv'
<1>1. load \in Loads
  BY DEF Inv, TypeOK
<1>2. CASE load.src = 2
  BY <1>1, <1>2 DEF NextCopy, Loads, SearchInv
<1>3. CASE load.src = 1
  <2>1. load' = [load EXCEPT !.at = "match", !.src = 2, !.bytes = None]
    BY <1>3 DEF NextCopy
  <2>2. load'.at = "match" /\ load'.rg = load.rg
    BY <1>1, <2>1 DEF Loads
  <2> QED BY <1>3, <2>2 DEF SearchInv
<1> QED BY <1>1, <1>2, <1>3 DEF Loads, Sources

\* Another tab only touches the copies of the regions it is open on.
LEMMA SearchTouch ==
    ASSUME Inv, SearchInv, TouchCache
    PROVE  SearchInv'
<1>1. PICK r \in Shared, s \in Sources, c \in Contents \cup {None} :
        cache' = [cache EXCEPT ![r][s] = c]
  BY DEF TouchCache
<1>2. load' = load
  BY DEF TouchCache, loader
<1>3. \A q \in Regions : q \notin Shared => cache'[q] = cache[q]
  BY <1>1 DEF Inv, TypeOK
<1>4. load.at \in {"match", "check"} => load.rg \in Regions
  BY IndexType DEF Inv, TypeOK, Loading
<1> QED BY <1>2, <1>3, <1>4 DEF SearchInv

LEMMA SearchStep == Inv /\ SearchInv /\ [Next]_vars => SearchInv'
<1> SUFFICES ASSUME Inv, SearchInv, [Next]_vars PROVE SearchInv'
  OBVIOUS
<1>0. /\ load \in Loads /\ (Loading => load.rg \in Regions)
      /\ cache \in [Regions -> [Sources -> Contents \cup {None}]]
  BY IndexType DEF Inv, TypeOK
<1>1. ASSUME NEW r \in Regions \cup {None}, BeginLoad(r)
      PROVE  SearchInv'
  <2>1. load' = [NoLoad EXCEPT !.at = "leaflet", !.rg = r]
    BY <1>1 DEF BeginLoad
  <2>2. load'.at = "leaflet" /\ load'.src = 1
    BY <2>1 DEF NoLoad
  <2> QED BY <2>2 DEF SearchInv
<1>2. CASE LeafletReady
  <2>1. load'.src = 1
    BY <1>0, <1>2 DEF LeafletReady, Loads, SearchInv
  <2>2. load'.at # "leaflet"
    BY <1>0, <1>2 DEF LeafletReady, Loads
  <2> QED BY <2>1, <2>2 DEF SearchInv
<1>3. CASE MatchCache
  <2>1. CASE load' = NextCopy /\ cache[load.rg][load.src] = None
    BY <1>0, <1>3, <2>1, SearchNext DEF MatchCache, Loading
  <2>2. CASE load' = [load EXCEPT !.at = "check", !.bytes = cache[load.rg][load.src]]
    <3>1. load'.at = "check" /\ load'.src = load.src /\ load'.rg = load.rg
      BY <1>0, <2>2 DEF Loads
    <3>2. cache' = cache /\ load.at = "match"
      BY <1>3 DEF MatchCache
    <3> QED BY <3>1, <3>2 DEF SearchInv
  <2> QED BY <1>3, <2>1, <2>2 DEF MatchCache
<1>4. CASE CheckCopy
  <2>1. CASE load' = [load EXCEPT !.at = "start"]
    <3>1. load'.at = "start"
      BY <1>0, <2>1 DEF Loads
    <3> QED BY <3>1 DEF SearchInv
  <2>2. CASE load' = NextCopy /\ cache' = [cache EXCEPT ![load.rg][load.src] = None]
    <3>1. load.rg \in Regions /\ load.src \in Sources /\ load.at = "check"
      BY <1>0, <1>4 DEF CheckCopy, Loading, Loads
    <3>2. cache'[load.rg][load.src] = None
      BY <1>0, <2>2, <3>1
    <3> QED BY <2>2, <3>1, <3>2, SearchNext
  <2> QED BY <1>4, <2>1, <2>2 DEF CheckCopy
<1>5. ASSUME NEW c \in Contents, FetchGraph(c)
      PROVE  SearchInv'
  <2>1. load'.at = "verify"
    BY <1>0, <1>5 DEF FetchGraph, Loads
  <2> QED BY <2>1 DEF SearchInv
<1>6. ASSUME SourceFails \/ LoadFails
      PROVE  SearchInv'
  <2>1. load'.at \in {"fetch", "off"}
    <3>1. CASE load' = [load EXCEPT !.at = "fetch", !.src = 2, !.bytes = None]
      BY <1>0, <3>1 DEF Loads
    <3>2. CASE LoadFails
      BY <3>2, NoLoadType DEF LoadFails
    <3> QED BY <1>6, <3>1, <3>2 DEF SourceFails
  <2> QED BY <2>1 DEF SearchInv
<1>7. CASE LeafletFails \/ FetchFails \/ RouterRefuses
  BY <1>6, <1>7 DEF LeafletFails, FetchFails, RouterRefuses
<1>8. CASE VerifyDownload
  <2>1. CASE load' = [load EXCEPT !.at = "start"]
    <3>1. load'.at = "start"
      BY <1>0, <2>1 DEF Loads
    <3> QED BY <3>1 DEF SearchInv
  <2> QED BY <1>6, <1>8, <2>1 DEF VerifyDownload
<1>9. CASE ImportWasm
  BY <1>6, <1>9 DEF ImportWasm, SearchInv
<1>10. CASE StartRouter \/ Reload
  BY <1>10 DEF StartRouter, Reload, NoLoad, SearchInv
<1>11. CASE TouchCache
  BY <1>11, SearchTouch
<1>12. ASSUME UNCHANGED <<load, cache>>
       PROVE  SearchInv'
  BY <1>12 DEF SearchInv
<1>13. CASE InitRegions \/ Deploy \/ Clear \/ UNCHANGED vars
  BY <1>12, <1>13 DEF InitRegions, Deploy, Clear, vars, loader
<1>14. CASE UserStep
  <2>1. CASE PressLoad
    BY <1>1, <2>1 DEF PressLoad, Inv, TypeOK
  <2>2. ASSUME NEW r \in Regions, ChooseRegion(r) PROVE SearchInv'
    BY <1>1, <1>12, <2>2 DEF ChooseRegion, loader
  <2>3. ASSUME NEW p \in Points, AddWaypoint(p) \/ DragEnd(p) PROVE SearchInv'
    BY <1>12, <2>3 DEF AddWaypoint, DragEnd, loader
  <2>4. ASSUME NEW i \in 1..MaxPoints, DragStart(i) PROVE SearchInv'
    BY <1>12, <2>4 DEF DragStart, loader
  <2>5. ASSUME NEW pf \in Profiles, SetProfile(pf) PROVE SearchInv'
    BY <1>12, <2>5 DEF SetProfile, loader
  <2> QED BY <1>13, <1>14, <2>1, <2>2, <2>3, <2>4, <2>5 DEF UserStep
<1> QED
  BY <1>2, <1>3, <1>4, <1>5, <1>7, <1>8, <1>9, <1>10, <1>11, <1>13, <1>14
  DEF Next, LoadStep

\* A search that turns to the network has seen no usable copy.
LEMMA TurnsToNetwork ==
    ASSUME Inv, SearchInv, [Next]_vars, load.rg \notin Shared,
           load.at \in {"match", "check"}, load'.at = "fetch",
           NEW s \in Sources
    PROVE  cache[load.rg][s] = None \/ (s = load.src /\ ~ShaOk)
<1>0. load \in Loads
  BY DEF Inv, TypeOK
<1>1. CASE MatchCache
  <2>1. cache[load.rg][load.src] = None /\ load' = NextCopy
    BY <1>0, <1>1 DEF MatchCache, Loads
  <2>2. load.src = 2
    BY <1>0, <2>1 DEF NextCopy, Loads
  <2> QED BY <2>1, <2>2 DEF SearchInv, Sources
<1>2. CASE CheckCopy
  <2>1. ~ShaOk /\ load' = NextCopy
    BY <1>0, <1>2 DEF CheckCopy, Loads
  <2>2. load.src = 2
    BY <1>0, <2>1 DEF NextCopy, Loads
  <2> QED BY <2>1, <2>2 DEF SearchInv, Sources
<1>3. ~(LeafletReady \/ LeafletFails \/ FetchFails \/ VerifyDownload
        \/ ImportWasm \/ StartRouter \/ RouterRefuses)
  BY DEF LeafletReady, LeafletFails, FetchFails, VerifyDownload, ImportWasm,
         StartRouter, RouterRefuses
<1>4. ASSUME NEW c \in Contents, FetchGraph(c) PROVE FALSE
  BY <1>4 DEF FetchGraph
<1>5. load' # load
  OBVIOUS
<1>6. ASSUME NEW r, BeginLoad(r) PROVE FALSE
  BY <1>6 DEF BeginLoad, Loading
<1>7. ~UserStep
  BY <1>5, <1>6
  DEF UserStep, PressLoad, ChooseRegion, AddWaypoint, DragEnd, DragStart,
      SetProfile, Clear, loader
<1>8. ~(InitRegions \/ Deploy \/ TouchCache \/ UNCHANGED vars)
  BY <1>5 DEF InitRegions, Deploy, TouchCache, vars, loader
<1>9. ~Reload
  BY DEF Reload, NoLoad
<1> QED
  BY <1>1, <1>2, <1>3, <1>4, <1>7, <1>8, <1>9 DEF Next, LoadStep

\* The network is asked only when no copy of the region is cached any more,
\* stale ones having been deleted (fetchGraph).
THEOREM AlwaysDownloadedOnce == Spec => DownloadedOnce
<1> DEFINE Once ==
      load.rg \notin Shared /\ load.at \in {"match", "check"} /\ load'.at = "fetch" =>
        \A s \in Sources : cache[load.rg][s] = None
                             \/ (s = load.src /\ ~ShaOk)
<1>1. Inv /\ SearchInv /\ [Next]_vars => [Once]_vars
  BY TurnsToNetwork
<1>2. Spec => []SearchInv
  BY InvAlways, SearchInit, SearchStep, PTL DEF Spec
<1> QED BY <1>1, <1>2, InvAlways, PTL DEF Spec, DownloadedOnce
=============================================================================
