# roughroute: formal models and proofs

roughroute turns an OpenStreetMap extract into a compact road graph, routes on
it offline, and publishes prebuilt regional graphs. This directory holds TLA+
models of the program, TLC configurations that check them on small instances,
and proofs that TLAPS checks for every value of the constants.

`PROJECT.json` maps every definition to the source lines it stands for, and
lists runs, seeded faults, hazards, findings and theorems.

## 1. Inventory

Paths are under `src/`.

| part | state it keeps | operations | what is hard | what makes it correct |
|---|---|---|---|---|
| **Region batch**, `crates/cli/src/batch.rs` | `<id>.graph` files, `index.json`, `.tmp/*.osm.pbf`, `.<name>.<pid>.tmp` in one directory; in memory the manifest, the old index by id, new entries, failures | `cmd_batch`: sweep, skip decision (disk or trusted index), gate, download, build, atomic write, re-read and verify, clean up, write index | killed anywhere; each step can fail; manifest, extract, binary and files change between runs | one `.pbf` at a time; an index that tells the truth; nothing stale survives; nothing rebuilt for nothing; every run ends |
| **Release publisher**, `.github/workflows/build-regions.yml` | release assets, published `index.json`, a fresh runner | fetch index, batch with `--trust-index`, upload graphs and index if the index is fresh | uploads are one by one; jobs die; skipped regions have no file on the runner | between jobs index and assets agree; skipped assets untouched |
| **Download gate**, `crates/cli/src/net.rs` | none | HEAD probe, ceiling, headroom, GET | probe and download are two requests | refuse before fetching a byte |
| **Build and route commands**, `crates/cli/src/main.rs` | a scratch `.pbf`, the output graph | `cmd_build`, `cmd_route` | early returns, non-atomic write | no leaked download |
| **Extract reader**, `crates/build/src/{pbf,tags}.rs` | ways, node coordinates | two passes over the file | – (decoding is a library) | – |
| **Network builder**, `crates/build/src/network.rs` | node universe, directed edges, chains, geometry pool | segments, dedup and merge, antimeridian shift, seam stitch, degree-2 collapse, CSR | chain walks and splits, rings, merged seams | same connectivity and distances before and after |
| **Graph**, `crates/core/src/graph.rs` | CSR arrays, geometry, bbox, grid | `assemble` validation, accessors, frame shift | everything indexes without checks afterwards | what is accepted is safe to walk |
| **Grid**, `crates/core/src/grid.rs` | two CSR buckets | build, nearest node, nearest segment | stopping the ring search | same answer as exhaustive search |
| **Router**, `crates/core/src/router.rs` | per-call search state | snap, leg resolution, `astar_virtual`, splicing, dedup, fallback | rounding against the heuristic, stale heap entries, two goal ends | a real, permitted, cheapest route; no route only if none exists |
| **Format**, `crates/core/src/format.rs` | bytes | varint and zigzag codec, `parse`, `serialize` | widths, hostile lengths | round trip; no read out of bounds |
| **Bindings**, `crates/wasm`, `crates/ffi` | a graph handle | load, route, free | – (thin shells) | – |
| **Demo page**, `design-gh-page/index.html` | current router and region, waypoints, drawn route, caches | switch region, click, drag, change profile | awaits between the steps of a switch | the route drawn belongs to the region shown |
| **Pages deployment**, `.github/workflows/deploy-pages.yml` | gh-pages branch | stage assets, force-push | runs while a publisher replaces the assets | staged index matches staged graphs |

How they interact. `batch` calls the gate, the reader, the builder, the format
and, to verify the file, the router. The publisher runs `batch` and moves its
files to the release; the deployment copies them to the page; the page hands
them to the WASM router. The core is single-threaded and pure; all
interleaving is between processes, jobs, page callbacks, and crashes.

## 2. Plan

Done, in this order:

1. `Catalogue` (abstract), `Batch`
2. `Release` on top of `Batch`, `Pages` on top of `Release`; `PublishProofs`,
   about the batch and both
3. `AStar`, `AStarProofs`
4. `DemoPage`, `DemoPageProofs`
5. `Collapse`; `Network`, which extends `Collapse` and feeds it; `NetworkProofs`,
   about both
6. `RoadGraph`, `Grid`, `Query`, `Clients`, each extending the one before, and
   `QueryProofs`
7. `GraphFile` on top of `RoadGraph`, `GraphFileProofs`
8. `BuildCommand`, `BuildCommandProofs`
9. `Induction`: the facts about numbers and sums that the proofs share

An `MC` module gives a component its instance: `MCBatch`, `MCRelease`,
`MCPages`, `MCAStar`, `MCDemoPage`, `MCNetwork` (for `Collapse` too), `MCQuery`
(for `RoadGraph`, `Grid`, `Query` and `Clients`), `MCGraphFile`,
`MCBuildCommand`.

Left, in order of worth:

- the demo page's choice of basemap.

## 3. What is modelled

### Batch (module `Batch`, abstract module `Catalogue`)

State: the world (`manifest`, `upstream` revision per URL, `version` of the
binary), the output directory (`graphs`, `index`, `scratch`, `strays`) and the
process (`pc` and the locals of `cmd_batch`). A graph is the record of what it
was built from, and its sha256 is the file itself (no collisions).

| action | code |
|---|---|
| `Start`, `Refuse` | `cmd_batch` up to the loop, `validate_manifest` |
| `SkipRegion` | `skip_decision`, both modes |
| `GatePass`, `GateRefuse` | `gate_download`; a refusal is `AbortRun` |
| `Download`, `DownloadFails` | `net::download` |
| `WriteGraph`, `InstallGraph`, `BuildFails` | read, build, and the two halves of `write_atomic` |
| `VerifyGraph`, `VerifyFails` | re-read and `verify_graph_bytes` |
| `Cleanup` | remove the `.pbf`, take the region's result, next region |
| `WriteIndex`, `CommitIndex`, `IndexFails` | `write_atomic` of `index.json`, exit |
| `Crash` | the process dies between any two steps |
| `EditManifest`, `Republish`, `Upgrade`, `LoseGraph` | everything the program does not control |

`Catalogue` says what readers of `index.json` rely on: the list is replaced as
a whole, by entries of the old list and entries whose file was verified since.
`Batch` implements it with `listed <- index` and `fresh <-` the entries built
in the current run.

Removals of scratch files are taken to succeed, and nobody writes into the
output directory but the program and whoever deletes a graph by hand.

### Release (module `Release`)

Adds the release assets and the job to `Batch` and drives its actions: fetch
the index into an empty directory, run with `--trust-index`, and if the run
wrote an index (the marker test) upload all files present, one action each in
any order. `JobDies` ends a job anywhere; the history variable `torn` remembers
that one died between two uploads. Jobs are serialized, as the
workflow's concurrency group does. An upload replaces an asset in one step.

### AStar (module `AStar`)

`Router::astar_virtual` with one action per iteration: `StopEarly`,
`SkipStale`, `Settle` (closing, completing, relaxing), `Exhausted`, then
`WalkBack` and `Return`. `query` holds the arguments: the edges with their
access sets, the profile, the two positions on edges and each node's straight
distance to the goal in a unit finer than a decimetre, so that the floor of the
heuristic and the rounding of the lengths are both there. Additions saturate at
`Infinity` = `u64::MAX`. Geometry and the order of parallel edges are left out.

### Demo page (module `DemoPage`)

One event loop: every action is what the page does between two awaits, or one
event handler. `load` is where `loadRegion` is and its locals.

| action | code |
|---|---|
| `InitRegions` | `initRegions`: the index, or the built-in fallback |
| `PressLoad`, `ChooseRegion` | the overlay's buttons, the region list; `BeginLoad` is `loadRegion` up to its first await |
| `LeafletReady`, `LeafletFails` | Leaflet, `initMap`, `applyRegionView`, `caches.open` |
| `MatchCache`, `CheckCopy` | the loop over cached copies: match, hash, use or delete |
| `FetchGraph`, `FetchFails`, `VerifyDownload` | the sources in order, `streamFetch`, `shaOk`, `cache.put` |
| `ImportWasm`, `StartRouter`, `RouterRefuses` | the wasm module, freeing the old router, constructing the new one, `setupProfiles` |
| `AddWaypoint`, `DragStart`, `DragEnd`, `SetProfile`, `Clear` | the map's and the card's handlers, each with its `tryRoute` and its undo |
| `Reload`, `Deploy`, `TouchCache` | a fresh page, a new site, another tab |

What covers what is part of the model: user actions on the map need the card to
be the visible box (`MapOpen`), a load disables the region list, and a drag that
had begun ends only if its marker is still there. A graph file is its own hash,
`Snaps` says which points lie near a road of which profile, and `Broken` files
are those the wasm module refuses. Other tabs may have a region open too
(`Shared`) and then touch its copies in the cache. Texts, toasts, the progress
figures and the basemap are left out.

### Pages (module `Pages`)

Extends `Release` with the deployment: a clean checkout, one action per asset
copied, one forced push of the whole site. It shares no concurrency group with
the publisher, whose every step (`RNext`) may come in between.

### Collapse (module `Collapse`)

The degree-2 collapse, from the merged road network to the directed edges of
the graph, with one action per node walked.

| action | code |
|---|---|
| `Anchor`, `AnchorsDone` | phase 1: the next edge, in scan order, from a kept node into a chain |
| `WalkOn`, `WalkEnds` | one round of `walk`'s loop, with the split; its end, with the P-loop, the discarded remainder and the turn to the lower endpoint first |
| `Ring` | phase 2: a ring without a kept node, walked the long way round from its lowest node |
| `Emit` | phase 3, the renumbering, and both directions of every chain |

`merged`, `kept`, `consumed` and `chains` are the code's; `walk` holds the
locals of the closure; `dropped` collects the P-loops that the code only
counts. Node numbers matter, as they decide the scan order and the canonical
direction; coordinates do not, and a chain's range of the geometry pool is the
chain. Its input is any simple network with both directions of every segment
(`IsNetwork`), which is what the merge yields.

### Network (module `Network`)

What comes before: from the records of an extract to the merged network. It
extends `Collapse`, so that a behavior runs from the file to the finished edges.

| action | code |
|---|---|
| `ReadWays`, `ReadNodes` | the two passes of `pbf.rs`: ways by their highway tag (`HighwayAccess` is the table of `tags.rs`), then the nodes they need; the last record of a node wins |
| `MaskAccess` | the `--profiles` filter |
| `ScanWays` | the segment scan, the node universe and its numbering |
| `KeepFrame`, `ShiftFrame` | the span check, and the move to a frame around the 180th meridian |
| `RefuseSpanning`, `RefuseWindow` | the two errors of that check; `Refused` is their end |
| `Stitch` | seam nodes that lie on one point become one node |
| `Connect` | directed edges, with duplicates merged to the shortest with all access bits |
| `CollapseStep` | `Collapse`'s `Next` |

The frame, with its wrap, window and offset, is the code's, in degrees; the
ground is flat, so a length is a difference of coordinates. A way's tags are
one highway value. Files that cannot be decoded and the limit on node numbers
(`TooLarge`) are left out. A node that the stitch leaves without a road keeps
no number in `Collapse`, whose nodes are those of its segments.

### Query (modules `RoadGraph`, `Grid`, `Query`)

`RoadGraph` is the loaded graph: its accessors, the shape of an edge, the
normalization of a query point into the graph's frame, distances and
projections. `Grid` is the two cell indexes and their geometry: cells of a box,
the cells a segment is put into, the rings around a cell and the lower bound of
their distance. `Query` is a call of `nearest_node`, `nearest_road` or `route`:

| action | code |
|---|---|
| `ScanRing`, `ReturnNearest` | one round of `ring_search`; its end, for a nearest-call |
| `TooFewWaypoints`, `InvalidMaxSnap`, `StartSnapping` | the checks of `route` |
| `SnapWaypoint`, `SnapTooFar` | the end of a waypoint's search |
| `PointLeg`, `AlongEdge`, `NetworkLeg`, `StraightLeg`, `NoPath` | the outcomes of `resolve_leg`, with what `route` appends for each and the fallback flag |
| `Finish` | deduplication and the unwrapping of longitudes |

The ground is flat, with the same unit north and east, and the instance's
points lie on a lattice on which every projection is a whole number; the
cell size has a floor in place of `MIN_CELL_METERS`. A point with a NaN
coordinate is `NoNumber`, and a negative limit stands for all values the router
refuses. `AStar` is not repeated: a network leg is any simple usable route
between the two edges, a superset of what the search answers, so what holds of
the line here holds of the program's.

### Clients (module `Clients`)

The library, the command line, the wasm module and the C interface as one
module over `Query`: `RefuseRequest` is what a shell rejects before it calls
the router, `Route` the call with the options and defaults that this shell
passes on, `Reply` the answer in its form (the three output formats of
`export.rs`, the C status codes). Wording, and the memory of handles, which the
bindings' generators own, are left out.

### Graph file (module `GraphFile`)

`Graph::from_parts_with_flags`, `to_bytes`, `from_bytes` and the `assemble` they
share, over `format.rs`.

| action | code |
|---|---|
| `FromParts` | the builder's parts, `assemble`, `serialize` |
| `Cut`, `Grow`, `Change` | external: the stored file loses its end, gains a cell, has one changed |
| `ReadHeader`, `RefuseHeader` | magic, version, flags, and the size the counts announce |
| `ReadNodes`, `ReadEdges`, `RefuseEdges` | the fixed-width sections, with the edges' flag bits |
| `ReadPoint`, `RefusePoint` | one zigzag delta pair of the geometry, and the varint errors |
| `RefuseLeftover`, `Finish` | trailing bytes; `assemble`, whose twelve checks are `Checks` in the code's order |

A fixed-width field is one cell; the geometry keeps its bytes. Widths are
reduced together: a number has 2 × `Half` values for 2^32, a varint's byte
carries 2 × `Group` for 256, and `MaxGroups` stands for five, chosen so that the
last byte can hold more bits than a number, as in the code. A cut inside a field
is the same as one before it, because the size must be exact.

### Build command (module `BuildCommand`)

`cmd_build` with the gate of `net.rs`, run after run in one directory.

| action | code |
|---|---|
| `Start`, `Probe` | arguments, the ceiling from its three sources, the HEAD request |
| `GateRefuses`, `GatePasses` | the ceiling, then the headroom, which saturates |
| `Get`, `GetFails`, `Copy`, `CopyFails`, `Copied` | the download, byte by byte, onto a disk that can be full |
| `Build`, `BuildFails`, `Write`, `WriteFails`, `Written` | the graph, written in place |
| `Remove` | the extract is removed, whatever the build's result |
| `Killed`, `OthersWrite` | external: the process dies, the disk fills |

A graph is no larger than its extract, which is what `net.rs:75` sizes the
headroom by ("source + built graph + floor"). Removing a file is taken to succeed. A flag comes in quarters
of a byte, so that its rounding shows.

## 4. The runs

| run | what it shows |
|---|---|
| `batch_runs` | two runs over two regions, both modes, every failure and crash, manifests edited, extracts republished (revision 2 has no roads), files deleted, an old index without versions: `OnePbfAtATime`, `IndexHonest`, `RefinesCatalogue`, `IndexFollowsManifest` |
| `batch_faults` | three runs over one region, with new binaries, sources and base URLs, so that one can leave an index, the next die between graph and index, and the third meet the two in disagreement: `DiskModeHeals`, `UpToDateUntouched`, `IndexIsCurrent`, and `RunEnds` under fairness |
| `release_pages` | two publisher jobs over two regions, dying anywhere, one region leaving and returning, and a deployment in their midst: `ReleaseConsistent` (unless `torn`), `SkippedAssetUntouched`, `FullPublishRepairs`, `QuietDeployAgrees` |
| `release_trust` | three jobs, of which one dies with its graph uploaded and the index not: finds the stale entry that is trusted (finding 1) |
| `astar_search` | about 14,000 searches on four junctions: `ParentsSound`, `RouteIsReal`, `BestUpToRounding`, and `Ends` under fairness |
| `demo_switch` | two regions, one for walkers only and open in other tabs, files that are rebuilt or that the page's wasm module is too old for, an index that runs ahead of a graph, one deployment: `MapMatchesRouter`, `RouteMatchesPoints`, `GraphVerified`, `DownloadedOnce`, and `LoadEnds` under fairness |
| `network` | 21,595 extracts, each built to its end: `MergedAsDrawn`, `FrameIsSound`, and of the collapse `ChainsDisjoint`, `SegmentsOnce`, `EdgesFollowRoads`, `DistancesPreserved` |
| `network_frame` | finds the region that is flagged as crossing and does not (finding 2) |
| `queries` | nearest nodes, nearest roads and routes on five small graphs, through every client: `NearestFound`, `LineFollowsRoads`, `FallbackHonest`, `LineIsWhatWasPriced`, `ZeroStepsOnlyAtSeam`, `RepliesAreTrue` |
| `graph_file` | parts of every shape written and read back, and three graphs damaged in every cell: `RoundTrip`, `OnlyWholeFiles`, `AcceptedIsSafe`, `FrameIsOneToOne` |
| `build_command` | three builds in one directory, every way of the gate, the transfer and the disk to go wrong: `HeadroomKept`, `CeilingKept`, `ScratchRemoved` |
| `build_exit` | finds the partial extract that stays behind (finding 3) |

Deadlock is checked except in `astar_search`, where a finished call has no
next step; the other calls end in a stuttering action of their own.

Bounds. Two runs relate a run to a completed or broken one before it, and
`batch_faults` has the third that a file newer than its index needs. Two regions
let one fail while the other is carried over; two sources, two revisions and
two versions make every comparison in the skip decision go both ways. Two jobs
are enough for what `release_pages` asks: a job that publishes nothing leaves no
trace, since the next one starts on a fresh runner. `release_trust` has a third,
as the old entry needs a job that published it, and restricts `RSpec` to deaths
before the index is uploaded (`GraphsFirst`), so that its trace is the one of
finding 1. In `AStar`, four junctions with roads of
several segments give stale heap entries, both ends of the goal edge
completing, disconnected positions, footways closed to cars, and a heuristic
that overestimates.

`network` takes, for the collapse, every network of at most six junctions and
six roads (a footway counts for one more, and for a junction), and every road
through seven nodes in whatever order they are numbered. Chains are split before
their third shape point instead of their 60,000th, so that a seven-node road is
split twice, a remainder can be empty or have a shape of its own, and rings and
loops can be split. For the seam, five nodes in every arrangement on it and
around it, under ways with repeated and missing references, unused ways, older
records of a node and each `--profiles` filter; three may lie at one point. For
the frame, three nodes at any of eleven meridians, which include both sides of
the seam, the seam itself and the edges of the window.

`queries` has a block with a hairpin, a diagonal footway, an isolated node and a
street apart, in the ordinary frame and in shifted ones on both sides of the
seam; a plain of 24 nodes with long roads, so that a road is nearest across
many cells and rings; and a graph of no width. Nearest points are searched from
the whole lattice around a graph, with limits that cut off at every ring.
Routes have two or three waypoints on junctions, roads, both arms of the
hairpin, off the network and apart from it. The grid has at most 64 cells
instead of a million, which leaves several nodes to a cell as on a real map.

`graph_file` has pools of every two points from the ends of the ranges and one
step beyond, so that deltas wrap and varints take every length; frames of every
three longitudes with each flag; adjacency rows and geometry references right
and wrong; one pool too large. Damage is one cell, since two can repair each
other (there is no checksum in the file; `index.json` has it).

`build_command` has a disk of seven bytes with sizes below the ceiling, at it,
above it, and large enough for twice the size to pass `MaxBytes`. Three runs let
a first leave a graph, a second be killed with its extract, and a third find
less room.

In `DemoPage`, two regions and three points give every switch, one deployment
makes the page's index stale, and three waypoints are one more than the least
route. Only the second region is open in other tabs; `DownloadedOnce` speaks of
the others, since it cannot hold against a tab that fills the cache behind the
search.

Fairness. `Batch` assumes weak fairness of the program's own steps
(`RunStep`): every network call has timeouts (`net::agent`) and every loop is
bounded by the manifest. Starting a run, crashing and the environment are never
owed. `Release` assumes it of the job's steps, which GitHub either continues or
kills. `AStar` is one uninterrupted call. `DemoPage`
assumes it of `LoadStep`: the browser settles every promise a load awaits;
nothing a user or a server does is owed. With `RunEnds` a crash is a way of
ending; the property excludes looping and getting stuck. The other modules have
safety properties only and assume none.

## 5. What is proved

| theorem | statement |
|---|---|
| `PublishProofs!TypeCorrect` | `TypeOK` |
| `PublishProofs!PbfDiscipline` | `OnePbfAtATime` |
| `PublishProofs!IndexAlwaysHonest` | `IndexHonest` |
| `PublishProofs!BatchIsCatalogue` | `Batch` implements `Catalogue` |
| `PublishProofs!DiskModeAlwaysHeals` | `DiskModeHeals` |
| `PublishProofs!UpToDateStaysUntouched` | `UpToDateUntouched` |
| `PublishProofs!IndexAlwaysCurrent` | `IndexIsCurrent` |
| `PublishProofs!IndexAlwaysFollowsManifest` | `IndexFollowsManifest` |
| `PublishProofs!ReleaseTypeCorrect` | `RTypeOK` |
| `PublishProofs!ReleaseAlwaysConsistent` | `ReleaseConsistent` |
| `PublishProofs!SkippedAssetNeverTouched` | `SkippedAssetUntouched` |
| `PublishProofs!FullPublishAlwaysRepairs` | `FullPublishRepairs` |
| `PublishProofs!QuietDeployAlwaysAgrees` | `QuietDeployAgrees` |
| `AStarProofs!TypeCorrect` | `TypeOK` of the search |
| `AStarProofs!ParentsAlwaysSound` | `ParentsSound` |
| `AStarProofs!RouteAlwaysReal` | `RouteIsReal` |
| `AStarProofs!AlwaysBestUpToRounding` | `BestUpToRounding` |
| `NetworkProofs!TypeCorrect` | `TypeOK` of the collapse: a walk never comes to a node that was walked |
| `NetworkProofs!ChainsAlwaysDisjoint` | `ChainsDisjoint` |
| `NetworkProofs!EdgesAlwaysFollowRoads` | `EdgesFollowRoads` |
| `NetworkProofs!SegmentsAlwaysOnce` | `SegmentsOnce` |
| `NetworkProofs!DistancesAlwaysPreserved` | `DistancesPreserved` |
| `NetworkProofs!FrameAlwaysSound` | `FrameIsSound` |
| `NetworkProofs!MergedAlwaysAsDrawn` | `MergedAsDrawn` |
| `NetworkProofs!FinishedAsDrawn` | what is collapsed is the road map of the extract throughout, and `ChainsDisjoint`, `SegmentsOnce`, `EdgesFollowRoads` and `DistancesPreserved` hold of it |
| `DemoPageProofs!TypeCorrect` | `TypeOK` of the page |
| `DemoPageProofs!MapAlwaysMatchesRouter` | `MapMatchesRouter` |
| `DemoPageProofs!RouteAlwaysMatchesPoints` | `RouteMatchesPoints` |
| `DemoPageProofs!GraphAlwaysVerified` | `GraphVerified` |
| `DemoPageProofs!AlwaysDownloadedOnce` | `DownloadedOnce` |
| `GraphFileProofs!DeltaInverts` | a point written as a wrapped zigzag delta is read back, in any width |
| `GraphFileProofs!AcceptedWasChecked` | a graph handed out passed all twelve checks, whatever happened to its file |
| `GraphFileProofs!AcceptedFrame` | the longitude shown of a node of an accepted graph is within 180 degrees and leads back to the stored one |
| `GraphFileProofs!RoundTrips` | `RoundTrip` |
| `GraphFileProofs!OnlyWholeAccepted` | `OnlyWholeFiles` |
| `GraphFileProofs!AcceptedGraphIsSafe` | `AcceptedIsSafe` |
| `GraphFileProofs!AcceptedFrameIsOne` | `FrameIsOneToOne` |
| `QueryProofs!NearestAlwaysFound` | `NearestFound` |
| `QueryProofs!FallbackAlwaysHonest` | `FallbackHonest` |
| `QueryProofs!ZeroStepsAlwaysAtSeam` | `ZeroStepsOnlyAtSeam` |
| `QueryProofs!RepliesAlwaysTrue` | `RepliesAreTrue` |
| `QueryProofs!LineAlwaysFollowsRoads` | `LineFollowsRoads` |
| `BuildCommandProofs!TypeCorrect` | `TypeOK`: the disk's bytes add up |
| `BuildCommandProofs!HeadroomAlwaysKept` | `HeadroomKept` |
| `BuildCommandProofs!CeilingAlwaysKept` | `CeilingKept` |
| `BuildCommandProofs!ScratchAlwaysRemoved` | `ScratchRemoved` |

They hold for any manifests, regions, bounds and numbers of runs, jobs and
deployments, for any graph and search, for any road network, size and limit of
the collapse, for any extract, half turn and window of the builder, for any
regions, sites, caches and points of the page, for any parts, widths, frame and
damage of a file, for any loaded graphs, calls and clients, and for any disk, limits and servers of a build. The
assumptions are the named `ASSUME`s of the modules: the constants have their
types, a graph has finitely many nodes, `NoFile` and `None` are no values of the
data, an old index either lacks a format version or was written by this program,
a varint's bytes are no wider than a number and enough of them hold one, no disk
holds as many bytes as a u64 counts, every non-empty set of the two profiles is
an access mask, and the window lies between a half turn and a whole one (the code
has 210 degrees). A graph that is queried is one that `assemble` accepts and
`build` wrote: every road is there in both directions, drawn backwards, and none
is a loop (`IsGraph`). `assemble` does not check the last two, so the theorems
about `Query` do not speak of graphs of another writer, of whose roads the grid
would file only the directions toward higher nodes. The theorems about `Collapse` are about its own `Spec`, whose
input is any network; `FinishedAsDrawn` carries them over to what `Network`
hands it.

*Induction.* The provers cannot instantiate the library's induction theorems,
but they can use its well-founded sets: a set of numbers that has zero and every
successor has all of them, because what it lacks would have a least member.
`Induction` states this for sets (`UpFrom`), and from it sums of sequences and
of finite sets of roads, and minima. What a proof needs of a recursive function
is then a set comprehension away.

*Index honesty.* "The index is honest" is not inductive: it must already hold
of the entries collected in memory and of those loaded at startup, and the
entry under construction must be about the file on disk. The invariant says so
of `index`, `existing`, `entries` and `made` together.

*Disk discipline.* `scratch` holds at most the current region between
`download` and `cleanup`, and nothing elsewhere while a run is on. A crash
breaks that, and the sweep of the next start restores it before the loop.

*Disk mode heals.* While a disk-mode run is on, every collected entry hashes to
the file of its region. Only the current region's file is ever replaced, ids of
the plan are distinct, so no collected entry's file changes under it.

*What an index lists.* Each row that was passed has either failed or has exactly
one entry, and the entries stand in the order of their rows (`FollowInv`), which
needs that the plan's ids are distinct. An entry is current because a carried one
was compared with the binary and the options, and a built one is made of them
(`CurrentInv`); neither changes while the program runs.

*Refinement.* Besides type correctness it needs that a collected entry is
either built in this run, hence verified, or names the same file as an entry of
the index still on disk, and that collected ids are distinct.

*The release.* An upload overwrites an asset with whatever file the runner
has, so the files must be accounted for. The runner starts empty, and every
file on it belongs to a region this job has handled (`DirInv`); every entry
collected is backed by the file just built or by an asset of the release. When
the uploads are under way, each asset is either still the old one or already
the file of the new index (`StageInv`), so the published index, which may go up
before or after them, is settled asset by asset. Only a death in between leaves
the two apart, which is what `torn` records.

*The pages.* What is staged mirrors the release from the checkout on, asset by
asset, as long as nothing is published (`Mirror`); the release itself agrees with
its index unless `torn`, which was shown before.

*Parents.* `Settle` gives a parent only to open nodes and takes only closed
nodes as parents; closed nodes' costs never change. So a node's cost is that of
its chain whatever the heuristic does.

*The route.* Every road has a length, so costs rise along parents: the walk back
never meets a node twice and ends before the limit that the code puts on it. The
lengths along the walk telescope to the difference of the costs of its ends
(`WalkInv`), and saturation never comes into it, since a node at `Infinity` has
no parent.

*The best route.* Rounding makes the heuristic inconsistent, by at most
`Slack(e)` on a road: with that surcharge on the lengths it is consistent. A
closed node costs no more than the cheapest walk to it under the surcharge
(`ClosedInv`), because an open node has, on its cheapest walk, a node on the heap
that promises no more (`FrontierReaches`): going back along that walk, by ever
smaller costs, one comes to a node that a closed one has relaxed (`FrontInv`). The
search stops only when the heap's least promise is no better than the answer, so
no completion that is left can beat it. The cheapest walks are those of at most
as many roads as there are nodes. The other half, that the answer is not below
the cheapest route, follows from `RouteIsReal`: the route returned is one of
those walks (`PathIsWalk`).

*The collapse.* `walk` checks `consumed` only where it begins, yet never passes
a node twice, through any split. The invariant is that what was passed is
closed (`ClosedInv`): a passed node that did not stay has only kept or passed
neighbors, but for the next node of the walk under way. An interior node has
two neighbors, so the way on is either kept or untouched; a node that is kept
later, by a split or a ring, was untouched until then, so no finished chain
leads through it.

*The roads.* The chain of a walk follows roads of its own access, and its length
is their sum (`RoadInv`); splitting, turning and emitting keep that, since the
roads are the same both ways. For `SegmentsOnce`, a node that did not stay is
inside some chain (`CoverInv`) and the chain takes both its roads; a road between
two nodes that stayed is left to the direct pass. No road is in two: every chain
has an inner node, chains share none, and the plain remainder of a split is
discarded. A chain that comes back to its own beginning is a
loop at a junction (`BackInv`: at a node of two roads the other one leads
elsewhere), and those are what `dropped` has.

*The distances.* The rounds of `Distances` are compared with what they stand for
without mentioning rounds: the distances from a node are the set that holds it at
0 and in which every other entry is the least that the links offer out of the set
(`AreDistances`). Links are longer than nothing, so there is only one such set
(`DistancesAgree`: of two, the least entry in which they differ would have been
reached from a nearer one). The rounds come to it in at most `Size`, as each
settles the nearest node not yet settled (`RoundsSettle`). What is then left is
that the distances in the network, cut down to the nodes that stayed and
renumbered, are such a set for the finished edges (`DistancesMove`): an edge is no
shorter than the distance between its ends, since it is a road there
(`DistanceAhead`); and the last link of a shortest way to a node that stayed
belongs to exactly one edge, at whose far end the way entered, as the chain has
no other exits (`LastEdge`). A chain of more decimetres than a u32 holds, ten
times round the globe, is written shorter than it is, so the property excludes
it (`Unclamped`).

*The frame.* What the code computes in place is compared with functions of the
extract. The reader's tables are such functions (`ReadInv`): the ways the first
pass takes, and the last record of every node they need, so that the pairs the
scan finds are the segments drawn (`PairsAreDrawn`) and the list is the sorted
road nodes. The frame then has node i at `FramedAt(i)`, and the shrinking list
of coordinates is always those of the positions left, in their order
(`LeftFramed`). The unwrapped longitudes are as wide as the shifted ones, and the
offset brings them into the window because the window is wider than half a turn.
That a refused region fits no small arc (`NoArc`) is by its first node eastward:
an arc from a node in the east fits the unwrapped frame, one from a node in the
west the plain one.

*The junctions.* The stitch sends the later of two neighbors of `on_seam` to
where the earlier went. By induction along that list each seam position is sent
to the first of its parallel (`Joins`), so the redirect has one step, and two
nodes have one canonical position exactly if they lie at one place
(`HeadAt`). `lookup` subtracts the removed positions before it, which leaves the
rank among those that stay (`RankShift`): that is the place of the junction in
the shrunk list (`Numbering`) and, as ids ascend, its rank among the lowest ids
(`NumberIs`). A distance does not change with the frame or the direction
(`DistanceMoved`, `DistanceBack`), so that parallel segments agree on their
length and both directions of an edge on everything (`JointNetwork`).

*Composition.* Until the merge is done the variables of `Collapse` stand as in
its `Init`, of an empty network and then, by `JointNetwork`, of the merged one;
from there on its own invariant holds (`CollapseInv`), and no step changes
`merged`.

*The page.* `MapMatchesRouter` speaks of moments when the map is open, but the
freed router and the unfinished frame arise while it is not. The invariant adds
what holds then: a load under way has an empty map (`PageInv`), frames its own
region from the first await on, and has verified the bytes once past the hash
(`HashInv`); a drag remembers the place its marker still has in `waypoints`, so
that undoing it restores the route's points.

*One download.* A load asks the network only when both copies were missing or
deleted (`SearchInv`): the search looks at the page's own copy first, and
nothing but a load of the same page puts a copy of an unshared region back.

*The file.* A delta that overflows wraps on both sides, and wrapping is
subtraction of a whole number of turns: adding the previous value back gives the
only value of the range congruent to the point. `Assemble` answers the first
failing check, so that an answer of none means that none failed. The frame's
width is one of the checks, and in a frame no wider than half a turn a wrapped
longitude has one place.

*The layout.* The file is the header and three flattened sections; where a piece
of a flattened sequence begins is the sum of the lengths before it
(`FlattenPieces`). Field by field the reader is at the place where the piece was
written, so that an untouched file gives back its parts (`RoundTrip`): access
bits by `Bits`, varints group by group, deltas by `DeltaInverts`. The counts in
the header fix the size of all but the geometry, and the geometry must end with
the file; a varint ends at its first byte without the high bit, so a shorter or
longer file, or one with a changed cell, either fails or has the same numbers of
nodes, edges and points (`OnlyWholeFiles`). Rows that rise from zero to the
number of edges cover each edge once, which gives every edge its one source
(`AcceptedIsSafe`).

*The build.* The gate compares with the free space once and the two files
arrive later. The invariant (`RoomInv`) keeps the account: while an announced
extract arrives, what is still to come of it, as much again for the graph, and
the floor are free; each byte moves from one part to another. It rests on
`TypeOK`, in which the bytes of the disk add up.

*Nearest.* Every ring that was scanned offered nothing better than what is kept
(`Scanned`, `ScannedKept`). A point in a cell rho rings from the center is more
than rho - 1 cells away along one axis (`CellsApart`, `AxisBound`), so what
`WorthLooking` compares, the least a further ring can offer, is a lower bound. A
segment is filed in every cell of its box, and its projection lies in one of
those (`CandidateOffered`). Only edges toward the higher node are filed; the
other direction has the same projections, since measuring from the far end
shifts what is divided by a whole multiple of the divisor (`MirrorPart`,
`MirrorProjection`).

*Fallback.* `Bridged` saturates the edges from a snap, the code searches. A route
of distinct nodes reaches nothing else, and whatever the saturation reaches has
such a route, so a straight leg is one without a route (`LegsInv`).

*The line.* Each leg's points end at its second snap (`LegPoints`), so the line
passes all snaps in its way (`Through`). Removing repeated points keeps the ends
and what is passed (`DedupFacts`). Wrapping is one-to-one on the places of a
graph that is at most half a turn wide, except between a node, which is wrapped
before, and a projection (`Drawn`).

*The roads of the line.* A list of points `Leads` from p to q if each of its steps
is on one segment of one road of the profile. The shape of a road does, its
stretches do, and so do both turned round, as a step on a segment is one in either
direction. The edges of a route follow one another (`Linked`), so their shapes
laid end to end lead from node to node (`NetworkLeads`), and a network leg leads
from its start out of its road, along the route, and into the road of its end.
Legs meet at a waypoint, where the point appears twice: that step is on the
segment the waypoint was projected on. That the projection itself is on it, up to
the rounding of its coordinates, is the one arithmetic fact (`LiesBetween` allows
that rounding and no more). `Tracked` says of the line so far that its steps are
of roads or of gaps and that the waypoints stand in it at places that do not
descend; every kind of leg continues it (`LegTracked`). Removing duplicates sends
each place to a place, in order, and leaves only steps that were there
(`Shrunk`), a wrapped longitude moves no point off its segment
(`WrappedFollows`), and so the answer's line is `Followed`. This invariant
(`TrackInv`) stands on the others and they do not need it.

Only model-checked: the liveness properties (`RunEnds`, `Ends`, `LoadEnds`),
which the prover cannot treat with their fairness; and `LineIsWhatWasPriced`.
Its lengths are those of the file, which `assemble` does not compare with the
drawing, and they are saturated at a u32; and on a road that is not of the
lattice, the two parts of a segment are as long as the whole only up to the
rounding of the projection and of each square root, which the property's
decimetre per point need not cover. It is a statement about the graphs of the
run, where the lengths are those of the drawing.

## 6. Findings

1. **A stale entry stays trusted** (`release_trust`). A first job
   publishes a region. A second rebuilds it, by force or because its fetch of the
   index failed, and dies with the graph uploaded and the index not. The release
   then has a new asset beside the old hash, and later `--trust-index` runs carry
   that entry over until the region is rebuilt.
   `FullPublishRepairs` shows that a forced run repairs it.
2. **A region on one side of the seam can be refused** (`network_frame`). If
   nodes of a region in the east lie at exactly -180 and none beyond (or of one in
   the west at +180), the span check shifts it, its frame ends on the meridian without
   sticking out, and `Graph::assemble` refuses a shifted graph that does not
   cross (`graph.rs:215`): such an extract cannot be built.
3. **A broken download stays on disk** (`build_exit`). `cmd_build` returns with
   `?` from `net::download`, which has created the file by then, before the
   removal that its comment promises "on every exit path".

Seen while modelling, without a run of their own.

Batch and build:
- a new graph is renamed into place before it is verified and stays there when
  refused (`batch.rs:461`), and the workflow uploads every graph present
  (`build-regions.yml:139`);
- `write_atomic`'s temp file outlives a killed process, since the sweep wipes
  `.tmp/` only (`batch.rs:563`);
- a `--max-pbf-gb` of 1e-10 is accepted and rounds to a ceiling of no bytes
  (`net.rs:116`), and a GET is not held to the probed length (`net.rs:193`,
  `net.rs:230`);
- a shifted region whose only crossing roads are dropped as P-loops leaves a
  graph whose box does not cross, with the effect of finding 2;
- D12 (`docs/DECISIONS.md`) says that the geometry pool runs from the lower node
  to the higher, but a chain finished by a split keeps the direction it was
  walked in (the `reversed` flags are right all the same, `EdgesFollowRoads`);
  D13 says a ring keeps its "two lowest-index members", the code keeps the
  lowest and its lower neighbor.

Core:
- the search may miss the best completion by the rounding, as the heuristic is
  not admissible once lengths are rounded segment by segment (`router.rs:357` to
  `395`); `BestUpToRounding` bounds the loss by half a decimetre per shape
  segment of a best route;
- duplicates are removed before longitudes are wrapped, so that a route in a
  shifted graph can have a step of no length at the seam (`router.rs:221` to
  `243`; `ZeroStepsOnlyAtSeam` says that it is only there). A projection at the
  end of a segment can also miss its node by a rounding of the floats;
- the grid of an ordinary graph does not look across the 180th meridian, so
  `NearestFound` compares with what lies on the query's side;
- `nearest_road` is "never farther than `nearest_node`" (`graph.rs:396`) only
  where no isolated node is near, and `RouteOptions` (`router.rs:76`) speaks of
  every graph node where edges are searched;
- a varint may be longer than needed and its last byte may carry bits that are
  lost (`format.rs:303`), so that a file that is accepted need not be what its
  graph serializes to.

Page and deployment:
- a deployment that meets a publish can pair an index with a graph of another
  build (`QuietDeployAgrees` covers the others);
- the import sets `wasmMod` before `await wasmMod.default()` (`index.html:976`);
  if that await rejects, every retry skips the initialization and constructs a
  router in an uninitialized module, which fails until the page is reloaded;
- a lone first waypoint is kept unsnapped (`index.html:1238`), so that if it lies
  in the sea the next click is the one taken back;
- on the real site a graph that fails its hash ends in the page's CORS message,
  as the last source tried always rejects that way.

## 7. Not modelled

- Decoding of `.osm.pbf` and of TOML and JSON (libraries), and argument parsing.
- `mem.rs`, which only logs.
- Trigonometry: the ground is flat and has whole-number coordinates, so nothing
  is said of the haversine formula, of the width of a degree at a latitude, or
  of the grid's ring bound on the sphere, which uses the arc of a parallel.
- The layout of the CSR arrays and of the geometry pool in the builder beyond
  which edge has which shape.
- The page's drawing, texts and choice of basemap, whose error can come before
  its load, after it, or after the raster layer replaced it (`index.html:1139`).
- Memory of the bindings' handles, which their generators manage.
