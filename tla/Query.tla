-------------------------------- MODULE Query --------------------------------
(***************************************************************************)
(* The calls of the core library: Graph::nearest_node, Graph::nearest_road *)
(* and Router::route (crates/core/src/graph.rs, grid.rs, router.rs).       *)
(* A call searches the grid ring by ring around each of its points; a      *)
(* route then resolves a leg between every two snapped points, appends     *)
(* what is travelled to its line, and tidies the line.                     *)
(*                                                                         *)
(* A*  is not repeated here: a network leg is any simple road route        *)
(* between the two edges, which covers the one AStar is shown to return,   *)
(* and there is one exactly when AStar finds one.                          *)
(***************************************************************************)
EXTENDS Grid, SequencesExt

CONSTANTS
    Graphs,         \* the loaded graphs, by name; see IsGraph
    Calls,          \* the calls made; see IsCall
    Profiles,       \* the access bits
    QuarterCircle,  \* 90 degrees
    NoNumber,       \* a point with a NaN coordinate
    None            \* no candidate, no answer

Point == Int \X Int

\* coord_ok of Graph::assemble; the fixed-point range ends a shifted frame.
Places(g) ==
    {p \in Point :
        /\ \A axis \in 1..2 : g.bbox.min[axis] <= p[axis] /\ p[axis] <= g.bbox.max[axis]
        /\ Gap(0, Lat(p)) <= QuarterCircle
        /\ Gap(0, Lon(p)) <= IF g.shifted THEN 2 * HalfCircle ELSE HalfCircle}

Roads(g) ==
    [target : NodeIndices(g), length_dm : Nat \ {0}, geo_off : Nat, geo_len : Nat,
     reversed : BOOLEAN, access : SUBSET Profiles]

\* The rows Graph::assemble accepts.
IsCsr(g) ==
    /\ g.offsets \in [1..(NodeCount(g) + 1) -> Nat]
    /\ g.offsets[1] = 0 /\ At(g.offsets, NodeCount(g)) = Len(g.edges)
    /\ \A n \in NodeIndices(g) : At(g.offsets, n) <= At(g.offsets, n + 1)

\* Edge f is edge e the other way.
AreTwins(g, e, f) ==
    /\ EdgeSource(g, e) = At(g.edges, f).target
    /\ EdgeSource(g, f) = At(g.edges, e).target
    /\ At(g.edges, e).access = At(g.edges, f).access
    /\ At(g.edges, e).geo_len = At(g.edges, f).geo_len
    /\ \A k \in 0..(At(g.edges, e).geo_len + 1) :
          ShapePoint(g, f, k) = ShapePoint(g, e, At(g.edges, e).geo_len + 1 - k)

\* A graph Graph::assemble has loaded, with every road in both directions and
\* no loop, as build writes them (network.rs 637 to 660).
IsGraph(g) ==
    /\ g.shifted \in BOOLEAN
    /\ g.bbox.min \in Point /\ g.bbox.max \in Point
    /\ g.shifted => Width(g) <= HalfCircle
    /\ g.nodes \in Seq(Places(g)) /\ g.geometry \in Seq(Places(g))
    /\ g.edges \in Seq(Roads(g))
    /\ IsCsr(g)
    /\ \A e \in EdgeIndices(g) :
          /\ At(g.edges, e).geo_off + At(g.edges, e).geo_len <= Len(g.geometry)
          /\ EdgeSource(g, e) # At(g.edges, e).target
          /\ \E f \in EdgeIndices(g) : AreTwins(g, e, f)
    /\ g.grid = BuildGrid(g)

\* A call: max is max_meters or max_snap_meters, negative for any value the
\* router refuses (NaN and the infinities too); profile and fallback are
\* read by a route only.
IsCall(c) ==
    /\ c.kind \in {"node", "road", "route"}
    /\ c.max \in Int
    /\ c.profile \in Profiles
    /\ c.fallback \in BOOLEAN
    /\ c.points \in Seq(Point \cup {NoNumber})
    /\ c.kind # "route" => Len(c.points) = 1

ASSUME CallAssumption == \A c \in Calls : IsCall(c)
ASSUME GraphAssumption == \A name \in DOMAIN Graphs : IsGraph(Graphs[name])
ASSUME QuarterAssumption == QuarterCircle \in Nat
ASSUME NoNumberAssumption == NoNumber \notin Point
ASSUME NoneAssumption ==
    None \notin [key : Nat \X Nat, t : Int, point : Point, d2 : Int]

VARIABLES
    call,       \* never changes
    g,          \* the graph it is made on; never changes
    pc,
    ring,       \* r of the loop over the rings
    best,       \* the best candidate so far, or None
    snapped,    \* the waypoints snapped so far
    segment,    \* the leg being resolved
    line,       \* the route so far, in the graph's frame but for the nodes
    fallback,
    priced,     \* history: what every leg was chosen for, in dm
    result

vars == <<call, g, pc, ring, best, snapped, segment, line, fallback, priced, result>>

Nowhere == call.points[Len(snapped) + 1] = NoNumber
\* The point being searched for, in the graph's frame.
Here == IF Nowhere THEN NoNumber ELSE InFrame(g, call.points[Len(snapped) + 1])

\* Graph::nearest_road takes the roads of every profile.
Mask == IF call.kind = "route" THEN {call.profile} ELSE Profiles

----------------------------------------------------------------------------
(* Grid::ring_search *)

\* The cell of a NaN coordinate is the first one.
Center == IF Nowhere THEN <<0, 0>> ELSE ColRow(g, Here)

WorthLooking ==
    /\ ring <= MaxRing(g, Center)
    /\ call.max >= 0 /\ BoundWithin(g, ring, call.max * call.max)
    /\ best # None => BoundWithin(g, ring, best.d2)

\* What a ring offers; nothing is at a distance from a NaN.
Offered(r) ==
    IF Nowhere THEN {}
    ELSE IF call.kind = "node" THEN NodesAt(g, Here, Ring(g, Center, r))
    ELSE RoadsAt(g, Here, Mask, Ring(g, Center, r))

ScanRing ==
    /\ pc = "search" /\ WorthLooking
    /\ LET found == Offered(ring) \cup (IF best = None THEN {} ELSE {best})
       IN  best' = IF found = {} THEN None ELSE BestOf(found)
    /\ ring' = ring + 1
    /\ UNCHANGED <<call, g, pc, snapped, segment, line, fallback, priced, result>>

\* nearest_node and nearest_road: the caller compares with its own cutoff.
ReturnNearest ==
    /\ pc = "search" /\ ~WorthLooking /\ call.kind # "route"
    /\ result' = IF best = None THEN None
                 ELSE [tag |-> "Some", point |-> Wrapped(best.point), d2 |-> best.d2]
    /\ pc' = "done"
    /\ UNCHANGED <<call, g, ring, best, snapped, segment, line, fallback, priced>>

----------------------------------------------------------------------------
(* Router::route: the waypoints *)

Failed(kind, index) == [tag |-> "Err", kind |-> kind, index |-> index]

Fail(kind, index) ==
    /\ result' = Failed(kind, index)
    /\ pc' = "done"
    /\ UNCHANGED <<call, g, ring, best, snapped, segment, line, fallback, priced>>

\* Of a call on g that is being made.
Begin ==
    /\ pc = IF call.kind = "route" THEN "start" ELSE "search"
    /\ ring = 0 /\ best = None
    /\ snapped = <<>> /\ segment = 0 /\ line = <<>> /\ fallback = FALSE
    /\ priced = 0
    /\ result = None

Init ==
    /\ \E name \in DOMAIN Graphs : /\ g = Graphs[name]
                                  /\ call \in {c \in Calls : c.graph = name}
    /\ Begin

TooFewWaypoints ==
    pc = "start" /\ Len(call.points) < 2 /\ Fail("TooFewWaypoints", 0)

InvalidMaxSnap ==
    /\ pc = "start" /\ Len(call.points) >= 2 /\ call.max < 0
    /\ Fail("InvalidMaxSnapMeters", 0)

StartSnapping ==
    /\ pc = "start" /\ Len(call.points) >= 2 /\ call.max >= 0
    /\ pc' = "search"
    /\ UNCHANGED <<call, g, ring, best, snapped, segment, line, fallback, priced, result>>

NearEnough == best # None /\ best.d2 <= call.max * call.max

SnapTooFar ==
    /\ pc = "search" /\ ~WorthLooking /\ call.kind = "route" /\ ~NearEnough
    /\ Fail("SnapTooFar", Len(snapped))

\* The position of a candidate on its road.
Snap(x) ==
    LET e == x.key[1]
    IN  [edge |-> e, seg |-> x.key[2], t |-> x.t, point |-> x.point,
         src |-> EdgeSource(g, e), dst |-> At(g.edges, e).target,
         d_src |-> DistanceAlong(g, e, x.key[2], x.point),
         length |-> At(g.edges, e).length_dm]

SnapWaypoint ==
    /\ pc = "search" /\ ~WorthLooking /\ call.kind = "route" /\ NearEnough
    /\ snapped' = Append(snapped, Snap(best))
    /\ ring' = 0 /\ best' = None
    /\ pc' = IF Len(snapped') = Len(call.points) THEN "legs" ELSE "search"
    /\ UNCHANGED <<call, g, segment, line, fallback, priced, result>>

----------------------------------------------------------------------------
(* The legs *)

a == At(snapped, segment)
b == At(snapped, segment + 1)
MoreLegs == pc = "legs" /\ segment + 1 < Len(snapped)

SameEdge == a.edge = b.edge
SamePlace == SameEdge /\ a.seg = b.seg /\ a.t = b.t

\* a.along_key() <= b.along_key()
Ahead == a.seg < b.seg \/ (a.seg = b.seg /\ a.t <= b.t)

\* Snapped::partial_to, at an end of its edge
PartialTo(s, n) == IF n = s.src THEN s.d_src ELSE s.length - s.d_src

\* Every simple route from an end of a's edge to an end of b's.
Routes ==
    LET Go(path, n) ==
            {[path EXCEPT !.edges = Append(@, e), !.exit = At(g.edges, e).target,
                          !.seen = @ \cup {At(g.edges, e).target},
                          !.dm = @ + At(g.edges, e).length_dm] :
                e \in {x \in EdgesFrom(g, n) : /\ Usable(g, x, Mask)
                                               /\ At(g.edges, x).target \notin path.seen}}
        step[k \in 0..NodeCount(g)] ==
            IF k = 0
            THEN {[entry |-> n, edges |-> <<>>, exit |-> n, seen |-> {n},
                   dm |-> PartialTo(a, n)] : n \in {a.src, a.dst}}
            ELSE LET shorter == step[k - 1]
                 IN  shorter \cup UNION {Go(path, path.exit) : path \in shorter}
    IN  {path \in step[NodeCount(g)] : path.exit \in {b.src, b.dst}}

Total(path) == path.dm + PartialTo(b, path.exit)
Direct == Gap(a.d_src, b.d_src)

\* Shape points k, in the order of ks, of edge e.
Shape(e, ks) == [i \in DOMAIN ks |-> ShapePoint(g, e, ks[i])]
Up(lo, hi) == [i \in 1..(hi - lo + 1) |-> lo + i - 1]
Down(hi, lo) == [i \in 1..(hi - lo + 1) |-> hi - i + 1]

\* Faulty: the way to the far end starts at the segment snapped to.
BugFromSeg(s, n) ==
    IF n = s.src THEN Shape(s.edge, Down(s.seg, 1))
    ELSE Shape(s.edge, Up(s.seg, At(g.edges, s.edge).geo_len))

\* From the projection of s towards the end n of its edge.
Outward(s, n) ==
    IF n = s.src THEN Shape(s.edge, Down(s.seg, 1))
    ELSE Shape(s.edge, Up(s.seg + 1, At(g.edges, s.edge).geo_len))

\* Router::push_edge_geometry, and the node the edge leads to
Travelled(e) ==
    LET edge == At(g.edges, e)
        pool == EdgeGeometry(g, edge)
    IN  (IF edge.reversed THEN Reverse(pool) ELSE pool)
          \o <<NodeLatLon(g, edge.target)>>

\* Faulty: the way between two points of an edge is not turned round.
BugNotTurned == Shape(a.edge, Up(Least(a.seg, b.seg) + 1, Greatest(a.seg, b.seg)))

\* The shape strictly between the two projections.
BetweenThem ==
    IF Ahead THEN Shape(a.edge, Up(a.seg + 1, b.seg))
    ELSE Shape(a.edge, Down(a.seg, b.seg + 1))

\* Faulty: the last leg decides.
BugLastLeg(straight) == straight

FallbackAfter(straight) == fallback \/ straight

\* One leg is appended: its start, what is travelled, and (unless the leg
\* is a point) its end.
AppendLeg(points, dm, straight) ==
    /\ line' = line \o <<a.point>> \o points
    /\ fallback' = FallbackAfter(straight)
    /\ priced' = priced + dm
    /\ segment' = segment + 1
    /\ UNCHANGED <<call, g, pc, ring, best, snapped, result>>

PointLeg ==
    /\ MoreLegs /\ SamePlace
    /\ AppendLeg(<<>>, 0, FALSE)

\* On one edge, a way round has to be shorter than staying on it.
Preferred(path) == ~SameEdge \/ Total(path) < Direct

NetworkLeg ==
    /\ MoreLegs /\ ~SamePlace
    /\ \E path \in Routes :
        /\ Preferred(path)
        /\ AppendLeg(Outward(a, path.entry) \o <<NodeLatLon(g, path.entry)>>
                       \o FlattenSeq([i \in DOMAIN path.edges |-> Travelled(path.edges[i])])
                       \o Reverse(Outward(b, path.exit)) \o <<b.point>>,
                     Total(path), FALSE)

\* The route A* returned is no shorter, or there is none.
AlongEdge ==
    /\ MoreLegs /\ SameEdge /\ ~SamePlace
    /\ Routes # {} => \E path \in Routes : Total(path) >= Direct
    /\ AppendLeg(BetweenThem \o <<b.point>>, Direct, FALSE)

StraightLeg ==
    /\ MoreLegs /\ ~SameEdge
    /\ Routes = {} /\ call.fallback
    /\ AppendLeg(<<b.point>>, Dm(Distance(a.point, b.point)), TRUE)

NoPath ==
    /\ MoreLegs /\ ~SameEdge
    /\ Routes = {} /\ ~call.fallback
    /\ Fail("NoPath", segment)

----------------------------------------------------------------------------
(* The finished line *)

\* Faulty: the line is not tidied.
BugKeepAll(s) == s

\* Vec::dedup
Dedup(s) ==
    LET kept[n \in 0..Len(s)] ==
            IF n = 0 THEN <<>>
            ELSE LET before == kept[n - 1]
                 IN  IF before # <<>> /\ Last(before) = s[n] THEN before
                     ELSE Append(before, s[n])
    IN  kept[Len(s)]

Finish ==
    /\ pc = "legs" /\ ~MoreLegs
    /\ LET tidy == Dedup(line)
           two == IF Len(tidy) = 1 THEN tidy \o tidy ELSE tidy
       IN  line' = IF g.shifted THEN [i \in DOMAIN two |-> Wrapped(two[i])] ELSE two
    /\ result' = [tag |-> "Ok", fallback |-> fallback]
    /\ pc' = "done"
    /\ UNCHANGED <<call, g, ring, best, snapped, segment, fallback, priced>>

\* The answer stands.  Nothing else may stop: a deadlock would be a leg that
\* is none of the four kinds.
Returned == pc = "done" /\ UNCHANGED vars

Next ==
    \/ TooFewWaypoints
    \/ InvalidMaxSnap
    \/ StartSnapping
    \/ ScanRing
    \/ ReturnNearest
    \/ SnapTooFar
    \/ SnapWaypoint
    \/ PointLeg
    \/ NetworkLeg
    \/ AlongEdge
    \/ StraightLeg
    \/ NoPath
    \/ Finish
    \/ Returned

Spec == Init /\ [][Next]_vars

----------------------------------------------------------------------------
(* Properties *)

Answered == pc = "done" /\ result # None
Routed == Answered /\ result.tag = "Ok"

\* Everything the search may find, without the grid.
Candidates ==
    IF Nowhere THEN {}
    ELSE IF call.kind = "node" THEN {NodeAt(g, Here, n) : n \in NodeIndices(g)}
    ELSE {Projection(g, Here, s) : s \in {x \in Segments(g) : Usable(g, x[1], Mask)}}

\* Within max, and on the query's side of the 180th meridian (the grid of an
\* ordinary graph does not look across it).
InReach(x) ==
    /\ call.max >= 0 /\ x.d2 <= call.max * call.max
    /\ Gap(Lon(x.point), Lon(Here)) <= HalfCircle

\* When the rings are given up, nothing within reach is nearer than what was
\* found, or as near with a smaller key: no ring was left out too early, and
\* no cell lacked what it should hold.  Roads are as near in the direction
\* that is not indexed as in the one that is.
NearestFound ==
    pc = "search" /\ ~WorthLooking =>
        /\ best # None => best \in Candidates
        /\ \A x \in Candidates : InReach(x) =>
            /\ best # None /\ best.d2 <= x.d2
            /\ best.d2 = x.d2 =>
                  \/ best.key[1] < x.key[1]
                  \/ best.key[1] = x.key[1] /\ best.key[2] <= x.key[2]
        /\ call.kind # "node" /\ ~Nowhere =>
            \A e \in EdgeIndices(g) : Usable(g, e, Mask) =>
                \A k \in 0..At(g.edges, e).geo_len :
                    LET x == Projection(g, Here, <<e, k>>)
                    IN  InReach(x) => best # None /\ best.d2 <= x.d2

\* Point p, in either form of its longitude, lies between p1 and p2: in the
\* box that they span, and off their line by no more than the rounding of
\* both coordinates of a projection (the distance from the line, times the
\* length of the segment, is the gap of the two products).
LiesBetween(p1, p2, p) ==
    \E turn \in {-2 * HalfCircle, 0, 2 * HalfCircle} :
        LET x == Lon(p) + turn
        IN  /\ Gap((x - Lon(p1)) * (Lat(p2) - Lat(p1)), (Lat(p) - Lat(p1)) * (Lon(p2) - Lon(p1)))
                  <= Gap(Lon(p1), Lon(p2)) + Gap(Lat(p1), Lat(p2))
            /\ Least(Lon(p1), Lon(p2)) <= x /\ x <= Greatest(Lon(p1), Lon(p2))
            /\ Least(Lat(p1), Lat(p2)) <= Lat(p)
            /\ Lat(p) <= Greatest(Lat(p1), Lat(p2))

\* One segment of one road of the profile holds both points.
OnOneRoad(p, q) ==
    \E e \in EdgeIndices(g) :
        /\ Usable(g, e, Mask)
        /\ \E k \in 0..At(g.edges, e).geo_len :
            /\ LiesBetween(ShapePoint(g, e, k), ShapePoint(g, e, k + 1), p)
            /\ LiesBetween(ShapePoint(g, e, k), ShapePoint(g, e, k + 1), q)

\* The ends of the roads of a profile that n can be reached from, or reach.
Component(n) ==
    LET grow[k \in 0..NodeCount(g)] ==
            IF k = 0 THEN {n}
            ELSE LET nearer == grow[k - 1]
                     out == UNION {EdgesFrom(g, m) : m \in nearer}
                 IN  nearer \cup {At(g.edges, e).target :
                                     e \in {x \in out : Usable(g, x, Mask)}}
    IN  grow[NodeCount(g)]
Connected(s, o) == o.src \in Component(s.src)

\* Snaps i and i + 1 are joined by a straight line.
Bridged(i) == ~Connected(snapped[i], snapped[i + 1])

\* Every step of a route's line is along one segment of a road its profile
\* may use, or is the straight line of a leg nothing connects; and the line
\* passes the projections of its waypoints in their order, from the first
\* to the last.  This is what the splicing of partial shapes, forwards and
\* backwards, has to get right at every end.
LineFollowsRoads ==
    Routed =>
        /\ Len(line) >= 2
        /\ line[1] = Wrapped(snapped[1].point)
        /\ Last(line) = Wrapped(Last(snapped).point)
        /\ \E at \in [DOMAIN snapped -> DOMAIN line] :
            /\ \A i \in DOMAIN snapped : line[at[i]] = Wrapped(snapped[i].point)
            /\ \A i \in 1..(Len(snapped) - 1) : at[i] <= at[i + 1]
        /\ \A j \in 1..(Len(line) - 1) :
            \/ OnOneRoad(line[j], line[j + 1])
            \/ \E i \in 1..(Len(snapped) - 1) :
                /\ Bridged(i)
                /\ line[j] = Wrapped(snapped[i].point)
                /\ line[j + 1] = Wrapped(snapped[i + 1].point)

\* A call that allows no fallback fails at the first leg nothing connects,
\* and one that allows it says so exactly when there was such a leg.
FallbackHonest ==
    Answered /\ call.kind = "route" =>
        LET gaps == {i \in 1..(Len(snapped) - 1) : Bridged(i)}
        IN  /\ result.tag = "Ok" =>
                  (result.fallback <=> gaps # {}) /\ (gaps # {} => call.fallback)
            /\ result.tag = "Err" /\ result.kind = "NoPath" =>
                  /\ result.index + 1 \in gaps /\ ~call.fallback
                  /\ \A i \in gaps : result.index + 1 <= i

Travel == FoldLeft(LAMBDA sum, j : sum + Distance(line[j], line[j + 1]), 0,
                   [j \in 1..(Len(line) - 1) |-> j])

\* The line is as long as its legs were priced when they were chosen, up to a
\* decimetre of rounding for each of its points: what is drawn is what the
\* search compared.  Between two points of one road no way round is taken that
\* is longer than staying on it.
LineIsWhatWasPriced ==
    Routed =>
        /\ Gap(Travel, DmUnits * priced) <= DmUnits * Len(line)
        /\ Len(snapped) = 2 /\ snapped[1].edge = snapped[2].edge =>
              priced <= Gap(snapped[1].d_src, snapped[2].d_src)

\* Two equal points follow one another only in the two-point line of a route
\* that goes nowhere, and at a node beyond the 180th meridian: such a node is
\* wrapped before the duplicates are removed, the projection on it after.
ZeroStepsOnlyAtSeam ==
    Routed =>
        /\ \A j \in DOMAIN line : Gap(0, Lon(line[j])) <= HalfCircle
        /\ \A j \in 1..(Len(line) - 1) : line[j] = line[j + 1] =>
            \/ Len(line) = 2 /\ \A i \in DOMAIN snapped :
                                    snapped[i].point = snapped[1].point
            \/ \E n \in NodeIndices(g) :
                /\ At(g.nodes, n) # NodeLatLon(g, n)
                /\ line[j] = NodeLatLon(g, n)
=============================================================================
