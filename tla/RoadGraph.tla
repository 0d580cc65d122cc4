------------------------------ MODULE RoadGraph ------------------------------
(***************************************************************************)
(* The road graph in memory (crates/core/src/graph.rs) and what the        *)
(* snapping grid and the router read of it.                                *)
(*                                                                         *)
(* A graph g is a record                                                   *)
(*   [shifted, bbox, nodes, offsets, edges, geometry]                      *)
(* as in the code: nodes, geometry and the four sides of bbox are fixed-   *)
(* point pairs <<lat, lon>>, offsets are the CSR rows, and an edge is      *)
(*   [target, length_dm, geo_off, geo_len, reversed, access]               *)
(* with access a set of profiles.  Indices count from zero, as in the      *)
(* code, and At reads a sequence by them.                                  *)
(*                                                                         *)
(* Abstracted data: the ground is flat, with the same unit in both         *)
(* directions, and longitudes repeat after a full circle as in             *)
(* haversine_m.                                                            *)
(***************************************************************************)
EXTENDS Integers, Sequences, FiniteSets

CONSTANTS
    HalfCircle,   \* 180 degrees of longitude
    DmUnits       \* units of length in a decimetre

ASSUME UnitAssumption ==
    /\ HalfCircle \in Nat \ {0}
    /\ DmUnits \in Nat \ {0}

At(s, i) == s[i + 1]
Lat(p) == p[1]
Lon(p) == p[2]

----------------------------------------------------------------------------
(* geo.rs *)

\* geo::wrap_lon_deg
WrapLon(lon) ==
    IF lon > HalfCircle THEN lon - 2 * HalfCircle
    ELSE IF lon < -HalfCircle THEN lon + 2 * HalfCircle
    ELSE lon

Wrapped(p) == <<Lat(p), WrapLon(Lon(p))>>

\* The square of geo::haversine_m.
Distance2(p, q) ==
    LET east == (Lon(q) - Lon(p)) % (2 * HalfCircle)
        across == IF east > HalfCircle THEN 2 * HalfCircle - east ELSE east
        up == Lat(q) - Lat(p)
    IN  up * up + across * across

\* The whole number nearest to the square root of x.
RoundedRoot(x) ==
    CHOOSE k \in 0..x : /\ 4 * x < (2 * k + 1) * (2 * k + 1)
                        /\ k > 0 => (2 * k - 1) * (2 * k - 1) <= 4 * x

\* geo::haversine_m
Distance(p, q) == RoundedRoot(Distance2(p, q))

\* Rounded to whole decimetres.
Dm(x) == (2 * x + DmUnits) \div (2 * DmUnits)

----------------------------------------------------------------------------
(* Reading the graph *)

NodeCount(g) == Len(g.nodes)
NodeIndices(g) == 0..(Len(g.nodes) - 1)
EdgeIndices(g) == 0..(Len(g.edges) - 1)

\* Global indices of the edges out of node n.
EdgesFrom(g, n) == At(g.offsets, n)..(At(g.offsets, n + 1) - 1)

\* offsets.partition_point(|o| o <= e) - 1
EdgeSource(g, e) ==
    Cardinality({i \in DOMAIN g.offsets : g.offsets[i] <= e}) - 1

EdgeGeometry(g, edge) ==
    SubSeq(g.geometry, edge.geo_off + 1, edge.geo_off + edge.geo_len)

\* Shape point k of edge e in travel order, its two ends included.
ShapePoint(g, e, k) ==
    LET edge == At(g.edges, e)
        i == IF edge.reversed THEN edge.geo_len - k ELSE k - 1
    IN  IF k = 0 THEN At(g.nodes, EdgeSource(g, e))
        ELSE IF k = edge.geo_len + 1 THEN At(g.nodes, edge.target)
        ELSE At(g.geometry, edge.geo_off + i)

NodeLatLon(g, n) == Wrapped(At(g.nodes, n))

\* The representation of lon nearest to the middle of a shifted graph.
NormalizeQueryLon(g, lon) ==
    LET center == (g.bbox.min[2] + g.bbox.max[2]) \div 2
        d == (lon - center) % (2 * HalfCircle)
    IN  IF ~g.shifted THEN lon
        ELSE center + IF d >= HalfCircle THEN d - 2 * HalfCircle ELSE d

InFrame(g, p) == <<Lat(p), NormalizeQueryLon(g, Lon(p))>>

Usable(g, e, mask) == At(g.edges, e).access \cap mask # {}

\* From the edge's source along its shape to a point of segment seg.
Along(g, e, seg, point) ==
    LET whole[k \in 0..seg] ==
            IF k = 0 THEN 0
            ELSE whole[k - 1] + Distance(ShapePoint(g, e, k - 1), ShapePoint(g, e, k))
    IN  whole[seg] + Distance(ShapePoint(g, e, seg), point)

\* Graph::distance_along_dm: never more than the edge is long.
DistanceAlong(g, e, seg, point) ==
    LET dm == Dm(Along(g, e, seg, point))
        length == At(g.edges, e).length_dm
    IN  IF dm > length THEN length ELSE dm
=============================================================================
