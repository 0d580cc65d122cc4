------------------------------- MODULE MCQuery -------------------------------
(* Calls of Query on small graphs drawn on a lattice of 10 units, so that a  *)
(* projection onto a level, upright or diagonal road is a whole number.      *)
EXTENDS Clients

CONSTANTS car, foot

All == {car, foot}

\* A road between nodes a and b, of shape points in between.
Road(a_, b_, shape, access) == [a |-> a_, b |-> b_, shape |-> shape, access |-> access]

RoadLength(points) ==
    FoldLeft(LAMBDA sum, i : sum + Greatest(1, Dm(Distance(points[i], points[i + 1]))), 0,
             [i \in 1..(Len(points) - 1) |-> i])

\* The CSR form of a map: both directions of every road, sorted.
Csr(shifted, nodes, roads) ==
    LET pool == FlattenSeq([i \in DOMAIN roads |-> roads[i].shape])
        Offset(i) == IF roads[i].shape = <<>> THEN 0
                     ELSE Len(FlattenSeq([j \in 1..(i - 1) |-> roads[j].shape]))
        Length(i) == RoadLength(<<At(nodes, roads[i].a)>> \o roads[i].shape
                                  \o <<At(nodes, roads[i].b)>>)
        Half(i, back) ==
            [source |-> IF back THEN roads[i].b ELSE roads[i].a, road |-> i,
             edge |-> [target |-> IF back THEN roads[i].a ELSE roads[i].b,
                       length_dm |-> Length(i), geo_off |-> Offset(i),
                       geo_len |-> Len(roads[i].shape),
                       reversed |-> back /\ roads[i].shape # <<>>,
                       access |-> roads[i].access]]
        halves == {Half(i, back) : i \in DOMAIN roads, back \in BOOLEAN}
        Before(x, y) == \/ x.source < y.source
                        \/ x.source = y.source /\ x.edge.target < y.edge.target
                        \/ x.source = y.source /\ x.edge.target = y.edge.target
                             /\ x.road < y.road
        sorted == [i \in 1..Cardinality(halves) |->
                      CHOOSE h \in halves :
                          Cardinality({x \in halves : Before(x, h)}) = i - 1]
        all == ToSet(nodes) \cup ToSet(pool)
        Lats == {Lat(p) : p \in all}
        Lons == {Lon(p) : p \in all}
    IN  [shifted |-> shifted, nodes |-> nodes, geometry |-> pool,
         offsets |-> [n \in 1..(Len(nodes) + 1) |->
                        Cardinality({h \in halves : h.source < n - 1})] \o <<>>,
         edges |-> [i \in DOMAIN sorted |-> sorted[i].edge] \o <<>>,
         bbox |-> [min |-> <<CHOOSE x \in Lats : \A y \in Lats : x <= y,
                             CHOOSE x \in Lons : \A y \in Lons : x <= y>>,
                   max |-> <<CHOOSE x \in Lats : \A y \in Lats : y <= x,
                             CHOOSE x \in Lons : \A y \in Lons : y <= x>>]]

\* A block with a hairpin (1-2), a diagonal footway (0-2), a node without
\* roads (4), and a street of its own (5-6); everything `east` units further east.
Town(shifted, east) ==
    LET At2(lat, lon) == <<lat, lon + east>>
    IN  Csr(shifted,
            <<At2(0, 0), At2(0, 40), At2(40, 40), At2(40, 0), At2(70, 20),
              At2(70, 60), At2(70, 90)>>,
            <<Road(0, 1, <<>>, All),
              Road(1, 2, <<At2(0, 80), At2(40, 80)>>, All),
              Road(1, 2, <<>>, {foot}),
              Road(0, 2, <<At2(20, 20)>>, {foot}),
              Road(2, 3, <<At2(50, 40), At2(50, 0)>>, {car}),
              Road(3, 0, <<At2(30, 0), At2(20, 0), At2(10, 0)>>, {car}),
              Road(5, 6, <<>>, All)>>)

\* Many dead ends on a wide plain, for a grid of many cells, with few roads.
Plain ==
    Csr(FALSE,
        [i \in 1..24 |-> <<20 * ((i - 1) \div 6), 20 * ((i - 1) % 6)>>] \o <<>>,
        <<Road(0, 9, <<>>, {car}), Road(0, 5, <<>>, {car}), Road(5, 11, <<>>, {foot}), Road(3, 20, <<<<60, 60>>>>, All),
          Road(22, 23, <<>>, {car})>>)

\* Everything on one meridian.
Ridge == Csr(FALSE, <<<<0, 0>>, <<40, 0>>, <<60, 0>>>>,
             <<Road(0, 1, <<>>, All), Road(1, 2, <<>>, {foot})>>)

Named ==
    [town |-> Loaded(Town(FALSE, 0)),
     overSeam |-> Loaded(Town(TRUE, 90)),
     westOfSeam |-> Loaded(Town(TRUE, -150)),
     plain |-> Loaded(Plain),
     ridge |-> Loaded(Ridge)]

Lattice(lats, lons) == {<<10 * y, 10 * x>> : y \in lats, x \in lons}

Nearest(graph, points, maxima) ==
    [kind : {"node", "road"}, graph : {graph}, points : {<<p>> : p \in points},
     max : maxima, profile : {car}, fallback : {TRUE}]

\* Waypoints on a straight road, a junction, the hairpin (both arms and the
\* bend), inside the block, by the western road, on the street apart, and nowhere.
Waypoints(east) ==
    {<<p[1], p[2] + east>> :
        p \in {<<0, 20>>, <<0, 40>>, <<-10, 70>>, <<20, 90>>, <<40, 50>>,
               <<20, 30>>, <<60, 20>>, <<38, -10>>, <<70, 70>>, <<70, 100>>}}
Turned(points, turn) == {<<Lat(p), Lon(p) + turn>> : p \in points}

RoutesOn(graph, routes, fallbacks) ==
    [kind : {"route"}, graph : {graph}, points : routes, max : {25},
     profile : All, fallback : fallbacks]

Pairs(points) == {<<p, q>> : p \in points, q \in points}
Triples(points) == {<<p, q, r>> : p \in points, q \in points, r \in points}

NearestCalls ==
    UNION {Nearest("town", Lattice(-2..8, -2..11) \cup {NoNumber}, {-1, 5, 30}),
           Nearest("overSeam", Lattice(0..7, 8..19), {30}),
           Nearest("overSeam", Lattice(0..7, -15..-6), {30}),
           Nearest("plain", Lattice(-1..7, -2..12), {15, 50}),
           Nearest("ridge", Lattice(-1..7, -2..2), {15, 50})}

RouteCalls ==
    LET town == Waypoints(0)
        east == Waypoints(90) \cup Turned({<<0, 130>>, <<70, 180>>}, -2 * HalfCircle)
        west == Waypoints(-150)
        odd == {<<>>, <<<<0, 0>>>>, <<NoNumber, <<0, 0>>>>, <<<<0, 0>>, <<0, 0>>>>}
    IN  UNION {RoutesOn("town", Pairs(town) \cup odd, BOOLEAN),
               RoutesOn("town", Triples(town \ {<<60, 20>>, <<20, 90>>, <<38, -10>>}), {TRUE}),
               RoutesOn("overSeam", Pairs(east), BOOLEAN),
               RoutesOn("westOfSeam", Pairs(west), {TRUE}),
               {[c EXCEPT !.max = -1] : c \in RoutesOn("town", odd, {TRUE})}}

AllCalls == NearestCalls \cup RouteCalls

Request(client, c, max, straight, format, wellformed) ==
    [client |-> client, kind |-> c.kind, graph |-> c.graph, points |-> c.points,
     profile |-> c.profile, max |-> max, fallback |-> straight, format |-> format,
     wellformed |-> wellformed]

\* What other clients ask for: a few routes, in every form.
Shared ==
    LET far == <<80, 20>>
    IN  RoutesOn("town", Pairs({<<0, 20>>, <<38, -10>>, <<70, 70>>, far})
                           \cup {<<>>, <<<<0, 0>>>>, <<NoNumber, <<0, 0>>>>}, {TRUE})
          \cup RoutesOn("overSeam", Pairs({<<0, 110>>, <<0, 130>>, <<70, 190>>}), {TRUE})

SomeRequests ==
    {Request("rust", c, c.max, c.fallback, "record", TRUE) : c \in AllCalls}
      \cup {Request("cli", c, max, straight, format, TRUE) :
               c \in Shared, max \in {Absent, -1, 40}, straight \in {Absent, FALSE},
               format \in {"json", "geojson", "gpx"}}
      \cup {Request("wasm", c, max, straight, "record", TRUE) :
               c \in Shared, max \in {Absent, -1}, straight \in {Absent, TRUE, FALSE}}
      \cup {Request("ffi", c, Absent, Absent, "record", TRUE) : c \in Shared}
      \cup {Request(client, c, Absent, Absent, "record", FALSE) :
               client \in {"cli", "wasm"}, c \in Shared}
=============================================================================
