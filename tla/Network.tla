------------------------------ MODULE Network ------------------------------
(***************************************************************************)
(* From an .osm.pbf extract to the finished edges of a road graph          *)
(* (crates/build/src/pbf.rs, tags.rs and network.rs): the two passes of    *)
(* the reader, the filter by profiles, the scan for road nodes, the shift  *)
(* of a region across the 180 degree meridian into one continuous frame    *)
(* (D25), the stitch of the nodes that coincide on that meridian, the      *)
(* directed edges with duplicates merged (D1), and then Collapse.          *)
(*                                                                         *)
(* Positions in ids and nodes count from one; graph nodes from zero, as in *)
(* Collapse.  Lengths are measured on the flat ground of RoadGraph.        *)
(***************************************************************************)
EXTENDS Collapse, FiniteSetsExt, Functions

CONSTANTS
    HalfTurn, \* HALF_TURN, in units of longitude
    Window,   \* WINDOW
    DmUnits   \* units of length in a decimetre

R == INSTANCE RoadGraph WITH HalfCircle <- HalfTurn

ASSUME FrameAssumption ==
    /\ HalfTurn \in Nat \ {0} /\ Window \in Nat /\ DmUnits \in Nat \ {0}
    /\ HalfTurn < Window /\ Window < 2 * HalfTurn

ASSUME AccessAssumption == ((SUBSET {"car", "foot"}) \ {{}}) \subseteq Accesses

VARIABLES
    extract, \* never changes
    stage,   \* "ways", "nodes", "mask", "scan", "frame", "stitch", "connect",
             \* "merged", "collapse", or an error
    ways,    \* [refs, access] of the CompactNetwork, by place in the extract
    place,   \* its coordinates: id -> <<lat, lon>>
    ids,     \* the road nodes' OSM ids, ascending
    nodes,   \* their coordinates
    seam,    \* the 180 degree meridian in a shifted frame, else zero
    away     \* merged_away: position -> canonical position

network == <<ways, place>>
building == <<extract, stage, network, ids, nodes, seam, away>>
nvars == <<vars, building>>

\* lon_shifted
Shifted == seam # 0

Lons == {R!Lon(nodes[i]) : i \in DOMAIN nodes}

\* An extract: the node records and the ways of the file, and the profiles the
\* graph is asked for.  Longitudes are those of the format; more nodes than Size
\* are TooLarge.
IsExtract(x) ==
    /\ x.nodes \in Seq([id : Int, at : Int \X (-HalfTurn..HalfTurn)])
    /\ Cardinality({r.id : r \in Range(x.nodes)}) <= Size
    /\ x.ways \in Seq([refs : Seq(Int), highway : STRING])
    /\ x.keep \subseteq {"car", "foot"}

NInit ==
    /\ IsExtract(extract)
    /\ stage = "ways"
    /\ ways = <<>> /\ place = <<>>
    /\ ids = <<>> /\ nodes = <<>> /\ seam = 0 /\ away = <<>>
    /\ merged = <<>> /\ kept = {} /\ consumed = {}
    /\ chains = <<>> /\ dropped = <<>>
    /\ phase = "anchored" /\ scan = 0 /\ walk = NoWalk
    /\ edges = {}

----------------------------------------------------------------------------
(* The reader *)

\* access_for_highway; a way without the tag may be used by nobody either.
HighwayAccess(value) ==
    CASE value \in {"motorway", "motorway_link"} -> {"car"}
      [] value \in {"trunk", "trunk_link", "primary", "primary_link", "secondary",
                    "secondary_link", "tertiary", "tertiary_link", "unclassified",
                    "residential", "living_street", "service", "track"} -> {"car", "foot"}
      [] value \in {"footway", "path", "pedestrian", "steps", "bridleway",
                    "cycleway"} -> {"foot"}
      [] OTHER -> {}

\* The first pass keeps the ways some profile may use; push_way, those of two
\* refs or more.
ReadWays ==
    /\ stage = "ways" /\ stage' = "nodes"
    /\ LET Accepted(w) == HighwayAccess(w.highway) # {} /\ Len(w.refs) >= 2
       IN  ways' = [i \in {j \in DOMAIN extract.ways : Accepted(extract.ways[j])} |->
                      [refs |-> extract.ways[i].refs,
                       access |-> HighwayAccess(extract.ways[i].highway)]]
    /\ UNCHANGED <<vars, extract, place, ids, nodes, seam, away>>

Needed == UNION {Range(w.refs) : w \in Range(ways)}

\* Where the extract says a node is; of several records the last one counts.
Records(id) == {i \in DOMAIN extract.nodes : extract.nodes[i].id = id}
PlaceOf(id) == extract.nodes[Max(Records(id))].at

\* The second pass.
ReadNodes ==
    /\ stage = "nodes" /\ stage' = "mask"
    /\ place' = [id \in {n \in Needed : Records(n) # {}} |-> PlaceOf(id)]
    /\ UNCHANGED <<vars, extract, ways, ids, nodes, seam, away>>

\* mask_access: --profiles
MaskAccess ==
    /\ stage = "mask" /\ stage' = "scan"
    /\ ways' = [i \in DOMAIN ways |->
                  [ways[i] EXCEPT !.access = @ \cap extract.keep]]
    /\ UNCHANGED <<vars, extract, place, ids, nodes, seam, away>>

----------------------------------------------------------------------------
(* The scan *)

\* The pairs of consecutive refs that make a segment: some profile may use the
\* way, the refs differ, and both have coordinates.
Pairs ==
    UNION {{[from |-> w.refs[i], to |-> w.refs[i + 1], access |-> w.access] :
              i \in {j \in 1..(Len(w.refs) - 1) :
                        /\ w.refs[j] # w.refs[j + 1]
                        /\ {w.refs[j], w.refs[j + 1]} \subseteq DOMAIN place}} :
             w \in {v \in Range(ways) : v.access # {}}}

Ends(pairs) == {p.from : p \in pairs} \cup {p.to : p \in pairs}

\* The members of S, sorted.
Sorted(S, Before(_, _)) ==
    <<>> \o [i \in 1..Cardinality(S) |->
               CHOOSE x \in S : Cardinality({y \in S : Before(y, x)}) = i - 1]

ScanWays ==
    /\ stage = "scan" /\ stage' = "frame"
    /\ ids' = Sorted(Ends(Pairs), <)
    /\ nodes' = [i \in DOMAIN ids' |-> place[ids'[i]]] \o <<>>
    /\ UNCHANGED <<vars, extract, network, seam, away>>

----------------------------------------------------------------------------
(* The frame *)

Width(lons) == Max(lons) - Min(lons)

Unwrapped(lon) == IF lon < 0 THEN lon + 2 * HalfTurn ELSE lon

UnwrappedLons == {Unwrapped(lon) : lon \in Lons}

\* Faulty: a frame that sticks out too far east stays where it is.
BugOffset == 0

\* A region mostly east of the seam is moved west as a whole.
Offset == IF Max(UnwrappedLons) > Window THEN -(2 * HalfTurn) ELSE 0

Wide == Lons # {} /\ Width(Lons) > HalfTurn

KeepFrame ==
    /\ stage = "frame" /\ ~Wide
    /\ stage' = "connect"
    /\ UNCHANGED <<vars, extract, network, ids, nodes, seam, away>>

RefuseSpanning ==
    /\ stage = "frame" /\ Wide
    /\ Width(UnwrappedLons) > HalfTurn
    /\ stage' = "AntimeridianSpanning"
    /\ UNCHANGED <<vars, extract, network, ids, nodes, seam, away>>

Fits == Min(UnwrappedLons) + Offset >= -Window

RefuseWindow ==
    /\ stage = "frame" /\ Wide
    /\ Width(UnwrappedLons) <= HalfTurn /\ ~Fits
    /\ stage' = "AntimeridianWindow"
    /\ UNCHANGED <<vars, extract, network, ids, nodes, seam, away>>

ShiftFrame ==
    /\ stage = "frame" /\ Wide
    /\ Width(UnwrappedLons) <= HalfTurn /\ Fits
    /\ nodes' = [i \in DOMAIN nodes |->
                   <<R!Lat(nodes[i]), Unwrapped(R!Lon(nodes[i])) + Offset>>] \o <<>>
    /\ seam' = HalfTurn + Offset
    /\ stage' = "stitch"
    /\ UNCHANGED <<vars, extract, network, ids, away>>

----------------------------------------------------------------------------
(* The stitch *)

SeamPositions == {i \in DOMAIN nodes : R!Lon(nodes[i]) = seam}

\* Faulty: by position only.
BugOnSeam == Sorted(SeamPositions, <)

\* on_seam: by latitude, then position.
OnSeam ==
    Sorted(SeamPositions,
        LAMBDA i, j : \/ R!Lat(nodes[i]) < R!Lat(nodes[j])
                      \/ R!Lat(nodes[i]) = R!Lat(nodes[j]) /\ i < j)

\* The redirect, or the position itself.
Canon(a, i) == IF i \in DOMAIN a THEN a[i] ELSE i

\* One pair of on_seam: at the same latitude, the later goes where the earlier
\* went.
Join(a, k) ==
    LET i == OnSeam[k - 1]
        j == OnSeam[k]
    IN  IF R!Lat(nodes[i]) = R!Lat(nodes[j])
        THEN [n \in DOMAIN a \cup {j} |-> IF n = j THEN Canon(a, i) ELSE a[n]]
        ELSE a

\* All pairs, in their order.
Joined ==
    LET upTo[k \in 0..Len(OnSeam)] ==
            IF k <= 1 THEN <<>> ELSE Join(upTo[k - 1], k)
    IN  upTo[Len(OnSeam)]

Stitch ==
    /\ stage = "stitch" /\ stage' = "connect"
    /\ away' = Joined
    /\ LET left == Sorted(DOMAIN nodes \ DOMAIN away', <)
       IN  nodes' = [i \in DOMAIN left |-> nodes[left[i]]] \o <<>>
    /\ UNCHANGED <<vars, extract, network, ids, seam>>

----------------------------------------------------------------------------
(* The edges *)

\* lookup: the rank in ids, redirected, and shifted down past the removed.
Lookup(id) ==
    LET position == Canon(away, CHOOSE i \in DOMAIN ids : ids[i] = id)
    IN  position - 1 - Cardinality({i \in DOMAIN away : i < position})

Directed ==
    UNION {{<<Lookup(p.from), Lookup(p.to), p.access>>,
            <<Lookup(p.to), Lookup(p.from), p.access>>} :
               p \in {q \in Pairs : Lookup(q.from) # Lookup(q.to)}}

\* Equal ends have equal lengths, so the least of the duplicates is any.
Connect ==
    /\ stage = "connect" /\ stage' = "merged"
    /\ LET directed == Directed
       IN  merged' =
             [e \in {<<d[1], d[2]>> : d \in directed} |->
                [length |-> Clamped(R!Dm(R!Distance(nodes[e[1] + 1], nodes[e[2] + 1]))),
                 access |-> UNION {d[3] : d \in {x \in directed : <<x[1], x[2]>> = e}}]]
    /\ kept' = {n \in Vertices : ~Interior(n)}'
    /\ UNCHANGED <<consumed, chains, dropped, phase, scan, walk, edges,
                   extract, network, ids, nodes, seam, away>>

----------------------------------------------------------------------------
(* The builder *)

CollapseStep ==
    /\ stage \in {"merged", "collapse"} /\ Next
    /\ stage' = "collapse"
    /\ UNCHANGED <<extract, network, ids, nodes, seam, away>>

Refused ==
    /\ stage \in {"AntimeridianSpanning", "AntimeridianWindow"}
    /\ UNCHANGED nvars

NNext ==
    \/ ReadWays \/ ReadNodes \/ MaskAccess \/ ScanWays
    \/ KeepFrame \/ RefuseSpanning \/ RefuseWindow \/ ShiftFrame
    \/ Stitch \/ Connect
    \/ CollapseStep \/ Refused

NSpec == NInit /\ [][NNext]_nvars

----------------------------------------------------------------------------
(* Properties *)

\* The road segments of the extract, for the profiles asked for.
DrawnAt(w) ==
    {[from |-> w.refs[i], to |-> w.refs[i + 1],
      access |-> HighwayAccess(w.highway) \cap extract.keep] :
        i \in {j \in 1..(Len(w.refs) - 1) :
                  /\ w.refs[j] # w.refs[j + 1]
                  /\ Records(w.refs[j]) # {} /\ Records(w.refs[j + 1]) # {}}}
Drawn == {p \in UNION {DrawnAt(w) : w \in Range(extract.ways)} : p.access # {}}

\* Two road nodes are one junction: they are the same, or the region was
\* shifted and they lie at one place on the 180 degree meridian, on either side.
OneJunction(a, b) ==
    LET p == PlaceOf(a)
        q == PlaceOf(b)
    IN  \/ a = b
        \/ /\ Shifted /\ R!Lat(p) = R!Lat(q)
           /\ {R!Lon(p), R!Lon(q)} \subseteq {HalfTurn, -HalfTurn}

\* The merged network is the road map as drawn in the extract: junctions are
\* numbered by their lowest id, however many nodes coincide, and two are joined
\* exactly if some way leads from a node of one to a node of the other, with the
\* access of all those ways and the length measured before any shift.
IsRoadMap ==
    LET segments == Drawn
        ends == Ends(segments)
        head == [a \in ends |-> Min({b \in ends : OneJunction(a, b)})]
        heads == Range(head)
        number == [a \in ends |-> Cardinality({h \in heads : h < head[a]})]
        Between(e) ==
            {p \in segments : e \in {<<number[p.from], number[p.to]>>,
                                     <<number[p.to], number[p.from]>>}}
    IN  /\ IsNetwork(merged)
        /\ Len(nodes) = Cardinality(heads)
        /\ DOMAIN merged = {e \in Nodes \X Nodes : e[1] # e[2] /\ Between(e) # {}}
        /\ \A e \in DOMAIN merged :
              /\ merged[e].access = UNION {p.access : p \in Between(e)}
              /\ \A p \in Between(e) :
                    merged[e].length = Clamped(R!Dm(
                        R!Distance(PlaceOf(p.from), PlaceOf(p.to))))

\* What the collapse is given is the road map.  It rests on the reader's two
\* passes, the runs merged pairwise, the redirect and the two removals agreeing
\* (pbf.rs, network.rs 305 to 370).
MergedAsDrawn == stage = "merged" => IsRoadMap

\* Every node is where the extract has it, in a frame at most half a turn wide
\* that fits the fixed-point range and, if the region has roads strictly on
\* both sides, sticks out past the meridian, as Graph::assemble demands; and a
\* region is refused as spanning only if it fits no arc of less than half a
\* turn (network.rs 256 to 304).
FrameIsSound ==
    /\ stage = "merged" =>
        /\ \A a \in Range(ids) :
              LET p == nodes[Lookup(a) + 1]
                  q == PlaceOf(a)
              IN  R!Lat(p) = R!Lat(q) /\ (R!Lon(p) - R!Lon(q)) % (2 * HalfTurn) = 0
        /\ Lons # {} => Width(Lons) <= HalfTurn
        /\ Lons \subseteq IF Shifted THEN -Window..Window ELSE -HalfTurn..HalfTurn
        /\ (/\ Shifted
            /\ \E a \in Range(ids) : R!Lon(PlaceOf(a)) \in 0..(HalfTurn - 1)
            /\ \E a \in Range(ids) : R!Lon(PlaceOf(a)) \in (1 - HalfTurn)..(-1))
              => ~(Lons \subseteq -HalfTurn..HalfTurn)
    /\ stage = "AntimeridianSpanning" =>
        \A west \in Lons : \E lon \in Lons : (lon - west) % (2 * HalfTurn) >= HalfTurn

\* network.rs:256 says a region wider than half a turn "either genuinely
\* crosses the 180 degree antimeridian or is more than half the globe wide",
\* and docs/DECISIONS.md:1008 calls what is left after the refusal "a real
\* crossing": an adopted frame sticks out past the meridian, which is what
\* Graph::assemble takes the flag to mean.
AdoptedFramesCross ==
    stage = "merged" /\ Shifted => ~(Lons \subseteq -HalfTurn..HalfTurn)
=============================================================================
