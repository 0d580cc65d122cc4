------------------------------ MODULE GraphFile ------------------------------
(***************************************************************************)
(* A .graph file: Graph::from_parts_with_flags, to_bytes, from_bytes and   *)
(* the one validation all of them share (crates/core/src/graph.rs), over   *)
(* the format of crates/core/src/format.rs.                                *)
(*                                                                         *)
(* A builder hands in parts; the file made of them may be cut short, grow  *)
(* or have a field changed before it is read back.                         *)
(*                                                                         *)
(* Abstracted data: a fixed-width field of the file is one cell, whatever  *)
(* its bytes; the geometry section keeps its single bytes.  A number has   *)
(* 2 * Half values instead of 2^32, a byte 2 * Group instead of 256, and a *)
(* varint MaxGroups bytes instead of 5.  Bits are sets of bit numbers.     *)
(***************************************************************************)
EXTENDS RoadGraph, SequencesExt

CONSTANTS
    Half,           \* 2^31
    Group,          \* 2^7
    MaxGroups,      \* 5
    QuarterCircle,  \* 90 degrees
    Magic, Version,
    Given,          \* the parts callers hand in
    Fragile,        \* those whose file is damaged
    Written,        \* what a damaged cell may hold
    None

\* What the groups of a varint count: Place[i] is Group to the power i.
Place[i \in 0..MaxGroups] == IF i = 0 THEN 1 ELSE Group * Place[i - 1]

ASSUME WidthAssumption ==
    /\ Half \in Nat \ {0} /\ Group \in Nat \ {0, 1} /\ MaxGroups \in Nat \ {0}
    /\ 2 * Half <= Place[MaxGroups] /\ Group <= Half
    /\ 1 < HalfCircle /\ HalfCircle < Half /\ Half <= 3 * HalfCircle
    /\ QuarterCircle \in Nat /\ QuarterCircle < Half

\* What the code's types hold: an i32, a u32 and a u16 of flags.
Number == -Half..(Half - 1)
CellValue == 0..(2 * Half - 1)
Bits == 0..15
Point == Number \X Number
Road == [target : CellValue, length_dm : CellValue, geo_off : CellValue, geo_len : CellValue,
         reversed : BOOLEAN, access : SUBSET Bits]
PartsType == [flags : SUBSET Bits, bbox : [min : Point, max : Point],
              nodes : Seq(Point), offsets : Seq(CellValue), edges : Seq(Road),
              geometry : Seq(Point)]

ASSUME GivenAssumption ==
    /\ Given \subseteq PartsType /\ Written \subseteq CellValue
    /\ {Magic, Version} \subseteq CellValue

VARIABLES
    given,   \* what the builder handed in; never changes
    file,    \* the cells of the file
    damage,  \* history: what happened to the file
    pc,
    at,      \* cells read so far
    parts,   \* what has been read
    result

vars == <<given, file, damage, pc, at, parts, result>>

----------------------------------------------------------------------------
(* Numbers and their widths *)

Unsigned(v) == v % (2 * Half)
Signed(cell) == IF cell >= Half THEN cell - 2 * Half ELSE cell

\* i32::wrapping_add and wrapping_sub bring a sum or a difference back.
Wrapping(v) == IF v >= Half THEN v - 2 * Half ELSE IF v < -Half THEN v + 2 * Half ELSE v

ZigzagEncode(v) == IF v >= 0 THEN 2 * v ELSE -2 * v - 1
ZigzagDecode(u) == IF u % 2 = 0 THEN u \div 2 ELSE -((u + 1) \div 2)

VarintLen(u) ==
    CHOOSE n \in 1..MaxGroups : u < Place[n] /\ (n > 1 => u >= Place[n - 1])

WriteVarint(u) ==
    [i \in 1..VarintLen(u) |->
        ((u \div Place[i - 1]) % Group) + (IF i < VarintLen(u) THEN Group ELSE 0)]

Continues(byte) == byte >= Group

\* The varint at position p of the file, or an error.  The last byte may
\* carry more bits than the number has; they are lost.
ReadVarint(p) ==
    LET ends == {n \in 1..MaxGroups : p + n <= Len(file) /\ ~Continues(file[p + n])}
        last == CHOOSE n \in ends : \A k \in ends : n <= k
        bits == [i \in 1..last |-> ((file[p + i] % Group) * Place[i - 1]) % (2 * Half)]
        sum[i \in 0..last] == IF i = 0 THEN 0 ELSE sum[i - 1] + bits[i]
    IN  IF ends # {}
        THEN [error |-> None, at |-> p + last,
              value |-> sum[last]]
        ELSE [error |-> IF p + MaxGroups <= Len(file) THEN "varint too long" ELSE "Truncated"]

----------------------------------------------------------------------------
(* format::serialize *)

Previous(points, i) == IF i = 1 THEN <<0, 0>> ELSE points[i - 1]

EncodeGeometry(points) ==
    FlattenSeq([i \in DOMAIN points |->
        LET prev == Previous(points, i)
            Delta(x, y) == WriteVarint(ZigzagEncode(Wrapping(x - y)))
        IN  Delta(Lat(points[i]), Lat(prev)) \o Delta(Lon(points[i]), Lon(prev))])

BitSum(bits) == MapThenSumSet(LAMBDA i : 2 ^ i, bits)
BitSet(n) == {i \in Bits : (n \div 2 ^ i) % 2 = 1}

PointCells(points) ==
    FlattenSeq([i \in DOMAIN points |-> <<Unsigned(Lat(points[i])), Unsigned(Lon(points[i]))>>])

EdgeCells(e) == <<e.target, e.length_dm, e.geo_off, e.geo_len,
                  IF e.reversed THEN 1 ELSE 0, BitSum(e.access)>>

\* The bounding box of nodes and geometry.
Tight(p) ==
    LET points == {p.nodes[i] : i \in DOMAIN p.nodes}
                    \cup {p.geometry[i] : i \in DOMAIN p.geometry}
        Low(axis) == CHOOSE x \in {q[axis] : q \in points} : \A q \in points : x <= q[axis]
        High(axis) == CHOOSE x \in {q[axis] : q \in points} : \A q \in points : q[axis] <= x
    IN  IF points = {} THEN [min |-> <<0, 0>>, max |-> <<0, 0>>]
        ELSE [min |-> <<Low(1), Low(2)>>, max |-> <<High(1), High(2)>>]

\* The box as it came in.
BoxOf(p) == p.bbox

Serialize(p) ==
    LET bytes == EncodeGeometry(p.geometry)
    IN  <<Magic, Version, BitSum(p.flags), Len(p.nodes), Len(p.edges)>>
          \o PointCells(<<BoxOf(p).min, BoxOf(p).max>>)
          \o <<Unsigned(Len(p.geometry)), Unsigned(Len(bytes))>>
          \o PointCells(p.nodes) \o p.offsets
          \o FlattenSeq([i \in DOMAIN p.edges |-> EdgeCells(p.edges[i])])
          \o bytes

----------------------------------------------------------------------------
(* Graph::assemble: the first check that fails *)

\* Faulty: a reference may start anywhere in the pool.
BugShapeInPool(p, e) == e.geo_off <= Len(p.geometry)

ShapeInPool(p, e) == e.geo_off + e.geo_len <= Len(p.geometry)

EdgeOk(p, e) ==
    /\ e.target < Len(p.nodes)
    /\ e.length_dm > 0
    /\ e.access \subseteq {0, 1}
    /\ ShapeInPool(p, e)
    /\ e.geo_len = 0 => e.geo_off = 0 /\ ~e.reversed

CoordOk(p, point) ==
    /\ -QuarterCircle <= Lat(point) /\ Lat(point) <= QuarterCircle
    /\ 0 \in p.flags \/ (-HalfCircle <= Lon(point) /\ Lon(point) <= HalfCircle)
    /\ \A i \in 1..2 : p.bbox.min[i] <= point[i] /\ point[i] <= p.bbox.max[i]

\* Faulty: a frame of any width.
BugAnyFrame(p) == TRUE

\* A shifted frame is at most half way round.
FrameFits(p) == 0 \in p.flags => Lon(p.bbox.max) - Lon(p.bbox.min) <= HalfCircle

\* The checks in the order of the code.
Checks(p) ==
    <<p.flags \subseteq {0},
      Len(p.nodes) < 2 * Half - 1 /\ Len(p.edges) < 2 * Half /\ Len(p.geometry) < 2 * Half,
      Len(p.offsets) = Len(p.nodes) + 1,
      Len(p.offsets) > 0 /\ p.offsets[1] = 0,
      \A i \in 1..(Len(p.offsets) - 1) : p.offsets[i] <= p.offsets[i + 1],
      Len(p.offsets) > 0 /\ p.offsets[Len(p.offsets)] = Len(p.edges),
      \A i \in 1..2 : p.bbox.min[i] <= p.bbox.max[i],
      FrameFits(p),
      0 \in p.flags => Lon(p.bbox.min) < -HalfCircle \/ Lon(p.bbox.max) > HalfCircle,
      \A i \in DOMAIN p.nodes : CoordOk(p, p.nodes[i]),
      \A i \in DOMAIN p.geometry : CoordOk(p, p.geometry[i]),
      \A i \in DOMAIN p.edges : EdgeOk(p, p.edges[i])>>

\* What GraphError::Malformed says of each.
Complaints ==
    <<"unknown flags bits", "too many", "offsets length", "offsets[0]",
      "offsets not non-decreasing", "offsets[node_count]", "inverted bbox",
      "shifted bbox spans", "bbox does not cross", "node coordinate",
      "geometry coordinate", "edge">>

ASSUME NoneAssumption ==
    /\ \A i \in 1..12 : Complaints[i] \notin {None, "Ok"}
    /\ None \notin {"Truncated", "BadMagic", "UnsupportedVersion", "trailing bytes",
                    "varint too long", "Ok"}

\* None if the parts make a graph.
Assemble(p) ==
    LET failed == {i \in DOMAIN Complaints : ~Checks(p)[i]}
    IN  IF failed = {} THEN None
        ELSE Complaints[CHOOSE i \in failed : \A j \in failed : i <= j]

Answer(error) == IF error = None THEN "Ok" ELSE error

----------------------------------------------------------------------------
(* from_parts_with_flags and to_bytes *)

Empty == [flags |-> {}, bbox |-> [min |-> <<0, 0>>, max |-> <<0, 0>>],
          nodes |-> <<>>, offsets |-> <<>>, edges |-> <<>>, geometry |-> <<>>]

Boxed(p) == [p EXCEPT !.bbox = Tight(p)]

Init ==
    /\ given \in Given
    /\ file = <<>> /\ damage = "none" /\ pc = "given" /\ at = 0
    /\ parts = Empty /\ result = None

\* Faulty: any pool is taken.
BugAnyPool(points) == TRUE

PoolFits(points) == Len(EncodeGeometry(points)) < 2 * Half

FromParts ==
    /\ pc = "given"
    /\ IF ~PoolFits(given.geometry) \/ Assemble(Boxed(given)) # None
       THEN pc' = "refused" /\ UNCHANGED file
       ELSE pc' = "stored" /\ file' = Serialize(Boxed(given))
    /\ UNCHANGED <<given, damage, at, parts, result>>

----------------------------------------------------------------------------
(* What may happen to a file: a write that did not end, a download that     *)
(* brought too much, storage that changed.                                 *)

Damageable == pc = "stored" /\ damage = "none" /\ given \in Fragile

Spoil(kind, cells) ==
    /\ Damageable
    /\ damage' = kind /\ file' = cells
    /\ UNCHANGED <<given, pc, at, parts, result>>

Cut == \E n \in 0..(Len(file) - 1) : Spoil("cut", SubSeq(file, 1, n))
Grow == \E v \in Written : Spoil("longer", Append(file, v))
Change == \E i \in DOMAIN file, v \in Written :
            v # file[i] /\ Spoil("changed", [file EXCEPT ![i] = v])

----------------------------------------------------------------------------
(* from_bytes: format::parse, then assemble *)

HeaderCells == 11
NodeTotal == file[4]
EdgeTotal == file[5]
PointTotal == file[10]
GeoBytes == file[11]

Expected(nodes, edges, bytes) == HeaderCells + 2 * nodes + (nodes + 1) + 6 * edges + bytes

Stop(error) ==
    /\ pc' = "done" /\ result' = error
    /\ UNCHANGED <<given, file, damage, at, parts>>

HeaderError ==
    IF Len(file) < 1 THEN "Truncated"
    ELSE IF file[1] # Magic THEN "BadMagic"
    ELSE IF Len(file) < 3 THEN "Truncated"
    ELSE IF file[2] # Version THEN "UnsupportedVersion"
    ELSE IF Len(file) < HeaderCells THEN "Truncated"
    ELSE IF Len(file) < Expected(NodeTotal, EdgeTotal, GeoBytes) THEN "Truncated"
    ELSE IF Len(file) > Expected(NodeTotal, EdgeTotal, GeoBytes) THEN "trailing bytes"
    ELSE None

RefuseHeader == pc = "stored" /\ HeaderError # None /\ Stop(HeaderError)

\* Points of two cells each after position p.
ReadPoints(p, n) == [i \in 1..n |-> <<Signed(file[p + 2 * i - 1]), Signed(file[p + 2 * i])>>] \o <<>>

ReadHeader ==
    /\ pc = "stored" /\ HeaderError = None
    /\ LET box == ReadPoints(5, 2)
       IN  parts' = [parts EXCEPT !.flags = BitSet(file[3]),
                                  !.bbox = [min |-> box[1], max |-> box[2]]]
    /\ at' = HeaderCells /\ pc' = "nodes"
    /\ UNCHANGED <<given, file, damage, result>>

ReadNodes ==
    /\ pc = "nodes"
    /\ parts' = [parts EXCEPT
                    !.nodes = ReadPoints(at, NodeTotal),
                    !.offsets = SubSeq(file, at + 2 * NodeTotal + 1, at + 3 * NodeTotal + 1)]
    /\ at' = at + 3 * NodeTotal + 1 /\ pc' = "edges"
    /\ UNCHANGED <<given, file, damage, result>>

FlagsOf(i) == BitSet(file[at + 6 * (i - 1) + 5])
KnownFlags == \A i \in 1..EdgeTotal : FlagsOf(i) \subseteq {0}

RefuseEdges == pc = "edges" /\ ~KnownFlags /\ Stop("unknown edge flag bits")

ReadEdges ==
    /\ pc = "edges" /\ KnownFlags
    /\ LET Cell(i, k) == file[at + 6 * (i - 1) + k]
       IN  parts' = [parts EXCEPT !.edges = [i \in 1..EdgeTotal |->
                        [target |-> Cell(i, 1), length_dm |-> Cell(i, 2), geo_off |-> Cell(i, 3),
                         geo_len |-> Cell(i, 4), reversed |-> 0 \in FlagsOf(i),
                         access |-> BitSet(Cell(i, 6))]] \o <<>>]
    /\ at' = at + 6 * EdgeTotal /\ pc' = "geometry"
    /\ UNCHANGED <<given, file, damage, result>>

\* decode_geometry: one point, if there is another and it can be read.
MorePoints == pc = "geometry" /\ Len(parts.geometry) < PointTotal

ReadPoint ==
    LET north == ReadVarint(at)
        east == ReadVarint(north.at)
        prev == Previous(parts.geometry, Len(parts.geometry) + 1)
        Onward(x, u) == Wrapping(x + ZigzagDecode(u))
    IN  /\ MorePoints
        /\ north.error = None /\ east.error = None
        /\ parts' = [parts EXCEPT !.geometry = Append(@,
                        <<Onward(Lat(prev), north.value), Onward(Lon(prev), east.value)>>)]
        /\ at' = east.at
        /\ UNCHANGED <<given, file, damage, pc, result>>

RefusePoint ==
    LET north == ReadVarint(at)
        error == IF north.error # None THEN north.error ELSE ReadVarint(north.at).error
    IN  MorePoints /\ error # None /\ Stop(error)

AllPoints == pc = "geometry" /\ ~MorePoints

\* Faulty: what is left over is ignored.
BugNothingLeft == FALSE

Leftover == at # Len(file)

RefuseLeftover == AllPoints /\ Leftover /\ Stop("geometry section has trailing bytes")

Finish == AllPoints /\ ~Leftover /\ Stop(Answer(Assemble(parts)))

\* The verdict stands.
Settled == pc \in {"done", "refused"} /\ UNCHANGED vars

Next ==
    \/ FromParts
    \/ Cut \/ Grow \/ Change
    \/ RefuseHeader \/ ReadHeader
    \/ ReadNodes
    \/ RefuseEdges \/ ReadEdges
    \/ ReadPoint \/ RefusePoint
    \/ RefuseLeftover \/ Finish
    \/ Settled

Spec == Init /\ [][Next]_vars

----------------------------------------------------------------------------
(* Properties *)

Accepted == pc = "done" /\ result = "Ok"
Loads(p) == [shifted |-> 0 \in p.flags, bbox |-> p.bbox, nodes |-> p.nodes,
             offsets |-> p.offsets, edges |-> p.edges, geometry |-> p.geometry]

\* What was serialized and not touched is read back as it was given.
RoundTrip ==
    pc = "done" /\ damage = "none" =>
        result = "Ok" /\ parts = Boxed(given)

\* A file that lost its end, or got one cell more, is never taken for a graph
\* (no prefix of a graph is a graph); and one changed cell, a count included,
\* never makes it a graph of fewer or more nodes, edges or points.
OnlyWholeFiles ==
    Accepted =>
        /\ damage \notin {"cut", "longer"}
        /\ Len(parts.nodes) = Len(given.nodes)
        /\ Len(parts.edges) = Len(given.edges)
        /\ Len(parts.geometry) = Len(given.geometry)

\* The accessors of an accepted graph index within their sections, from any
\* node and any edge: every edge has one source, and it is found; every shape
\* point is in the pool.
AcceptedIsSafe ==
    Accepted =>
        LET g == Loads(parts)
        IN  /\ \A n \in NodeIndices(g) : EdgesFrom(g, n) \subseteq EdgeIndices(g)
            /\ \A e \in EdgeIndices(g) :
                /\ {EdgeSource(g, e), At(g.edges, e).target} \subseteq NodeIndices(g)
                /\ e \in EdgesFrom(g, EdgeSource(g, e))
                /\ LET road == At(g.edges, e)
                   IN  \A k \in 1..road.geo_len : road.geo_off + k \in DOMAIN g.geometry

\* The frame of an accepted graph and the longitudes it shows are two views of
\* the same points: what node_latlon shows is within +-180, and a query made
\* there is looked up where the node is (D25).
FrameIsOneToOne ==
    Accepted =>
        LET g == Loads(parts)
        IN  \A p \in {g.nodes[i] : i \in DOMAIN g.nodes} :
                LET lon == WrapLon(Lon(p))
                IN  /\ -HalfCircle <= lon /\ lon <= HalfCircle
                    /\ NormalizeQueryLon(g, lon) = Lon(p)
=============================================================================
