----------------------------- MODULE MCNetwork -----------------------------
(* Small extracts in degrees: every network of a few junctions with up to  *)
(* MaxSegments roads, at most one of them a footway, and every road        *)
(* through all the nodes, in whatever order they are numbered; five nodes  *)
(* in every arrangement around the seam, on ways that repeat, skip and     *)
(* double refs; and three nodes anywhere on the globe.                     *)
EXTENDS Network, TLC

CONSTANTS MaxSegments, Junctions

All == {"car", "foot"}
Masks == {All, {"foot"}, {"car"}}

Way(refs, highway) == [refs |-> refs, highway |-> highway]
Nodes1(f) == [i \in DOMAIN f |-> [id |-> i, at |-> f[i]]] \o <<>>
\* A record of a node that a later one replaces.
Older(id) == <<[id |-> id, at |-> <<-10, 60>>]>>
Road == "residential"
Foot == "footway"

----------------------------------------------------------------------------
(* Networks *)

\* All distances differ.
Town == <<<<70, 100>>, <<-25, 150>>, <<70, 55>>, <<-65, 80>>, <<-75, 110>>,
          <<45, 5>>, <<50, 115>>>>

RoadPairs == {e \in (1..Junctions) \X (1..Junctions) : e[1] < e[2]}

\* The nodes used are the first ones: only their order matters.
RoadSets ==
    {roads \in SUBSET RoadPairs :
        /\ Cardinality(roads) <= MaxSegments
        /\ LET used == {e[1] : e \in roads} \cup {e[2] : e \in roads}
           IN  used = 1..Cardinality(used)}

\* At most one segment is a footway; it counts for one more, and for a
\* junction.
Plans ==
    {<<roads, f>> \in RoadSets \X ({{}} \cup {{e} : e \in RoadPairs}) :
        /\ f \subseteq roads
        /\ f # {} => /\ Cardinality(roads) < MaxSegments
                     /\ \A e \in roads : e[2] < Junctions}

MapOf(roads, footways) ==
    [ways |-> Sorted({Way(e, IF e \in footways THEN Foot ELSE Road) : e \in roads},
                LAMBDA v, w : \/ v.refs[1] < w.refs[1]
                              \/ v.refs[1] = w.refs[1] /\ v.refs[2] < w.refs[2]),
     nodes |-> Nodes1(Town), keep |-> All]

\* Long enough for a split whose remainder has a shape of its own.
LongRoads ==
    {[ways |-> <<Way(order, Road)>>, nodes |-> Older(1) \o Nodes1(Town), keep |-> All] :
        order \in {o \in Permutations(1..Size) : o[1] < o[Size]}}

TownExtracts == {MapOf(plan[1], plan[2]) : plan \in Plans}

----------------------------------------------------------------------------
(* Around the seam *)

Corners == {<<0, 179>>, <<0, 180>>, <<0, -180>>, <<10, -180>>, <<0, -175>>}

\* Two roads that may meet at the seam; overlapping ways; a repeated ref, one
\* without coordinates, a way nobody may use and one of a single ref.
WayLists ==
    {<<Way(<<1, 2, 3>>, Road), Way(<<4, 5>>, "motorway")>>,
     <<Way(<<1, 2>>, Road), Way(<<3, 4>>, Foot), Way(<<2, 4, 5>>, Foot)>>,
     <<Way(<<2, 2, 9, 3, 1>>, Road), Way(<<4, 1>>, "proposed"), Way(<<5>>, Road),
       Way(<<1, 5>>, "motorway"), Way(<<3, 5, 1>>, Foot)>>}

\* The third node has an older record.
SeamExtracts ==
    {[ways |-> list, keep |-> All, nodes |-> Older(3) \o Nodes1(f)] :
        list \in WayLists, f \in [1..5 -> Corners]}
    \cup
    {[ways |-> list, keep |-> keep, nodes |-> Nodes1(<<p, q, <<0, 180>>, <<0, -180>>, p>>)] :
        list \in WayLists, keep \in {{"foot"}, {"car"}}, p \in Corners, q \in Corners}

----------------------------------------------------------------------------
(* Frames *)

Meridians == {-180, -170, -150, -149, -90, 0, 90, 149, 150, 170, 180}

FrameExtracts ==
    {[ways |-> <<Way(<<1, 2, 3>>, Road)>>, keep |-> All,
      nodes |-> Nodes1(<<<<0, x>>, <<0, y>>, <<0, z>>>>)] :
        x \in Meridians, y \in Meridians, z \in Meridians}

FrameInit == extract \in FrameExtracts /\ NInit

MCInit ==
    /\ \/ extract \in TownExtracts
       \/ extract \in LongRoads
       \/ extract \in SeamExtracts
       \/ extract \in FrameExtracts
    /\ NInit

FrameSpec == FrameInit /\ [][NNext]_nvars
MCSpec == MCInit /\ [][NNext]_nvars
=============================================================================
