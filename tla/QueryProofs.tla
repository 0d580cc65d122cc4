---------------------------- MODULE QueryProofs ----------------------------
(***************************************************************************)
(* What a call of the core library answers, for every graph the builder    *)
(* wrote, every call, cutoff and client.                                   *)
(*                                                                         *)
(* A leg is straight when no route joins its ends.  The edges a simple     *)
(* route can reach are those the saturation of Component reaches, so       *)
(* fallback is set exactly if some leg so far is bridged (LegsInv).        *)
(*                                                                         *)
(* What the legs append begins and ends at snaps and passes all of them    *)
(* (Through).  Dropping repeated points keeps that, and a repetition that  *)
(* wrapping brings about is of a node beyond the meridian (Drawn).         *)
(*                                                                         *)
(* A shape is a way along its road, forwards or backwards (Leads).  What a *)
(* leg appends is such ways laid end to end, with the waypoints standing   *)
(* where they are joined (Tracked); the tidying keeps that (TrackInv).     *)
(*                                                                         *)
(* The search keeps the best of what the rings offered (Scanned).  A point *)
(* in a cell rho rings away is more than rho - 1 cells away along an axis, *)
(* so the bound that ends the search is below its distance, and the        *)
(* direction of a road that is not filed has the same projections.         *)
(***************************************************************************)
EXTENDS Clients, SequenceTheorems, Induction

----------------------------------------------------------------------------
(* Graphs *)

Edge(G, e) == At(G.edges, e)
Source(G, e) == EdgeSource(G, e)

LEMMA NodesAreSome ==
    ASSUME NEW G, IsGraph(G)
    PROVE  /\ NodeCount(G) \in Nat /\ NodeIndices(G) = 0..(NodeCount(G) - 1)
           /\ \A n \in NodeIndices(G) : At(G.nodes, n) \in Places(G)
<1>1. PICK s \in Seq(Places(G)) : s = G.nodes
  BY DEF IsGraph
<1>2. PICK N \in Nat : N = Len(s)
  OBVIOUS
<1>3. NodeCount(G) = N /\ NodeIndices(G) = 0..(N - 1)
  BY <1>1, <1>2 DEF NodeCount, NodeIndices
<1>4. ASSUME NEW n \in NodeIndices(G) PROVE At(G.nodes, n) \in Places(G)
  <2>1. n + 1 \in 1..Len(s)
    BY <1>2, <1>3
  <2>2. s[n + 1] \in Places(G)
    BY <1>1, <2>1, ElementOfSeq
  <2> QED
    BY <1>1, <2>2 DEF At
<1> QED
  BY <1>3, <1>4

LEMMA EdgesAreRoads ==
    ASSUME NEW G, IsGraph(G)
    PROVE  /\ Len(G.edges) \in Nat
           /\ \A e \in EdgeIndices(G) : Edge(G, e) \in Roads(G)
<1>1. PICK s \in Seq(Roads(G)) : s = G.edges
  BY DEF IsGraph
<1>2. PICK N \in Nat : N = Len(s)
  OBVIOUS
<1>4. ASSUME NEW e \in EdgeIndices(G) PROVE Edge(G, e) \in Roads(G)
  <2>1. e + 1 \in 1..Len(s)
    BY <1>1, <1>2 DEF EdgeIndices
  <2>2. s[e + 1] \in Roads(G)
    BY <1>1, <2>1, ElementOfSeq
  <2> QED
    BY <1>1, <2>2 DEF At, Edge
<1> QED
  BY <1>1, <1>2, <1>4

LEMMA RoadFields ==
    ASSUME NEW G, NEW e, Edge(G, e) \in Roads(G)
    PROVE  /\ Edge(G, e).target \in NodeIndices(G)
           /\ Edge(G, e).length_dm \in Nat /\ Edge(G, e).length_dm # 0
           /\ Edge(G, e).geo_off \in Nat /\ Edge(G, e).geo_len \in Nat
           /\ Edge(G, e).access \in SUBSET Profiles /\ Edge(G, e).reversed \in BOOLEAN
  BY DEF Roads

LEMMA EdgesInRows ==
    ASSUME NEW G, IsGraph(G)
    PROVE  /\ \A n \in NodeIndices(G) : EdgesFrom(G, n) \subseteq EdgeIndices(G)
           /\ \A e \in EdgeIndices(G) : /\ Source(G, e) \in NodeIndices(G)
                                        /\ e \in EdgesFrom(G, Source(G, e))
           /\ \A n \in NodeIndices(G) : \A e \in EdgesFrom(G, n) : Source(G, e) = n
<1>0. PICK o : o = G.offsets
  OBVIOUS
<1>1. PICK N \in Nat, M \in Nat :
        /\ N = NodeCount(G) /\ M = Len(G.edges) /\ o = G.offsets
        /\ NodeIndices(G) = 0..(N - 1)
  BY <1>0, NodesAreSome, EdgesAreRoads
<1>2. AreRows(o, N, M)
  <2>1. /\ o \in [1..(N + 1) -> Nat] /\ o[1] = 0 /\ o[N + 1] = M
        /\ \A n \in 0..(N - 1) : o[n + 1] <= o[(n + 1) + 1]
    BY <1>1 DEF IsGraph, IsCsr, At
  <2>2. ASSUME NEW i \in 1..N PROVE o[i] <= o[i + 1]
    <3>1. i - 1 \in 0..(N - 1) /\ (i - 1) + 1 = i
      OBVIOUS
    <3> QED
      BY <2>1, <3>1
  <2> QED
    BY <2>1, <2>2 DEF AreRows
<1>3. o \in [1..(N + 1) -> Nat]
  BY <1>2 DEF AreRows
<1>4. EdgeIndices(G) = 0..(M - 1)
  BY <1>1 DEF EdgeIndices
<1>5. ASSUME NEW n \in NodeIndices(G) PROVE EdgesFrom(G, n) \subseteq EdgeIndices(G)
  <2>1. n + 1 \in 1..N /\ n + 1 \in 1..(N + 1) /\ (n + 1) + 1 \in 1..(N + 1)
    BY <1>1
  <2>2. \A i \in 1..N : o[i + 1] <= M
    BY <1>2, RowsCover
  <2>3. PICK x \in Nat, y \in Nat : x = o[n + 1] /\ y = o[(n + 1) + 1] /\ y <= M
    BY <1>3, <2>1, <2>2
  <2>4. EdgesFrom(G, n) = x..(y - 1)
    BY <1>1, <2>3 DEF EdgesFrom, At
  <2>5. x..(y - 1) \subseteq 0..(M - 1)
    BY ONLY <2>3, x \in Nat, y \in Nat, M \in Nat
  <2> QED
    BY ONLY <1>4, <2>4, <2>5
<1>6. ASSUME NEW e \in EdgeIndices(G)
      PROVE  Source(G, e) \in NodeIndices(G) /\ e \in EdgesFrom(G, Source(G, e))
  <2>1. PICK m \in 1..N : InRow(o, N, e, m)
    BY <1>2, <1>4, RowsCover
  <2>2. Source(G, e) = m - 1
    <3>1. {i \in DOMAIN G.offsets : G.offsets[i] <= e} = 1..m
      BY <1>1, <1>3, <2>1 DEF InRow
    <3>2. Cardinality(1..m) = m
      BY FS_Interval
    <3> QED
      BY <3>1, <3>2 DEF EdgeSource, Source
  <2>3. m - 1 \in 0..(N - 1)
    OBVIOUS
  <2>4. e \in EdgesFrom(G, m - 1)
    <3>1. EdgesFrom(G, m - 1) = o[(m - 1) + 1]..(o[((m - 1) + 1) + 1] - 1)
      BY <1>1 DEF EdgesFrom, At
    <3>2. (m - 1) + 1 = m /\ o[m] \in Nat /\ o[m + 1] \in Nat
      BY <1>3
    <3> QED
      BY <1>4, <2>1, <3>1, <3>2 DEF InRow
  <2> QED
    BY <1>1, <2>2, <2>3, <2>4
<1>7. ASSUME NEW n \in NodeIndices(G), NEW e \in EdgesFrom(G, n) PROVE Source(G, e) = n
  <2>1. e \in EdgeIndices(G) /\ n + 1 \in 1..N /\ (n + 1) + 1 \in 1..(N + 1)
    BY <1>1, <1>5
  <2>2. PICK m \in 1..N : InRow(o, N, e, m)
    BY <1>2, <1>4, <2>1, RowsCover
  <2>3. Source(G, e) = m - 1
    <3>1. {i \in DOMAIN G.offsets : G.offsets[i] <= e} = 1..m
      BY <1>1, <1>3, <2>2 DEF InRow
    <3>2. Cardinality(1..m) = m
      BY FS_Interval
    <3> QED
      BY <3>1, <3>2 DEF EdgeSource, Source
  <2>4. PICK x \in Nat, y \in Nat : x = o[n + 1] /\ y = o[(n + 1) + 1]
    BY <1>3, <2>1
  <2>5. e \in Int /\ x <= e /\ e < y
    <3>1. At(G.offsets, n) = x /\ At(G.offsets, n + 1) = y
      BY <1>1, <2>4 DEF At
    <3>2. e \in x..(y - 1)
      BY <3>1 DEF EdgesFrom
    <3> QED
      BY ONLY <2>4, <3>2
  <2>6. \A i \in 1..(N + 1) : o[i] <= e <=> i \in 1..m
    BY <2>2 DEF InRow
  <2>7. n + 1 \in 1..m /\ (n + 1) + 1 \notin 1..m
    <3>1. n + 1 \in 1..(N + 1)
      BY <2>1
    <3> QED
      BY <2>1, <2>4, <2>5, <2>6, <3>1
  <2>8. PICK w \in Int : w = n + 1 /\ w <= m /\ ~ (w + 1 <= m)
    BY <1>1, <2>7
  <2>9. m = n + 1
    BY <2>8
  <2> QED
    BY <1>1, <2>3, <2>9
<1> QED
  BY <1>5, <1>6, <1>7

LEMMA ShapeInPlaces ==
    ASSUME NEW G, IsGraph(G), NEW e \in EdgeIndices(G), NEW k \in 0..(Edge(G, e).geo_len + 1)
    PROVE  ShapePoint(G, e, k) \in Places(G)
<1>1. PICK edge \in Roads(G) : edge = Edge(G, e)
  BY EdgesAreRoads
<1>2. /\ edge.target \in NodeIndices(G) /\ edge.geo_off \in Nat /\ edge.geo_len \in Nat
  BY <1>1, RoadFields
<1>3. edge.geo_off + edge.geo_len <= Len(G.geometry)
  BY <1>1 DEF IsGraph, Edge
<1>4. CASE k = 0
  <2>1. At(G.nodes, EdgeSource(G, e)) \in Places(G)
    BY EdgesInRows, NodesAreSome DEF Source
  <2> QED
    BY <1>4, <2>1 DEF ShapePoint
<1>5. CASE k = edge.geo_len + 1
  <2>1. k # 0 /\ At(G.nodes, edge.target) \in Places(G)
    BY <1>2, <1>5, NodesAreSome
  <2> QED
    BY <1>1, <1>5, <2>1 DEF ShapePoint, Edge
<1>6. CASE k # 0 /\ k # edge.geo_len + 1
  <2>1. PICK L \in Nat, f \in Nat : L = edge.geo_len /\ f = edge.geo_off
    BY <1>2
  <2>2. k \in 1..L
    BY <1>1, <1>6, <2>1
  <2>3. PICK i \in Int : i = IF edge.reversed THEN L - k ELSE k - 1
    <3>1. edge.reversed => L - k \in Int
      BY <2>2
    <3>2. k - 1 \in Int
      BY <2>2
    <3> QED
      BY <3>1, <3>2, Zenon
  <2>4. i \in 0..(L - 1)
    BY ONLY <2>2, <2>3, L \in Nat
  <2>5. PICK s \in Seq(Places(G)) : s = G.geometry
    BY DEF IsGraph
  <2>6. PICK P \in Nat : P = Len(s)
    OBVIOUS
  <2>7. (f + i) + 1 \in 1..P
    <3>1. f + L <= P
      BY <1>3, <2>1, <2>5, <2>6
    <3> QED
      BY ONLY <2>4, <3>1, f \in Nat, L \in Nat, P \in Nat
  <2>8. s[(f + i) + 1] \in Places(G)
    BY <2>5, <2>6, <2>7, ElementOfSeq
  <2>9. ShapePoint(G, e, k) = G.geometry[(f + i) + 1]
    BY <1>1, <1>6, <2>1, <2>3 DEF ShapePoint, Edge, At
  <2> QED
    BY <2>5, <2>8, <2>9
<1> QED
  BY <1>1, <1>4, <1>5, <1>6

----------------------------------------------------------------------------
(* What can be reached *)

\* S and the targets of the usable roads out of it.
Onward(S) ==
    S \cup {At(g.edges, e).target :
              e \in {x \in UNION {EdgesFrom(g, m) : m \in S} : Usable(g, x, Mask)}}

Closed(S) == \A m \in S : \A e \in EdgesFrom(g, m) : Usable(g, e, Mask) => Edge(g, e).target \in S

GrowsFrom(grow, n) ==
    /\ grow \in [0..NodeCount(g) -> SUBSET NodeIndices(g)]
    /\ grow[0] = {n}
    /\ \A k \in 1..NodeCount(g) : grow[k] = Onward(grow[k - 1])

LEMMA OnwardIsNodes ==
    ASSUME IsGraph(g), NEW S \in SUBSET NodeIndices(g)
    PROVE  Onward(S) \in SUBSET NodeIndices(g)
<1>1. ASSUME NEW m \in S, NEW e \in EdgesFrom(g, m) PROVE At(g.edges, e).target \in NodeIndices(g)
  <2>1. e \in EdgeIndices(g)
    BY EdgesInRows
  <2> QED
    BY <2>1, EdgesAreRoads, RoadFields DEF Edge
<1> QED
  BY <1>1 DEF Onward

LEMMA OnwardClosed ==
    ASSUME NEW S
    PROVE  Closed(S) <=> Onward(S) = S
  BY DEF Onward, Closed, Edge

LEMMA ComponentGrows ==
    ASSUME IsGraph(g), NEW n \in NodeIndices(g)
    PROVE  \E grow : GrowsFrom(grow, n) /\ Component(n) = grow[NodeCount(g)]
<1> DEFINE T == SUBSET NodeIndices(g)
           N == NodeCount(g)
           rule == [p \in ((0 + 1)..N) \X T |-> Onward(p[2])]
           Rule(r) ==
               r = [k \in 0..NodeCount(g) |->
                       IF k = 0 THEN {n}
                       ELSE LET nearer == r[k - 1]
                                out == UNION {EdgesFrom(g, m) : m \in nearer}
                            IN  nearer \cup {At(g.edges, e).target :
                                                e \in {x \in out : Usable(g, x, Mask)}}]
           grow == CHOOSE r : Rule(r)
<1>1. N \in Nat /\ {n} \in T
  BY NodesAreSome
<1>2. IsRule(rule, 0, N, T)
  <2>1. \A p \in ((0 + 1)..N) \X T : Onward(p[2]) \in T
    BY OnwardIsNodes
  <2> QED
    BY <2>1 DEF IsRule
<1>3. PICK r \in [0..N -> T] : r[0] = {n} /\ Follows(r, rule, 0, N)
  <2> HIDE DEF rule, T, N
  <2> QED
    BY <1>1, <1>2, RecursionExists
<1>4. ASSUME NEW k \in 1..N PROVE r[k] = Onward(r[k - 1])
  <2>1. k - 1 \in 0..N /\ k \in (0 + 1)..N
    BY <1>1
  <2>2. <<k, r[k - 1]>> \in ((0 + 1)..N) \X T
    BY <1>3, <2>1
  <2> QED
    BY <1>3, <2>1, <2>2 DEF Follows
<1>5. Rule(r)
  <2>1. r = [k \in 0..N |-> r[k]]
    BY <1>3
  <2>2. ASSUME NEW k \in 0..N
        PROVE  r[k] = IF k = 0 THEN {n} ELSE Onward(r[k - 1])
    <3>1. CASE k = 0
      BY <1>3, <3>1
    <3>2. CASE k # 0
      <4>1. k \in 1..N
        BY <1>1, <3>2
      <4> QED
        BY <1>4, <3>2, <4>1
    <3> QED
      BY <3>1, <3>2
  <2> QED
    BY <2>1, <2>2 DEF Onward
<1>6. Rule(grow)
  BY <1>5
<1>7. Component(n) = grow[N]
  BY DEF Component
<1> HIDE DEF grow
<1>8. ASSUME NEW k \in 0..N PROVE grow[k] = IF k = 0 THEN {n} ELSE Onward(grow[k - 1])
  BY <1>6 DEF Onward
<1>9. grow = r
  <2> DEFINE S == {k \in 0..N : grow[k] = r[k]}
  <2>1. 0 \in S
    <3>1. 0 \in 0..N
      BY <1>1
    <3>2. grow[0] = r[0]
      BY <1>3, <1>8, <3>1
    <3> HIDE DEF N
    <3> QED
      BY <3>1, <3>2
  <2>2. ASSUME NEW k \in Int, 0 <= k, k < N, k \in S PROVE k + 1 \in S
    <3>1. k + 1 \in 0..N /\ k + 1 \in 1..N /\ k + 1 # 0 /\ (k + 1) - 1 = k
      BY <1>1, <2>2
    <3>2. grow[k + 1] = Onward(grow[k]) /\ r[k + 1] = Onward(r[k])
      BY <1>4, <1>8, <3>1
    <3> QED
      BY <2>2, <3>1, <3>2
  <2>3. \A k \in 0..N : k \in S
    <3> HIDE DEF S
    <3>1. N \in Int /\ 0 \in Int
      BY <1>1
    <3> HIDE DEF N
    <3> QED
      BY <2>1, <2>2, <3>1, UpFrom
  <2>4. grow = [k \in 0..N |-> grow[k]] /\ r = [k \in 0..N |-> r[k]]
    BY <1>3, <1>6
  <2> QED
    BY <2>3, <2>4
<1>10. GrowsFrom(r, n)
  BY <1>3, <1>4 DEF GrowsFrom
<1> QED
  BY <1>7, <1>9, <1>10

\* A component is closed: as long as it grows it gains a node in every round,
\* and there are no more nodes than rounds.
LEMMA ComponentClosed ==
    ASSUME IsGraph(g), NEW n \in NodeIndices(g)
    PROVE  n \in Component(n) /\ Closed(Component(n)) /\ Component(n) \in SUBSET NodeIndices(g)
<1>1. PICK grow : GrowsFrom(grow, n) /\ Component(n) = grow[NodeCount(g)]
  BY ComponentGrows
<1>2. PICK N \in Nat : N = NodeCount(g) /\ NodeIndices(g) = 0..(N - 1)
  BY NodesAreSome
<1>3. /\ grow \in [0..N -> SUBSET NodeIndices(g)] /\ grow[0] = {n}
      /\ \A k \in 1..N : grow[k] = Onward(grow[k - 1])
  BY <1>1, <1>2 DEF GrowsFrom
<1>4. IsFiniteSet(NodeIndices(g)) /\ Cardinality(NodeIndices(g)) = N
  <2>1. IsFiniteSet(0..(N - 1)) /\ Cardinality(0..(N - 1)) = N
    BY FS_Interval
  <2> QED
    BY <1>2, <2>1
<1> DEFINE S == {k \in 0..N : /\ n \in grow[k]
                              /\ Closed(grow[k]) \/ Cardinality(grow[k]) >= k + 1}
<1>5. 0 \in S
  <2>1. Cardinality(grow[0]) = 1 /\ n \in grow[0]
    BY <1>3, FS_Singleton
  <2>2. 0 \in 0..N /\ 1 >= 0 + 1
    OBVIOUS
  <2> QED
    BY <2>1, <2>2
<1>6. ASSUME NEW k \in Int, 0 <= k, k < N, k \in S PROVE k + 1 \in S
  <2>1. k + 1 \in 1..N /\ k + 1 \in 0..N /\ (k + 1) - 1 = k /\ k \in 0..N
    BY <1>6
  <2>2. grow[k + 1] = Onward(grow[k])
    BY <1>3, <2>1
  <2>3. grow[k] \in SUBSET NodeIndices(g) /\ grow[k + 1] \in SUBSET NodeIndices(g)
    BY <1>3, <2>1
  <2>4. grow[k] \in SUBSET grow[k + 1]
    BY <2>2 DEF Onward
  <2>5. CASE Closed(grow[k])
    <3>1. grow[k + 1] = grow[k]
      BY <2>2, <2>5, OnwardClosed
    <3> QED
      BY <1>6, <2>1, <2>5, <3>1
  <2>6. CASE ~Closed(grow[k])
    <3>1. Cardinality(grow[k]) >= k + 1
      BY <1>6, <2>6
    <3>2. grow[k + 1] # grow[k]
      BY <2>2, <2>6, OnwardClosed
    <3>3. PICK x \in grow[k + 1] : x \notin grow[k]
      BY <2>4, <3>2
    <3>4. IsFiniteSet(grow[k]) /\ IsFiniteSet(grow[k + 1])
      BY <1>4, <2>3, FS_Subset
    <3>5. IsFiniteSet(grow[k] \cup {x}) /\ Cardinality(grow[k] \cup {x}) = Cardinality(grow[k]) + 1
      BY <3>3, <3>4, FS_AddElement
    <3>6. Cardinality(grow[k] \cup {x}) <= Cardinality(grow[k + 1])
      <4>1. grow[k] \cup {x} \in SUBSET grow[k + 1]
        BY <2>4, <3>3
      <4> QED
        BY <3>4, <4>1, FS_Subset
    <3>7. PICK c \in Nat, d \in Nat : c = Cardinality(grow[k]) /\ d = Cardinality(grow[k + 1])
      BY <3>4, FS_CardinalityType
    <3>8. d >= (k + 1) + 1
      BY ONLY <1>6, <3>1, <3>5, <3>6, <3>7, k \in Int
    <3> QED
      BY <1>6, <2>1, <2>4, <3>7, <3>8
  <2> QED
    BY <2>5, <2>6
<1>7. N \in S
  <2>1. \A k \in 0..N : k \in S
    <3> HIDE DEF S
    <3> QED
      BY <1>5, <1>6, UpFrom
  <2> QED
    BY <2>1
<1>8. grow[N] \in SUBSET NodeIndices(g) /\ Cardinality(grow[N]) <= N
  <2>1. grow[N] \in SUBSET NodeIndices(g)
    BY <1>3
  <2> QED
    BY <1>4, <2>1, FS_Subset
<1>9. Cardinality(grow[N]) \in Nat
  BY <1>4, <1>8, FS_Subset, FS_CardinalityType
<1>10. ~ (Cardinality(grow[N]) >= N + 1)
  BY <1>8, <1>9
<1> QED
  BY <1>1, <1>2, <1>7, <1>8, <1>10

----------------------------------------------------------------------------
(* Distances *)

LEMMA SquareOrder ==
    ASSUME NEW x \in Int
    PROVE  x * x \in Int /\ x * x >= 0
<1>1. CASE x >= 0
  BY <1>1
<1>2. CASE x < 0
  <2>1. PICK y \in Int : y = -x /\ y >= 0
    BY <1>2
  <2>2. y * y >= 0 /\ y * y = x * x
    BY <2>1
  <2> QED
    BY <2>2
<1> QED
  BY <1>1, <1>2

LEMMA RootExists ==
    ASSUME NEW x \in Nat
    PROVE  RoundedRoot(x) \in 0..x
<1> DEFINE Far == {k \in Nat : 4 * x < (2 * k + 1) * (2 * k + 1)}
<1>1. x \in Far
  <2>1. (2 * x + 1) * (2 * x + 1) = 4 * (x * x) + 4 * x + 1
    OBVIOUS
  <2>2. x * x \in Int /\ x * x >= 0
    BY SquareOrder
  <2>3. PICK y \in Int : y = x * x
    BY <2>2
  <2> QED
    BY <2>1, <2>2, <2>3
<1>2. PICK k \in Far : \A j \in Far : k <= j
  <2>1. Far \in SUBSET Nat
    OBVIOUS
  <2> HIDE DEF Far
  <2> QED
    BY <1>1, <2>1, LeastNatural
<1>3. k \in 0..x
  BY <1>1, <1>2
<1>4. k > 0 => (2 * k - 1) * (2 * k - 1) <= 4 * x
  <2> SUFFICES ASSUME k > 0 PROVE (2 * k - 1) * (2 * k - 1) <= 4 * x
    OBVIOUS
  <2>1. k - 1 \in Nat /\ k - 1 \notin Far
    BY <1>2
  <2>2. PICK y \in Int : y = (2 * (k - 1) + 1) * (2 * (k - 1) + 1)
    BY <2>1
  <2>3. ~ (4 * x < y)
    BY <2>1, <2>2
  <2>4. y = (2 * k - 1) * (2 * k - 1)
    <3>1. 2 * (k - 1) + 1 = 2 * k - 1
      BY <1>2
    <3> QED
      BY <2>2, <3>1
  <2> QED
    BY <2>2, <2>3, <2>4
<1>5. \E j \in 0..x : /\ 4 * x < (2 * j + 1) * (2 * j + 1)
                      /\ j > 0 => (2 * j - 1) * (2 * j - 1) <= 4 * x
  BY <1>2, <1>3, <1>4
<1> QED
  BY <1>5 DEF RoundedRoot

LEMMA DistanceTypes ==
    ASSUME NEW p \in Point, NEW q \in Point
    PROVE  Distance2(p, q) \in Nat /\ Distance(p, q) \in Nat
<1>1. /\ p[1] \in Int /\ p[2] \in Int /\ q[1] \in Int /\ q[2] \in Int
  BY DEF Point
<1>2. PICK H \in Nat : H = HalfCircle /\ H > 0
  BY UnitAssumption
<1>3. PICK d \in Int : d = q[2] - p[2]
  BY <1>1
<1>4. PICK east \in Int : east = d % (2 * H)
  BY <1>2, <1>3
<1>5. PICK across \in Int : across = IF east > HalfCircle THEN 2 * HalfCircle - east ELSE east
  BY <1>2, <1>4
<1>6. PICK up \in Int : up = q[1] - p[1]
  BY <1>1
<1>7. PICK u \in Nat, v \in Nat : u = up * up /\ v = across * across
  BY SquareOrder
<1>8. Distance2(p, q) = u + v
  BY <1>2, <1>3, <1>4, <1>5, <1>6, <1>7 DEF Distance2, Lat, Lon
<1>9. u + v \in Nat
  OBVIOUS
<1> QED
  BY <1>8, <1>9, RootExists DEF Distance

LEMMA DmIsInt ==
    ASSUME NEW x \in Int
    PROVE  Dm(x) \in Int
  BY UnitAssumption DEF Dm

LEMMA AlongIsInt ==
    ASSUME NEW G, IsGraph(G), NEW e \in EdgeIndices(G), NEW k \in 0..Edge(G, e).geo_len,
           NEW p \in Point
    PROVE  Along(G, e, k, p) \in Int
<1> DEFINE Part(i) == Distance(ShapePoint(G, e, i - 1), ShapePoint(G, e, i))
           d == [i \in 1..k |-> Part(i)]
           Rule(r) == r = [i \in 0..k |->
                             IF i = 0 THEN 0
                             ELSE r[i - 1] + Distance(ShapePoint(G, e, i - 1), ShapePoint(G, e, i))]
           whole == CHOOSE r : Rule(r)
<1>1. PICK L \in Nat : L = Edge(G, e).geo_len
  BY EdgesAreRoads, RoadFields
<1>2. k \in Nat /\ k <= L
  BY <1>1
<1>3. ASSUME NEW i \in 0..(L + 1) PROVE ShapePoint(G, e, i) \in Point
  BY <1>1, ShapeInPlaces DEF Places
<1>4. ASSUME NEW i \in (0 + 1)..k PROVE d[i] \in Int /\ d[i] = Part(i)
  <2>1. i \in 1..k /\ i - 1 \in 0..(L + 1) /\ i \in 0..(L + 1)
    BY <1>2
  <2>2. ShapePoint(G, e, i - 1) \in Point /\ ShapePoint(G, e, i) \in Point
    BY <1>3, <2>1
  <2>3. Part(i) \in Int
    BY <2>2, DistanceTypes
  <2> QED
    BY <2>1, <2>3
<1> HIDE DEF d
<1>5. PICK s : IsSum(s, d, 0, k)
  BY <1>2, <1>4, SumExists
<1>6. Rule(s)
  <2>1. s = [i \in 0..k |-> s[i]]
    BY <1>5 DEF IsSum
  <2>2. \A i \in 0..k : s[i] = IF i = 0 THEN 0 ELSE s[i - 1] + Part(i)
    BY <1>4, <1>5 DEF IsSum
  <2> QED
    BY <2>1, <2>2
<1>7. Rule(whole)
  BY <1>6
<1>8. Along(G, e, k, p) = whole[k] + Distance(ShapePoint(G, e, k), p)
  BY DEF Along
<1> HIDE DEF whole
<1>9. \A i \in 0..k : whole[i] = IF i = 0 THEN 0 ELSE whole[i - 1] + Part(i)
  BY <1>7
<1> DEFINE S == {i \in 0..k : whole[i] \in Int}
<1>10. 0 \in S
  <2>1. 0 \in 0..k
    BY <1>2
  <2>2. whole[0] = 0
    BY <1>9, <2>1
  <2> QED
    BY <2>1, <2>2
<1>11. ASSUME NEW i \in Int, 0 <= i, i < k, i \in S PROVE i + 1 \in S
  <2>1. i + 1 \in (0 + 1)..k /\ i + 1 \in 0..k /\ i + 1 # 0 /\ (i + 1) - 1 = i
    BY <1>2, <1>11
  <2>2. whole[i + 1] = whole[i] + Part(i + 1)
    BY <1>9, <2>1
  <2>3. Part(i + 1) \in Int
    BY <1>4, <2>1
  <2> HIDE DEF Part
  <2> QED
    BY <1>11, <2>1, <2>2, <2>3
<1>12. whole[k] \in Int
  <2>1. \A i \in 0..k : i \in S
    <3> HIDE DEF S
    <3> QED
      BY <1>2, <1>10, <1>11, UpFrom
  <2> QED
    BY <1>2, <2>1
<1>13. Distance(ShapePoint(G, e, k), p) \in Int
  <2>1. ShapePoint(G, e, k) \in Point
    BY <1>2, <1>3
  <2> QED
    BY <2>1, DistanceTypes
<1> QED
  BY <1>8, <1>12, <1>13

LEMMA DistanceAlongIsInt ==
    ASSUME NEW G, IsGraph(G), NEW e \in EdgeIndices(G), NEW k \in 0..Edge(G, e).geo_len,
           NEW p \in Point
    PROVE  DistanceAlong(G, e, k, p) \in Int
<1>1. Dm(Along(G, e, k, p)) \in Int
  BY AlongIsInt, DmIsInt
<1>2. Edge(G, e).length_dm \in Int
  BY EdgesAreRoads, RoadFields
<1> QED
  BY <1>1, <1>2 DEF DistanceAlong, Edge

----------------------------------------------------------------------------
(* Whole-number division *)

LEMMA ProductOrder ==
    ASSUME NEW n \in Nat, NEW x \in Int, NEW y \in Int, x <= y
    PROVE  n * x <= n * y
<1>1. PICK d \in Nat : d = y - x /\ y = x + d
  OBVIOUS
<1>2. n * d >= 0 /\ n * (x + d) = n * x + n * d
  OBVIOUS
<1>3. PICK u \in Int, v \in Int : u = n * x /\ v = n * d
  OBVIOUS
<1> QED
  BY ONLY <1>1, <1>2, <1>3, u \in Int, v \in Int

LEMMA Quotient ==
    ASSUME NEW z \in Int, NEW n \in Nat, n > 0
    PROVE  z \div n \in Int /\ n * (z \div n) <= z /\ z < n * (z \div n) + n
  OBVIOUS

LEMMA QuotientBetween ==
    ASSUME NEW z \in Int, NEW n \in Nat, n > 0, NEW lo \in Int, NEW hi \in Int,
           n * lo <= z, z <= n * hi
    PROVE  lo <= z \div n /\ z \div n <= hi
<1>1. PICK k \in Int : k = z \div n
  BY Quotient
<1>2. n * k <= z /\ z < n * k + n
  BY <1>1, Quotient
<1>3. lo <= k
  <2> SUFFICES ASSUME k + 1 <= lo PROVE FALSE
    OBVIOUS
  <2>1. n * (k + 1) <= n * lo
    BY ProductOrder
  <2>2. n * (k + 1) = n * k + n
    OBVIOUS
  <2>3. PICK u \in Int, v \in Int : u = n * k /\ v = n * lo
    OBVIOUS
  <2> QED
    BY <1>2, <2>1, <2>2, <2>3
<1>4. k <= hi
  <2> SUFFICES ASSUME hi + 1 <= k PROVE FALSE
    OBVIOUS
  <2>1. n * (hi + 1) <= n * k
    BY ProductOrder
  <2>2. n * (hi + 1) = n * hi + n
    OBVIOUS
  <2>3. PICK u \in Int, v \in Int : u = n * k /\ v = n * hi
    OBVIOUS
  <2> QED
    BY <1>2, <2>1, <2>2, <2>3
<1> QED
  BY <1>1, <1>3, <1>4

LEMMA QuotientOrder ==
    ASSUME NEW x \in Int, NEW y \in Int, x <= y, NEW n \in Nat, n > 0
    PROVE  x \div n <= y \div n
<1>1. PICK k \in Int, l \in Int : k = x \div n /\ l = y \div n
  BY Quotient
<1>2. n * k <= x /\ y < n * l + n
  BY <1>1, Quotient
<1>3. n * (l + 1) = n * l + n
  OBVIOUS
<1> SUFFICES ASSUME l + 1 <= k PROVE FALSE
  BY <1>1
<1>4. n * (l + 1) <= n * k
  BY ProductOrder
<1>5. PICK u \in Int, v \in Int : u = n * k /\ v = n * l
  OBVIOUS
<1> QED
  BY <1>2, <1>3, <1>4, <1>5

\* A part of d, between nothing and all of it, is between zero and d.
LEMMA PartOf ==
    ASSUME NEW d \in Int, NEW n \in Nat, n > 0, NEW t \in 0..n
    PROVE  /\ (t * d) \div n \in Int
           /\ d >= 0 => 0 <= (t * d) \div n /\ (t * d) \div n <= d
           /\ d <= 0 => d <= (t * d) \div n /\ (t * d) \div n <= 0
<1>1. PICK z \in Int : z = t * d
  OBVIOUS
<1>2. n * 0 = 0
  OBVIOUS
<1>3. CASE d >= 0
  <2>1. d \in Nat /\ d * 0 <= d * t /\ d * t <= d * n
    <3>1. d \in Nat /\ t \in Int /\ n \in Int /\ 0 <= t /\ t <= n /\ 0 \in Int
      BY <1>3
    <3> QED
      BY <3>1, ProductOrder
  <2>2. d * 0 = 0 /\ d * t = t * d /\ d * n = n * d
    BY <1>3
  <2>3. n * 0 <= z /\ z <= n * d
    BY <1>1, <1>2, <2>1, <2>2
  <2>4. 0 <= z \div n /\ z \div n <= d
    BY <2>3, QuotientBetween
  <2> QED
    BY <1>1, <1>3, <2>4, Quotient
<1>4. CASE d <= 0
  <2>1. PICK m \in Nat : m = -d /\ d = -m
    BY <1>4
  <2>2. m * 0 <= m * t /\ m * t <= m * n
    BY ProductOrder
  <2>3. m * 0 = 0 /\ m * t = -(t * d) /\ m * n = -(n * d)
    BY <2>1
  <2>4. n * d <= z /\ z <= n * 0
    <3>1. PICK u \in Int, v \in Int : u = m * t /\ v = m * n
      OBVIOUS
    <3>2. z = -u /\ n * d = -v
      BY <1>1, <2>3, <3>1
    <3> QED
      BY <1>2, <2>2, <2>3, <3>1, <3>2
  <2>5. d <= z \div n /\ z \div n <= 0
    BY <2>4, QuotientBetween
  <2> QED
    BY <1>1, <1>4, <2>5, Quotient
<1> QED
  BY <1>3, <1>4

----------------------------------------------------------------------------
(* Projections *)

LEMMA SquaredLength ==
    ASSUME NEW dx \in Int, NEW dy \in Int
    PROVE  /\ dx * dx + dy * dy \in Nat
           /\ dx * dx + dy * dy = 0 => dx = 0 /\ dy = 0
<1>1. PICK u \in Nat, v \in Nat : u = dx * dx /\ v = dy * dy
  BY SquareOrder
<1>2. ASSUME NEW x \in Int, x # 0 PROVE x * x > 0
  <2>1. CASE x > 0
    BY <2>1
  <2>2. CASE x < 0
    <3>1. PICK y \in Nat : y = -x /\ y > 0
      BY <2>2
    <3>2. y * y > 0 /\ y * y = x * x
      BY <3>1
    <3> QED
      BY <3>2
  <2> QED
    BY <1>2, <2>1, <2>2
<1>3. u + v = 0 => u = 0 /\ v = 0
  OBVIOUS
<1> QED
  BY <1>1, <1>2, <1>3

LEMMA BetweenIsPlace ==
    ASSUME NEW G, NEW p1 \in Places(G), NEW p2 \in Places(G), NEW p \in Point,
           Between(p1, p2, p), IsGraph(G)
    PROVE  p \in Places(G)
<1>1. /\ p1[1] \in Int /\ p1[2] \in Int /\ p2[1] \in Int /\ p2[2] \in Int
      /\ p[1] \in Int /\ p[2] \in Int
  BY DEF Places, Point
<1>2. ASSUME NEW axis \in 1..2
      PROVE  \/ p1[axis] <= p[axis] /\ p[axis] <= p2[axis]
             \/ p2[axis] <= p[axis] /\ p[axis] <= p1[axis]
  <2>1. Least(p1[axis], p2[axis]) <= p[axis] /\ p[axis] <= Greatest(p1[axis], p2[axis])
    BY DEF Between
  <2>2. axis = 1 \/ axis = 2
    OBVIOUS
  <2> QED
    BY <1>1, <2>1, <2>2 DEF Least, Greatest
<1>3. /\ \/ p1[1] <= p[1] /\ p[1] <= p2[1]
         \/ p2[1] <= p[1] /\ p[1] <= p1[1]
      /\ \/ p1[2] <= p[2] /\ p[2] <= p2[2]
         \/ p2[2] <= p[2] /\ p[2] <= p1[2]
  BY <1>2
<1>4. PICK max \in Int : max = IF G.shifted THEN 2 * HalfCircle ELSE HalfCircle
  BY UnitAssumption DEF IsGraph
<1>5. PICK b1, b2 : b1 = G.bbox.min /\ b2 = G.bbox.max
  OBVIOUS
<1>6. b1[1] \in Int /\ b1[2] \in Int /\ b2[1] \in Int /\ b2[2] \in Int
  BY <1>5 DEF IsGraph, Point
<1>7. /\ b1[1] <= p1[1] /\ p1[1] <= b2[1] /\ b1[2] <= p1[2] /\ p1[2] <= b2[2]
      /\ b1[1] <= p2[1] /\ p2[1] <= b2[1] /\ b1[2] <= p2[2] /\ p2[2] <= b2[2]
  BY <1>5 DEF Places
<1>8. /\ Gap(0, p1[1]) <= QuarterCircle /\ Gap(0, p2[1]) <= QuarterCircle
      /\ Gap(0, p1[2]) <= max /\ Gap(0, p2[2]) <= max
  BY <1>4 DEF Places, Lat, Lon
<1>9. /\ b1[1] <= p[1] /\ p[1] <= b2[1] /\ b1[2] <= p[2] /\ p[2] <= b2[2]
  BY <1>1, <1>3, <1>6, <1>7
<1>10. Gap(0, p[2]) <= max
  BY <1>1, <1>3, <1>4, <1>8 DEF Gap
<1>11. Gap(0, p[1]) <= QuarterCircle
  <2>1. \/ Gap(0, p[1]) <= Gap(0, p1[1]) /\ Gap(0, p[1]) \in Int /\ Gap(0, p1[1]) \in Int
        \/ Gap(0, p[1]) <= Gap(0, p2[1]) /\ Gap(0, p[1]) \in Int /\ Gap(0, p2[1]) \in Int
    BY <1>1, <1>3 DEF Gap
  <2> QED
    BY <1>8, <2>1, QuarterAssumption
<1>12. \A axis \in 1..2 : G.bbox.min[axis] <= p[axis] /\ p[axis] <= G.bbox.max[axis]
  <2>1. \A axis \in 1..2 : axis = 1 \/ axis = 2
    OBVIOUS
  <2> QED
    BY <1>5, <1>9, <2>1
<1> QED
  BY <1>4, <1>10, <1>11, <1>12 DEF Places, Lat, Lon

\* The point of segment k of road e at t.
PointOn(G, e, k, t) ==
    LET p1 == ShapePoint(G, e, k)
        p2 == ShapePoint(G, e, k + 1)
        dx == Lon(p2) - Lon(p1)
        dy == Lat(p2) - Lat(p1)
        len2 == dx * dx + dy * dy
    IN  IF len2 = 0 THEN p1
        ELSE <<Lat(p1) + (t * dy) \div len2, Lon(p1) + (t * dx) \div len2>>

IsFound(x) == x \in [key : Nat \X Nat, t : Int, point : Point, d2 : Nat]

\* The projection of a point on a segment, from the segment's two ends.
LEMMA ProjectionFrom ==
  ASSUME NEW G, NEW q, NEW e, NEW k, NEW p1, NEW p2, NEW dx, NEW dy, NEW n, NEW w, NEW t, NEW point,
         p1 = ShapePoint(G, e, k), p2 = ShapePoint(G, e, k + 1),
         dx = Lon(p2) - Lon(p1), dy = Lat(p2) - Lat(p1), n = dx * dx + dy * dy,
         w = (Lon(q) - Lon(p1)) * dx + (Lat(q) - Lat(p1)) * dy,
         t = IF n = 0 THEN 0 ELSE Clamp(w, 0, n),
         point = IF n = 0 THEN p1 ELSE <<Lat(p1) + (t * dy) \div n, Lon(p1) + (t * dx) \div n>>
  PROVE  Projection(G, q, <<e, k>>) =
           [key |-> <<e, k>>, t |-> t, point |-> point, d2 |-> Distance2(q, point)]
<1>1. <<e, k>>[1] = e /\ <<e, k>>[2] = k
  OBVIOUS
<1> QED
  BY <1>1, ZenonT(40) DEF Projection

LEMMA PartBetween ==
    ASSUME NEW from \in Int, NEW to \in Int, NEW n \in Nat, n > 0, NEW t \in 0..n
    PROVE  LET x == from + (t * (to - from)) \div n
           IN  x \in Int /\ Least(from, to) <= x /\ x <= Greatest(from, to)
<1>1. PICK d \in Int : d = to - from
  OBVIOUS
<1>2. PICK z : z = (t * d) \div n
  OBVIOUS
<1>3. /\ z \in Int
      /\ d >= 0 => 0 <= z /\ z <= d
      /\ d <= 0 => d <= z /\ z <= 0
  BY <1>2, PartOf
<1> QED
  BY <1>1, <1>2, <1>3 DEF Least, Greatest

\* The two coordinates of a point on a segment are rounded by less than a
\* unit each, which moves it off the line by no more than LiesBetween allows.
LEMMA LeftOver ==
    ASSUME NEW d \in Int, NEW n \in Nat, n > 0, NEW r \in Nat, r < n
    PROVE  /\ r * d <= n * Gap(0, d) /\ -(n * Gap(0, d)) <= r * d
           /\ r * d \in Int /\ n * Gap(0, d) \in Int
<1>1. PICK w \in Nat : w = Gap(0, d)
  BY DEF Gap
<1>2. w * r <= w * n
  BY ProductOrder
<1>3. PICK u \in Int, v \in Int : u = w * r /\ v = w * n
  OBVIOUS
<1>4. 0 <= u
  <2>1. w * 0 <= w * r /\ w * 0 = 0
    BY ProductOrder
  <2> QED
    BY <1>3, <2>1
<1>5. d = w \/ d = -w
  BY <1>1 DEF Gap
<1>6. r * d = u \/ r * d = -u
  <2>1. CASE d = w
    BY <1>3, <2>1
  <2>2. CASE d = -w
    <3>1. r * (-w) = -(w * r)
      OBVIOUS
    <3> QED
      BY <1>3, <2>2, <3>1
  <2> QED
    BY <1>5, <2>1, <2>2
<1>7. n * w = v
  BY <1>3
<1> QED
  BY ONLY <1>1, <1>2, <1>3, <1>4, <1>6, <1>7

LEMMA LeftOff ==
    ASSUME NEW n \in Nat, n > 0, NEW c \in Int, NEW m \in Nat, n * c <= n * m
    PROVE  c <= m
<1> SUFFICES ASSUME m + 1 <= c PROVE FALSE
  OBVIOUS
<1>1. n * (m + 1) <= n * c /\ n * (m + 1) = n * m + n
  BY ProductOrder
<1>2. PICK u \in Int, v \in Int : u = n * c /\ v = n * m
  OBVIOUS
<1> QED
  BY <1>1, <1>2

LEMMA RoundedOff ==
    ASSUME NEW dx \in Int, NEW dy \in Int, NEW n \in Nat, n > 0, NEW t \in 0..n
    PROVE  Gap(((t * dx) \div n) * dy, ((t * dy) \div n) * dx) <= Gap(0, dx) + Gap(0, dy)
<1>1. PICK u \in Int, v \in Int : u = (t * dx) \div n /\ v = (t * dy) \div n
  BY Quotient
<1>2. PICK zx \in Int, zy \in Int : zx = t * dx /\ zy = t * dy
  OBVIOUS
<1>3. /\ n * u <= zx /\ zx < n * u + n
      /\ n * v <= zy /\ zy < n * v + n
  BY <1>1, <1>2, Quotient
<1>4. PICK p \in Int, q \in Int : p = n * u /\ q = n * v
  OBVIOUS
<1>5. PICK r \in Nat, s \in Nat : r = zx - p /\ s = zy - q /\ r < n /\ s < n
  BY <1>3, <1>4
<1>6. PICK w \in Nat, h \in Nat : w = Gap(0, dx) /\ h = Gap(0, dy)
  BY DEF Gap
<1>7. PICK k \in Int, l \in Int : k = s * dx /\ l = r * dy
  OBVIOUS
<1>8. PICK nw \in Int, nh \in Int : nw = n * w /\ nh = n * h
  OBVIOUS
<1>9. k <= nw /\ -nw <= k /\ l <= nh /\ -nh <= l
  BY <1>5, <1>6, <1>7, <1>8, LeftOver
<1>10. PICK c \in Int, e \in Int : c = u * dy /\ e = v * dx
  OBVIOUS
<1>11. n * (c - e) = k - l /\ n * (e - c) = l - k
  <2>1. /\ p * dy = n * c /\ q * dx = n * e
        /\ zx * dy = zy * dx
    BY <1>2, <1>4, <1>10
  <2>2. p = zx - r /\ q = zy - s
    BY <1>5
  <2>3. p * dy = zx * dy - r * dy /\ q * dx = zy * dx - s * dx
    BY <2>2
  <2>4. n * (c - e) = n * c - n * e /\ n * (e - c) = n * e - n * c
    OBVIOUS
  <2>5. PICK f \in Int, m \in Int, o \in Int, i \in Int :
          f = zx * dy /\ m = zy * dx /\ o = n * c /\ i = n * e
    OBVIOUS
  <2> QED
    BY ONLY <1>7, <2>1, <2>3, <2>4, <2>5, k \in Int, l \in Int
<1>12. n * (w + h) = nw + nh
  BY <1>8
<1>13. n * (c - e) <= n * (w + h) /\ n * (e - c) <= n * (w + h)
  BY <1>9, <1>11, <1>12
<1>14. c - e <= w + h /\ e - c <= w + h
  <2>1. c - e \in Int /\ e - c \in Int /\ w + h \in Nat
    OBVIOUS
  <2> QED
    BY <1>13, <2>1, LeftOff
<1> QED
  BY <1>1, <1>6, <1>10, <1>14 DEF Gap

LEMMA PartLies ==
    ASSUME NEW y1 \in Int, NEW x1 \in Int, NEW y2 \in Int, NEW x2 \in Int,
           NEW n \in Nat, n > 0, NEW t \in 0..n
    PROVE  LiesBetween(<<y1, x1>>, <<y2, x2>>,
                       <<y1 + (t * (y2 - y1)) \div n, x1 + (t * (x2 - x1)) \div n>>)
<1>1. PICK dx \in Int, dy \in Int : dx = x2 - x1 /\ dy = y2 - y1
  OBVIOUS
<1>2. PICK u \in Int, v \in Int : u = (t * dx) \div n /\ v = (t * dy) \div n
  BY Quotient
<1>3. PICK x \in Int, y \in Int : x = x1 + u /\ y = y1 + v
  OBVIOUS
<1>4. /\ Least(x1, x2) <= x /\ x <= Greatest(x1, x2)
      /\ Least(y1, y2) <= y /\ y <= Greatest(y1, y2)
  BY <1>1, <1>2, <1>3, PartBetween
<1>5. Gap(u * dy, v * dx) <= Gap(0, dx) + Gap(0, dy)
  BY <1>2, RoundedOff
<1>6. Gap(0, dx) = Gap(x1, x2) /\ Gap(0, dy) = Gap(y1, y2)
  BY <1>1 DEF Gap
<1>7. x + 0 = x /\ x - x1 = u /\ y - y1 = v /\ 0 \in {-2 * HalfCircle, 0, 2 * HalfCircle}
  BY <1>3
<1>8. /\ Lat(<<y1, x1>>) = y1 /\ Lon(<<y1, x1>>) = x1
      /\ Lat(<<y2, x2>>) = y2 /\ Lon(<<y2, x2>>) = x2
      /\ Lat(<<y, x>>) = y /\ Lon(<<y, x>>) = x
  BY DEF Lat, Lon
<1>9. Gap((x - x1) * (y2 - y1), (y - y1) * (x2 - x1)) <= Gap(x1, x2) + Gap(y1, y2)
  BY <1>1, <1>5, <1>6, <1>7
<1>10. LiesBetween(<<y1, x1>>, <<y2, x2>>, <<y, x>>)
  BY <1>4, <1>7, <1>8, <1>9 DEF LiesBetween
<1> QED
  BY <1>1, <1>2, <1>3, <1>10

\* The ends of a segment lie on it.
LEMMA EndsLie ==
    ASSUME NEW p1 \in Point, NEW p2 \in Point
    PROVE  LiesBetween(p1, p2, p1) /\ LiesBetween(p1, p2, p2)
<1>1. PICK y1 \in Int, x1 \in Int, y2 \in Int, x2 \in Int : p1 = <<y1, x1>> /\ p2 = <<y2, x2>>
  BY DEF Point
<1>2. Lat(p1) = y1 /\ Lon(p1) = x1 /\ Lat(p2) = y2 /\ Lon(p2) = x2
  BY <1>1 DEF Lat, Lon
<1>3. PICK dx \in Int, dy \in Int : dx = x2 - x1 /\ dy = y2 - y1
  OBVIOUS
<1>4. /\ (x1 - x1) * dy = 0 /\ (y1 - y1) * dx = 0
      /\ (x2 - x1) * dy = (y2 - y1) * dx
  BY <1>3
<1>5. /\ Gap(0, 0) = 0 /\ Gap(x1, x2) + Gap(y1, y2) \in Nat
      /\ Gap((x2 - x1) * dy, (y2 - y1) * dx) = 0
  <2>1. PICK z \in Int : z = (x2 - x1) * dy /\ z = (y2 - y1) * dx
    BY <1>4
  <2> QED
    BY <2>1 DEF Gap
<1>6. 0 \in {-2 * HalfCircle, 0, 2 * HalfCircle} /\ x1 + 0 = x1 /\ x2 + 0 = x2
  OBVIOUS
<1>7. /\ Least(x1, x2) <= x1 /\ x1 <= Greatest(x1, x2)
      /\ Least(x1, x2) <= x2 /\ x2 <= Greatest(x1, x2)
      /\ Least(y1, y2) <= y1 /\ y1 <= Greatest(y1, y2)
      /\ Least(y1, y2) <= y2 /\ y2 <= Greatest(y1, y2)
  BY DEF Least, Greatest
<1>8. LiesBetween(p1, p2, p1)
  <2>1. Gap((x1 - x1) * (y2 - y1), (y1 - y1) * (x2 - x1)) <= Gap(x1, x2) + Gap(y1, y2)
    BY <1>3, <1>4, <1>5
  <2> QED
    BY <1>2, <1>6, <1>7, <2>1 DEF LiesBetween
<1>9. LiesBetween(p1, p2, p2)
  <2>1. Gap((x2 - x1) * (y2 - y1), (y2 - y1) * (x2 - x1)) <= Gap(x1, x2) + Gap(y1, y2)
    BY <1>3, <1>4, <1>5
  <2> QED
    BY <1>2, <1>6, <1>7, <2>1 DEF LiesBetween
<1> QED
  BY <1>8, <1>9

LEMMA ProjectionFacts ==
    ASSUME NEW G, IsGraph(G), NEW q \in Point, NEW e \in EdgeIndices(G),
           NEW k \in 0..Edge(G, e).geo_len
    PROVE  LET x == Projection(G, q, <<e, k>>)
           IN  /\ IsFound(x) /\ x.key = <<e, k>> /\ x.d2 = Distance2(q, x.point)
               /\ x.point = PointOn(G, e, k, x.t)
               /\ Between(ShapePoint(G, e, k), ShapePoint(G, e, k + 1), x.point)
               /\ LiesBetween(ShapePoint(G, e, k), ShapePoint(G, e, k + 1), x.point)
               /\ x.point \in Places(G)
<1>1. PICK L \in Nat : L = Edge(G, e).geo_len
  BY EdgesAreRoads, RoadFields
<1>2. k \in 0..(L + 1) /\ k + 1 \in 0..(L + 1) /\ k \in Nat
  BY <1>1
<1>3. PICK p1 \in Places(G), p2 \in Places(G) :
        p1 = ShapePoint(G, e, k) /\ p2 = ShapePoint(G, e, k + 1)
  BY <1>1, <1>2, ShapeInPlaces
<1>4. PICK y1 \in Int, x1 \in Int, y2 \in Int, x2 \in Int :
        p1 = <<y1, x1>> /\ p2 = <<y2, x2>>
  BY DEF Places, Point
<1>5. PICK qy \in Int, qx \in Int : q = <<qy, qx>>
  BY DEF Point
<1>6. PICK dx \in Int, dy \in Int : dx = x2 - x1 /\ dy = y2 - y1
  OBVIOUS
<1>7. PICK len2 \in Nat : len2 = dx * dx + dy * dy
  BY SquaredLength
<1>8. PICK w \in Int : w = (qx - x1) * dx + (qy - y1) * dy
  OBVIOUS
<1>9. PICK t \in 0..len2 : t = IF len2 = 0 THEN 0 ELSE Clamp(w, 0, len2)
  BY DEF Clamp, Greatest, Least
<1>10. PICK point : point = IF len2 = 0 THEN p1
                            ELSE <<y1 + (t * dy) \div len2, x1 + (t * dx) \div len2>>
  OBVIOUS
<1>11. Projection(G, q, <<e, k>>) =
         [key |-> <<e, k>>, t |-> t, point |-> point, d2 |-> Distance2(q, point)]
  <2>1. <<e, k>>[1] = e /\ <<e, k>>[2] = k /\ Lat(q) = qy /\ Lon(q) = qx
    BY <1>5 DEF Lat, Lon
  <2>2. Lat(p1) = y1 /\ Lon(p1) = x1 /\ Lat(p2) = y2 /\ Lon(p2) = x2
    BY <1>4 DEF Lat, Lon
  <2> QED
    BY <1>3, <1>6, <1>7, <1>8, <1>9, <1>10, <2>1, <2>2, ProjectionFrom
<1>12. point = PointOn(G, e, k, t)
  <2>1. Lat(p1) = y1 /\ Lon(p1) = x1 /\ Lat(p2) = y2 /\ Lon(p2) = x2
    BY <1>4 DEF Lat, Lon
  <2> QED
    BY <1>3, <1>6, <1>7, <1>10, <2>1 DEF PointOn
<1>13. point \in Point /\ Between(p1, p2, point)
  <2>1. CASE len2 = 0
    <3>1. point = <<y1, x1>> /\ y2 = y1 /\ x2 = x1
      BY <1>4, <1>6, <1>7, <1>10, <2>1, SquaredLength
    <3>2. \A axis \in 1..2 : axis = 1 \/ axis = 2
      OBVIOUS
    <3> QED
      BY <1>4, <3>1, <3>2 DEF Point, Between, Least, Greatest
  <2>2. CASE len2 # 0
    <3>1. PICK y, x : y = y1 + (t * (y2 - y1)) \div len2 /\ x = x1 + (t * (x2 - x1)) \div len2
      OBVIOUS
    <3>2. /\ y \in Int /\ Least(y1, y2) <= y /\ y <= Greatest(y1, y2)
          /\ x \in Int /\ Least(x1, x2) <= x /\ x <= Greatest(x1, x2)
      <4>1. len2 \in Nat /\ len2 > 0
        BY <2>2
      <4>2. y \in Int /\ Least(y1, y2) <= y /\ y <= Greatest(y1, y2)
        BY ONLY <3>1, <4>1, PartBetween, t \in 0..len2, y1 \in Int, y2 \in Int
      <4>3. x \in Int /\ Least(x1, x2) <= x /\ x <= Greatest(x1, x2)
        BY ONLY <3>1, <4>1, PartBetween, t \in 0..len2, x1 \in Int, x2 \in Int
      <4> QED
        BY <4>2, <4>3
    <3>3. point = <<y, x>>
      BY <1>6, <1>10, <2>2, <3>1
    <3>4. \A axis \in 1..2 : axis = 1 \/ axis = 2
      OBVIOUS
    <3>5. p1[1] = y1 /\ p1[2] = x1 /\ p2[1] = y2 /\ p2[2] = x2 /\ point[1] = y /\ point[2] = x
      BY <1>4, <3>3
    <3> QED
      BY <3>2, <3>3, <3>4, <3>5 DEF Point, Between
  <2> QED
    BY <2>1, <2>2
<1>14. point \in Places(G)
  BY <1>13, BetweenIsPlace
<1>15. Distance2(q, point) \in Nat
  BY <1>13, DistanceTypes
<1>16. <<e, k>> \in Nat \X Nat
  BY <1>2 DEF EdgeIndices
<1>17. t \in Int
  OBVIOUS
<1>18. LiesBetween(p1, p2, point)
  <2>1. CASE len2 = 0
    <3>1. point = p1 /\ p1 \in Point /\ p2 \in Point
      BY <1>10, <2>1 DEF Places
    <3> QED
      BY <3>1, EndsLie
  <2>2. CASE len2 # 0
    <3>1. point = <<y1 + (t * (y2 - y1)) \div len2, x1 + (t * (x2 - x1)) \div len2>>
      BY <1>6, <1>10, <2>2
    <3>2. len2 \in Nat /\ len2 > 0
      BY <2>2
    <3> QED
      BY ONLY <1>4, <3>1, <3>2, PartLies, t \in 0..len2, y1 \in Int, x1 \in Int,
         y2 \in Int, x2 \in Int
  <2> QED
    BY <2>1, <2>2
<1> QED
  BY <1>3, <1>11, <1>12, <1>13, <1>14, <1>15, <1>16, <1>17, <1>18 DEF IsFound

----------------------------------------------------------------------------
(* Routes *)

\* Segment k of road e holds p.
Holds(e, k, p) == LiesBetween(ShapePoint(g, e, k), ShapePoint(g, e, k + 1), p)

\* A waypoint on a road of the profile.
IsSnap(s) ==
    /\ s.edge \in EdgeIndices(g) /\ Usable(g, s.edge, Mask)
    /\ s.seg \in 0..Edge(g, s.edge).geo_len
    /\ s.point = PointOn(g, s.edge, s.seg, s.t) /\ s.point \in Places(g)
    /\ Holds(s.edge, s.seg, s.point)
    /\ s.src = EdgeSource(g, s.edge) /\ s.dst = Edge(g, s.edge).target
    /\ s.d_src \in Int /\ s.length \in Int

Paths == [entry : NodeIndices(g), edges : Seq(EdgeIndices(g)), exit : NodeIndices(g),
          seen : SUBSET NodeIndices(g), dm : Int]

\* A path, and the same one edge longer.
Seed(n) == [entry |-> n, edges |-> <<>>, exit |-> n, seen |-> {n}, dm |-> PartialTo(a, n)]
Longer(path, e) ==
    [path EXCEPT !.edges = Append(@, e), !.exit = At(g.edges, e).target,
                 !.seen = @ \cup {At(g.edges, e).target},
                 !.dm = @ + At(g.edges, e).length_dm]
Ways(path) == {x \in EdgesFrom(g, path.exit) : /\ Usable(g, x, Mask)
                                              /\ At(g.edges, x).target \notin path.seen}
LongerBy(paths) == paths \cup UNION {{Longer(path, e) : e \in Ways(path)} : path \in paths}

StepsFrom(step) ==
    /\ step \in [0..NodeCount(g) -> SUBSET Paths]
    /\ step[0] = {Seed(n) : n \in {a.src, a.dst}}
    /\ \A k \in 1..NodeCount(g) : step[k] = LongerBy(step[k - 1])

LEMMA SnapNodes ==
    ASSUME IsGraph(g), NEW s, IsSnap(s)
    PROVE  /\ s.src \in NodeIndices(g) /\ s.dst \in NodeIndices(g)
           /\ \A n : PartialTo(s, n) \in Int
<1>1. s.src \in NodeIndices(g)
  BY EdgesInRows DEF IsSnap, Source
<1>2. s.dst \in NodeIndices(g)
  BY EdgesAreRoads, RoadFields DEF IsSnap
<1> QED
  BY <1>1, <1>2 DEF IsSnap, PartialTo

LEMMA LongerIsPath ==
    ASSUME IsGraph(g), NEW path \in Paths, NEW e \in Ways(path)
    PROVE  /\ Longer(path, e) \in Paths
           /\ Longer(path, e).exit = Edge(g, e).target
           /\ Longer(path, e).entry = path.entry
           /\ Longer(path, e).edges = Append(path.edges, e)
           /\ Longer(path, e).seen = path.seen \cup {Edge(g, e).target}
<1>1. path.exit \in NodeIndices(g) /\ e \in EdgesFrom(g, path.exit)
  BY DEF Paths, Ways
<1>2. e \in EdgeIndices(g)
  BY <1>1, EdgesInRows
<1>3. Edge(g, e).target \in NodeIndices(g) /\ Edge(g, e).length_dm \in Nat
  BY <1>2, EdgesAreRoads, RoadFields
<1>4. PICK to, dm : to = Edge(g, e).target /\ dm = Edge(g, e).length_dm
  OBVIOUS
<1>5. /\ path.entry \in NodeIndices(g) /\ path.edges \in Seq(EdgeIndices(g))
      /\ path.seen \in SUBSET NodeIndices(g) /\ path.dm \in Int
  BY DEF Paths
<1>6. Append(path.edges, e) \in Seq(EdgeIndices(g)) /\ path.dm + dm \in Int
      /\ path.seen \cup {to} \in SUBSET NodeIndices(g) /\ to \in NodeIndices(g)
  BY <1>2, <1>3, <1>4, <1>5
<1>7. PICK es, se, d : es = Append(path.edges, e) /\ se = path.seen \cup {to} /\ d = path.dm + dm
  OBVIOUS
<1>8. PICK p : p = [path EXCEPT !.edges = es, !.exit = to, !.seen = se, !.dm = d]
  OBVIOUS
<1>9. Longer(path, e) = p
  BY <1>4, <1>7, <1>8 DEF Longer, Edge
<1>10. p \in Paths
  BY <1>6, <1>7, <1>8 DEF Paths
<1>11. p.exit = to /\ p.entry = path.entry /\ p.seen = se /\ p.edges = es
  BY <1>8 DEF Paths
<1> QED
  BY <1>4, <1>7, <1>9, <1>10, <1>11

LEMMA RoutesAreSteps ==
    ASSUME IsGraph(g), IsSnap(a)
    PROVE  \E step : /\ StepsFrom(step)
                     /\ Routes = {path \in step[NodeCount(g)] : path.exit \in {b.src, b.dst}}
<1> DEFINE T == SUBSET Paths
           N == NodeCount(g)
           seeds == {Seed(n) : n \in {a.src, a.dst}}
           rule == [p \in ((0 + 1)..N) \X T |-> LongerBy(p[2])]
           Go(path, n) ==
               {[path EXCEPT !.edges = Append(@, e), !.exit = At(g.edges, e).target,
                             !.seen = @ \cup {At(g.edges, e).target},
                             !.dm = @ + At(g.edges, e).length_dm] :
                   e \in {x \in EdgesFrom(g, n) : /\ Usable(g, x, Mask)
                                                  /\ At(g.edges, x).target \notin path.seen}}
           Rule(r) ==
               r = [k \in 0..NodeCount(g) |->
                     IF k = 0
                     THEN {[entry |-> n, edges |-> <<>>, exit |-> n, seen |-> {n},
                            dm |-> PartialTo(a, n)] : n \in {a.src, a.dst}}
                     ELSE LET shorter == r[k - 1]
                          IN  shorter \cup UNION {Go(path, path.exit) : path \in shorter}]
           step == CHOOSE r : Rule(r)
<1>1. N \in Nat /\ seeds \in T
  <2>1. ASSUME NEW n \in {a.src, a.dst} PROVE Seed(n) \in Paths
    <3>1. n \in NodeIndices(g) /\ PartialTo(a, n) \in Int
      BY SnapNodes
    <3>2. <<>> \in Seq(EdgeIndices(g))
      OBVIOUS
    <3> QED
      BY <3>1, <3>2 DEF Seed, Paths
  <2> QED
    BY <2>1, NodesAreSome
<1>2. IsRule(rule, 0, N, T)
  <2>1. ASSUME NEW ps \in T PROVE LongerBy(ps) \in T
    BY LongerIsPath DEF LongerBy
  <2> QED
    BY <2>1 DEF IsRule
<1>3. PICK r \in [0..N -> T] : r[0] = seeds /\ Follows(r, rule, 0, N)
  <2> HIDE DEF rule, T, N, seeds
  <2> QED
    BY <1>1, <1>2, RecursionExists
<1>4. ASSUME NEW k \in 1..N PROVE r[k] = LongerBy(r[k - 1])
  <2>1. k - 1 \in 0..N /\ k \in (0 + 1)..N
    BY <1>1
  <2>2. <<k, r[k - 1]>> \in ((0 + 1)..N) \X T
    BY <1>3, <2>1
  <2> QED
    BY <1>3, <2>1, <2>2 DEF Follows
<1>5. ASSUME NEW ps PROVE LongerBy(ps) = ps \cup UNION {Go(path, path.exit) : path \in ps}
  BY DEF LongerBy, Longer, Ways
<1>6. seeds = {[entry |-> n, edges |-> <<>>, exit |-> n, seen |-> {n},
                dm |-> PartialTo(a, n)] : n \in {a.src, a.dst}}
  BY DEF Seed
<1>7. Routes = {path \in step[N] : path.exit \in {b.src, b.dst}}
  BY DEF Routes
<1> HIDE DEF Go, seeds
<1>8. Rule(r)
  <2>1. r = [k \in 0..N |-> r[k]]
    BY <1>3
  <2>2. ASSUME NEW k \in 0..N
        PROVE  r[k] = IF k = 0 THEN seeds
                      ELSE r[k - 1] \cup UNION {Go(path, path.exit) : path \in r[k - 1]}
    <3>1. CASE k = 0
      BY <1>3, <3>1
    <3>2. CASE k # 0
      <4>1. k \in 1..N
        BY <1>1, <3>2
      <4> QED
        BY <1>4, <1>5, <3>2, <4>1
    <3> QED
      BY <3>1, <3>2
  <2> QED
    BY <1>6, <2>1, <2>2
<1>9. Rule(step)
  BY <1>8
<1> HIDE DEF step
<1>10. ASSUME NEW k \in 0..N PROVE step[k] = IF k = 0 THEN seeds ELSE LongerBy(step[k - 1])
  BY <1>5, <1>6, <1>9
<1>11. step = r
  <2> DEFINE S == {k \in 0..N : step[k] = r[k]}
  <2>1. 0 \in S
    <3>1. 0 \in 0..N
      BY <1>1
    <3>2. step[0] = r[0]
      BY <1>3, <1>10, <3>1
    <3> QED
      BY <3>1, <3>2
  <2>2. ASSUME NEW k \in Int, 0 <= k, k < N, k \in S PROVE k + 1 \in S
    <3>1. k + 1 \in 0..N /\ k + 1 \in 1..N /\ k + 1 # 0 /\ (k + 1) - 1 = k
      BY <1>1, <2>2
    <3>2. step[k + 1] = LongerBy(step[k]) /\ r[k + 1] = LongerBy(r[k])
      BY <1>4, <1>10, <3>1
    <3> QED
      BY <2>2, <3>1, <3>2
  <2>3. \A k \in 0..N : k \in S
    <3> HIDE DEF S
    <3>1. N \in Int /\ 0 \in Int
      BY <1>1
    <3> HIDE DEF N
    <3> QED
      BY <2>1, <2>2, <3>1, UpFrom
  <2>4. step = [k \in 0..N |-> step[k]] /\ r = [k \in 0..N |-> r[k]]
    BY <1>3, <1>9
  <2> QED
    BY <2>3, <2>4
<1>12. StepsFrom(r)
  BY <1>3, <1>4 DEF StepsFrom, seeds
<1> QED
  BY <1>7, <1>11, <1>12

\* Two snaps are connected exactly when there is a route from an end of the
\* one's road to an end of the other's.
LEMMA RoutesConnect ==
    ASSUME IsGraph(g), IsSnap(a), IsSnap(b)
    PROVE  Connected(a, b) <=> Routes # {}
<1>1. PICK step : /\ StepsFrom(step)
                  /\ Routes = {path \in step[NodeCount(g)] : path.exit \in {b.src, b.dst}}
  BY RoutesAreSteps
<1>2. PICK N \in Nat : N = NodeCount(g)
  BY NodesAreSome
<1>3. /\ step \in [0..N -> SUBSET Paths]
      /\ step[0] = {Seed(n) : n \in {a.src, a.dst}}
      /\ \A k \in 1..N : step[k] = LongerBy(step[k - 1])
  BY <1>1, <1>2 DEF StepsFrom
<1>4. a.src \in NodeIndices(g) /\ a.dst \in NodeIndices(g) /\ b.src \in NodeIndices(g)
  BY SnapNodes
<1>5. PICK C : C = Component(a.src)
  OBVIOUS
<1>6. a.src \in C /\ Closed(C) /\ C \in SUBSET NodeIndices(g)
  BY <1>4, <1>5, ComponentClosed
<1>7. \A s : IsSnap(s) => /\ s.edge \in EdgesFrom(g, s.src) /\ Usable(g, s.edge, Mask)
                          /\ Edge(g, s.edge).target = s.dst
  BY EdgesInRows DEF IsSnap, Source
<1>8. a.dst \in C
  BY <1>6, <1>7 DEF Closed
<1>9. ASSUME Routes # {} PROVE b.src \in C
  <2> DEFINE S == {k \in 0..N : \A path \in step[k] : path.exit \in C}
  <2>1. 0 \in S
    BY <1>3, <1>6, <1>8 DEF Seed
  <2>2. ASSUME NEW k \in Int, 0 <= k, k < N, k \in S PROVE k + 1 \in S
    <3>1. k + 1 \in 1..N /\ k + 1 \in 0..N /\ (k + 1) - 1 = k /\ k \in 0..N
      BY <2>2
    <3>2. step[k + 1] = LongerBy(step[k])
      BY <1>3, <3>1
    <3>3. ASSUME NEW path \in step[k], NEW e \in Ways(path) PROVE Longer(path, e).exit \in C
      <4>1. path \in Paths
        BY <1>3, <3>1
      <4>2. path.exit \in C /\ e \in EdgesFrom(g, path.exit) /\ Usable(g, e, Mask)
        BY <2>2 DEF Ways
      <4> QED
        BY <1>6, <4>1, <4>2, LongerIsPath DEF Closed
    <3>4. \A path \in step[k] : path.exit \in C
      BY <2>2
    <3>5. \A path \in step[k + 1] : path.exit \in C
      BY <3>2, <3>3, <3>4 DEF LongerBy
    <3> QED
      BY <3>1, <3>5
  <2>3. N \in S
    <3>1. \A k \in 0..N : k \in S
      <4> HIDE DEF S
      <4> QED
        BY <2>1, <2>2, UpFrom
    <3> QED
      BY <3>1
  <2>4. PICK path \in step[N] : path.exit \in {b.src, b.dst}
    BY <1>1, <1>2, <1>9
  <2>5. path.exit \in C
    BY <2>3
  <2>6. CASE path.exit = b.src
    BY <2>5, <2>6
  <2>7. CASE path.exit = b.dst
    <3>1. PICK f \in EdgeIndices(g) : AreTwins(g, b.edge, f)
      BY DEF IsGraph, IsSnap
    <3>2. /\ Source(g, f) = b.dst /\ Edge(g, f).target = b.src
          /\ Edge(g, f).access = Edge(g, b.edge).access
      BY <3>1 DEF AreTwins, IsSnap, Edge, Source
    <3>3. f \in EdgesFrom(g, b.dst) /\ Usable(g, f, Mask)
      <4>1. f \in EdgesFrom(g, b.dst)
        BY <3>2, EdgesInRows
      <4> QED
        BY <3>2, <4>1 DEF Usable, Edge, IsSnap
    <3> QED
      BY <1>6, <2>5, <2>7, <3>2, <3>3 DEF Closed
  <2> QED
    BY <2>4, <2>6, <2>7
<1>10. ASSUME b.src \in C PROVE Routes # {}
  <2>1. PICK grow : GrowsFrom(grow, a.src) /\ C = grow[N]
    BY <1>2, <1>4, <1>5, ComponentGrows
  <2>2. /\ grow[0] = {a.src}
        /\ \A k \in 1..N : grow[k] = Onward(grow[k - 1])
    BY <1>2, <2>1 DEF GrowsFrom
  <2> DEFINE Exits(ps) == {path.exit : path \in ps}
             S == {k \in 0..N : /\ \A path \in step[k] : path.seen \in SUBSET Exits(step[k])
                                /\ grow[k] \in SUBSET Exits(step[k])}
  <2>3. 0 \in S
    <3>1. \A path \in step[0] : path.seen = {path.exit}
      BY <1>3 DEF Seed
    <3>2. Seed(a.src) \in step[0] /\ Seed(a.src).exit = a.src
      BY <1>3 DEF Seed
    <3> QED
      BY <2>2, <3>1, <3>2
  <2>4. ASSUME NEW k \in Int, 0 <= k, k < N, k \in S PROVE k + 1 \in S
    <3>1. k + 1 \in 1..N /\ k + 1 \in 0..N /\ (k + 1) - 1 = k /\ k \in 0..N
      BY <2>4
    <3>2. step[k + 1] = LongerBy(step[k]) /\ grow[k + 1] = Onward(grow[k])
      BY <1>3, <2>2, <3>1
    <3>3. /\ step[k] \in SUBSET step[k + 1]
          /\ \A path \in step[k] : \A e \in Ways(path) : Longer(path, e) \in step[k + 1]
      BY <3>2 DEF LongerBy
    <3>4. Exits(step[k]) \in SUBSET Exits(step[k + 1])
      BY <3>3
    <3>5. step[k] \in SUBSET Paths
      BY <1>3, <3>1
    <3>6. \A path \in step[k] : path.seen \in SUBSET Exits(step[k])
      BY <2>4
    <3>7. ASSUME NEW path \in step[k], NEW e \in Ways(path)
          PROVE  Longer(path, e).seen \in SUBSET Exits(step[k + 1])
      <4>1. Longer(path, e).exit \in Exits(step[k + 1])
        BY <3>3
      <4>2. path.seen \in SUBSET Exits(step[k + 1])
        BY <3>4, <3>6
      <4> QED
        BY <3>5, <4>1, <4>2, LongerIsPath
    <3>8. \A path \in step[k + 1] : path.seen \in SUBSET Exits(step[k + 1])
      <4>1. \A path \in step[k] : path.seen \in SUBSET Exits(step[k + 1])
        BY <3>4, <3>6
      <4> HIDE DEF Exits
      <4> QED
        BY <3>2, <3>7, <4>1 DEF LongerBy
    <3>9. ASSUME NEW m \in grow[k], NEW e \in EdgesFrom(g, m), Usable(g, e, Mask)
          PROVE  Edge(g, e).target \in Exits(step[k + 1])
      <4>1. PICK path \in step[k] : path.exit = m
        BY <2>4
      <4>2. CASE Edge(g, e).target \in path.seen
        BY <3>4, <3>6, <4>2
      <4>3. CASE Edge(g, e).target \notin path.seen
        <5>1. e \in Ways(path)
          BY <3>9, <4>1, <4>3 DEF Ways, Edge
        <5> QED
          BY <3>3, <3>5, <5>1, LongerIsPath
      <4> QED
        BY <4>2, <4>3
    <3>10. grow[k + 1] \in SUBSET Exits(step[k + 1])
      <4>1. grow[k] \in SUBSET Exits(step[k + 1])
        BY <2>4, <3>4
      <4> HIDE DEF Exits
      <4> QED
        BY <3>2, <3>9, <4>1 DEF Onward, Edge
    <3> QED
      BY <3>1, <3>8, <3>10
  <2>5. N \in S
    <3>1. \A k \in 0..N : k \in S
      <4> HIDE DEF S
      <4> QED
        BY <2>3, <2>4, UpFrom
    <3> QED
      BY <3>1
  <2>6. PICK path \in step[N] : path.exit = b.src
    BY <1>10, <2>1, <2>5
  <2> QED
    BY <1>1, <1>2, <2>6
<1> QED
  BY <1>5, <1>9, <1>10 DEF Connected

----------------------------------------------------------------------------
(* Candidates *)

LEMMA BestExists ==
    ASSUME NEW S, S # {}, \A x \in S : IsFound(x)
    PROVE  BestOf(S) \in S /\ \A y \in S : Better(BestOf(S), y)
<1>0. \A x \in S : x.d2 \in Nat /\ x.key[1] \in Nat /\ x.key[2] \in Nat
  BY DEF IsFound
<1> DEFINE D == {x.d2 : x \in S}
<1>1. PICK x1 \in S : \A y \in S : x1.d2 <= y.d2
  <2>1. D \in SUBSET Nat /\ D # {}
    BY <1>0
  <2>2. PICK m \in D : \A k \in D : m <= k
    <3> HIDE DEF D
    <3> QED
      BY <2>1, LeastNatural
  <2> QED
    BY <2>2
<1> DEFINE S1 == {x \in S : x.d2 = x1.d2}
           K == {x.key[1] : x \in S1}
<1>2. PICK x2 \in S1 : \A y \in S1 : x2.key[1] <= y.key[1]
  <2>1. K \in SUBSET Nat /\ K # {}
    BY <1>0
  <2>2. PICK m \in K : \A k \in K : m <= k
    <3> HIDE DEF K
    <3> QED
      BY <2>1, LeastNatural
  <2> QED
    BY <2>2
<1> DEFINE S2 == {x \in S1 : x.key[1] = x2.key[1]}
           L == {x.key[2] : x \in S2}
<1>3. PICK x3 \in S2 : \A y \in S2 : x3.key[2] <= y.key[2]
  <2>1. L \in SUBSET Nat /\ L # {}
    BY <1>0
  <2>2. PICK m \in L : \A k \in L : m <= k
    <3> HIDE DEF L
    <3> QED
      BY <2>1, LeastNatural
  <2> QED
    BY <2>2
<1>4. ASSUME NEW y \in S PROVE Better(x3, y)
  <2>1. x3 \in S /\ x3.d2 = x1.d2 /\ x3.key[1] = x2.key[1]
    OBVIOUS
  <2>2. y.d2 \in Nat /\ y.key[1] \in Nat /\ x1.d2 \in Nat /\ x2.key[1] \in Nat
    BY <1>0
  <2>3. x1.d2 <= y.d2 /\ (y.d2 = x1.d2 => x2.key[1] <= y.key[1])
    BY <1>1, <1>2
  <2>4. y.d2 = x1.d2 /\ y.key[1] = x2.key[1] => x3.key[2] <= y.key[2]
    BY <1>3
  <2> QED
    BY <2>1, <2>2, <2>3, <2>4 DEF Better
<1>5. \E x \in S : \A y \in S : Better(x, y)
  BY <1>4
<1> QED
  BY <1>5 DEF BestOf

LEMMA BetterOrder ==
    ASSUME NEW x, NEW y, NEW z, IsFound(x), IsFound(y), IsFound(z), Better(x, y), Better(y, z)
    PROVE  Better(x, z)
<1>1. /\ x.d2 \in Nat /\ x.key[1] \in Nat /\ x.key[2] \in Nat
      /\ y.d2 \in Nat /\ y.key[1] \in Nat /\ y.key[2] \in Nat
      /\ z.d2 \in Nat /\ z.key[1] \in Nat /\ z.key[2] \in Nat
  BY DEF IsFound
<1> QED
  BY <1>1 DEF Better

LEMMA FoundIsSome ==
    ASSUME NEW x, IsFound(x)
    PROVE  x # None
  BY NoneAssumption DEF IsFound

LEMMA HereIsPoint ==
    ASSUME IsGraph(g), IsCall(call), Len(snapped) + 1 \in DOMAIN call.points, ~Nowhere
    PROVE  Here \in Point
<1>1. PICK s \in Seq(Point \cup {NoNumber}) : s = call.points
  BY DEF IsCall
<1>2. PICK p \in Point : p = call.points[Len(snapped) + 1]
  <2>1. Len(snapped) + 1 \in 1..Len(s)
    BY <1>1
  <2>2. s[Len(snapped) + 1] \in Point \cup {NoNumber}
    BY <2>1, ElementOfSeq
  <2> QED
    BY <1>1, <2>2 DEF Nowhere
<1>3. PICK y \in Int, x \in Int : p = <<y, x>>
  BY DEF Point
<1>4. PICK w \in Int, z \in Int : w = g.bbox.min[2] /\ z = g.bbox.max[2]
  BY DEF IsGraph, Point
<1>5. PICK m \in Int : m = (w + z) \div 2
  OBVIOUS
<1>6. PICK H \in Nat : H = HalfCircle /\ H > 0
  BY UnitAssumption
<1>7. PICK d \in Int : d = (x - m) % (2 * H)
  BY <1>6
<1>8. NormalizeQueryLon(g, x) \in Int
  <2>1. NormalizeQueryLon(g, x) = IF ~g.shifted THEN x ELSE m + IF d >= H THEN d - 2 * H ELSE d
    BY <1>4, <1>5, <1>6, <1>7 DEF NormalizeQueryLon
  <2> QED
    BY <1>6, <2>1 DEF IsGraph
<1>9. InFrame(g, p) = <<y, NormalizeQueryLon(g, x)>>
  BY <1>3 DEF InFrame, Lat, Lon
<1> QED
  BY <1>2, <1>8, <1>9 DEF Here, Point

LEMMA SegmentFacts ==
    ASSUME NEW G, IsGraph(G), NEW s \in Segments(G)
    PROVE  \E e \in EdgeIndices(G) : \E k \in 0..Edge(G, e).geo_len :
               s = <<e, k>> /\ Canonical(G, e)
  BY DEF Segments, Edge

LEMMA NodeFound ==
    ASSUME NEW G, IsGraph(G), NEW q \in Point, NEW n \in NodeIndices(G)
    PROVE  /\ IsFound(NodeAt(G, q, n)) /\ NodeAt(G, q, n).point \in Places(G)
           /\ NodeAt(G, q, n).point = At(G.nodes, n)
           /\ NodeAt(G, q, n).d2 = Distance2(q, At(G.nodes, n))
<1>1. At(G.nodes, n) \in Places(G) /\ n \in Nat
  BY NodesAreSome
<1>2. At(G.nodes, n) \in Point
  BY <1>1 DEF Places
<1>3. Distance2(q, At(G.nodes, n)) \in Nat
  BY <1>2, DistanceTypes
<1> QED
  BY <1>1, <1>2, <1>3 DEF NodeAt, IsFound

LEMMA CandidateFacts ==
    ASSUME IsGraph(g), IsCall(call), Len(snapped) + 1 \in DOMAIN call.points, NEW x \in Candidates
    PROVE  IsFound(x) /\ x.point \in Places(g) /\ x.d2 = Distance2(Here, x.point)
<1>1. ~Nowhere /\ Here \in Point
  BY HereIsPoint DEF Candidates
<1>2. CASE call.kind = "node"
  BY <1>1, <1>2, NodeFound DEF Candidates
<1>3. CASE call.kind # "node"
  <2>1. PICK s \in Segments(g) : x = Projection(g, Here, s)
    BY <1>1, <1>3 DEF Candidates
  <2> QED
    BY <1>1, <2>1, SegmentFacts, ProjectionFacts
<1> QED
  BY <1>2, <1>3

LEMMA FiledInGraph ==
    ASSUME IsGraph(g), NEW cells
    PROVE  /\ Filed(g.grid.nodes, cells) \in SUBSET NodeIndices(g)
           /\ Filed(g.grid.segments, cells) \in SUBSET Segments(g)
<1>1. /\ g.grid.nodes = {<<ColRowIn(g, At(g.nodes, n), Cols(g), Rows(g)), n>> : n \in NodeIndices(g)}
      /\ g.grid.segments \in SUBSET (((0..(Cols(g) - 1)) \X (0..(Rows(g) - 1))) \X Segments(g))
  BY DEF IsGraph, BuildGrid
<1>2. \A x \in g.grid.segments : x[2] \in Segments(g)
  BY <1>1
<1>3. \A x \in g.grid.nodes : x[2] \in NodeIndices(g)
  BY <1>1
<1> QED
  BY <1>2, <1>3 DEF Filed

LEMMA OfferedAreCandidates ==
    ASSUME IsGraph(g), NEW r
    PROVE  Offered(r) \in SUBSET Candidates
<1>1. CASE Nowhere
  BY <1>1 DEF Offered
<1>2. CASE ~Nowhere /\ call.kind = "node"
  BY <1>2, FiledInGraph DEF Offered, Candidates, NodesAt
<1>3. CASE ~Nowhere /\ call.kind # "node"
  BY <1>3, FiledInGraph DEF Offered, Candidates, RoadsAt
<1> QED
  BY <1>1, <1>2, <1>3

LEMMA SnapIsSnap ==
    ASSUME IsGraph(g), IsCall(call), Len(snapped) + 1 \in DOMAIN call.points,
           call.kind = "route", NEW x \in Candidates
    PROVE  IsSnap(Snap(x)) /\ Snap(x).point = x.point
<1>1. ~Nowhere /\ Here \in Point
  BY HereIsPoint DEF Candidates
<1>2. PICK s \in Segments(g) : x = Projection(g, Here, s) /\ Usable(g, s[1], Mask)
  BY <1>1 DEF Candidates
<1>3. PICK e \in EdgeIndices(g), k \in Nat :
        s = <<e, k>> /\ k \in 0..Edge(g, e).geo_len
  <2>1. PICK e \in EdgeIndices(g) : \E k \in 0..Edge(g, e).geo_len : s = <<e, k>>
    BY SegmentFacts
  <2>2. PICK k \in 0..Edge(g, e).geo_len : s = <<e, k>>
    BY <2>1
  <2> QED
    BY <2>2
<1>4. /\ IsFound(x) /\ x.key = <<e, k>> /\ x.point = PointOn(g, e, k, x.t)
      /\ x.point \in Places(g) /\ Holds(e, k, x.point)
  BY <1>1, <1>2, <1>3, ProjectionFacts DEF Holds
<1>5. x.point \in Point
  BY <1>4 DEF Places
<1>6. DistanceAlong(g, e, k, x.point) \in Int
  BY <1>3, <1>5, DistanceAlongIsInt
<1>7. Edge(g, e).length_dm \in Int
  BY EdgesAreRoads, RoadFields
<1>8. Snap(x) = [edge |-> e, seg |-> k, t |-> x.t, point |-> x.point,
                 src |-> EdgeSource(g, e), dst |-> Edge(g, e).target,
                 d_src |-> DistanceAlong(g, e, k, x.point), length |-> Edge(g, e).length_dm]
  BY <1>4 DEF Snap, Edge
<1>9. Usable(g, e, Mask)
  BY <1>2, <1>3
<1>10. /\ Snap(x).edge = e /\ Snap(x).seg = k /\ Snap(x).t = x.t /\ Snap(x).point = x.point
       /\ Snap(x).src = EdgeSource(g, e) /\ Snap(x).dst = Edge(g, e).target
       /\ Snap(x).d_src = DistanceAlong(g, e, k, x.point) /\ Snap(x).length = Edge(g, e).length_dm
  BY ONLY <1>8
<1> QED
  BY <1>3, <1>4, <1>6, <1>7, <1>9, <1>10 DEF IsSnap

----------------------------------------------------------------------------
(* The search and the legs, step by step *)

Snaps == {s \in [edge : EdgeIndices(g), seg : Nat, t : Int, point : Point, src : NodeIndices(g),
                 dst : NodeIndices(g), d_src : Int, length : Int] : IsSnap(s)}

\* What is known while the waypoints are searched for.
SearchInv ==
    /\ IsGraph(g) /\ IsCall(call)
    /\ pc \in {"start", "search", "legs", "done"}
    /\ snapped \in Seq(Snaps)
    /\ pc = "start" => call.kind = "route" /\ best = None /\ ring = 0 /\ snapped = <<>>
    /\ pc = "search" => /\ Len(snapped) + 1 \in DOMAIN call.points
                        /\ best = None \/ best \in Candidates
                        /\ ring \in Nat
    /\ pc = "search" /\ call.kind = "route" => Len(call.points) >= 2
    /\ pc = "legs" => /\ call.kind = "route"
                      /\ Len(snapped) = Len(call.points) /\ Len(call.points) >= 2
    /\ pc \in {"start", "search"} => segment = 0 /\ line = <<>> /\ fallback = FALSE
    /\ pc # "done" => result = None

\* The first legs, some of which nothing connects.
Gaps(n) == \E i \in 1..n : Bridged(i)

LegsInv ==
    /\ fallback \in BOOLEAN
    /\ pc = "legs" => /\ segment \in 0..(Len(snapped) - 1)
                      /\ fallback <=> Gaps(segment)
                      /\ fallback => call.fallback
    /\ FallbackHonest

LEMMA Unmoved ==
    ASSUME UNCHANGED <<call, g>>
    PROVE  /\ Mask' = Mask /\ Snaps' = Snaps
           /\ \A s : IsSnap(s)' <=> IsSnap(s)
           /\ \A n : Component(n)' = Component(n)
<1>1. Mask' = Mask
  BY DEF Mask
<1>2. \A s : IsSnap(s)' <=> IsSnap(s)
  BY <1>1 DEF IsSnap, Holds
<1>3. Snaps' = Snaps
  BY <1>2 DEF Snaps
<1>4. \A n : Component(n)' = Component(n)
  BY <1>1 DEF Component
<1> QED
  BY <1>1, <1>2, <1>3, <1>4

LEMMA UnmovedSnaps ==
    ASSUME UNCHANGED <<call, g, snapped>>
    PROVE  /\ Candidates' = Candidates /\ Here' = Here /\ Nowhere' = Nowhere
           /\ \A i : Bridged(i)' <=> Bridged(i)
           /\ \A n : Gaps(n)' <=> Gaps(n)
<1>1. Mask' = Mask /\ \A n : Component(n)' = Component(n)
  BY Unmoved
<1>2. Here' = Here /\ Nowhere' = Nowhere
  BY DEF Here, Nowhere
<1>3. Candidates' = Candidates
  BY <1>1, <1>2 DEF Candidates
<1>4. \A i : Bridged(i)' <=> Bridged(i)
  BY <1>1 DEF Bridged, Connected
<1>5. \A n : Gaps(n)' <=> Gaps(n)
  BY <1>4 DEF Gaps
<1> QED
  BY <1>2, <1>3, <1>4, <1>5

LEMMA BeginsRight ==
    ASSUME IsGraph(g), IsCall(call), Begin
    PROVE  SearchInv /\ LegsInv
<1>1. /\ pc = IF call.kind = "route" THEN "start" ELSE "search"
      /\ ring = 0 /\ best = None /\ snapped = <<>> /\ segment = 0 /\ line = <<>>
      /\ fallback = FALSE /\ result = None
  BY DEF Begin
<1>2. Len(snapped) = 0 /\ snapped \in Seq(Snaps)
  BY <1>1
<1>3. call.kind # "route" => 1 \in DOMAIN call.points
  <2>1. PICK s \in Seq(Point \cup {NoNumber}) : s = call.points
    BY DEF IsCall
  <2>2. call.kind # "route" => Len(s) = 1
    BY <2>1 DEF IsCall
  <2> QED
    BY <2>1, <2>2
<1>4. SearchInv
  BY <1>1, <1>2, <1>3 DEF SearchInv
<1>5. pc # "done" /\ pc # "legs"
  BY <1>1
<1> QED
  BY <1>1, <1>4, <1>5 DEF LegsInv, FallbackHonest, Answered

LEMMA PointsAreSome ==
    ASSUME IsCall(call)
    PROVE  Len(call.points) \in Nat /\ DOMAIN call.points = 1..Len(call.points)
  BY DEF IsCall

LEMMA SnapsAreSome ==
    ASSUME SearchInv
    PROVE  /\ Len(snapped) \in Nat /\ DOMAIN snapped = 1..Len(snapped)
           /\ \A i \in 1..Len(snapped) : snapped[i] \in Snaps /\ IsSnap(snapped[i])
<1>1. PICK s \in Seq(Snaps) : s = snapped
  BY DEF SearchInv
<1>2. \A i \in 1..Len(s) : s[i] \in Snaps
  BY ElementOfSeq
<1> QED
  BY <1>1, <1>2 DEF Snaps

\* A ring offers candidates, and of these the best is kept.
LEMMA ScanRingKeeps ==
    ASSUME SearchInv, ScanRing
    PROVE  /\ best' = None \/ best' \in Candidates
           /\ \A x \in Offered(ring) : best' # None /\ Better(best', x)
           /\ best # None => best' # None /\ Better(best', best)
           /\ best' # None => best' \in Offered(ring) \/ best' = best
<1>1. pc = "search" /\ Len(snapped) + 1 \in DOMAIN call.points /\ IsGraph(g) /\ IsCall(call)
      /\ (best = None \/ best \in Candidates)
  BY DEF ScanRing, SearchInv
<1>2. PICK found : /\ found = Offered(ring) \cup (IF best = None THEN {} ELSE {best})
                   /\ best' = IF found = {} THEN None ELSE BestOf(found)
  BY DEF ScanRing
<1>3. found \in SUBSET Candidates
  BY <1>1, <1>2, OfferedAreCandidates
<1>4. \A x \in found : IsFound(x)
  BY <1>1, <1>3, CandidateFacts
<1>5. CASE found = {}
  BY <1>2, <1>5
<1>6. CASE found # {}
  <2>1. best' \in found /\ \A y \in found : Better(best', y)
    BY <1>2, <1>4, <1>6, BestExists
  <2>2. best' # None
    BY <1>4, <2>1, FoundIsSome
  <2> QED
    BY <1>2, <1>3, <2>1, <2>2
<1> QED
  BY <1>5, <1>6

LEMMA SnapWaypointKeeps ==
    ASSUME SearchInv, SnapWaypoint
    PROVE  /\ snapped' \in Seq(Snaps) /\ Len(snapped') = Len(snapped) + 1
           /\ snapped' = Append(snapped, Snap(best))
           /\ Len(snapped) + 1 \in 1..Len(call.points) /\ Len(call.points) >= 2
           /\ call.kind = "route"
<1>1. /\ pc = "search" /\ call.kind = "route" /\ best # None
      /\ snapped' = Append(snapped, Snap(best))
  BY DEF SnapWaypoint, NearEnough
<1>2. /\ IsGraph(g) /\ IsCall(call) /\ snapped \in Seq(Snaps)
      /\ Len(snapped) + 1 \in DOMAIN call.points /\ best \in Candidates
      /\ Len(call.points) >= 2
  BY <1>1 DEF SearchInv
<1>3. IsSnap(Snap(best))
  BY <1>1, <1>2, SnapIsSnap
<1>4. Snap(best).src \in NodeIndices(g) /\ Snap(best).dst \in NodeIndices(g)
  BY <1>2, <1>3, SnapNodes
<1>5. IsFound(best)
  BY <1>2, CandidateFacts
<1>6. Snap(best) \in [edge : EdgeIndices(g), seg : Nat, t : Int, point : Point,
                      src : NodeIndices(g), dst : NodeIndices(g), d_src : Int, length : Int]
  <2>1. PICK x : x = Snap(best)
    OBVIOUS
  <2>2. /\ x.edge \in EdgeIndices(g) /\ x.t \in Int /\ x.point \in Point
        /\ x.d_src \in Int /\ x.length \in Int /\ x.src \in NodeIndices(g)
        /\ x.dst \in NodeIndices(g)
    BY <1>3, <1>4, <1>5, <2>1 DEF IsSnap, Snap, IsFound
  <2>3. x.seg \in Nat
    BY <1>5, <2>1 DEF Snap, IsFound
  <2>4. x = [edge |-> x.edge, seg |-> x.seg, t |-> x.t, point |-> x.point,
             src |-> x.src, dst |-> x.dst, d_src |-> x.d_src, length |-> x.length]
    BY <2>1 DEF Snap
  <2> QED
    BY <2>1, <2>2, <2>3, <2>4
<1>7. Snap(best) \in Snaps
  BY <1>3, <1>6 DEF Snaps
<1> QED
  BY <1>1, <1>2, <1>7, PointsAreSome

LEMMA SearchKept ==
    ASSUME SearchInv, [Next]_vars
    PROVE  SearchInv'
<1>0. UNCHANGED <<call, g>>
  BY DEF Next, vars, TooFewWaypoints, InvalidMaxSnap, StartSnapping, ScanRing, ReturnNearest,
         SnapTooFar, SnapWaypoint, PointLeg, NetworkLeg, AlongEdge, StraightLeg, NoPath, Finish,
         Returned, Fail, AppendLeg
<1>1. /\ Mask' = Mask /\ Snaps' = Snaps /\ IsGraph(g)' /\ IsCall(call)'
  BY <1>0, Unmoved DEF SearchInv
<1>2. ASSUME NEW kind, NEW index, Fail(kind, index) PROVE SearchInv'
  BY <1>1, <1>2 DEF SearchInv, Fail
<1>3. ASSUME TooFewWaypoints \/ InvalidMaxSnap \/ SnapTooFar \/ NoPath PROVE SearchInv'
  BY <1>2, <1>3 DEF TooFewWaypoints, InvalidMaxSnap, SnapTooFar, NoPath
<1>4. CASE StartSnapping
  <2>1. /\ pc = "start" /\ pc' = "search" /\ Len(call.points) >= 2
        /\ UNCHANGED <<call, g, ring, best, snapped, segment, line, fallback, priced, result>>
    BY <1>4 DEF StartSnapping
  <2>2. call.kind = "route" /\ best = None /\ ring = 0 /\ snapped = <<>> /\ result = None
    BY <2>1 DEF SearchInv
  <2>3. Len(snapped) + 1 \in DOMAIN call.points
    BY <2>1, <2>2, PointsAreSome DEF SearchInv
  <2> QED
    BY <1>1, <2>1, <2>2, <2>3 DEF SearchInv
<1>5. CASE ScanRing
  <2>1. /\ pc = "search" /\ ring' = ring + 1
        /\ UNCHANGED <<call, g, pc, snapped, segment, line, fallback, priced, result>>
    BY <1>5 DEF ScanRing
  <2>2. best' = None \/ best' \in Candidates
    BY <1>5, ScanRingKeeps
  <2>3. Candidates' = Candidates
    BY <2>1, UnmovedSnaps
  <2> QED
    BY <1>1, <2>1, <2>2, <2>3 DEF SearchInv
<1>6. CASE ReturnNearest
  BY <1>1, <1>6 DEF ReturnNearest, SearchInv
<1>7. CASE SnapWaypoint
  <2>1. /\ pc = "search" /\ ring' = 0 /\ best' = None
        /\ pc' = IF Len(snapped') = Len(call.points) THEN "legs" ELSE "search"
        /\ UNCHANGED <<call, g, segment, line, fallback, priced, result>>
    BY <1>7 DEF SnapWaypoint
  <2>2. /\ snapped' \in Seq(Snaps) /\ Len(snapped') = Len(snapped) + 1
        /\ Len(snapped) + 1 \in 1..Len(call.points) /\ Len(call.points) >= 2
        /\ call.kind = "route"
    BY <1>7, SnapWaypointKeeps
  <2>3. Len(call.points) \in Nat /\ DOMAIN call.points = 1..Len(call.points)
    BY PointsAreSome DEF SearchInv
  <2>4. pc' = "search" => Len(snapped') + 1 \in DOMAIN call.points
    BY <2>1, <2>2, <2>3
  <2>5. pc' = "legs" => Len(snapped') = Len(call.points)
    BY <2>1
  <2>6. segment = 0 /\ line = <<>> /\ fallback = FALSE /\ result = None
    BY <2>1 DEF SearchInv
  <2>7. pc' \in {"search", "legs"}
    BY <2>1
  <2> QED
    BY <1>1, <2>1, <2>2, <2>4, <2>5, <2>6, <2>7 DEF SearchInv
<1>8. ASSUME NEW points, NEW dm, NEW straight, pc = "legs", AppendLeg(points, dm, straight)
      PROVE  SearchInv'
  BY <1>1, <1>8 DEF SearchInv, AppendLeg
<1>9. ASSUME PointLeg \/ NetworkLeg \/ AlongEdge \/ StraightLeg PROVE SearchInv'
  BY <1>8, <1>9 DEF PointLeg, NetworkLeg, AlongEdge, StraightLeg, MoreLegs
<1>10. CASE Finish
  BY <1>1, <1>10 DEF SearchInv, Finish
<1>11. CASE Returned \/ UNCHANGED vars
  <2>1. UNCHANGED vars
    BY <1>11 DEF Returned
  <2>2. Candidates' = Candidates
    BY <2>1, UnmovedSnaps DEF vars
  <2> QED
    BY <1>1, <2>1, <2>2 DEF SearchInv, vars
<1> QED
  BY <1>3, <1>4, <1>5, <1>6, <1>7, <1>9, <1>10, <1>11 DEF Next

LEMMA LegFacts ==
    ASSUME SearchInv, LegsInv, MoreLegs
    PROVE  /\ segment \in Nat /\ Len(snapped) \in Nat /\ segment + 1 < Len(snapped)
           /\ a = snapped[segment + 1] /\ b = snapped[(segment + 1) + 1]
           /\ a \in Snaps /\ b \in Snaps /\ IsSnap(a) /\ IsSnap(b)
           /\ Bridged(segment + 1) <=> Routes = {}
           /\ SameEdge => ~Bridged(segment + 1)
<1>1. /\ pc = "legs" /\ segment \in 0..(Len(snapped) - 1) /\ segment + 1 < Len(snapped)
      /\ IsGraph(g)
  BY DEF MoreLegs, LegsInv, SearchInv
<1>2. Len(snapped) \in Nat /\ \A i \in 1..Len(snapped) : snapped[i] \in Snaps /\ IsSnap(snapped[i])
  BY SnapsAreSome
<1>3. segment + 1 \in 1..Len(snapped) /\ (segment + 1) + 1 \in 1..Len(snapped) /\ segment \in Nat
  BY <1>1, <1>2
<1>4. a = snapped[segment + 1] /\ b = snapped[(segment + 1) + 1]
  BY DEF a, b, At
<1>5. a \in Snaps /\ b \in Snaps /\ IsSnap(a) /\ IsSnap(b)
  BY <1>2, <1>3, <1>4
<1>6. Bridged(segment + 1) <=> Routes = {}
  BY <1>1, <1>4, <1>5, RoutesConnect DEF Bridged
<1>7. ASSUME SameEdge PROVE ~Bridged(segment + 1)
  <2>1. a.src = b.src /\ a.src \in NodeIndices(g)
    BY <1>1, <1>5, <1>7, SnapNodes DEF SameEdge, IsSnap
  <2>2. b.src \in Component(a.src)
    BY <1>1, <2>1, ComponentClosed
  <2> QED
    BY <1>4, <2>2 DEF Bridged, Connected
<1> QED
  BY <1>1, <1>2, <1>3, <1>4, <1>5, <1>6, <1>7

\* What each kind of leg says about the gap it is resolved for.
LEMMA LegKinds ==
    ASSUME SearchInv, LegsInv,
           PointLeg \/ NetworkLeg \/ AlongEdge \/ StraightLeg
    PROVE  /\ MoreLegs
           /\ \E points, dm, straight :
                 /\ AppendLeg(points, dm, straight) /\ straight \in BOOLEAN
                 /\ straight <=> Bridged(segment + 1)
                 /\ straight => call.fallback
<1>1. MoreLegs
  BY DEF PointLeg, NetworkLeg, AlongEdge, StraightLeg
<1>2. CASE PointLeg
  BY <1>1, <1>2, LegFacts DEF PointLeg, SamePlace
<1>3. CASE NetworkLeg
  BY <1>1, <1>3, LegFacts DEF NetworkLeg
<1>4. CASE AlongEdge
  BY <1>1, <1>4, LegFacts DEF AlongEdge
<1>5. CASE StraightLeg
  BY <1>1, <1>5, LegFacts DEF StraightLeg
<1> QED
  BY <1>1, <1>2, <1>3, <1>4, <1>5

LEMMA LegsKept ==
    ASSUME SearchInv, LegsInv, [Next]_vars
    PROVE  LegsInv'
<1>1. ASSUME UNCHANGED <<fallback>>, pc' # "legs", FallbackHonest' PROVE LegsInv'
  BY <1>1 DEF LegsInv
<1>2. ASSUME pc' # "done" PROVE FallbackHonest'
  BY <1>2 DEF FallbackHonest, Answered
<1>3. ASSUME NEW kind, NEW index, Fail(kind, index), kind # "NoPath" PROVE LegsInv'
  <2>1. /\ result' = [tag |-> "Err", kind |-> kind, index |-> index] /\ pc' = "done"
        /\ UNCHANGED fallback
    BY <1>3 DEF Fail, Failed
  <2>2. result'.tag = "Err" /\ result'.kind = kind
    BY <2>1
  <2>3. FallbackHonest'
    BY <1>3, <2>2 DEF FallbackHonest
  <2> QED
    BY <1>1, <2>1, <2>3
<1>4. ASSUME TooFewWaypoints \/ InvalidMaxSnap \/ SnapTooFar PROVE LegsInv'
  BY <1>3, <1>4 DEF TooFewWaypoints, InvalidMaxSnap, SnapTooFar
<1>5. ASSUME StartSnapping \/ ScanRing PROVE LegsInv'
  <2>1. pc' = "search" /\ UNCHANGED fallback
    BY <1>5 DEF StartSnapping, ScanRing
  <2> QED
    BY <1>1, <1>2, <2>1
<1>6. CASE ReturnNearest
  <2>1. pc' = "done" /\ UNCHANGED <<fallback, call>> /\ call.kind # "route"
    BY <1>6 DEF ReturnNearest
  <2>2. FallbackHonest'
    BY <2>1 DEF FallbackHonest
  <2> QED
    BY <1>1, <2>1, <2>2
<1>7. CASE SnapWaypoint
  <2>1. /\ pc = "search" /\ pc' \in {"legs", "search"} /\ UNCHANGED <<fallback, segment, call>>
        /\ pc' = "legs" => Len(snapped') = Len(call.points)
    BY <1>7 DEF SnapWaypoint
  <2>2. segment = 0 /\ fallback = FALSE /\ Len(call.points) >= 2 /\ Len(call.points) \in Nat
    BY <1>7, <2>1, SnapWaypointKeeps, PointsAreSome DEF SearchInv
  <2>3. ~Gaps(0)'
    BY DEF Gaps
  <2>4. pc' = "legs" => segment' \in 0..(Len(snapped') - 1)
    BY <2>1, <2>2
  <2> QED
    BY <1>2, <2>1, <2>2, <2>3, <2>4 DEF LegsInv
<1>8. CASE PointLeg \/ NetworkLeg \/ AlongEdge \/ StraightLeg
  <2>1. PICK points, dm, straight :
           /\ AppendLeg(points, dm, straight) /\ straight \in BOOLEAN
           /\ straight <=> Bridged(segment + 1)
           /\ straight => call.fallback
    BY <1>8, LegKinds
  <2>2. MoreLegs
    BY <1>8, LegKinds
  <2>3. /\ segment \in Nat /\ segment + 1 < Len(snapped) /\ Len(snapped) \in Nat
    BY <2>2, LegFacts
  <2>4. /\ fallback \in BOOLEAN
        /\ fallback <=> Gaps(segment)
        /\ fallback => call.fallback
        /\ pc = "legs"
    BY <2>2 DEF LegsInv, MoreLegs
  <2>5. /\ segment' = segment + 1 /\ UNCHANGED <<call, g, pc, snapped>>
        /\ fallback' = (fallback \/ straight)
    BY <2>1 DEF AppendLeg, FallbackAfter
  <2>6. Gaps(segment + 1) <=> Gaps(segment) \/ Bridged(segment + 1)
    <3>1. 1..(segment + 1) = (1..segment) \cup {segment + 1}
      BY <2>3
    <3> QED
      BY <3>1 DEF Gaps
  <2>7. Gaps(segment)' <=> Gaps(segment + 1)
    <3>1. \A i : Bridged(i)' <=> Bridged(i)
      BY <2>5, UnmovedSnaps
    <3> QED
      BY <2>5, <3>1 DEF Gaps
  <2>8. segment' \in 0..(Len(snapped') - 1)
    BY <2>3, <2>5
  <2>9. fallback' \in BOOLEAN /\ (fallback' <=> Gaps(segment)') /\ (fallback' => call'.fallback)
    BY <2>1, <2>4, <2>5, <2>6, <2>7
  <2> QED
    BY <1>2, <2>4, <2>5, <2>8, <2>9 DEF LegsInv
<1>9. CASE NoPath
  <2>1. /\ MoreLegs /\ Routes = {} /\ ~call.fallback /\ Fail("NoPath", segment)
    BY <1>9 DEF NoPath
  <2>2. /\ segment \in Nat /\ segment + 1 < Len(snapped) /\ Len(snapped) \in Nat
        /\ Bridged(segment + 1)
    BY <2>1, LegFacts
  <2>3. ~Gaps(segment)
    BY <2>1 DEF LegsInv, MoreLegs
  <2>4. /\ result' = [tag |-> "Err", kind |-> "NoPath", index |-> segment] /\ pc' = "done"
        /\ UNCHANGED <<call, g, snapped, fallback>>
    BY <2>1 DEF Fail, Failed
  <2>5. result'.tag = "Err" /\ result'.index = segment
    BY <2>4
  <2>6. \A i : Bridged(i)' <=> Bridged(i)
    BY <2>4, UnmovedSnaps
  <2>7. segment + 1 \in 1..(Len(snapped) - 1)
    BY <2>2
  <2>8. ASSUME NEW i \in 1..(Len(snapped) - 1), Bridged(i) PROVE segment + 1 <= i
    BY <2>2, <2>3, <2>8 DEF Gaps
  <2>9. FallbackHonest'
    <3>1. PICK gaps : gaps = {i \in 1..(Len(snapped) - 1) : Bridged(i)}
      OBVIOUS
    <3>2. {i \in 1..(Len(snapped) - 1) : Bridged(i)}' = gaps
      BY <2>4, <2>6, <3>1
    <3>3. segment + 1 \in gaps /\ \A i \in gaps : segment + 1 <= i
      BY <2>2, <2>7, <2>8, <3>1
    <3> QED
      BY <2>1, <2>4, <2>5, <3>2, <3>3 DEF FallbackHonest
  <2> QED
    BY <1>1, <2>4, <2>9
<1>10. CASE Finish
  <2>1. /\ pc = "legs" /\ ~MoreLegs /\ pc' = "done"
        /\ result' = [tag |-> "Ok", fallback |-> fallback]
        /\ UNCHANGED <<call, g, snapped, fallback>>
    BY <1>10 DEF Finish
  <2>2. /\ segment \in 0..(Len(snapped) - 1) /\ fallback \in BOOLEAN
        /\ fallback <=> Gaps(segment)
        /\ fallback => call.fallback
    BY <2>1 DEF LegsInv
  <2>3. Len(snapped) \in Nat /\ ~ (segment + 1 < Len(snapped))
    BY <2>1, SnapsAreSome DEF MoreLegs
  <2>4. segment = Len(snapped) - 1
    BY <2>2, <2>3
  <2>5. result'.tag = "Ok" /\ result'.fallback = fallback
    BY <2>1
  <2>6. {i \in 1..(Len(snapped) - 1) : Bridged(i)}' # {} <=> fallback
    <3>1. \A i : Bridged(i)' <=> Bridged(i)
      BY <2>1, UnmovedSnaps
    <3>2. {i \in 1..(Len(snapped) - 1) : Bridged(i)}' # {} <=> Gaps(segment)
      BY <2>1, <2>4, <3>1 DEF Gaps
    <3> QED
      BY <2>2, <3>2
  <2>7. FallbackHonest'
    BY <2>1, <2>2, <2>5, <2>6 DEF FallbackHonest
  <2> QED
    BY <1>1, <2>1, <2>7
<1>11. CASE Returned \/ UNCHANGED vars
  <2>1. UNCHANGED vars
    BY <1>11 DEF Returned
  <2>2. \A i : Bridged(i)' <=> Bridged(i)
    BY <2>1, UnmovedSnaps DEF vars
  <2>3. Gaps(segment)' <=> Gaps(segment)
    BY <2>1, <2>2 DEF Gaps, vars
  <2>4. FallbackHonest'
    <3>1. {i \in 1..(Len(snapped) - 1) : Bridged(i)}' = {i \in 1..(Len(snapped) - 1) : Bridged(i)}
      BY <2>1, <2>2 DEF vars
    <3>2. FallbackHonest
      BY DEF LegsInv
    <3> QED
      BY <2>1, <3>1, <3>2 DEF FallbackHonest, Answered, vars
  <2> QED
    BY <2>1, <2>3, <2>4 DEF LegsInv, vars
<1> QED
  BY <1>4, <1>5, <1>6, <1>7, <1>8, <1>9, <1>10, <1>11 DEF Next

\* A call of the library is made with what IsCall says.
LEMMA RequestsAreCalls ==
    ASSUME NEW r \in Requests
    PROVE  IsCall(CallOf(r))
<1>1. /\ r.kind \in {"node", "road", "route"} /\ r.points \in Seq(Point \cup {NoNumber})
      /\ r.profile \in Profiles /\ r.max \in Int \cup {Absent} /\ r.fallback \in BOOLEAN \cup {Absent}
      /\ r.kind # "route" => Len(r.points) = 1
      /\ DefaultMax \in Int
  BY RequestAssumption DEF IsRequest
<1>2. PICK c : c = CallOf(r)
  OBVIOUS
<1>3. PICK max, straight :
        /\ max = IF r.client = "ffi" THEN Absent ELSE r.max
        /\ straight = IF r.client = "ffi" THEN Absent ELSE r.fallback
  OBVIOUS
<1>4. c = [kind |-> r.kind, graph |-> r.graph, points |-> r.points, profile |-> r.profile,
           max |-> Option(max, DefaultMax), fallback |-> Option(straight, DefaultFallback)]
  BY <1>2, <1>3 DEF CallOf
<1>5. Option(max, DefaultMax) \in Int /\ Option(straight, DefaultFallback) \in BOOLEAN
  BY <1>1, <1>3 DEF Option, DefaultFallback
<1>6. /\ c.kind = r.kind /\ c.points = r.points /\ c.profile = r.profile
      /\ c.max = Option(max, DefaultMax) /\ c.fallback = Option(straight, DefaultFallback)
  BY <1>4
<1> QED
  BY <1>1, <1>2, <1>5, <1>6 DEF IsCall

LEMMA ClientsBegin == ClientInit => SearchInv /\ LegsInv
<1> SUFFICES ASSUME ClientInit PROVE SearchInv /\ LegsInv
  OBVIOUS
<1>1. IsGraph(g) /\ request \in Requests /\ call = CallOf(request) /\ Begin
  BY GraphAssumption DEF ClientInit
<1>2. IsCall(call)
  BY <1>1, RequestsAreCalls
<1> QED
  BY <1>1, <1>2, BeginsRight

\* A client's step is one of the library's, or none of it.
LEMMA ClientSteps ==
    ASSUME [ClientNext]_clientVars
    PROVE  [Next]_vars
  BY DEF ClientNext, clientVars, RefuseRequest, Route, Reply, Replied

LEMMA ClientInvariant == ClientSpec => [](SearchInv /\ LegsInv)
<1>1. ClientInit => SearchInv /\ LegsInv
  BY ClientsBegin
<1>2. SearchInv /\ LegsInv /\ [ClientNext]_clientVars => (SearchInv /\ LegsInv)'
  BY ClientSteps, SearchKept, LegsKept
<1> QED
  BY <1>1, <1>2, PTL DEF ClientSpec

\* For every graph the builder wrote, every call and every client: a route
\* that allows no straight line fails at the first leg nothing connects, and
\* one that allows it says so exactly when there was such a leg.
THEOREM FallbackAlwaysHonest == ClientSpec => []FallbackHonest
<1>1. SearchInv /\ LegsInv => FallbackHonest
  BY DEF LegsInv
<1> QED
  BY <1>1, ClientInvariant, PTL


----------------------------------------------------------------------------
(* Lists of points *)

LEMMA JoinedLists ==
    ASSUME NEW S, NEW s \in Seq(S), NEW t \in Seq(S)
    PROVE  /\ s \o t \in Seq(S) /\ Len(s \o t) = Len(s) + Len(t)
           /\ \A i \in 1..Len(s) : (s \o t)[i] = s[i]
           /\ \A i \in 1..Len(t) : (s \o t)[Len(s) + i] = t[i]
<1>1. PICK n \in Nat, m \in Nat : n = Len(s) /\ m = Len(t)
  OBVIOUS
<1>2. PICK j : j = s \o t
  OBVIOUS
<1>3. /\ j \in Seq(S) /\ Len(j) = n + m
      /\ \A i \in 1..(n + m) : j[i] = IF i <= n THEN s[i] ELSE t[i - n]
  BY <1>1, <1>2, ConcatProperties
<1>4. \A i \in 1..n : i \in 1..(n + m) /\ i <= n
  OBVIOUS
<1>5. \A i \in 1..m : n + i \in 1..(n + m) /\ ~ (n + i <= n) /\ (n + i) - n = i
  OBVIOUS
<1> QED
  BY <1>1, <1>2, <1>3, <1>4, <1>5

LEMMA ReversedList ==
    ASSUME NEW S, NEW s \in Seq(S)
    PROVE  Reverse(s) \in Seq(S)
<1>1. PICK n \in Nat : n = Len(s)
  OBVIOUS
<1>2. ASSUME NEW i \in 1..n PROVE s[(n - i) + 1] \in S
  <2>1. (n - i) + 1 \in 1..Len(s)
    BY <1>1
  <2> QED
    BY <2>1, ElementOfSeq
<1>3. [i \in 1..n |-> s[(n - i) + 1]] \in Seq(S)
  BY <1>2
<1> QED
  BY <1>1, <1>3 DEF Reverse

LEMMA SameCount ==
    ASSUME NEW m \in Nat, NEW n \in Nat, 1..m = 1..n
    PROVE  m = n
<1>1. CASE m < n
  <2>1. n \in 1..n
    BY <1>1
  <2>2. n \in 1..m
    BY <2>1
  <2> QED
    BY <1>1, <2>2
<1>2. CASE n < m
  <2>1. m \in 1..m
    BY <1>2
  <2>2. m \in 1..n
    BY <2>1
  <2> QED
    BY <1>2, <2>2
<1> QED
  BY <1>1, <1>2

LEMMA ReversedItems ==
    ASSUME NEW S, NEW s \in Seq(S), NEW n \in Nat, n = Len(s)
    PROVE  /\ Reverse(s) \in Seq(S) /\ Len(Reverse(s)) = n
           /\ \A i \in 1..n : Reverse(s)[i] = s[(n - i) + 1]
<1>1. PICK r : r = Reverse(s)
  OBVIOUS
<1>2. r \in Seq(S) /\ r = [i \in 1..n |-> s[(n - i) + 1]]
  BY <1>1, ReversedList DEF Reverse
<1>3. Len(r) = n
  <2>1. DOMAIN r = 1..Len(r) /\ Len(r) \in Nat
    BY <1>2
  <2>2. DOMAIN r = 1..n
    BY <1>2
  <2> QED
    BY ONLY <2>1, <2>2, n \in Nat, SameCount
<1> QED
  BY <1>1, <1>2, <1>3

LEMMA FlattenedLists ==
    ASSUME NEW S, NEW ss, NEW n \in Nat, Len(ss) = n, n = 0 => ss = <<>>,
           \A i \in 1..n : ss[i] \in Seq(S)
    PROVE  FlattenSeq(ss) \in Seq(S)
<1>1. CASE n = 0
  <2>1. FlattenSeq(ss) = <<>>
    BY <1>1 DEF FlattenSeq
  <2> QED
    BY <2>1
<1>2. CASE n # 0
  <2> DEFINE T == Seq(S)
             rule == [p \in ((1 + 1)..n) \X T |-> p[2] \o ss[p[1]]]
             Rule(r) == r = [i \in 1..n |-> IF i = 1 THEN ss[i] ELSE r[i - 1] \o ss[i]]
             flatten == CHOOSE r : Rule(r)
  <2>1. ss[1] \in T /\ 1 <= n /\ n \in Int
    BY <1>2
  <2>2. IsRule(rule, 1, n, T)
    <3>1. ASSUME NEW i \in (1 + 1)..n, NEW t \in T PROVE t \o ss[i] \in T
      <4>1. ss[i] \in Seq(S)
        <5>1. i \in 1..n
          OBVIOUS
        <5> QED
          BY <5>1
      <4> QED
        BY <4>1
    <3> QED
      BY <3>1 DEF IsRule
  <2>3. PICK r \in [1..n -> T] : r[1] = ss[1] /\ Follows(r, rule, 1, n)
    <3> HIDE DEF rule, T
    <3> QED
      BY <2>1, <2>2, RecursionExists
  <2>4. Rule(r)
    <3>1. ASSUME NEW i \in 1..n, i # 1 PROVE r[i] = r[i - 1] \o ss[i]
      <4>1. i \in (1 + 1)..n /\ i - 1 \in 1..n
        BY <3>1
      <4>2. <<i, r[i - 1]>> \in ((1 + 1)..n) \X T
        BY <2>3, <4>1
      <4> QED
        BY <2>3, <4>1, <4>2 DEF Follows
    <3>2. \A i \in 1..n : r[i] = IF i = 1 THEN ss[i] ELSE r[i - 1] \o ss[i]
      BY <2>3, <3>1
    <3>3. r = [i \in 1..n |-> r[i]]
      BY <2>3
    <3> QED
      BY <3>2, <3>3
  <2>5. Rule(flatten)
    BY <2>4
  <2>6. FlattenSeq(ss) = flatten[n]
    BY <1>2 DEF FlattenSeq
  <2> HIDE DEF flatten
  <2>7. \A i \in 1..n : flatten[i] = IF i = 1 THEN ss[i] ELSE flatten[i - 1] \o ss[i]
    BY <2>5
  <2> DEFINE Good == {i \in 1..n : flatten[i] \in T}
  <2>8. 1 \in Good
    <3>1. 1 \in 1..n
      BY <2>1
    <3> QED
      BY <2>1, <2>7, <3>1
  <2>9. ASSUME NEW i \in Int, 1 <= i, i < n, i \in Good PROVE i + 1 \in Good
    <3>1. i + 1 \in 1..n /\ i + 1 # 1 /\ (i + 1) - 1 = i
      BY <2>9
    <3>2. flatten[i + 1] = flatten[i] \o ss[i + 1] /\ ss[i + 1] \in Seq(S)
      BY <2>7, <3>1
    <3>3. flatten[i] \in Seq(S)
      BY <2>9
    <3>4. flatten[i] \o ss[i + 1] \in Seq(S)
      BY <3>2, <3>3
    <3> QED
      BY <3>1, <3>2, <3>4
  <2>10. \A i \in 1..n : i \in Good
    <3>1. 1 \in Int /\ n \in Int
      OBVIOUS
    <3> HIDE DEF Good
    <3> QED
      BY <2>8, <2>9, <3>1, UpFrom
  <2> QED
    BY <2>1, <2>6, <2>10
<1> QED
  BY <1>1, <1>2

\* k is s with every run of equal elements made one.
Tidied(s, n, k) ==
    /\ n = 0 => k = <<>>
    /\ n > 0 => /\ Len(k) >= 1 /\ k[1] = s[1] /\ Last(k) = s[n]
                /\ \A j \in 1..(Len(k) - 1) : k[j] # k[j + 1]
                /\ \A i \in 1..n : \E j \in 1..Len(k) : k[j] = s[i]

TidierBy(s, n, k) == IF k # <<>> /\ Last(k) = s[n] THEN k ELSE Append(k, s[n])

LEMMA TidyStep ==
    ASSUME NEW S, NEW s \in Seq(S), NEW n \in Nat, n + 1 \in 1..Len(s), NEW k \in Seq(S),
           Tidied(s, n, k)
    PROVE  TidierBy(s, n + 1, k) \in Seq(S) /\ Tidied(s, n + 1, TidierBy(s, n + 1, k))
<1>1. PICK x \in S : x = s[n + 1]
  BY ElementOfSeq
<1>2. PICK m \in Nat : m = Len(k)
  OBVIOUS
<1>3. m = 0 <=> k = <<>>
  BY <1>2
<1>4. n = 0 <=> m = 0
  BY <1>2, <1>3 DEF Tidied
<1>5. \A i \in 1..(n + 1) : i \in 1..n \/ i = n + 1
  OBVIOUS
<1>6. CASE k # <<>> /\ Last(k) = x
  <2>1. TidierBy(s, n + 1, k) = k
    BY <1>1, <1>6 DEF TidierBy
  <2>2. n > 0 /\ m > 0
    BY <1>3, <1>4, <1>6
  <2>3. /\ m >= 1 /\ k[1] = s[1] /\ \A j \in 1..(m - 1) : k[j] # k[j + 1]
        /\ \A i \in 1..n : \E j \in 1..m : k[j] = s[i]
    BY <1>2, <2>2 DEF Tidied
  <2>4. k[m] = s[n + 1] /\ m \in 1..m
    BY <1>1, <1>2, <1>6, <2>2 DEF Last
  <2>5. \A i \in 1..(n + 1) : \E j \in 1..m : k[j] = s[i]
    BY <1>5, <2>3, <2>4
  <2> QED
    BY <1>2, <2>1, <2>3, <2>4, <2>5 DEF Tidied, Last
<1>7. CASE ~ (k # <<>> /\ Last(k) = x)
  <2>1. PICK l : l = Append(k, x)
    OBVIOUS
  <2>2. TidierBy(s, n + 1, k) = l
    BY <1>1, <1>7, <2>1 DEF TidierBy
  <2>3. /\ l \in Seq(S) /\ Len(l) = m + 1 /\ l[m + 1] = x
        /\ \A j \in 1..m : l[j] = k[j]
    BY <1>2, <2>1
  <2>4. l[1] = s[1]
    <3>1. CASE m = 0
      <4>1. n = 0 /\ m + 1 = 1 /\ n + 1 = 1
        BY <1>4, <3>1
      <4> QED
        BY <1>1, <2>3, <4>1
    <3>2. CASE m > 0
      <4>1. k[1] = s[1] /\ 1 \in 1..m
        BY <1>4, <3>2 DEF Tidied
      <4> QED
        BY <2>3, <4>1
    <3> QED
      BY <3>1, <3>2
  <2>5. ASSUME NEW j \in 1..m PROVE l[j] # l[j + 1]
    <3>1. n > 0
      BY <1>4
    <3>2. CASE j = m
      <4>1. k[m] # x
        BY <1>2, <1>3, <1>7, <3>2 DEF Last
      <4> QED
        BY <2>3, <3>2, <4>1
    <3>3. CASE j # m
      <4>1. j \in 1..(m - 1) /\ j + 1 \in 1..m
        BY <3>3
      <4>2. k[j] # k[j + 1]
        BY <1>2, <3>1, <4>1 DEF Tidied
      <4> QED
        BY <2>3, <4>1, <4>2
    <3> QED
      BY <3>2, <3>3
  <2>6. ASSUME NEW i \in 1..(n + 1) PROVE \E j \in 1..(m + 1) : l[j] = s[i]
    <3>1. CASE i = n + 1
      <4>1. m + 1 \in 1..(m + 1)
        OBVIOUS
      <4> QED
        BY <1>1, <2>3, <3>1, <4>1
    <3>2. CASE i \in 1..n
      <4>1. n > 0
        BY <3>2
      <4>2. PICK j \in 1..m : k[j] = s[i]
        BY <1>2, <3>2, <4>1 DEF Tidied
      <4>3. j \in 1..(m + 1)
        OBVIOUS
      <4> QED
        BY <2>3, <4>2, <4>3
    <3> QED
      BY <1>5, <3>1, <3>2
  <2>7. Last(l) = s[n + 1] /\ Len(l) >= 1 /\ (m + 1) - 1 = m /\ n + 1 # 0
    BY <1>1, <2>3 DEF Last
  <2>8. \A j \in 1..(Len(l) - 1) : l[j] # l[j + 1]
    BY <2>3, <2>5, <2>7
  <2>9. \A i \in 1..(n + 1) : \E j \in 1..Len(l) : l[j] = s[i]
    BY <2>3, <2>6
  <2>10. Tidied(s, n + 1, l)
    BY ONLY <2>4, <2>7, <2>8, <2>9 DEF Tidied
  <2> QED
    BY <2>2, <2>3, <2>10
<1> QED
  BY <1>6, <1>7

\* k is what is left of the first n elements of s: every element has kept a
\* place, in their order, and every step of k is a step of s.
ShrinksBy(f, s, n, k) ==
    /\ \A i \in 1..n : k[f[i]] = s[i]
    /\ \A i, h \in 1..n : i <= h => f[i] <= f[h]
    /\ f[n] = Len(k)
Placed(s, n, k, m) == \E f \in [1..n -> 1..m] : ShrinksBy(f, s, n, k)
Shrunk(s, n, k) ==
    /\ n = 0 => k = <<>>
    /\ n > 0 => /\ Len(k) >= 1 /\ Placed(s, n, k, Len(k))
                /\ \A j \in 1..(Len(k) - 1) : \E i \in 1..(n - 1) :
                      k[j] = s[i] /\ k[j + 1] = s[i + 1]

\* l is k, or a longer list.
Prolongs(l, M, k, m) == M >= 1 /\ M >= m /\ Len(l) = M /\ \A j \in 1..m : l[j] = k[j]

LEMMA ShrinkOn ==
    ASSUME NEW s, NEW n \in Nat, NEW k, NEW m \in Nat, n > 0 => Placed(s, n, k, m),
           NEW l, NEW M \in Nat, Prolongs(l, M, k, m), l[M] = s[n + 1]
    PROVE  Placed(s, n + 1, l, M)
<1>1. /\ M >= 1 /\ M >= m /\ Len(l) = M
      /\ \A j \in 1..m : l[j] = k[j]
  BY DEF Prolongs
<1>2. PICK f : n > 0 => f \in [1..n -> 1..m] /\ ShrinksBy(f, s, n, k)
  BY DEF Placed
<1> DEFINE w == [i \in 1..(n + 1) |-> IF i = n + 1 THEN M ELSE f[i]]
<1>3. ASSUME NEW i \in 1..(n + 1), i # n + 1
      PROVE  i \in 1..n /\ f[i] \in 1..m /\ f[i] \in 1..M /\ n > 0
  <2>1. i \in 1..n /\ n > 0
    BY <1>3
  <2> QED
    BY <1>1, <1>2, <2>1
<1>4. w \in [1..(n + 1) -> 1..M]
  <2>1. M \in 1..M
    BY <1>1
  <2> QED
    BY <1>3, <2>1
<1>5. ASSUME NEW i \in 1..(n + 1) PROVE l[w[i]] = s[i]
  <2>1. CASE i = n + 1
    BY <2>1
  <2>2. CASE i # n + 1
    <3>1. w[i] = f[i] /\ i \in 1..n /\ f[i] \in 1..m /\ n > 0
      BY <1>3, <2>2
    <3>2. k[f[i]] = s[i]
      BY <1>2, <3>1 DEF ShrinksBy
    <3> QED
      BY <1>1, <3>1, <3>2
  <2> QED
    BY <2>1, <2>2
<1>6. ASSUME NEW i \in 1..(n + 1), NEW h \in 1..(n + 1), i <= h PROVE w[i] <= w[h]
  <2>1. CASE h = n + 1
    <3>1. w[i] \in 1..M /\ w[h] = M
      BY <1>4, <2>1
    <3> QED
      BY <3>1
  <2>2. CASE h # n + 1
    <3>1. i # n + 1
      BY <1>6, <2>2
    <3>2. w[i] = f[i] /\ w[h] = f[h] /\ i \in 1..n /\ h \in 1..n /\ n > 0
      BY <1>3, <2>2, <3>1
    <3> QED
      BY <1>6, <1>2, <3>2 DEF ShrinksBy
  <2> QED
    BY <2>1, <2>2
<1>7. w[n + 1] = M
  OBVIOUS
<1> HIDE DEF w
<1>8. ShrinksBy(w, s, n + 1, l)
  BY <1>1, <1>5, <1>6, <1>7 DEF ShrinksBy
<1> QED
  BY <1>4, <1>8 DEF Placed

LEMMA ShrinkStep ==
    ASSUME NEW S, NEW s \in Seq(S), NEW n \in Nat, n + 1 \in 1..Len(s), NEW k \in Seq(S),
           Shrunk(s, n, k)
    PROVE  Shrunk(s, n + 1, TidierBy(s, n + 1, k))
<1>1. PICK x \in S : x = s[n + 1]
  BY ElementOfSeq
<1>2. PICK m \in Nat : m = Len(k)
  OBVIOUS
<1>3. m = 0 <=> k = <<>>
  BY <1>2
<1>4. n = 0 <=> m = 0
  BY <1>2, <1>3 DEF Shrunk
<1>5. n > 0 => Placed(s, n, k, m)
  BY <1>2 DEF Shrunk
<1>6. n > 0 => \A j \in 1..(m - 1) : \E i \in 1..(n - 1) : k[j] = s[i] /\ k[j + 1] = s[i + 1]
  BY <1>2 DEF Shrunk
<1>7. CASE k # <<>> /\ Last(k) = x
  <2>1. TidierBy(s, n + 1, k) = k
    BY <1>1, <1>7 DEF TidierBy
  <2>2. n > 0 /\ m >= 1 /\ k[m] = s[n + 1]
    BY <1>1, <1>2, <1>3, <1>4, <1>7 DEF Last
  <2>3. Placed(s, n + 1, k, m)
    <3>1. Prolongs(k, m, k, m)
      BY <1>2, <2>2 DEF Prolongs
    <3> QED
      BY <1>5, <2>2, <3>1, ShrinkOn
  <2>4. ASSUME NEW j \in 1..(m - 1)
        PROVE  \E i \in 1..((n + 1) - 1) : k[j] = s[i] /\ k[j + 1] = s[i + 1]
    <3>1. PICK i \in 1..(n - 1) : k[j] = s[i] /\ k[j + 1] = s[i + 1]
      BY <1>6, <2>2
    <3>2. i \in 1..((n + 1) - 1)
      OBVIOUS
    <3> QED
      BY <3>1, <3>2
  <2>5. n + 1 # 0 /\ Len(k) = m
    BY <1>2
  <2>6. Shrunk(s, n + 1, k)
    BY ONLY <2>2, <2>3, <2>4, <2>5 DEF Shrunk
  <2> QED
    BY <2>1, <2>6
<1>8. CASE ~ (k # <<>> /\ Last(k) = x)
  <2>1. PICK l : l = Append(k, x)
    OBVIOUS
  <2>2. TidierBy(s, n + 1, k) = l
    BY <1>1, <1>8, <2>1 DEF TidierBy
  <2>3. /\ l \in Seq(S) /\ Len(l) = m + 1 /\ l[m + 1] = x
        /\ \A j \in 1..m : l[j] = k[j]
    BY <1>2, <2>1
  <2>4. PICK M \in Nat : M = m + 1 /\ M >= 1 /\ M >= m
    OBVIOUS
  <2>5. Placed(s, n + 1, l, M)
    <3>1. Prolongs(l, M, k, m)
      BY <2>3, <2>4 DEF Prolongs
    <3>2. l[M] = s[n + 1]
      BY <1>1, <2>3, <2>4
    <3> QED
      BY <1>5, <3>1, <3>2, ShrinkOn
  <2>6. ASSUME NEW j \in 1..(M - 1)
        PROVE  \E i \in 1..((n + 1) - 1) : l[j] = s[i] /\ l[j + 1] = s[i + 1]
    <3>1. j \in 1..m /\ m > 0 /\ n > 0
      BY <1>4, <2>4
    <3>2. CASE j = m
      <4>1. k[m] = s[n]
        <5>1. PICK f \in [1..n -> 1..m] : ShrinksBy(f, s, n, k)
          BY <1>5, <3>1 DEF Placed
        <5>2. n \in 1..n
          BY <3>1
        <5> QED
          BY <1>2, <5>1, <5>2 DEF ShrinksBy
      <4>2. l[j] = s[n] /\ l[j + 1] = s[n + 1] /\ n \in 1..((n + 1) - 1)
        BY <1>1, <2>3, <3>1, <3>2, <4>1
      <4> QED
        BY <4>2
    <3>3. CASE j # m
      <4>1. j \in 1..(m - 1) /\ j + 1 \in 1..m
        BY <3>1, <3>3
      <4>2. PICK i \in 1..(n - 1) : k[j] = s[i] /\ k[j + 1] = s[i + 1]
        BY <1>6, <3>1, <4>1
      <4>3. i \in 1..((n + 1) - 1) /\ l[j] = k[j] /\ l[j + 1] = k[j + 1]
        BY <2>3, <3>1, <4>1
      <4> QED
        BY <4>2, <4>3
    <3> QED
      BY <3>2, <3>3
  <2>7. n + 1 # 0 /\ Len(l) = M
    BY <2>3, <2>4
  <2>8. Shrunk(s, n + 1, l)
    BY ONLY <2>4, <2>5, <2>6, <2>7 DEF Shrunk
  <2> QED
    BY <2>2, <2>8
<1> QED
  BY <1>7, <1>8

LEMMA DedupFacts ==
    ASSUME NEW S, NEW s \in Seq(S)
    PROVE  /\ Dedup(s) \in Seq(S)
           /\ Tidied(s, Len(s), Dedup(s)) /\ Shrunk(s, Len(s), Dedup(s))
<1> DEFINE N == Len(s)
           T == Seq(S)
           rule == [p \in ((0 + 1)..N) \X T |-> TidierBy(s, p[1], p[2])]
           Rule(r) == r = [n \in 0..Len(s) |->
                             IF n = 0 THEN <<>>
                             ELSE LET before == r[n - 1]
                                  IN  IF before # <<>> /\ Last(before) = s[n] THEN before
                                      ELSE Append(before, s[n])]
           kept == CHOOSE r : Rule(r)
<1>1. N \in Nat /\ <<>> \in T
  OBVIOUS
<1>2. IsRule(rule, 0, N, T)
  <2>1. ASSUME NEW n \in (0 + 1)..N, NEW k \in T PROVE TidierBy(s, n, k) \in T
    <3>1. s[n] \in S
      <4>1. n \in 1..Len(s)
        OBVIOUS
      <4> QED
        BY <4>1, ElementOfSeq
    <3> QED
      BY <3>1 DEF TidierBy
  <2> QED
    BY <2>1 DEF IsRule
<1>3. PICK r \in [0..N -> T] : r[0] = <<>> /\ Follows(r, rule, 0, N)
  <2> HIDE DEF rule, T, N
  <2>1. 0 \in Int /\ N \in Int /\ 0 <= N
    BY <1>1
  <2> QED
    BY <1>1, <1>2, <2>1, RecursionExists
<1>4. Rule(r)
  <2>1. ASSUME NEW n \in 0..N, n # 0 PROVE r[n] = TidierBy(s, n, r[n - 1])
    <3>1. n \in (0 + 1)..N /\ n - 1 \in 0..N
      BY <2>1
    <3>2. <<n, r[n - 1]>> \in ((0 + 1)..N) \X T
      BY <1>3, <3>1
    <3> QED
      BY <1>3, <3>1, <3>2 DEF Follows
  <2>2. \A n \in 0..N : r[n] = IF n = 0 THEN <<>> ELSE TidierBy(s, n, r[n - 1])
    BY <1>3, <2>1
  <2>3. r = [n \in 0..N |-> r[n]]
    BY <1>3
  <2> QED
    BY <2>2, <2>3 DEF TidierBy
<1>5. Rule(kept)
  BY <1>4
<1>6. Dedup(s) = kept[N]
  BY DEF Dedup
<1> HIDE DEF kept
<1>7. \A n \in 0..N : kept[n] = IF n = 0 THEN <<>> ELSE TidierBy(s, n, kept[n - 1])
  BY <1>5 DEF TidierBy
<1> DEFINE Good == {n \in 0..N : /\ kept[n] \in T
                              /\ Tidied(s, n, kept[n]) /\ Shrunk(s, n, kept[n])}
<1>8. 0 \in Good
  <2>1. 0 \in 0..N
    BY <1>1
  <2>2. kept[0] = <<>>
    BY <1>7, <2>1
  <2>3. Tidied(s, 0, <<>>) /\ Shrunk(s, 0, <<>>)
    BY DEF Tidied, Shrunk
  <2> QED
    BY <1>1, <2>1, <2>2, <2>3
<1>9. ASSUME NEW n \in Int, 0 <= n, n < N, n \in Good PROVE n + 1 \in Good
  <2>1. n + 1 \in 0..N /\ n + 1 # 0 /\ (n + 1) - 1 = n /\ n \in Nat /\ n + 1 \in 1..N
    BY <1>1, <1>9
  <2>2. kept[n + 1] = TidierBy(s, n + 1, kept[n])
    BY <1>7, <2>1
  <2> QED
    BY <1>9, <2>1, <2>2, TidyStep, ShrinkStep
<1>10. \A n \in 0..N : n \in Good
  <2> HIDE DEF Good
  <2>1. 0 \in Int /\ N \in Int
    BY <1>1
  <2> HIDE DEF N
  <2> QED
    BY <1>8, <1>9, <2>1, UpFrom
<1> QED
  BY <1>1, <1>6, <1>10

----------------------------------------------------------------------------
(* What a leg appends *)

\* The points a line may have: those of the frame, and the nodes.
Shown == Places(g) \cup {NodeLatLon(g, n) : n \in NodeIndices(g)}

LEMMA CountedLists ==
    ASSUME NEW lo \in Int, NEW hi \in Int
    PROVE  Up(lo, hi) \in Seq(lo..hi) /\ Down(hi, lo) \in Seq(lo..hi)
<1>1. PICK n \in Nat : 1..(hi - lo + 1) = 1..n /\ n <= Greatest(0, hi - lo + 1)
  <2>1. CASE hi - lo + 1 <= 0
    <3>1. 1..(hi - lo + 1) = 1..0
      BY <2>1
    <3> QED
      BY <2>1, <3>1 DEF Greatest
  <2>2. CASE hi - lo + 1 > 0
    <3>1. hi - lo + 1 \in Nat /\ hi - lo + 1 <= Greatest(0, hi - lo + 1)
      BY <2>2 DEF Greatest
    <3> QED
      BY <3>1
  <2> QED
    BY <2>1, <2>2
<1>2. \A i \in 1..n : lo + i - 1 \in lo..hi /\ hi - i + 1 \in lo..hi
  <2>1. \A i \in 1..n : i <= hi - lo + 1
    BY <1>1 DEF Greatest
  <2> QED
    BY <2>1
<1>3. Up(lo, hi) = [i \in 1..n |-> lo + i - 1] /\ Down(hi, lo) = [i \in 1..n |-> hi - i + 1]
  BY <1>1 DEF Up, Down
<1>4. [i \in 1..n |-> lo + i - 1] \in Seq(lo..hi) /\ [i \in 1..n |-> hi - i + 1] \in Seq(lo..hi)
  BY <1>2
<1> QED
  BY <1>3, <1>4

LEMMA ShapeList ==
    ASSUME IsGraph(g), NEW e \in EdgeIndices(g), NEW lo \in Int, NEW hi \in Int,
           0 <= lo, hi <= Edge(g, e).geo_len + 1
    PROVE  Shape(e, Up(lo, hi)) \in Seq(Shown) /\ Shape(e, Down(hi, lo)) \in Seq(Shown)
<1>1. PICK L \in Nat : L = Edge(g, e).geo_len
  BY EdgesAreRoads, RoadFields
<1>2. ASSUME NEW ks \in Seq(lo..hi) PROVE Shape(e, ks) \in Seq(Shown)
  <2>1. PICK n \in Nat : n = Len(ks) /\ DOMAIN ks = 1..n
    OBVIOUS
  <2>2. ASSUME NEW i \in 1..n PROVE ShapePoint(g, e, ks[i]) \in Shown
    <3>1. ks[i] \in lo..hi
      BY <2>1, ElementOfSeq
    <3>2. ks[i] \in 0..(L + 1)
      BY <1>1, <3>1
    <3>3. ShapePoint(g, e, ks[i]) \in Places(g)
      BY <1>1, <3>2, ShapeInPlaces
    <3> QED
      BY <3>3 DEF Shown
  <2>3. [i \in 1..n |-> ShapePoint(g, e, ks[i])] \in Seq(Shown)
    BY <2>2
  <2> QED
    BY <2>1, <2>3 DEF Shape
<1> QED
  BY <1>2, CountedLists

LEMMA OutwardList ==
    ASSUME IsGraph(g), NEW s, IsSnap(s), NEW n
    PROVE  Outward(s, n) \in Seq(Shown)
<1>1. PICK e \in EdgeIndices(g) : e = s.edge
  BY DEF IsSnap
<1>2. PICK L \in Nat : L = Edge(g, e).geo_len
  BY EdgesAreRoads, RoadFields
<1>3. PICK k \in Int : k = s.seg /\ k >= 0 /\ k <= L
  BY <1>1, <1>2 DEF IsSnap
<1>4. Shape(e, Down(k, 1)) \in Seq(Shown) /\ Shape(e, Up(k + 1, L)) \in Seq(Shown)
  <2>1. 1 \in Int /\ k + 1 \in Int /\ L \in Int /\ 0 <= 1 /\ 0 <= k + 1 /\ k <= L + 1 /\ L <= L + 1
    BY <1>3
  <2> QED
    BY <1>2, <2>1, ShapeList
<1> QED
  BY <1>1, <1>2, <1>3, <1>4 DEF Outward, Edge

LEMMA BetweenList ==
    ASSUME IsGraph(g), IsSnap(a), IsSnap(b), SameEdge
    PROVE  BetweenThem \in Seq(Shown)
<1>1. PICK e \in EdgeIndices(g) : e = a.edge /\ e = b.edge
  BY DEF IsSnap, SameEdge
<1>2. PICK L \in Nat : L = Edge(g, e).geo_len
  BY EdgesAreRoads, RoadFields
<1>3. PICK k \in Int, l \in Int : /\ k = a.seg /\ k >= 0 /\ k <= L
                                  /\ l = b.seg /\ l >= 0 /\ l <= L
  BY <1>1, <1>2 DEF IsSnap
<1>4. Shape(e, Up(k + 1, l)) \in Seq(Shown) /\ Shape(e, Down(k, l + 1)) \in Seq(Shown)
  <2>1. /\ k + 1 \in Int /\ l + 1 \in Int /\ 0 <= k + 1 /\ 0 <= l + 1
        /\ k <= L + 1 /\ l <= L + 1
    BY <1>3
  <2> QED
    BY <1>2, <2>1, ShapeList
<1> QED
  BY <1>1, <1>3, <1>4 DEF BetweenThem

LEMMA TravelledList ==
    ASSUME IsGraph(g), NEW e \in EdgeIndices(g)
    PROVE  Travelled(e) \in Seq(Shown)
<1>1. PICK edge \in Roads(g) : edge = Edge(g, e)
  BY EdgesAreRoads
<1>2. PICK f \in Nat, L \in Nat, n \in NodeIndices(g) :
        f = edge.geo_off /\ L = edge.geo_len /\ n = edge.target
  BY <1>1, RoadFields
<1>3. f + L <= Len(g.geometry)
  BY <1>1, <1>2 DEF IsGraph, Edge
<1>4. PICK s \in Seq(Places(g)) : s = g.geometry
  BY DEF IsGraph
<1>5. \A i \in (f + 1)..(f + L) : s[i] \in Places(g)
  <2>1. ASSUME NEW i \in (f + 1)..(f + L) PROVE i \in 1..Len(s)
    BY <1>3, <1>4
  <2> QED
    BY <2>1, ElementOfSeq
<1>6. \A i \in (f + 1)..(f + L) : s[i] \in Shown
  BY <1>5 DEF Shown
<1>7. EdgeGeometry(g, edge) \in Seq(Shown)
  <2>1. f + 1 \in Int /\ f + L \in Int
    OBVIOUS
  <2>2. SubSeq(s, f + 1, f + L) \in Seq(Shown)
    BY <1>6, <2>1, SubSeqProperties
  <2> QED
    BY <1>2, <1>4, <2>2 DEF EdgeGeometry
<1>8. PICK pool \in Seq(Shown) :
        pool = IF edge.reversed THEN Reverse(EdgeGeometry(g, edge)) ELSE EdgeGeometry(g, edge)
  BY <1>7, ReversedList
<1>9. <<NodeLatLon(g, n)>> \in Seq(Shown)
  BY DEF Shown
<1>10. Travelled(e) = pool \o <<NodeLatLon(g, n)>>
  BY <1>1, <1>2, <1>8 DEF Travelled, Edge
<1> QED
  BY <1>8, <1>9, <1>10, JoinedLists

\* What a leg from a to b may append after a.
IsLeg(points) ==
    \/ points = <<>> /\ a.point = b.point
    \/ \E s \in Seq(Shown) : points = s \o <<b.point>>

LEMMA PathList ==
    ASSUME IsGraph(g), IsSnap(a), IsSnap(b), NEW path \in Routes
    PROVE  IsLeg(Outward(a, path.entry) \o <<NodeLatLon(g, path.entry)>>
                   \o FlattenSeq([i \in DOMAIN path.edges |-> Travelled(path.edges[i])])
                   \o Reverse(Outward(b, path.exit)) \o <<b.point>>)
<1>1. path \in Paths
  <2>1. PICK step : /\ StepsFrom(step)
                    /\ Routes = {x \in step[NodeCount(g)] : x.exit \in {b.src, b.dst}}
    BY RoutesAreSteps
  <2>2. PICK N \in Nat : N = NodeCount(g)
    BY NodesAreSome
  <2>3. step[N] \in SUBSET Paths
    BY <2>1, <2>2 DEF StepsFrom
  <2> QED
    BY <2>1, <2>2, <2>3
<1>2. PICK n \in NodeIndices(g), es \in Seq(EdgeIndices(g)) : n = path.entry /\ es = path.edges
  BY <1>1 DEF Paths
<1>3. PICK out, in : out = Outward(a, n) /\ in = Reverse(Outward(b, path.exit))
  OBVIOUS
<1>4. out \in Seq(Shown) /\ in \in Seq(Shown)
  BY <1>3, OutwardList, ReversedList
<1>5. <<NodeLatLon(g, n)>> \in Seq(Shown)
  BY DEF Shown
<1>6. PICK mid : mid = FlattenSeq([i \in DOMAIN es |-> Travelled(es[i])])
  OBVIOUS
<1>7. mid \in Seq(Shown)
  <2>1. PICK m \in Nat : m = Len(es) /\ DOMAIN es = 1..m
    OBVIOUS
  <2>2. PICK ss : ss = [i \in 1..m |-> Travelled(es[i])]
    OBVIOUS
  <2>3. ASSUME NEW i \in 1..m PROVE ss[i] \in Seq(Shown)
    <3>1. es[i] \in EdgeIndices(g)
      BY <2>1, ElementOfSeq
    <3> QED
      BY <2>2, <3>1, TravelledList
  <2>4. ss \in Seq(Seq(Shown)) /\ Len(ss) = m /\ (m = 0 => ss = <<>>)
    BY <2>2, <2>3
  <2>5. FlattenSeq(ss) \in Seq(Shown)
    BY <2>3, <2>4, FlattenedLists
  <2> QED
    BY <1>6, <2>1, <2>2, <2>5
<1>8. PICK s \in Seq(Shown) : s = out \o <<NodeLatLon(g, n)>> \o mid \o in
  <2>1. out \o <<NodeLatLon(g, n)>> \in Seq(Shown)
    BY <1>4, <1>5, JoinedLists
  <2>2. out \o <<NodeLatLon(g, n)>> \o mid \in Seq(Shown)
    BY <1>7, <2>1, JoinedLists
  <2>3. out \o <<NodeLatLon(g, n)>> \o mid \o in \in Seq(Shown)
    BY <1>4, <2>2, JoinedLists
  <2> QED
    BY <2>3
<1>9. /\ out \o <<NodeLatLon(g, n)>> \o mid \o in \o <<b.point>> = s \o <<b.point>>
      /\ \E t \in Seq(Shown) : s \o <<b.point>> = t \o <<b.point>>
  BY <1>8
<1> QED
  BY <1>2, <1>3, <1>6, <1>9 DEF IsLeg

LEMMA LegPoints ==
    ASSUME SearchInv, LegsInv, PointLeg \/ NetworkLeg \/ AlongEdge \/ StraightLeg
    PROVE  \E points, dm, straight : AppendLeg(points, dm, straight) /\ IsLeg(points)
<1>1. MoreLegs /\ IsGraph(g)
  BY DEF PointLeg, NetworkLeg, AlongEdge, StraightLeg, SearchInv
<1>2. IsSnap(a) /\ IsSnap(b)
  BY <1>1, LegFacts
<1>3. CASE PointLeg
  <2>1. SamePlace /\ AppendLeg(<<>>, 0, FALSE)
    BY <1>3 DEF PointLeg
  <2>2. a.point = b.point
    BY <1>2, <2>1 DEF SamePlace, SameEdge, IsSnap
  <2> QED
    BY <2>1, <2>2 DEF IsLeg
<1>4. CASE NetworkLeg
  BY <1>1, <1>2, <1>4, PathList DEF NetworkLeg
<1>5. CASE AlongEdge
  <2>1. SameEdge /\ AppendLeg(BetweenThem \o <<b.point>>, Direct, FALSE)
    BY <1>5 DEF AlongEdge
  <2>2. IsLeg(BetweenThem \o <<b.point>>)
    BY <1>1, <1>2, <2>1, BetweenList DEF IsLeg
  <2> QED
    BY <2>1, <2>2
<1>6. CASE StraightLeg
  <2>1. AppendLeg(<<b.point>>, Dm(Distance(a.point, b.point)), TRUE)
    BY <1>6 DEF StraightLeg
  <2>2. <<>> \in Seq(Shown) /\ <<b.point>> = <<>> \o <<b.point>>
    BY <1>2 DEF IsSnap, Shown
  <2>3. IsLeg(<<b.point>>)
    BY <2>2 DEF IsLeg
  <2> QED
    BY <2>1, <2>3
<1> QED
  BY <1>3, <1>4, <1>5, <1>6

----------------------------------------------------------------------------
(* The finished line *)

LEMMA WrapFacts ==
    ASSUME NEW x \in Int
    PROVE  /\ WrapLon(x) \in Int
           /\ Gap(0, x) <= 2 * HalfCircle => Gap(0, WrapLon(x)) <= HalfCircle
           /\ Gap(0, x) <= HalfCircle => WrapLon(x) = x
  BY UnitAssumption DEF WrapLon, Gap

\* A point in the range of the answers.
InRange(p) == p \in Point /\ Gap(0, Lat(p)) <= QuarterCircle /\ Gap(0, Lon(p)) <= HalfCircle

LEMMA RangeFacts ==
    ASSUME NEW p, InRange(p)
    PROVE  OnGlobe(p) /\ Wrapped(p) = p
<1>1. PICK y \in Int, x \in Int : p = <<y, x>>
  BY DEF InRange, Point
<1>2. Lat(p) = y /\ Lon(p) = x /\ p # NoNumber
  BY <1>1, NoNumberAssumption DEF Lat, Lon, InRange
<1>3. Gap(0, y) <= QuarterCircle /\ Gap(0, x) <= HalfCircle
  BY <1>2 DEF InRange
<1>4. WrapLon(x) = x
  BY <1>3, WrapFacts
<1>5. /\ -QuarterCircle <= y /\ y <= QuarterCircle
      /\ -HalfCircle <= x /\ x <= HalfCircle
  BY <1>3, QuarterAssumption, UnitAssumption DEF Gap
<1> QED
  BY <1>1, <1>2, <1>4, <1>5 DEF OnGlobe, Wrapped

LEMMA PlaceFacts ==
    ASSUME IsGraph(g), NEW p \in Places(g)
    PROVE  InRange(Wrapped(p)) /\ (~g.shifted => InRange(p))
<1>1. PICK y \in Int, x \in Int : p = <<y, x>>
  BY DEF Places, Point
<1>2. Lat(p) = y /\ Lon(p) = x
  BY <1>1 DEF Lat, Lon
<1>3. /\ Gap(0, y) <= QuarterCircle
      /\ Gap(0, x) <= 2 * HalfCircle
      /\ ~g.shifted => Gap(0, x) <= HalfCircle
  <2>1. PICK far \in Nat : far = Gap(0, x)
    BY DEF Gap
  <2>2. far <= IF g.shifted THEN 2 * HalfCircle ELSE HalfCircle
    BY <1>2, <2>1 DEF Places
  <2>3. g.shifted => far <= 2 * HalfCircle
    BY <2>2
  <2>4. ~g.shifted => far <= HalfCircle
    BY <2>2
  <2>5. far <= 2 * HalfCircle
    BY <2>3, <2>4, UnitAssumption
  <2> QED
    BY <1>2, <2>1, <2>4, <2>5 DEF Places
<1>4. PICK z \in Int : z = WrapLon(x) /\ Gap(0, z) <= HalfCircle
  BY <1>3, WrapFacts
<1>5. Wrapped(p) = <<y, z>>
  BY <1>2, <1>4 DEF Wrapped
<1>6. Lat(<<y, z>>) = y /\ Lon(<<y, z>>) = z /\ <<y, z>> \in Point
  BY DEF Lat, Lon, Point
<1> QED
  BY <1>1, <1>2, <1>3, <1>4, <1>5, <1>6 DEF InRange, Point

LEMMA ShownFacts ==
    ASSUME IsGraph(g), NEW p \in Shown
    PROVE  /\ InRange(Wrapped(p))
           /\ ~g.shifted => InRange(p)
           /\ p \notin Places(g) =>
                 \E n \in NodeIndices(g) : /\ At(g.nodes, n) # NodeLatLon(g, n)
                                           /\ p = NodeLatLon(g, n)
                                           /\ Wrapped(p) = NodeLatLon(g, n)
<1>1. CASE p \in Places(g)
  BY <1>1, PlaceFacts
<1>2. CASE p \notin Places(g)
  <2>1. PICK n \in NodeIndices(g) : p = NodeLatLon(g, n)
    BY <1>2 DEF Shown
  <2>2. At(g.nodes, n) \in Places(g)
    BY NodesAreSome
  <2>3. InRange(p)
    BY <2>1, <2>2, PlaceFacts DEF NodeLatLon
  <2>4. Wrapped(p) = p
    BY <2>3, RangeFacts
  <2> QED
    BY <1>2, <2>1, <2>2, <2>3, <2>4
<1> QED
  BY <1>1, <1>2

\* A frame is at most half a turn wide: it shows no place twice.
LEMMA PlacesDiffer ==
    ASSUME IsGraph(g), g.shifted, NEW p \in Places(g), NEW q \in Places(g), p # q
    PROVE  Wrapped(p) # Wrapped(q)
<1>1. PICK y1 \in Int, x1 \in Int, y2 \in Int, x2 \in Int : p = <<y1, x1>> /\ q = <<y2, x2>>
  BY DEF Places, Point
<1>2. Lat(p) = y1 /\ Lon(p) = x1 /\ Lat(q) = y2 /\ Lon(q) = x2
  BY <1>1 DEF Lat, Lon
<1>3. PICK w \in Int, e \in Int : w = g.bbox.min[2] /\ e = g.bbox.max[2]
  BY DEF IsGraph, Point
<1>4. e - w <= HalfCircle
  BY <1>3 DEF IsGraph, Width
<1>5. w <= x1 /\ x1 <= e /\ w <= x2 /\ x2 <= e
  BY <1>1, <1>3 DEF Places
<1>6. Gap(x1, x2) <= HalfCircle
  BY ONLY <1>4, <1>5, UnitAssumption, x1 \in Int, x2 \in Int, w \in Int, e \in Int DEF Gap
<1> SUFFICES ASSUME Wrapped(p) = Wrapped(q) PROVE FALSE
  OBVIOUS
<1>7. y1 = y2 /\ WrapLon(x1) = WrapLon(x2)
  BY <1>2 DEF Wrapped
<1>8. Gap(0, x1) <= 2 * HalfCircle /\ Gap(0, x2) <= 2 * HalfCircle
  BY <1>2, UnitAssumption DEF Places
<1>9. x1 = x2
  BY <1>6, <1>7, <1>8, UnitAssumption DEF WrapLon, Gap
<1> QED
  BY <1>1, <1>7, <1>9

\* A turn more or less does not move a point.
LEMMA WrappedLies ==
    ASSUME IsGraph(g), NEW p1 \in Places(g), NEW p2 \in Places(g), NEW p \in Point,
           Gap(0, Lon(p)) <= 2 * HalfCircle, LiesBetween(p1, p2, p)
    PROVE  LiesBetween(p1, p2, Wrapped(p))
<1>1. PICK y1 \in Int, x1 \in Int, y2 \in Int, x2 \in Int : p1 = <<y1, x1>> /\ p2 = <<y2, x2>>
  BY DEF Places, Point
<1>2. Lat(p1) = y1 /\ Lon(p1) = x1 /\ Lat(p2) = y2 /\ Lon(p2) = x2
  BY <1>1 DEF Lat, Lon
<1>3. PICK y \in Int, x0 \in Int : p = <<y, x0>> /\ Lat(p) = y /\ Lon(p) = x0
  BY DEF Point, Lat, Lon
<1>4. PICK H \in Nat : H = HalfCircle /\ H > 0
  BY UnitAssumption
<1>5. Gap(0, x1) <= 2 * H /\ Gap(0, x2) <= 2 * H
  <2>1. PICK u \in Nat, v \in Nat : u = Gap(0, x1) /\ v = Gap(0, x2)
    BY DEF Gap
  <2>2. \/ u <= 2 * H /\ v <= 2 * H
        \/ u <= H /\ v <= H
    BY <1>2, <1>4, <2>1 DEF Places
  <2> QED
    BY <2>1, <2>2
<1>6. PICK turn \in {-2 * H, 0, 2 * H}, x \in Int :
        /\ x = x0 + turn
        /\ Gap((x - x1) * (y2 - y1), (y - y1) * (x2 - x1)) <= Gap(x1, x2) + Gap(y1, y2)
        /\ Least(x1, x2) <= x /\ x <= Greatest(x1, x2)
        /\ Least(y1, y2) <= y /\ y <= Greatest(y1, y2)
  BY <1>2, <1>3, <1>4 DEF LiesBetween
<1>7. PICK z \in Int : z = WrapLon(x0)
  BY <1>4 DEF WrapLon
<1>8. Wrapped(p) = <<y, z>> /\ Lat(<<y, z>>) = y /\ Lon(<<y, z>>) = z
  BY <1>3, <1>7 DEF Wrapped, Lat, Lon
<1>9. -2 * H <= x /\ x <= 2 * H
  BY <1>5, <1>6 DEF Gap, Least, Greatest
<1>10. -H <= z /\ z <= H /\ z - x0 \in {-2 * H, 0, 2 * H}
  BY <1>3, <1>4, <1>7 DEF WrapLon, Gap
<1>11. x - z \in {-2 * H, 0, 2 * H}
  BY ONLY <1>4, <1>6, <1>9, <1>10, H \in Nat, x \in Int, z \in Int, x0 \in Int
<1>12. PICK over \in {-2 * H, 0, 2 * H} : z + over = x
  BY <1>11
<1>13. LiesBetween(p1, p2, <<y, z>>)
  <2>1. LET w == Lon(<<y, z>>) + over
        IN  /\ Gap((w - Lon(p1)) * (Lat(p2) - Lat(p1)), (Lat(<<y, z>>) - Lat(p1)) * (Lon(p2) - Lon(p1)))
                 <= Gap(Lon(p1), Lon(p2)) + Gap(Lat(p1), Lat(p2))
            /\ Least(Lon(p1), Lon(p2)) <= w /\ w <= Greatest(Lon(p1), Lon(p2))
            /\ Least(Lat(p1), Lat(p2)) <= Lat(<<y, z>>)
            /\ Lat(<<y, z>>) <= Greatest(Lat(p1), Lat(p2))
    BY <1>2, <1>6, <1>8, <1>12
  <2>2. over \in {-2 * HalfCircle, 0, 2 * HalfCircle}
    BY <1>4, <1>12
  <2> QED
    BY ONLY <2>1, <2>2 DEF LiesBetween
<1> QED
  BY <1>8, <1>13
\* The line passes the first n waypoints, from the first to the last of them.
Through(l, n) ==
    /\ l \in Seq(Shown) /\ Len(l) >= 1
    /\ l[1] = snapped[1].point /\ Last(l) = snapped[n].point
    /\ \A i \in 1..n : \E j \in 1..Len(l) : l[j] = snapped[i].point

LineSoFar ==
    pc = "legs" => /\ segment = 0 => line = <<>>
                   /\ segment > 0 => Through(line, segment + 1)

\* What the answer's line is.
Drawn(l) ==
    /\ l \in Seq(Point) /\ Len(l) >= 2
    /\ \A i \in 1..Len(l) : InRange(l[i])
    /\ l[1] = Wrapped(snapped[1].point) /\ Last(l) = Wrapped(Last(snapped).point)
    /\ \A j \in 1..(Len(l) - 1) : l[j] = l[j + 1] =>
          \/ Len(l) = 2 /\ \A i \in DOMAIN snapped : snapped[i].point = snapped[1].point
          \/ \E n \in NodeIndices(g) : /\ At(g.nodes, n) # NodeLatLon(g, n)
                                       /\ l[j] = NodeLatLon(g, n)

RouteReturned == pc = "done" /\ call.kind = "route" /\ result.tag = "Ok"

LineInv ==
    /\ LineSoFar
    /\ RouteReturned => Drawn(line) /\ (result.fallback => call.fallback)
    /\ Routed => RouteReturned

LEMMA LegThrough ==
    ASSUME SearchInv, LegsInv, LineInv, MoreLegs, NEW points, IsLeg(points)
    PROVE  Through(line \o <<a.point>> \o points, (segment + 1) + 1)
<1>1. /\ segment \in Nat /\ Len(snapped) \in Nat /\ segment + 1 < Len(snapped)
      /\ a = snapped[segment + 1] /\ b = snapped[(segment + 1) + 1] /\ IsSnap(a) /\ IsSnap(b)
  BY LegFacts
<1>2. PICK p \in Shown, q \in Shown : p = a.point /\ q = b.point
  BY <1>1 DEF IsSnap, Shown
<1>3. PICK l : l = line \o <<p>>
  OBVIOUS
<1>4. pc = "legs"
  BY DEF MoreLegs
<1>5. <<p>> \in Seq(Shown) /\ Len(<<p>>) = 1 /\ <<p>>[1] = p
  OBVIOUS
<1>6. Through(l, segment + 1)
  <2>1. CASE segment = 0
    <3>1. line = <<>>
      BY <1>4, <2>1 DEF LineInv, LineSoFar
    <3>2. l = <<p>>
      BY <1>3, <3>1
    <3>3. \A i \in 1..1 : i = 1
      OBVIOUS
    <3>4. snapped[1].point = p /\ segment + 1 = 1
      BY <1>1, <1>2, <2>1
    <3> QED
      BY <1>5, <3>2, <3>3, <3>4 DEF Through, Last
  <2>2. CASE segment # 0
    <3>1. Through(line, segment + 1)
      BY <1>1, <1>4, <2>2 DEF LineInv, LineSoFar
    <3>2. PICK m \in Nat : m = Len(line) /\ m >= 1 /\ line \in Seq(Shown)
      BY <3>1 DEF Through
    <3>3. /\ l \in Seq(Shown) /\ Len(l) = m + 1 /\ l[m + 1] = p
          /\ \A j \in 1..m : l[j] = line[j]
      BY <1>3, <1>5, <3>2, JoinedLists
    <3>4. l[1] = snapped[1].point
      BY <3>1, <3>2, <3>3 DEF Through
    <3>5. \A i \in 1..(segment + 1) : \E j \in 1..(m + 1) : l[j] = snapped[i].point
      <4>1. \A j \in 1..m : j \in 1..(m + 1)
        OBVIOUS
      <4> QED
        BY <3>1, <3>2, <3>3, <4>1 DEF Through
    <3>6. Last(l) = snapped[segment + 1].point /\ Len(l) >= 1
      BY <1>1, <1>2, <3>3 DEF Last
    <3> QED
      BY <3>3, <3>4, <3>5, <3>6 DEF Through
  <2> QED
    BY <2>1, <2>2
<1>7. PICK m \in Nat : m = Len(l) /\ m >= 1 /\ l \in Seq(Shown)
  BY <1>6 DEF Through
<1>8. PICK N \in Nat : N = segment + 1
  BY <1>1
<1>9. \A i \in 1..(N + 1) : i \in 1..N \/ i = N + 1
  OBVIOUS
<1>10. snapped[N + 1].point = q /\ l[1] = snapped[1].point /\ l[m] = snapped[N].point
      /\ snapped[N].point = p
      /\ \A i \in 1..N : \E j \in 1..m : l[j] = snapped[i].point
  BY <1>1, <1>2, <1>6, <1>7, <1>8 DEF Through, Last
<1>11. CASE points = <<>> /\ a.point = b.point
  <2>1. l \o points = l
    BY <1>7, <1>11, ConcatEmptySeq
  <2>2. p = q /\ m \in 1..m
    BY <1>2, <1>7, <1>11
  <2>3. \A i \in 1..(N + 1) : \E j \in 1..m : l[j] = snapped[i].point
    BY <1>9, <1>10, <2>2
  <2>4. Through(l, N + 1)
    BY <1>7, <1>10, <2>2, <2>3 DEF Through, Last
  <2> QED
    BY <1>2, <1>3, <1>8, <2>1, <2>4
<1>12. CASE \E s \in Seq(Shown) : points = s \o <<b.point>>
  <2>1. PICK s \in Seq(Shown) : points = s \o <<q>>
    BY <1>2, <1>12
  <2>2. PICK k \in Nat : k = Len(s) + 1
    OBVIOUS
  <2>3. <<q>> \in Seq(Shown) /\ Len(<<q>>) = 1 /\ <<q>>[1] = q
    OBVIOUS
  <2>4. points \in Seq(Shown) /\ Len(points) = k /\ points[k] = q /\ k >= 1
    BY <2>1, <2>2, <2>3, JoinedLists
  <2>5. PICK t : t = l \o points
    OBVIOUS
  <2>6. /\ t \in Seq(Shown) /\ Len(t) = m + k
        /\ \A j \in 1..m : t[j] = l[j]
        /\ \A j \in 1..k : t[m + j] = points[j]
    <3>1. /\ t \in Seq(Shown) /\ Len(t) = Len(l) + Len(points)
          /\ \A j \in 1..Len(l) : t[j] = l[j]
          /\ \A j \in 1..Len(points) : t[Len(l) + j] = points[j]
      <4>1. l \in Seq(Shown) /\ points \in Seq(Shown)
        BY <1>7, <2>4
      <4> QED
        BY ONLY <2>5, <4>1, JoinedLists
    <3> QED
      BY ONLY <1>7, <2>4, <3>1
  <2>7. t[1] = snapped[1].point /\ t[m + k] = q /\ m + k \in 1..(m + k) /\ m + k >= 1
    BY <1>7, <1>10, <2>4, <2>6
  <2>8. \A i \in 1..(N + 1) : \E j \in 1..(m + k) : t[j] = snapped[i].point
    <3>1. \A j \in 1..m : j \in 1..(m + k)
      OBVIOUS
    <3>2. \A i \in 1..N : \E j \in 1..(m + k) : t[j] = snapped[i].point
      <4> TAKE i \in 1..N
      <4>1. PICK j \in 1..m : l[j] = snapped[i].point
        BY <1>10
      <4>2. j \in 1..(m + k) /\ t[j] = l[j]
        BY ONLY <2>6, <3>1, <4>1
      <4> QED
        BY ONLY <4>1, <4>2
    <3>3. \E j \in 1..(m + k) : t[j] = snapped[N + 1].point
      BY <1>9, <1>10, <2>7
    <3>4. \A i \in 1..(N + 1) : i \in 1..N \/ i = N + 1
      OBVIOUS
    <3> QED
      BY ONLY <3>2, <3>3, <3>4
  <2>9. Through(t, N + 1)
    BY <1>10, <2>6, <2>7, <2>8 DEF Through, Last
  <2> QED
    BY <1>2, <1>3, <1>8, <2>5, <2>9
<1> QED
  BY <1>11, <1>12 DEF IsLeg

\* Tidied, and never a single point.
Pair(s) == IF Len(s) = 1 THEN s \o s ELSE s

\* Two equal points follow one another only where nothing moves.
Stepping(l) ==
    /\ l \in Seq(Shown) /\ Len(l) >= 2
    /\ l[1] = snapped[1].point /\ Last(l) = Last(snapped).point
    /\ \A j \in 1..(Len(l) - 1) : l[j] = l[j + 1] =>
          Len(l) = 2 /\ \A i \in DOMAIN snapped : snapped[i].point = snapped[1].point

LEMMA TidyLine ==
    ASSUME SearchInv, LegsInv, LineInv, pc = "legs", ~MoreLegs
    PROVE  Stepping(Pair(Dedup(line)))
<1>1. PICK N \in Nat : N = Len(snapped) /\ N >= 2 /\ DOMAIN snapped = 1..N
  <2>1. Len(snapped) = Len(call.points) /\ Len(call.points) >= 2 /\ snapped \in Seq(Snaps)
    BY DEF SearchInv
  <2> QED
    BY <2>1
<1>2. segment = N - 1
  BY <1>1 DEF LegsInv, MoreLegs
<1>3. Through(line, N)
  BY <1>1, <1>2 DEF LineInv, LineSoFar
<1>4. PICK L \in Nat : L = Len(line) /\ L >= 1 /\ line \in Seq(Shown)
  BY <1>3 DEF Through
<1>5. /\ line[1] = snapped[1].point /\ line[L] = Last(snapped).point
      /\ \A i \in 1..N : \E j \in 1..L : line[j] = snapped[i].point
  BY <1>1, <1>3, <1>4 DEF Through, Last
<1>6. PICK s \in Seq(Shown) : s = Dedup(line) /\ Tidied(line, L, s)
  BY <1>4, DedupFacts
<1>7. PICK k \in Nat : k = Len(s)
  OBVIOUS
<1>8. /\ k >= 1 /\ s[1] = line[1] /\ s[k] = line[L]
      /\ \A j \in 1..(k - 1) : s[j] # s[j + 1]
      /\ \A i \in 1..L : \E j \in 1..k : s[j] = line[i]
  BY <1>4, <1>6, <1>7 DEF Tidied, Last
<1>9. CASE k = 1
  <2>1. PICK x \in Shown : x = s[1]
    <3>1. 1 \in 1..Len(s)
      BY <1>7, <1>9
    <3> QED
      BY <3>1, ElementOfSeq
  <2>2. PICK l : l = s \o s
    OBVIOUS
  <2>3. Pair(s) = l
    BY <1>7, <1>9, <2>2 DEF Pair
  <2>4. l \in Seq(Shown) /\ Len(l) = 2 /\ l[1] = x /\ l[2] = x
    <3>1. /\ l \in Seq(Shown) /\ Len(l) = Len(s) + Len(s)
          /\ \A j \in 1..Len(s) : l[j] = s[j]
          /\ \A j \in 1..Len(s) : l[Len(s) + j] = s[j]
      BY ONLY <2>2, s \in Seq(Shown), JoinedLists
    <3>2. 1 \in 1..Len(s) /\ Len(s) + 1 = 2 /\ Len(s) + Len(s) = 2
      BY <1>7, <1>9
    <3>3. l[1] = s[1] /\ l[Len(s) + 1] = s[1]
      BY <3>1, <3>2
    <3> QED
      BY <2>1, <3>1, <3>2, <3>3
  <2>5. \A i \in 1..N : snapped[i].point = x
    <3>1. \A j \in 1..k : s[j] = x
      BY <1>9, <2>1
    <3> TAKE i \in 1..N
    <3>2. PICK j \in 1..L : line[j] = snapped[i].point
      BY <1>5
    <3>3. PICK h \in 1..k : s[h] = line[j]
      BY <1>8
    <3> QED
      BY ONLY <3>1, <3>2, <3>3
  <2>6. 1 \in 1..N /\ Last(snapped).point = x
    BY <1>1, <1>5, <1>8, <1>9, <2>1
  <2> QED
    BY <1>1, <1>6, <2>3, <2>4, <2>5, <2>6 DEF Stepping, Last
<1>10. CASE k # 1
  <2>1. Pair(s) = s
    BY <1>7, <1>10 DEF Pair
  <2>2. k >= 2
    BY <1>8, <1>10
  <2> QED
    BY <1>5, <1>6, <1>7, <1>8, <2>1, <2>2 DEF Stepping, Last
<1> QED
  BY <1>9, <1>10

LEMMA FinishedLine ==
    ASSUME SearchInv, NEW two, Stepping(two), snapped # <<>>
    PROVE  Drawn(IF g.shifted THEN [i \in DOMAIN two |-> Wrapped(two[i])] ELSE two)
<1>1. PICK N \in Nat : N = Len(two) /\ N >= 2 /\ DOMAIN two = 1..N /\ two \in Seq(Shown)
  BY DEF Stepping
<1>2. IsGraph(g) /\ \A i \in 1..N : two[i] \in Shown
  BY <1>1, ElementOfSeq DEF SearchInv
<1>3. /\ two[1] = snapped[1].point /\ two[N] = Last(snapped).point
      /\ \A j \in 1..(N - 1) : two[j] = two[j + 1] =>
           N = 2 /\ \A i \in DOMAIN snapped : snapped[i].point = snapped[1].point
  BY <1>1 DEF Stepping, Last
<1>4. CASE g.shifted
  <2>1. PICK l : l = [i \in 1..N |-> Wrapped(two[i])]
    OBVIOUS
  <2>2. ASSUME NEW i \in 1..N PROVE l[i] = Wrapped(two[i]) /\ InRange(l[i]) /\ l[i] \in Point
    BY <1>2, <2>1, ShownFacts DEF InRange
  <2>3. l \in Seq(Point) /\ Len(l) = N
    <3>1. \A i \in 1..N : Wrapped(two[i]) \in Point
      BY <2>2
    <3> QED
      BY <2>1, <3>1
  <2>4. l[1] = Wrapped(snapped[1].point) /\ l[N] = Wrapped(Last(snapped).point)
    <3>1. 1 \in 1..N /\ N \in 1..N
      BY <1>1
    <3> QED
      BY <1>3, <2>2, <3>1
  <2>5. ASSUME NEW j \in 1..(N - 1), l[j] = l[j + 1], two[j] # two[j + 1]
        PROVE  \E n \in NodeIndices(g) : /\ At(g.nodes, n) # NodeLatLon(g, n)
                                         /\ l[j] = NodeLatLon(g, n)
    <3>1. j \in 1..N /\ j + 1 \in 1..N
      OBVIOUS
    <3>2. PICK p \in Shown, q \in Shown : p = two[j] /\ q = two[j + 1]
      BY <1>2, <3>1
    <3>3. p # q /\ l[j] = Wrapped(p) /\ l[j] = Wrapped(q)
      BY <2>2, <2>5, <3>1, <3>2
    <3>4. p \notin Places(g) \/ q \notin Places(g)
      BY <1>2, <1>4, <3>3, PlacesDiffer
    <3> QED
      BY <1>2, <3>3, <3>4, ShownFacts
  <2>6. Last(l) = l[N]
    BY <2>3 DEF Last
  <2>7. \A j \in 1..(N - 1) : l[j] = l[j + 1] =>
          \/ N = 2 /\ \A i \in DOMAIN snapped : snapped[i].point = snapped[1].point
          \/ \E n \in NodeIndices(g) : /\ At(g.nodes, n) # NodeLatLon(g, n)
                                       /\ l[j] = NodeLatLon(g, n)
    BY <1>3, <2>5
  <2>8. Drawn(l)
    BY <1>1, <2>2, <2>3, <2>4, <2>6, <2>7 DEF Drawn
  <2> QED
    BY <1>1, <1>4, <2>1, <2>8
<1>5. CASE ~g.shifted
  <2>1. ASSUME NEW i \in 1..N PROVE InRange(two[i]) /\ two[i] \in Point /\ Wrapped(two[i]) = two[i]
    BY <1>2, <1>5, ShownFacts, RangeFacts DEF InRange
  <2>2. two \in Seq(Point)
    <3>1. two = [i \in 1..N |-> two[i]]
      BY <1>1
    <3> QED
      BY <2>1, <3>1
  <2>3. 1 \in 1..N /\ N \in 1..N
    BY <1>1
  <2>4. two[1] = Wrapped(snapped[1].point) /\ Last(two) = Wrapped(Last(snapped).point)
    BY <1>1, <1>3, <2>1, <2>3 DEF Last
  <2>5. Drawn(two)
    BY <1>1, <1>3, <2>1, <2>2, <2>4 DEF Drawn
  <2> QED
    BY <1>5, <2>5
<1> QED
  BY <1>4, <1>5

LEMMA UnmovedLine ==
    ASSUME UNCHANGED <<call, g, snapped>>
    PROVE  /\ \A l, n : Through(l, n)' <=> Through(l, n)
           /\ \A l : Drawn(l)' <=> Drawn(l)
<1>1. Shown' = Shown
  BY DEF Shown
<1> QED
  BY <1>1 DEF Through, Drawn

LEMMA LineKept ==
    ASSUME SearchInv, LegsInv, LineInv, [Next]_vars
    PROVE  LineInv'
<1>1. ASSUME pc' \notin {"legs", "done"} PROVE LineInv'
  BY <1>1 DEF LineInv, LineSoFar, RouteReturned, Routed, Answered
<1>2. ASSUME NEW kind, NEW index, Fail(kind, index) PROVE LineInv'
  <2>1. result' = [tag |-> "Err", kind |-> kind, index |-> index] /\ pc' = "done"
    BY <1>2 DEF Fail, Failed
  <2>2. result'.tag = "Err"
    BY <2>1
  <2> QED
    BY <2>1, <2>2 DEF LineInv, LineSoFar, RouteReturned, Routed
<1>3. ASSUME TooFewWaypoints \/ InvalidMaxSnap \/ SnapTooFar \/ NoPath PROVE LineInv'
  BY <1>2, <1>3 DEF TooFewWaypoints, InvalidMaxSnap, SnapTooFar, NoPath
<1>4. ASSUME StartSnapping \/ ScanRing PROVE LineInv'
  BY <1>1, <1>4 DEF StartSnapping, ScanRing
<1>5. CASE ReturnNearest
  <2>1. /\ pc' = "done"
        /\ \/ result' = None
           \/ result' = [tag |-> "Some", point |-> Wrapped(best.point), d2 |-> best.d2]
    BY <1>5 DEF ReturnNearest
  <2>2. ~Routed'
    <3>1. CASE result' = None
      BY <3>1 DEF Routed, Answered
    <3>2. CASE result' = [tag |-> "Some", point |-> Wrapped(best.point), d2 |-> best.d2]
      <4>1. result'.tag = "Some"
        BY <3>2
      <4> QED
        BY <4>1 DEF Routed
    <3> QED
      BY <2>1, <3>1, <3>2
  <2>3. call'.kind # "route"
    BY <1>5 DEF ReturnNearest
  <2> QED
    BY <2>1, <2>2, <2>3 DEF LineInv, LineSoFar, RouteReturned
<1>6. CASE SnapWaypoint
  <2>1. pc = "search" /\ pc' \in {"legs", "search"} /\ UNCHANGED <<segment, line>>
    BY <1>6 DEF SnapWaypoint
  <2>2. segment' = 0 /\ line' = <<>>
    BY <2>1 DEF SearchInv
  <2> QED
    BY <2>1, <2>2 DEF LineInv, LineSoFar, RouteReturned, Routed, Answered
<1>7. CASE PointLeg \/ NetworkLeg \/ AlongEdge \/ StraightLeg
  <2>1. PICK points, dm, straight : AppendLeg(points, dm, straight) /\ IsLeg(points)
    BY <1>7, LegPoints
  <2>2. MoreLegs
    BY <1>7 DEF PointLeg, NetworkLeg, AlongEdge, StraightLeg
  <2>3. /\ line' = line \o <<a.point>> \o points
        /\ segment' = segment + 1 /\ UNCHANGED <<call, g, pc, snapped>>
    BY <2>1 DEF AppendLeg
  <2>4. Through(line \o <<a.point>> \o points, (segment + 1) + 1)
    BY <2>1, <2>2, LegThrough
  <2>5. Through(line, segment + 1)'
    BY <2>3, <2>4, UnmovedLine
  <2>6. segment' # 0 /\ pc' = "legs"
    BY <2>2, <2>3, LegFacts DEF MoreLegs
  <2> QED
    BY <2>5, <2>6 DEF LineInv, LineSoFar, RouteReturned, Routed, Answered
<1>8. CASE Finish
  <2>1. /\ pc = "legs" /\ ~MoreLegs /\ pc' = "done"
        /\ result' = [tag |-> "Ok", fallback |-> fallback]
        /\ UNCHANGED <<call, g, snapped>>
    BY <1>8 DEF Finish
  <2>2. PICK two : two = Pair(Dedup(line))
    OBVIOUS
  <2>3. line' = IF g.shifted THEN [i \in DOMAIN two |-> Wrapped(two[i])] ELSE two
    BY <1>8, <2>2 DEF Finish, Pair
  <2>4. Stepping(two)
    BY <2>1, <2>2, TidyLine
  <2>5. snapped # <<>>
    BY <2>1 DEF SearchInv
  <2>6. Drawn(line')
    BY <2>3, <2>4, <2>5, FinishedLine
  <2>7. Drawn(line)'
    BY <2>1, <2>6, UnmovedLine
  <2>8. result'.fallback = fallback /\ (fallback => call'.fallback)
    BY <2>1 DEF LegsInv
  <2>9. call'.kind = "route" /\ result'.tag = "Ok"
    BY <2>1 DEF SearchInv
  <2> QED
    BY <2>1, <2>7, <2>8, <2>9 DEF LineInv, LineSoFar, RouteReturned
<1>9. CASE Returned \/ UNCHANGED vars
  <2>1. UNCHANGED vars
    BY <1>9 DEF Returned
  <2>2. UNCHANGED <<call, g, snapped>>
    BY <2>1 DEF vars
  <2>3. (Drawn(line)' <=> Drawn(line)) /\ (Through(line, segment + 1)' <=> Through(line, segment + 1))
    BY <2>1, <2>2, UnmovedLine DEF vars
  <2> QED
    BY <2>1, <2>3 DEF LineInv, LineSoFar, RouteReturned, Routed, Answered, vars
<1> QED
  BY <1>3, <1>4, <1>5, <1>6, <1>7, <1>8, <1>9 DEF Next

----------------------------------------------------------------------------
(* Ways along the roads *)

\* The steps along one segment of one road.
RoadSteps == {r \in Shown \X Shown : OnOneRoad(r[1], r[2])}

Chained(l, R) == \A j \in 1..(Len(l) - 1) : <<l[j], l[j + 1]>> \in R

\* A list of points from p to q, each one step from the one before.
Leads(l, p, q) ==
    /\ l \in Seq(Shown) /\ Len(l) >= 1
    /\ l[1] = p /\ l[Len(l)] = q
    /\ Chained(l, RoadSteps)

LEMMA ChainedJoin ==
    ASSUME NEW S, NEW R, NEW s \in Seq(S), NEW t \in Seq(S), Chained(s, R), Chained(t, R),
           Len(s) >= 1 /\ Len(t) >= 1 => <<s[Len(s)], t[1]>> \in R
    PROVE  Chained(s \o t, R)
<1>1. PICK n \in Nat, m \in Nat : n = Len(s) /\ m = Len(t)
  OBVIOUS
<1>2. PICK l : l = s \o t
  OBVIOUS
<1>3. /\ Len(l) = n + m
      /\ \A i \in 1..n : l[i] = s[i]
      /\ \A i \in 1..m : l[n + i] = t[i]
  BY <1>1, <1>2, JoinedLists
<1>4. ASSUME NEW j \in 1..(n + m - 1) PROVE <<l[j], l[j + 1]>> \in R
  <2>1. CASE j < n
    <3>1. j \in 1..n /\ j + 1 \in 1..n /\ j \in 1..(n - 1)
      BY <2>1
    <3>2. <<s[j], s[j + 1]>> \in R
      BY <1>1, <3>1 DEF Chained
    <3> QED
      BY <1>3, <3>1, <3>2
  <2>2. CASE j = n
    <3>1. n >= 1 /\ m >= 1 /\ n \in 1..n /\ 1 \in 1..m
      BY <2>2
    <3>2. <<s[n], t[1]>> \in R
      BY <1>1, <3>1
    <3> QED
      BY <1>3, <2>2, <3>1, <3>2
  <2>3. CASE j > n
    <3>1. PICK i \in 1..(m - 1) : j = n + i /\ j + 1 = n + (i + 1)
      <4>1. j - n \in 1..(m - 1) /\ j = n + (j - n) /\ j + 1 = n + ((j - n) + 1)
        BY <2>3
      <4> QED
        BY <4>1
    <3>2. i \in 1..m /\ i + 1 \in 1..m
      OBVIOUS
    <3>3. <<t[i], t[i + 1]>> \in R
      BY <1>1 DEF Chained
    <3> QED
      BY <1>3, <3>1, <3>2, <3>3
  <2> QED
    BY <2>1, <2>2, <2>3
<1>5. Chained(l, R)
  BY ONLY <1>3, <1>4 DEF Chained
<1> QED
  BY <1>2, <1>5

LEMMA ChainedTail ==
    ASSUME NEW S, NEW R, NEW x \in S, NEW t \in Seq(S), Chained(<<x>> \o t, R)
    PROVE  Chained(t, R) /\ (Len(t) >= 1 => <<x, t[1]>> \in R)
<1>1. PICK m \in Nat : m = Len(t)
  OBVIOUS
<1>2. PICK l : l = <<x>> \o t
  OBVIOUS
<1>3. /\ Len(l) = 1 + m /\ l[1] = x
      /\ \A i \in 1..m : l[1 + i] = t[i]
  <2>1. <<x>> \in Seq(S) /\ Len(<<x>>) = 1 /\ <<x>>[1] = x /\ 1 \in 1..1
    OBVIOUS
  <2> QED
    BY ONLY <1>1, <1>2, <2>1, t \in Seq(S), JoinedLists
<1>4. \A j \in 1..m : <<l[j], l[j + 1]>> \in R
  BY <1>2, <1>3 DEF Chained
<1>5. ASSUME NEW j \in 1..(m - 1) PROVE <<t[j], t[j + 1]>> \in R
  <2>1. /\ j \in 1..m /\ j + 1 \in 1..m /\ 1 + j \in 1..m
        /\ (1 + j) + 1 = 1 + (j + 1)
    OBVIOUS
  <2>2. <<l[1 + j], l[(1 + j) + 1]>> \in R
    BY <1>4, <2>1
  <2> QED
    BY <1>3, <2>1, <2>2
<1>6. m >= 1 => <<x, t[1]>> \in R
  <2> SUFFICES ASSUME m >= 1 PROVE <<x, t[1]>> \in R
    OBVIOUS
  <2>1. 1 \in 1..m /\ 1 + 1 = 1 + 1
    OBVIOUS
  <2> QED
    BY <1>3, <1>4, <2>1
<1> QED
  BY <1>1, <1>5, <1>6 DEF Chained

LEMMA OnOneRoadBack ==
    ASSUME NEW p, NEW q, <<p, q>> \in RoadSteps
    PROVE  <<q, p>> \in RoadSteps
  BY DEF RoadSteps, OnOneRoad

\* One way after the other.
LEMMA LeadsOn ==
    ASSUME NEW s, NEW x, NEW t \in Seq(Shown), NEW p, NEW q,
           Leads(s, p, x), Leads(<<x>> \o t, x, q)
    PROVE  Leads(s \o t, p, q)
<1>1. PICK n \in Nat, m \in Nat : n = Len(s) /\ m = Len(t) /\ n >= 1
  BY DEF Leads
<1>2. s \in Seq(Shown) /\ s[1] = p /\ s[n] = x /\ Chained(s, RoadSteps) /\ x \in Shown
  <2>1. s \in Seq(Shown) /\ s[1] = p /\ s[n] = x /\ Chained(s, RoadSteps)
    BY <1>1 DEF Leads
  <2>2. n \in 1..Len(s)
    BY <1>1
  <2> QED
    BY <2>1, <2>2, ElementOfSeq
<1>3. Chained(t, RoadSteps) /\ (m >= 1 => <<x, t[1]>> \in RoadSteps)
  BY <1>1, <1>2, ChainedTail DEF Leads
<1>4. Chained(s \o t, RoadSteps)
  BY <1>1, <1>2, <1>3, ChainedJoin
<1>5. PICK l, k : l = s \o t /\ k = <<x>> \o t
  OBVIOUS
<1>6. /\ l \in Seq(Shown) /\ Len(l) = n + m
      /\ \A i \in 1..n : l[i] = s[i]
      /\ \A i \in 1..m : l[n + i] = t[i]
  BY <1>1, <1>2, <1>5, JoinedLists
<1>7. /\ Len(k) = 1 + m /\ k[1] = x
      /\ \A i \in 1..m : k[1 + i] = t[i]
  <2>1. <<x>> \in Seq(Shown) /\ Len(<<x>>) = 1 /\ <<x>>[1] = x /\ 1 \in 1..1
    BY <1>2
  <2> QED
    BY ONLY <1>1, <1>5, <2>1, t \in Seq(Shown), JoinedLists
<1>8. k[1 + m] = q
  BY <1>5, <1>7 DEF Leads
<1>9. l[n + m] = q
  <2>1. CASE m = 0
    <3>1. n + m = n /\ 1 + m = 1 /\ n \in 1..n
      BY <1>1, <2>1
    <3> QED
      BY <1>2, <1>6, <1>7, <1>8, <3>1
  <2>2. CASE m # 0
    <3>1. m \in 1..m
      BY <2>2
    <3> QED
      BY <1>6, <1>7, <1>8, <3>1
  <2> QED
    BY <2>1, <2>2
<1>10. l[1] = p /\ Len(l) >= 1
  <2>1. 1 \in 1..n /\ n + m >= 1
    BY <1>1
  <2> QED
    BY <1>2, <1>6, <2>1
<1> QED
  BY <1>4, <1>5, <1>6, <1>9, <1>10 DEF Leads

\* A way is a way back.
LEMMA LeadsBack ==
    ASSUME NEW l, NEW p, NEW q, Leads(l, p, q)
    PROVE  Leads(Reverse(l), q, p)
<1>1. PICK n \in Nat : n = Len(l) /\ n >= 1 /\ l \in Seq(Shown)
  BY DEF Leads
<1>2. l[1] = p /\ l[n] = q /\ \A j \in 1..(n - 1) : <<l[j], l[j + 1]>> \in RoadSteps
  BY <1>1 DEF Leads, Chained
<1>3. PICK r : r = Reverse(l)
  OBVIOUS
<1>4. r \in Seq(Shown)
  BY <1>1, <1>3, ReversedItems
<1>5. Len(r) = n /\ \A i \in 1..n : r[i] = l[(n - i) + 1]
  BY <1>1, <1>3, ReversedItems
<1>6. r[1] = q /\ r[n] = p
  <2>1. 1 \in 1..n /\ n \in 1..n /\ (n - 1) + 1 = n /\ (n - n) + 1 = 1
    BY <1>1
  <2> QED
    BY <1>2, <1>5, <2>1
<1>7. ASSUME NEW j \in 1..(n - 1) PROVE <<r[j], r[j + 1]>> \in RoadSteps
  <2>1. /\ j \in 1..n /\ j + 1 \in 1..n /\ n - j \in 1..(n - 1)
        /\ (n - (j + 1)) + 1 = n - j
    OBVIOUS
  <2>2. r[j] = l[(n - j) + 1] /\ r[j + 1] = l[n - j]
    BY <1>5, <2>1
  <2>3. <<l[n - j], l[(n - j) + 1]>> \in RoadSteps
    BY <1>2, <2>1
  <2> QED
    BY <2>2, <2>3, OnOneRoadBack
<1> QED
  BY <1>1, <1>3, <1>4, <1>5, <1>6, <1>7 DEF Leads, Chained

\* A list with an end put to either side of it.
LEMMA EndsPut ==
    ASSUME NEW S, NEW p \in S, NEW s \in Seq(S), NEW q \in S
    PROVE  /\ <<p>> \o s \o <<q>> \in Seq(S)
           /\ Len(<<p>> \o s \o <<q>>) = Len(s) + 2
           /\ (<<p>> \o s \o <<q>>)[1] = p /\ (<<p>> \o s \o <<q>>)[Len(s) + 2] = q
           /\ \A i \in 1..Len(s) : (<<p>> \o s \o <<q>>)[i + 1] = s[i]
<1>1. PICK n \in Nat : n = Len(s)
  OBVIOUS
<1>2. /\ <<p>> \in Seq(S) /\ Len(<<p>>) = 1 /\ <<p>>[1] = p
      /\ <<q>> \in Seq(S) /\ Len(<<q>>) = 1 /\ <<q>>[1] = q
  OBVIOUS
<1>3. PICK k : k = <<p>> \o s
  OBVIOUS
<1>4. /\ k \in Seq(S) /\ Len(k) = 1 + n /\ k[1] = p
      /\ \A i \in 1..n : k[1 + i] = s[i]
  <2>1. 1 \in 1..1
    OBVIOUS
  <2> QED
    BY ONLY <1>1, <1>2, <1>3, <2>1, s \in Seq(S), JoinedLists
<1>5. PICK l : l = k \o <<q>>
  OBVIOUS
<1>6. /\ l \in Seq(S) /\ Len(l) = (1 + n) + 1 /\ l[(1 + n) + 1] = q
      /\ \A i \in 1..(1 + n) : l[i] = k[i]
  <2>1. 1 \in 1..1
    OBVIOUS
  <2> QED
    BY ONLY <1>2, <1>4, <1>5, <2>1, JoinedLists
<1>7. l[1] = p /\ \A i \in 1..n : l[i + 1] = s[i]
  <2>1. 1 \in 1..(1 + n) /\ \A i \in 1..n : i + 1 \in 1..(1 + n) /\ i + 1 = 1 + i
    OBVIOUS
  <2> QED
    BY <1>4, <1>6, <2>1
<1>8. (1 + n) + 1 = n + 2
  OBVIOUS
<1> QED
  BY <1>1, <1>3, <1>5, <1>6, <1>7, <1>8

TurnsRound(p, s, q) == Reverse(<<q>> \o s \o <<p>>) = <<p>> \o Reverse(s) \o <<q>>

LEMMA EndsTurned ==
    ASSUME NEW S, NEW p \in S, NEW s \in Seq(S), NEW q \in S
    PROVE  TurnsRound(p, s, q)
<1>1. PICK n \in Nat : n = Len(s)
  OBVIOUS
<1>2. PICK l, r, t, k : l = <<q>> \o s \o <<p>> /\ r = Reverse(l) /\ t = Reverse(s)
                        /\ k = <<p>> \o t \o <<q>>
  OBVIOUS
<1>3. /\ l \in Seq(S) /\ Len(l) = n + 2 /\ l[1] = q /\ l[n + 2] = p
      /\ \A i \in 1..n : l[i + 1] = s[i]
  BY <1>1, <1>2, EndsPut
<1>4. t \in Seq(S) /\ \A i \in 1..n : t[i] = s[(n - i) + 1]
  BY <1>1, <1>2, ReversedItems
<1>5. Len(t) = n
  BY <1>1, <1>2, ReversedItems
<1>6. /\ k \in Seq(S) /\ Len(k) = n + 2 /\ k[1] = p /\ k[n + 2] = q
      /\ \A i \in 1..n : k[i + 1] = t[i]
  BY <1>2, <1>4, <1>5, EndsPut
<1>7. r = [i \in 1..(n + 2) |-> l[((n + 2) - i) + 1]]
  BY <1>2, <1>3 DEF Reverse
<1>8. k = [i \in 1..(n + 2) |-> k[i]]
  <2>1. DOMAIN k = 1..(n + 2) /\ k = [i \in 1..Len(k) |-> k[i]]
    BY <1>6
  <2> QED
    BY <1>6, <2>1
<1>9. ASSUME NEW i \in 1..(n + 2) PROVE l[((n + 2) - i) + 1] = k[i]
  <2>1. CASE i = 1
    <3>1. ((n + 2) - 1) + 1 = n + 2
      OBVIOUS
    <3> QED
      BY <1>3, <1>6, <2>1, <3>1
  <2>2. CASE i = n + 2
    <3>1. ((n + 2) - (n + 2)) + 1 = 1
      OBVIOUS
    <3> QED
      BY <1>3, <1>6, <2>2, <3>1
  <2>3. CASE i # 1 /\ i # n + 2
    <3>1. PICK h \in 1..n : i = h + 1 /\ ((n + 2) - i) + 1 = ((n - h) + 1) + 1
      <4>1. i - 1 \in 1..n /\ i = (i - 1) + 1 /\ ((n + 2) - i) + 1 = ((n - (i - 1)) + 1) + 1
        BY <2>3
      <4> QED
        BY <4>1
    <3>2. (n - h) + 1 \in 1..n
      OBVIOUS
    <3>3. k[i] = s[(n - h) + 1] /\ l[((n - h) + 1) + 1] = s[(n - h) + 1]
      BY <1>3, <1>4, <1>6, <3>1, <3>2
    <3> QED
      BY <3>1, <3>3
  <2> QED
    BY <2>1, <2>2, <2>3
<1> QED
  BY <1>2, <1>7, <1>8, <1>9 DEF TurnsRound

LEMMA PlaceLies ==
    ASSUME IsGraph(g), NEW p1 \in Places(g), NEW p2 \in Places(g), NEW p \in Places(g),
           LiesBetween(p1, p2, p)
    PROVE  LiesBetween(p1, p2, Wrapped(p))
<1>1. p \in Point
  BY DEF Places
<1>2. Gap(0, Lon(p)) <= 2 * HalfCircle
  <2>1. PICK x \in Int : x = Lon(p)
    BY <1>1 DEF Point, Lon
  <2>2. PICK u \in Nat : u = Gap(0, x)
    BY <2>1 DEF Gap
  <2>3. u <= 2 * HalfCircle \/ u <= HalfCircle
    BY <2>1, <2>2 DEF Places
  <2> QED
    BY <2>1, <2>2, <2>3, UnitAssumption
<1> QED
  BY <1>1, <1>2, WrappedLies

LEMMA HoldsEnds ==
    ASSUME IsGraph(g), NEW e \in EdgeIndices(g), NEW k \in 0..Edge(g, e).geo_len
    PROVE  /\ ShapePoint(g, e, k) \in Shown /\ ShapePoint(g, e, k + 1) \in Shown
           /\ Holds(e, k, ShapePoint(g, e, k)) /\ Holds(e, k, ShapePoint(g, e, k + 1))
           /\ Holds(e, k, Wrapped(ShapePoint(g, e, k)))
           /\ Holds(e, k, Wrapped(ShapePoint(g, e, k + 1)))
<1>1. PICK L \in Nat : L = Edge(g, e).geo_len
  BY EdgesAreRoads, RoadFields
<1>2. k \in 0..(L + 1) /\ k + 1 \in 0..(L + 1)
  BY <1>1
<1>3. PICK p1 \in Places(g), p2 \in Places(g) :
        p1 = ShapePoint(g, e, k) /\ p2 = ShapePoint(g, e, k + 1)
  BY <1>1, <1>2, ShapeInPlaces
<1>4. p1 \in Point /\ p2 \in Point
  BY DEF Places
<1>5. LiesBetween(p1, p2, p1) /\ LiesBetween(p1, p2, p2)
  BY <1>4, EndsLie
<1>6. LiesBetween(p1, p2, Wrapped(p1)) /\ LiesBetween(p1, p2, Wrapped(p2))
  BY <1>5, PlaceLies
<1> QED
  BY <1>3, <1>5, <1>6 DEF Holds, Shown

LEMMA StepOn ==
    ASSUME IsGraph(g), NEW e \in EdgeIndices(g), NEW k \in 0..Edge(g, e).geo_len,
           Usable(g, e, Mask), NEW p \in Shown, NEW q \in Shown,
           Holds(e, k, p), Holds(e, k, q)
    PROVE  <<p, q>> \in RoadSteps
<1>1. OnOneRoad(p, q)
  BY DEF OnOneRoad, Holds, Edge
<1> QED
  BY <1>1 DEF RoadSteps

LEMMA ShapeItems ==
    ASSUME IsGraph(g), NEW e \in EdgeIndices(g), NEW lo \in Int, NEW hi \in Int,
           0 <= lo, lo <= hi + 1, hi <= Edge(g, e).geo_len + 1
    PROVE  /\ Shape(e, Up(lo, hi)) \in Seq(Shown)
           /\ Len(Shape(e, Up(lo, hi))) = hi - lo + 1
           /\ \A i \in 1..(hi - lo + 1) : Shape(e, Up(lo, hi))[i] = ShapePoint(g, e, lo + i - 1)
           /\ Shape(e, Down(hi, lo)) = Reverse(Shape(e, Up(lo, hi)))
<1>1. PICK L \in Nat : L = Edge(g, e).geo_len
  BY EdgesAreRoads, RoadFields
<1>2. PICK n \in Nat : hi - lo + 1 = n /\ hi = lo + n - 1 /\ hi <= L + 1
  <2>1. hi - lo + 1 \in Nat /\ hi = lo + (hi - lo + 1) - 1
    OBVIOUS
  <2> QED
    BY <1>1, <2>1
<1>3. PICK s, r : s = Shape(e, Up(lo, hi)) /\ r = Shape(e, Down(hi, lo))
  OBVIOUS
<1>4. s \in Seq(Shown) /\ r \in Seq(Shown)
  BY <1>1, <1>2, <1>3, ShapeList
<1>5. Up(lo, hi) = [i \in 1..n |-> lo + i - 1] /\ Down(hi, lo) = [i \in 1..n |-> hi - i + 1]
  BY <1>2 DEF Up, Down
<1>6. /\ s = [i \in 1..n |-> ShapePoint(g, e, lo + i - 1)]
      /\ r = [i \in 1..n |-> ShapePoint(g, e, hi - i + 1)]
  <2>1. PICK u, d : u = Up(lo, hi) /\ d = Down(hi, lo)
    OBVIOUS
  <2>2. /\ DOMAIN u = 1..n /\ \A i \in 1..n : u[i] = lo + i - 1
        /\ DOMAIN d = 1..n /\ \A i \in 1..n : d[i] = hi - i + 1
    BY <1>5, <2>1
  <2>3. /\ s = [i \in 1..n |-> ShapePoint(g, e, u[i])]
        /\ r = [i \in 1..n |-> ShapePoint(g, e, d[i])]
    BY <1>3, <2>1, <2>2 DEF Shape
  <2> QED
    BY <2>2, <2>3
<1>7. Len(s) = n
  <2>1. DOMAIN s = 1..Len(s) /\ Len(s) \in Nat
    BY <1>4
  <2>2. DOMAIN s = 1..n
    BY <1>6
  <2> QED
    BY ONLY <2>1, <2>2, n \in Nat, SameCount
<1>9. Len(r) = n
  <2>1. DOMAIN r = 1..Len(r) /\ Len(r) \in Nat
    BY <1>4
  <2>2. DOMAIN r = 1..n
    BY <1>6
  <2> QED
    BY ONLY <2>1, <2>2, n \in Nat, SameCount
<1>8. r = Reverse(s)
  <2>1. /\ Reverse(s) \in Seq(Shown) /\ Len(Reverse(s)) = n
        /\ \A i \in 1..n : Reverse(s)[i] = s[(n - i) + 1]
    BY <1>4, <1>7, ReversedItems
  <2>2. PICK t : t = Reverse(s)
    OBVIOUS
  <2>3. ASSUME NEW i \in 1..n PROVE t[i] = r[i]
    <3>1. (n - i) + 1 \in 1..n /\ lo + ((n - i) + 1) - 1 = hi - i + 1
      BY <1>2
    <3>2. s[(n - i) + 1] = ShapePoint(g, e, lo + ((n - i) + 1) - 1)
      BY <1>6, <3>1
    <3> QED
      BY <1>6, <2>1, <2>2, <3>1, <3>2
  <2> QED
    BY ONLY <1>3, <1>4, <1>9, <2>1, <2>2, <2>3, SeqEqual
<1> QED
  BY <1>2, <1>3, <1>4, <1>6, <1>7, <1>8

\* Along the shape of one road, forwards and backwards.
LEMMA UpLeads ==
    ASSUME IsGraph(g), NEW e \in EdgeIndices(g), Usable(g, e, Mask),
           NEW lo \in Int, NEW hi \in Int, 1 <= lo, lo <= hi + 1, hi <= Edge(g, e).geo_len,
           NEW p \in Shown, NEW q \in Shown, Holds(e, lo - 1, p), Holds(e, hi, q)
    PROVE  Leads(<<p>> \o Shape(e, Up(lo, hi)) \o <<q>>, p, q)
<1>1. PICK L \in Nat : L = Edge(g, e).geo_len
  BY EdgesAreRoads, RoadFields
<1>2. PICK n \in Nat : n = hi - lo + 1 /\ hi = lo + n - 1
  <2>1. hi - lo + 1 \in Nat /\ hi = lo + (hi - lo + 1) - 1
    OBVIOUS
  <2> QED
    BY <2>1
<1>3. PICK s : s = Shape(e, Up(lo, hi))
  OBVIOUS
<1>4. /\ s \in Seq(Shown) /\ Len(s) = n
      /\ \A i \in 1..n : s[i] = ShapePoint(g, e, lo + i - 1)
  <2>1. 0 <= lo /\ hi <= Edge(g, e).geo_len + 1
    BY <1>1
  <2> QED
    BY <1>2, <1>3, <2>1, ShapeItems
<1>5. PICK l : l = <<p>> \o s \o <<q>>
  OBVIOUS
<1>6. /\ l \in Seq(Shown) /\ Len(l) = n + 2 /\ l[1] = p /\ l[n + 2] = q
      /\ \A i \in 1..n : l[i + 1] = s[i]
  BY <1>4, <1>5, EndsPut
<1>7. ASSUME NEW j \in 1..(n + 1) PROVE <<l[j], l[j + 1]>> \in RoadSteps
  <2>1. PICK k \in 0..L : k = lo + j - 2
    <3>1. lo + j - 2 \in 0..L
      BY <1>1, <1>2
    <3> QED
      BY <3>1
  <2>2. l[j] \in Shown /\ l[j + 1] \in Shown
    <3>1. j \in 1..Len(l) /\ j + 1 \in 1..Len(l)
      BY <1>6
    <3> QED
      BY <1>6, <3>1, ElementOfSeq
  <2>3. Holds(e, k, l[j])
    <3>1. CASE j = 1
      <4>1. k = lo - 1
        BY <2>1, <3>1
      <4> QED
        BY <1>6, <3>1, <4>1
    <3>2. CASE j # 1
      <4>1. PICK i \in 1..n : j = i + 1 /\ lo + i - 1 = k
        <5>1. j - 1 \in 1..n /\ j = (j - 1) + 1 /\ lo + (j - 1) - 1 = k
          BY <2>1, <3>2
        <5> QED
          BY <5>1
      <4>2. l[j] = ShapePoint(g, e, k)
        BY <1>4, <1>6, <4>1
      <4> QED
        BY <1>1, <4>2, HoldsEnds
    <3> QED
      BY <3>1, <3>2
  <2>4. Holds(e, k, l[j + 1])
    <3>1. CASE j = n + 1
      <4>1. k = hi /\ j + 1 = n + 2
        BY <1>2, <2>1, <3>1
      <4> QED
        BY <1>6, <4>1
    <3>2. CASE j # n + 1
      <4>1. j \in 1..n /\ lo + j - 1 = k + 1
        BY <2>1, <3>2
      <4>2. l[j + 1] = ShapePoint(g, e, k + 1)
        BY <1>4, <1>6, <4>1
      <4> QED
        BY <1>1, <4>2, HoldsEnds
    <3> QED
      BY <3>1, <3>2
  <2> QED
    BY <1>1, <2>2, <2>3, <2>4, StepOn
<1>8. Chained(l, RoadSteps)
  <2>1. (n + 2) - 1 = n + 1
    OBVIOUS
  <2> QED
    BY <1>6, <1>7, <2>1 DEF Chained
<1>9. n + 2 >= 1
  OBVIOUS
<1> QED
  BY <1>3, <1>5, <1>6, <1>8, <1>9 DEF Leads

LEMMA DownLeads ==
    ASSUME IsGraph(g), NEW e \in EdgeIndices(g), Usable(g, e, Mask),
           NEW lo \in Int, NEW hi \in Int, 1 <= lo, lo <= hi + 1, hi <= Edge(g, e).geo_len,
           NEW p \in Shown, NEW q \in Shown, Holds(e, hi, p), Holds(e, lo - 1, q)
    PROVE  Leads(<<p>> \o Shape(e, Down(hi, lo)) \o <<q>>, p, q)
<1>1. PICK L \in Nat : L = Edge(g, e).geo_len
  BY EdgesAreRoads, RoadFields
<1>2. PICK n \in Nat : n = hi - lo + 1 /\ hi = lo + n - 1
  <2>1. hi - lo + 1 \in Nat /\ hi = lo + (hi - lo + 1) - 1
    OBVIOUS
  <2> QED
    BY <2>1
<1>3. PICK s : s = Shape(e, Up(lo, hi))
  OBVIOUS
<1>4. s \in Seq(Shown) /\ Shape(e, Down(hi, lo)) = Reverse(s)
  <2>1. 0 <= lo /\ hi <= Edge(g, e).geo_len + 1
    BY <1>1
  <2> QED
    BY <1>2, <1>3, <2>1, ShapeItems
<1>5. Leads(<<q>> \o s \o <<p>>, q, p)
  BY <1>3, UpLeads
<1>6. Leads(Reverse(<<q>> \o s \o <<p>>), p, q)
  BY <1>5, LeadsBack
<1>7. Reverse(<<q>> \o s \o <<p>>) = <<p>> \o Reverse(s) \o <<q>>
  BY <1>4, EndsTurned DEF TurnsRound
<1> QED
  BY <1>4, <1>6, <1>7

LEMMA RoadEnds ==
    ASSUME IsGraph(g), NEW e \in EdgeIndices(g)
    PROVE  /\ ShapePoint(g, e, 0) = At(g.nodes, Source(g, e))
           /\ ShapePoint(g, e, Edge(g, e).geo_len + 1) = At(g.nodes, Edge(g, e).target)
<1>1. PICK L \in Nat : L = Edge(g, e).geo_len
  BY EdgesAreRoads, RoadFields
<1>2. L + 1 # 0
  OBVIOUS
<1> QED
  BY <1>1, <1>2 DEF ShapePoint, Edge, Source

LEMMA NodeShown ==
    ASSUME NEW n \in NodeIndices(g)
    PROVE  NodeLatLon(g, n) \in Shown
  BY DEF Shown

LEMMA OutwardLeads ==
    ASSUME IsGraph(g), NEW s, IsSnap(s), NEW n \in {s.src, s.dst}
    PROVE  Leads(<<s.point>> \o Outward(s, n) \o <<NodeLatLon(g, n)>>, s.point, NodeLatLon(g, n))
<1>1. PICK e \in EdgeIndices(g) : e = s.edge
  BY DEF IsSnap
<1>2. PICK L \in Nat : L = Edge(g, e).geo_len
  BY EdgesAreRoads, RoadFields
<1>3. PICK k \in 0..L : k = s.seg
  BY <1>1, <1>2 DEF IsSnap
<1>4. PICK p, q : p = s.point /\ q = NodeLatLon(g, n)
  OBVIOUS
<1>5. /\ p \in Shown /\ q \in Shown /\ Usable(g, e, Mask) /\ Holds(e, k, p)
      /\ s.src = Source(g, e) /\ s.dst = Edge(g, e).target
  <2>1. n \in NodeIndices(g)
    BY SnapNodes
  <2> QED
    BY <1>1, <1>3, <1>4, <2>1, NodeShown DEF IsSnap, Shown, Source
<1>6. CASE n = s.src
  <2>1. Outward(s, n) = Shape(e, Down(k, 1))
    BY <1>1, <1>3, <1>6 DEF Outward
  <2>2. Holds(e, 0, q)
    <3>1. 0 \in 0..L
      OBVIOUS
    <3>2. q = Wrapped(ShapePoint(g, e, 0))
      BY <1>4, <1>5, <1>6, RoadEnds DEF NodeLatLon
    <3> QED
      BY <1>2, <3>1, <3>2, HoldsEnds
  <2>3. 1 \in Int /\ k \in Int /\ 1 <= 1 /\ 1 <= k + 1 /\ k <= Edge(g, e).geo_len /\ 1 - 1 = 0
    BY <1>2
  <2>4. Leads(<<p>> \o Shape(e, Down(k, 1)) \o <<q>>, p, q)
    BY <1>5, <2>2, <2>3, DownLeads
  <2> QED
    BY <1>4, <2>1, <2>4
<1>7. CASE n # s.src
  <2>1. Outward(s, n) = Shape(e, Up(k + 1, L))
    BY <1>1, <1>2, <1>3, <1>7 DEF Outward, Edge
  <2>2. Holds(e, L, q)
    <3>1. L \in 0..L
      OBVIOUS
    <3>2. q = Wrapped(ShapePoint(g, e, L + 1))
      BY <1>2, <1>4, <1>5, <1>7, RoadEnds DEF NodeLatLon
    <3> QED
      BY <1>2, <3>1, <3>2, HoldsEnds
  <2>3. /\ k + 1 \in Int /\ L \in Int /\ 1 <= k + 1 /\ k + 1 <= L + 1
        /\ L <= Edge(g, e).geo_len /\ (k + 1) - 1 = k
    BY <1>2
  <2>4. Leads(<<p>> \o Shape(e, Up(k + 1, L)) \o <<q>>, p, q)
    BY <1>5, <2>2, <2>3, UpLeads
  <2> QED
    BY <1>4, <2>1, <2>4
<1> QED
  BY <1>6, <1>7

LEMMA BetweenLeads ==
    ASSUME IsGraph(g), IsSnap(a), IsSnap(b), SameEdge
    PROVE  Leads(<<a.point>> \o BetweenThem \o <<b.point>>, a.point, b.point)
<1>1. PICK e \in EdgeIndices(g) : e = a.edge /\ e = b.edge
  BY DEF IsSnap, SameEdge
<1>2. PICK L \in Nat : L = Edge(g, e).geo_len
  BY EdgesAreRoads, RoadFields
<1>3. PICK k \in 0..L, h \in 0..L : k = a.seg /\ h = b.seg
  BY <1>1, <1>2 DEF IsSnap
<1>4. PICK p, q : p = a.point /\ q = b.point
  OBVIOUS
<1>5. /\ p \in Shown /\ q \in Shown /\ Usable(g, e, Mask)
      /\ Holds(e, k, p) /\ Holds(e, h, q)
  BY <1>1, <1>3, <1>4 DEF IsSnap, Shown
<1>6. CASE Ahead
  <2>1. BetweenThem = Shape(e, Up(k + 1, h))
    BY <1>1, <1>3, <1>6 DEF BetweenThem
  <2>2. k <= h
    BY <1>3, <1>6 DEF Ahead
  <2>3. /\ k + 1 \in Int /\ h \in Int /\ 1 <= k + 1 /\ k + 1 <= h + 1
        /\ h <= Edge(g, e).geo_len /\ (k + 1) - 1 = k
    BY <1>2, <2>2
  <2>4. Leads(<<p>> \o Shape(e, Up(k + 1, h)) \o <<q>>, p, q)
    BY <1>5, <2>3, UpLeads
  <2> QED
    BY <1>4, <2>1, <2>4
<1>7. CASE ~Ahead
  <2>1. BetweenThem = Shape(e, Down(k, h + 1))
    BY <1>1, <1>3, <1>7 DEF BetweenThem
  <2>2. h <= k
    BY <1>3, <1>7 DEF Ahead
  <2>3. /\ h + 1 \in Int /\ k \in Int /\ 1 <= h + 1 /\ h + 1 <= k + 1
        /\ k <= Edge(g, e).geo_len /\ (h + 1) - 1 = h
    BY <1>2, <2>2
  <2>4. Leads(<<p>> \o Shape(e, Down(k, h + 1)) \o <<q>>, p, q)
    BY <1>5, <2>3, DownLeads
  <2> QED
    BY <1>4, <2>1, <2>4
<1> QED
  BY <1>6, <1>7

\* What is read of the pool is the shape between the ends.
LEMMA PoolIsShape ==
    ASSUME IsGraph(g), NEW e \in EdgeIndices(g)
    PROVE  Travelled(e) = Shape(e, Up(1, Edge(g, e).geo_len)) \o <<NodeLatLon(g, Edge(g, e).target)>>
<1>1. PICK edge \in Roads(g) : edge = Edge(g, e)
  BY EdgesAreRoads
<1>2. PICK f \in Nat, L \in Nat : f = edge.geo_off /\ L = edge.geo_len
  BY <1>1, RoadFields
<1>3. f + L <= Len(g.geometry)
  BY <1>1, <1>2 DEF IsGraph, Edge
<1>4. PICK s \in Seq(Places(g)) : s = g.geometry
  BY DEF IsGraph
<1>5. \A i \in (f + 1)..(f + L) : s[i] \in Places(g)
  <2>1. ASSUME NEW i \in (f + 1)..(f + L) PROVE i \in 1..Len(s)
    BY <1>3, <1>4
  <2> QED
    BY <2>1, ElementOfSeq
<1>6. PICK u : u = SubSeq(s, f + 1, f + L)
  OBVIOUS
<1>7. u \in Seq(Places(g)) /\ Len(u) = L /\ \A i \in 1..L : u[i] = s[f + i]
  <2>1. f + 1 \in Int /\ f + L \in Int
    OBVIOUS
  <2>2. /\ u \in Seq(Places(g))
        /\ Len(u) = IF f + 1 <= f + L THEN (f + L) - (f + 1) + 1 ELSE 0
        /\ \A i \in 1..((f + L) - (f + 1) + 1) : u[i] = s[(f + 1) + i - 1]
    BY <1>5, <1>6, <2>1, SubSeqProperties
  <2>3. (f + L) - (f + 1) + 1 = L /\ \A i \in 1..L : (f + 1) + i - 1 = f + i
    OBVIOUS
  <2>4. Len(u) = L
    BY <2>2, <2>3
  <2> QED
    BY <2>2, <2>3, <2>4
<1>8. PICK t : t = IF edge.reversed THEN Reverse(u) ELSE u
  OBVIOUS
<1>9. /\ t \in Seq(Places(g)) /\ Len(t) = L
      /\ \A i \in 1..L : t[i] = IF edge.reversed THEN s[f + ((L - i) + 1)] ELSE s[f + i]
  <2>1. CASE edge.reversed
    <3>1. t \in Seq(Places(g)) /\ Len(t) = L /\ \A i \in 1..L : t[i] = u[(L - i) + 1]
      BY <1>7, <1>8, <2>1, ReversedItems
    <3>2. \A i \in 1..L : (L - i) + 1 \in 1..L
      OBVIOUS
    <3> QED
      BY <1>7, <2>1, <3>1, <3>2
  <2>2. CASE ~edge.reversed
    BY <1>7, <1>8, <2>2
  <2> QED
    BY <2>1, <2>2
<1>10. PICK z : z = Shape(e, Up(1, L))
  OBVIOUS
<1>11. z \in Seq(Shown) /\ Len(z) = L /\ \A i \in 1..L : z[i] = ShapePoint(g, e, i)
  <2>1. /\ 1 \in Int /\ L \in Int /\ 0 <= 1 /\ 1 <= L + 1 /\ L <= Edge(g, e).geo_len + 1
        /\ L - 1 + 1 = L /\ \A i \in 1..L : 1 + i - 1 = i
    BY <1>1, <1>2
  <2>2. /\ z \in Seq(Shown) /\ Len(z) = L - 1 + 1
        /\ \A i \in 1..(L - 1 + 1) : z[i] = ShapePoint(g, e, 1 + i - 1)
    BY <1>10, <2>1, ShapeItems
  <2> QED
    BY <2>1, <2>2
<1>12. ASSUME NEW i \in 1..L PROVE z[i] = t[i]
  <2>1. i # 0 /\ i # L + 1
    OBVIOUS
  <2>2. ShapePoint(g, e, i) = At(s, f + (IF edge.reversed THEN L - i ELSE i - 1))
    BY <1>1, <1>2, <1>4, <2>1 DEF ShapePoint, Edge
  <2>3. CASE edge.reversed
    <3>1. (f + (L - i)) + 1 = f + ((L - i) + 1)
      OBVIOUS
    <3> QED
      BY <1>9, <1>11, <2>2, <2>3, <3>1 DEF At
  <2>4. CASE ~edge.reversed
    <3>1. (f + (i - 1)) + 1 = f + i
      OBVIOUS
    <3> QED
      BY <1>9, <1>11, <2>2, <2>4, <3>1 DEF At
  <2> QED
    BY <2>3, <2>4
<1>13. t \in Seq(Shown)
  <2>1. Places(g) \subseteq Shown
    BY DEF Shown
  <2> QED
    BY <1>9, <2>1
<1>14. z = t
  BY ONLY <1>9, <1>11, <1>12, <1>13, SeqEqual
<1>15. Travelled(e) = t \o <<NodeLatLon(g, edge.target)>>
  BY <1>1, <1>2, <1>4, <1>6, <1>8 DEF Travelled, EdgeGeometry, Edge
<1> QED
  BY <1>1, <1>2, <1>10, <1>14, <1>15

LEMMA TravelledLeads ==
    ASSUME IsGraph(g), NEW e \in EdgeIndices(g), Usable(g, e, Mask)
    PROVE  /\ Leads(<<NodeLatLon(g, Source(g, e))>> \o Travelled(e),
                    NodeLatLon(g, Source(g, e)), NodeLatLon(g, Edge(g, e).target))
           /\ Travelled(e) \in Seq(Shown)
<1>1. PICK L \in Nat : L = Edge(g, e).geo_len
  BY EdgesAreRoads, RoadFields
<1>2. PICK p \in Shown, q \in Shown :
        p = NodeLatLon(g, Source(g, e)) /\ q = NodeLatLon(g, Edge(g, e).target)
  BY EdgesInRows, EdgesAreRoads, RoadFields, NodeShown
<1>3. p = Wrapped(ShapePoint(g, e, 0)) /\ q = Wrapped(ShapePoint(g, e, L + 1))
  BY <1>1, <1>2, RoadEnds DEF NodeLatLon
<1>4. Holds(e, 0, p) /\ Holds(e, L, q)
  <2>1. 0 \in 0..L /\ L \in 0..L
    OBVIOUS
  <2> QED
    BY <1>1, <1>3, <2>1, HoldsEnds
<1>5. PICK z : z = Shape(e, Up(1, L))
  OBVIOUS
<1>6. Leads(<<p>> \o z \o <<q>>, p, q)
  <2>1. 1 \in Int /\ L \in Int /\ 1 <= 1 /\ 1 <= L + 1 /\ L <= Edge(g, e).geo_len /\ 1 - 1 = 0
    BY <1>1
  <2> QED
    BY <1>4, <1>5, <2>1, UpLeads
<1>7. Travelled(e) = z \o <<q>>
  BY <1>1, <1>2, <1>5, PoolIsShape
<1>8. z \in Seq(Shown) /\ <<p>> \in Seq(Shown) /\ <<q>> \in Seq(Shown)
  <2>1. 1 \in Int /\ L \in Int /\ 0 <= 1 /\ 1 <= L + 1 /\ L <= Edge(g, e).geo_len + 1
    BY <1>1
  <2> QED
    BY <1>5, <2>1, ShapeItems
<1>9. <<p>> \o (z \o <<q>>) = <<p>> \o z \o <<q>>
  BY ONLY <1>8, ConcatAssociative
<1> QED
  BY <1>2, <1>6, <1>7, <1>8, <1>9, JoinedLists

----------------------------------------------------------------------------
(* The way a route takes *)

\* The edges es follow one another from node n to node m.
Linked(n, es, m) ==
    /\ es \in Seq(EdgeIndices(g))
    /\ Len(es) = 0 => m = n
    /\ Len(es) >= 1 => Source(g, es[1]) = n /\ Edge(g, es[Len(es)]).target = m
    /\ \A i \in 1..Len(es) : Usable(g, es[i], Mask)
    /\ \A i \in 1..(Len(es) - 1) : Edge(g, es[i]).target = Source(g, es[i + 1])

LEMMA LinkedOn ==
    ASSUME NEW n, NEW es, NEW m, Linked(n, es, m), NEW e \in EdgeIndices(g),
           Source(g, e) = m, Usable(g, e, Mask)
    PROVE  Linked(n, Append(es, e), Edge(g, e).target)
<1>1. PICK k \in Nat : k = Len(es)
  BY DEF Linked
<1>2. /\ es \in Seq(EdgeIndices(g)) /\ (k = 0 => m = n)
      /\ k >= 1 => Source(g, es[1]) = n /\ Edge(g, es[k]).target = m
      /\ \A i \in 1..k : Usable(g, es[i], Mask)
      /\ \A i \in 1..(k - 1) : Edge(g, es[i]).target = Source(g, es[i + 1])
  BY <1>1 DEF Linked
<1>3. PICK fs : fs = Append(es, e)
  OBVIOUS
<1>4. /\ fs \in Seq(EdgeIndices(g)) /\ Len(fs) = k + 1 /\ fs[k + 1] = e
      /\ \A i \in 1..k : fs[i] = es[i]
  BY <1>1, <1>2, <1>3
<1>5. Source(g, fs[1]) = n
  <2>1. CASE k = 0
    <3>1. k + 1 = 1
      BY <2>1
    <3> QED
      BY <1>2, <1>4, <2>1, <3>1
  <2>2. CASE k # 0
    <3>1. 1 \in 1..k /\ k >= 1
      BY <2>2
    <3> QED
      BY <1>2, <1>4, <3>1
  <2> QED
    BY <2>1, <2>2
<1>6. ASSUME NEW i \in 1..(k + 1) PROVE Usable(g, fs[i], Mask)
  <2>1. i \in 1..k \/ i = k + 1
    OBVIOUS
  <2> QED
    BY <1>2, <1>4, <2>1
<1>7. ASSUME NEW i \in 1..k PROVE Edge(g, fs[i]).target = Source(g, fs[i + 1])
  <2>1. CASE i = k
    <3>1. k >= 1
      BY <2>1
    <3> QED
      BY <1>2, <1>4, <2>1, <3>1
  <2>2. CASE i # k
    <3>1. i \in 1..(k - 1) /\ i + 1 \in 1..k
      BY <2>2
    <3> QED
      BY <1>2, <1>4, <3>1
  <2> QED
    BY <2>1, <2>2
<1>8. k + 1 # 0 /\ (k + 1) - 1 = k /\ k + 1 >= 1
  OBVIOUS
<1> QED
  BY <1>3, <1>4, <1>5, <1>6, <1>7, <1>8 DEF Linked

LEMMA RoutesLinked ==
    ASSUME IsGraph(g), IsSnap(a), NEW path \in Routes
    PROVE  /\ path \in Paths
           /\ path.entry \in {a.src, a.dst} /\ path.exit \in {b.src, b.dst}
           /\ Linked(path.entry, path.edges, path.exit)
<1>1. PICK step : /\ StepsFrom(step)
                  /\ Routes = {x \in step[NodeCount(g)] : x.exit \in {b.src, b.dst}}
  BY RoutesAreSteps
<1>2. PICK N \in Nat : N = NodeCount(g)
  BY NodesAreSome
<1>3. /\ step \in [0..N -> SUBSET Paths]
      /\ step[0] = {Seed(n) : n \in {a.src, a.dst}}
      /\ \A k \in 1..N : step[k] = LongerBy(step[k - 1])
  BY <1>1, <1>2 DEF StepsFrom
<1> DEFINE Fine(x) == x.entry \in {a.src, a.dst} /\ Linked(x.entry, x.edges, x.exit)
           S == {k \in 0..N : \A x \in step[k] : Fine(x)}
<1>4. 0 \in S
  <2>1. ASSUME NEW n \in {a.src, a.dst} PROVE Fine(Seed(n))
    <3>1. Seed(n).entry = n /\ Seed(n).edges = <<>> /\ Seed(n).exit = n
      BY DEF Seed
    <3>2. Linked(n, <<>>, n)
      <4>1. <<>> \in Seq(EdgeIndices(g)) /\ Len(<<>>) = 0 /\ 1..0 = {} /\ 1..(0 - 1) = {}
        OBVIOUS
      <4> QED
        BY <4>1 DEF Linked
    <3> QED
      BY <3>1, <3>2
  <2> HIDE DEF Fine
  <2> QED
    BY <1>2, <1>3, <2>1
<1>5. ASSUME NEW k \in Int, 0 <= k, k < N, k \in S PROVE k + 1 \in S
  <2>1. k + 1 \in 1..N /\ k + 1 \in 0..N /\ (k + 1) - 1 = k /\ k \in 0..N
    BY <1>5
  <2>2. step[k + 1] = LongerBy(step[k]) /\ step[k] \in SUBSET Paths
    BY <1>3, <2>1
  <2>3. \A x \in step[k] : Fine(x)
    BY <1>5
  <2>4. ASSUME NEW x \in step[k], NEW e \in Ways(x) PROVE Fine(Longer(x, e))
    <3>1. x \in Paths
      BY <2>2
    <3>2. e \in EdgesFrom(g, x.exit) /\ Usable(g, e, Mask) /\ x.exit \in NodeIndices(g)
      BY <3>1 DEF Ways, Paths
    <3>3. e \in EdgeIndices(g) /\ Source(g, e) = x.exit
      BY <3>2, EdgesInRows
    <3>4. /\ Longer(x, e).exit = Edge(g, e).target /\ Longer(x, e).entry = x.entry
          /\ Longer(x, e).edges = Append(x.edges, e)
      BY <3>1, LongerIsPath
    <3>5. x.entry \in {a.src, a.dst} /\ Linked(x.entry, x.edges, x.exit)
      BY <2>3
    <3>6. Linked(x.entry, Append(x.edges, e), Edge(g, e).target)
      BY <3>2, <3>3, <3>5, LinkedOn
    <3> QED
      BY <3>4, <3>5, <3>6
  <2> HIDE DEF Fine
  <2>5. \A x \in step[k + 1] : Fine(x)
    BY <2>2, <2>3, <2>4 DEF LongerBy
  <2> QED
    BY <2>1, <2>5
<1>6. \A x \in step[N] : Fine(x)
  <2>1. \A k \in 0..N : k \in S
    <3> HIDE DEF S
    <3> QED
      BY <1>4, <1>5, UpFrom
  <2> QED
    BY <2>1
<1>7. path \in step[N] /\ path.exit \in {b.src, b.dst} /\ step[N] \in SUBSET Paths
  BY <1>1, <1>2, <1>3
<1> QED
  BY <1>6, <1>7

\* FlattenSeq joins the lists one after the other.
Joins(r, ss, n) ==
    /\ r[1] = ss[1]
    /\ \A i \in 2..n : r[i] = r[i - 1] \o ss[i]

LEMMA FlattenRule ==
    ASSUME NEW S, NEW ss, NEW n \in Nat, n > 0, Len(ss) = n, \A i \in 1..n : ss[i] \in Seq(S)
    PROVE  \E r \in [1..n -> Seq(S)] : FlattenSeq(ss) = r[n] /\ Joins(r, ss, n)
<1> DEFINE T == Seq(S)
           rule == [p \in ((1 + 1)..n) \X T |-> p[2] \o ss[p[1]]]
           Rule(r) == r = [i \in 1..n |-> IF i = 1 THEN ss[i] ELSE r[i - 1] \o ss[i]]
           flatten == CHOOSE r : Rule(r)
<1>1. ss[1] \in T /\ 1 <= n /\ n \in Int
  OBVIOUS
<1>2. IsRule(rule, 1, n, T)
  <2>1. ASSUME NEW i \in (1 + 1)..n, NEW t \in T PROVE t \o ss[i] \in T
    <3>1. ss[i] \in Seq(S)
      <4>1. i \in 1..n
        OBVIOUS
      <4> QED
        BY <4>1
    <3> QED
      BY <3>1
  <2> QED
    BY <2>1 DEF IsRule
<1>3. PICK r \in [1..n -> T] : r[1] = ss[1] /\ Follows(r, rule, 1, n)
  <2> HIDE DEF rule, T
  <2> QED
    BY <1>1, <1>2, RecursionExists
<1>4. Rule(r)
  <2>1. ASSUME NEW i \in 1..n, i # 1 PROVE r[i] = r[i - 1] \o ss[i]
    <3>1. i \in (1 + 1)..n /\ i - 1 \in 1..n
      BY <2>1
    <3>2. <<i, r[i - 1]>> \in ((1 + 1)..n) \X T
      BY <1>3, <3>1
    <3> QED
      BY <1>3, <3>1, <3>2 DEF Follows
  <2>2. \A i \in 1..n : r[i] = IF i = 1 THEN ss[i] ELSE r[i - 1] \o ss[i]
    BY <1>3, <2>1
  <2>3. r = [i \in 1..n |-> r[i]]
    BY <1>3
  <2> QED
    BY <2>2, <2>3
<1>5. Rule(flatten)
  BY <1>4
<1>6. FlattenSeq(ss) = flatten[n]
  BY DEF FlattenSeq
<1> HIDE DEF flatten
<1>7. \A i \in 1..n : flatten[i] = IF i = 1 THEN ss[i] ELSE flatten[i - 1] \o ss[i]
  BY <1>5
<1> DEFINE Good == {i \in 1..n : flatten[i] \in T}
<1>8. 1 \in Good
  <2>1. 1 \in 1..n
    BY <1>1
  <2> QED
    BY <1>1, <1>7, <2>1
<1>9. ASSUME NEW i \in Int, 1 <= i, i < n, i \in Good PROVE i + 1 \in Good
  <2>1. i + 1 \in 1..n /\ i + 1 # 1 /\ (i + 1) - 1 = i
    BY <1>9
  <2>2. flatten[i + 1] = flatten[i] \o ss[i + 1] /\ ss[i + 1] \in Seq(S)
    BY <1>7, <2>1
  <2>3. flatten[i] \in Seq(S)
    BY <1>9
  <2>4. flatten[i] \o ss[i + 1] \in Seq(S)
    BY <2>2, <2>3
  <2> QED
    BY <2>1, <2>2, <2>4
<1>10. \A i \in 1..n : i \in Good
  <2>1. 1 \in Int /\ n \in Int
    OBVIOUS
  <2> HIDE DEF Good
  <2> QED
    BY <1>8, <1>9, <2>1, UpFrom
<1>11. flatten = [i \in 1..n |-> flatten[i]]
  BY <1>5
<1>12. flatten \in [1..n -> Seq(S)]
  BY <1>10, <1>11
<1>13. Joins(flatten, ss, n)
  <2>1. \A i \in 2..n : i \in 1..n /\ i # 1
    OBVIOUS
  <2>2. 1 \in 1..n
    BY <1>1
  <2> QED
    BY <1>7, <2>1, <2>2 DEF Joins
<1> QED
  BY <1>6, <1>12, <1>13

LEMMA FlattenLeads ==
    ASSUME IsGraph(g), NEW n \in NodeIndices(g), NEW es, NEW m, Linked(n, es, m)
    PROVE  /\ FlattenSeq([i \in DOMAIN es |-> Travelled(es[i])]) \in Seq(Shown)
           /\ Leads(<<NodeLatLon(g, n)>> \o FlattenSeq([i \in DOMAIN es |-> Travelled(es[i])]),
                    NodeLatLon(g, n), NodeLatLon(g, m))
<1>1. PICK k \in Nat : k = Len(es) /\ DOMAIN es = 1..k /\ es \in Seq(EdgeIndices(g))
  BY DEF Linked
<1>2. PICK ss : ss = [i \in 1..k |-> Travelled(es[i])]
  OBVIOUS
<1>3. PICK p \in Shown : p = NodeLatLon(g, n)
  BY NodeShown
<1>4. /\ k = 0 => m = n
      /\ k >= 1 => Source(g, es[1]) = n /\ Edge(g, es[k]).target = m
      /\ \A i \in 1..k : Usable(g, es[i], Mask)
      /\ \A i \in 1..(k - 1) : Edge(g, es[i]).target = Source(g, es[i + 1])
  BY <1>1 DEF Linked
<1>5. <<p>> \in Seq(Shown) /\ Len(<<p>>) = 1 /\ <<p>>[1] = p
  OBVIOUS
<1>6. ASSUME NEW i \in 1..k
      PROVE  /\ ss[i] \in Seq(Shown)
             /\ Leads(<<NodeLatLon(g, Source(g, es[i]))>> \o ss[i],
                      NodeLatLon(g, Source(g, es[i])), NodeLatLon(g, Edge(g, es[i]).target))
  <2>1. es[i] \in EdgeIndices(g) /\ Usable(g, es[i], Mask)
    BY <1>1, <1>4, ElementOfSeq
  <2> QED
    BY <1>2, <2>1, TravelledLeads
<1>7. CASE k = 0
  <2>1. ss = <<>>
    BY <1>2, <1>7
  <2>2. FlattenSeq(ss) = <<>>
    BY <2>1 DEF FlattenSeq
  <2>3. <<p>> \o <<>> = <<p>>
    BY <1>5, ConcatEmptySeq
  <2>4. Chained(<<p>>, RoadSteps)
    <3>1. 1..(1 - 1) = {}
      OBVIOUS
    <3> QED
      BY <1>5, <3>1 DEF Chained
  <2>5. Leads(<<p>>, p, p)
    BY <1>5, <2>4 DEF Leads
  <2>6. <<>> \in Seq(Shown)
    OBVIOUS
  <2> QED
    BY <1>1, <1>2, <1>3, <1>4, <1>7, <2>2, <2>3, <2>5, <2>6
<1>8. CASE k # 0
  <2>1. k > 0 /\ Len(ss) = k
    BY <1>2, <1>8
  <2>2. PICK r \in [1..k -> Seq(Shown)] : FlattenSeq(ss) = r[k] /\ Joins(r, ss, k)
    <3>1. \A i \in 1..k : ss[i] \in Seq(Shown)
      BY <1>6
    <3> QED
      BY <2>1, <3>1, FlattenRule
  <2> DEFINE Good == {i \in 1..k : Leads(<<p>> \o r[i], p, NodeLatLon(g, Edge(g, es[i]).target))}
  <2>3. 1 \in Good
    <3>1. 1 \in 1..k /\ k >= 1
      BY <1>8
    <3> QED
      BY <1>3, <1>4, <1>6, <2>2, <3>1 DEF Joins
  <2>4. ASSUME NEW i \in Int, 1 <= i, i < k, i \in Good PROVE i + 1 \in Good
    <3>1. i + 1 \in 1..k /\ i + 1 \in 2..k /\ (i + 1) - 1 = i /\ i \in 1..(k - 1) /\ i \in 1..k
      BY <2>4
    <3>2. PICK x, y, t : /\ x = NodeLatLon(g, Edge(g, es[i]).target) /\ t = ss[i + 1]
                         /\ y = NodeLatLon(g, Edge(g, es[i + 1]).target)
      OBVIOUS
    <3>3. Leads(<<x>> \o t, x, y) /\ t \in Seq(Shown)
      <4>1. Source(g, es[i + 1]) = Edge(g, es[i]).target
        BY <1>4, <3>1
      <4> QED
        BY <1>6, <3>1, <3>2, <4>1
    <3>4. PICK u \in Seq(Shown) : u = r[i]
      BY <2>2, <3>1
    <3>5. Leads(<<p>> \o u, p, x)
      BY <2>4, <3>2, <3>4
    <3>6. Leads((<<p>> \o u) \o t, p, y)
      BY <3>3, <3>5, LeadsOn
    <3>7. (<<p>> \o u) \o t = <<p>> \o (u \o t)
      BY ONLY <1>5, <3>3, u \in Seq(Shown), ConcatAssociative
    <3>8. r[i + 1] = u \o t
      BY <2>2, <3>1, <3>2, <3>4 DEF Joins
    <3> QED
      BY <3>1, <3>2, <3>6, <3>7, <3>8
  <2>5. k \in Good
    <3>1. \A i \in 1..k : i \in Good
      <4>1. 1 \in Int /\ k \in Int
        OBVIOUS
      <4> HIDE DEF Good
      <4> QED
        BY <2>3, <2>4, <4>1, UpFrom
    <3> QED
      BY <2>1, <3>1
  <2>6. k \in 1..k /\ k >= 1
    BY <2>1
  <2> QED
    BY <1>1, <1>2, <1>3, <1>4, <2>2, <2>5, <2>6
<1> QED
  BY <1>7, <1>8

\* The order in which lists are joined does not matter.
Regroups(r, s, t) == (r \o s) \o t = r \o (s \o t)

LEMMA ThreeJoined ==
    ASSUME NEW S, NEW r \in Seq(S), NEW s \in Seq(S), NEW t \in Seq(S)
    PROVE  Regroups(r, s, t)
<1>1. (r \o s) \o t = r \o (s \o t)
  BY ONLY r \in Seq(S), s \in Seq(S), t \in Seq(S), ConcatAssociative
<1> QED
  BY <1>1 DEF Regroups

Unrolled(x, s, t, u, v, w) ==
    ((<<x>> \o s \o t) \o u) \o (v \o w) = <<x>> \o (s \o t \o u \o v \o w)

LEMMA FiveJoined ==
    ASSUME NEW S, NEW x \in S, NEW s \in Seq(S), NEW t \in Seq(S), NEW u \in Seq(S),
           NEW v \in Seq(S), NEW w \in Seq(S)
    PROVE  Unrolled(x, s, t, u, v, w)
<1>1. <<x>> \in Seq(S)
  OBVIOUS
<1>2. PICK h \in Seq(S) : h = <<x>>
  BY <1>1
<1>3. PICK st \in Seq(S) : st = s \o t
  BY JoinedLists
<1>4. PICK stu \in Seq(S) : stu = st \o u
  BY JoinedLists
<1>5. PICK stuv \in Seq(S) : stuv = stu \o v
  BY JoinedLists
<1>6. PICK k \in Seq(S) : k = h \o stu
  BY JoinedLists
<1>7. Regroups(h, s, t)
  BY ThreeJoined
<1>8. Regroups(h, st, u)
  BY ThreeJoined
<1>9. Regroups(k, v, w)
  BY ThreeJoined
<1>10. Regroups(h, stu, v)
  BY ThreeJoined
<1>11. Regroups(h, stuv, w)
  BY ThreeJoined
<1> QED
  BY <1>2, <1>3, <1>4, <1>5, <1>6, <1>7, <1>8, <1>9, <1>10, <1>11 DEF Regroups, Unrolled

\* A leg over the network leads from its start, out of its road, along the
\* roads of a route, and into the road of its end.
LEMMA NetworkLeads ==
    ASSUME IsGraph(g), IsSnap(a), IsSnap(b), NEW path \in Routes
    PROVE  Leads(<<a.point>> \o (Outward(a, path.entry) \o <<NodeLatLon(g, path.entry)>>
                   \o FlattenSeq([i \in DOMAIN path.edges |-> Travelled(path.edges[i])])
                   \o Reverse(Outward(b, path.exit)) \o <<b.point>>), a.point, b.point)
<1>1. /\ path \in Paths
      /\ path.entry \in {a.src, a.dst} /\ path.exit \in {b.src, b.dst}
      /\ Linked(path.entry, path.edges, path.exit)
  BY RoutesLinked
<1>2. PICK n \in NodeIndices(g), m \in NodeIndices(g) : n = path.entry /\ m = path.exit
  BY <1>1 DEF Paths
<1>3. PICK out, in, mid : /\ out = Outward(a, n) /\ in = Outward(b, m)
                          /\ mid = FlattenSeq([i \in DOMAIN path.edges |-> Travelled(path.edges[i])])
  OBVIOUS
<1>4. PICK p \in Shown, q \in Shown : p = NodeLatLon(g, n) /\ q = NodeLatLon(g, m)
  BY NodeShown
<1>5. PICK x \in Shown, y \in Shown : x = a.point /\ y = b.point
  BY DEF IsSnap, Shown
<1>6. out \in Seq(Shown) /\ in \in Seq(Shown)
  BY <1>3, OutwardList
<1>7. PICK s : s = <<x>> \o out \o <<p>>
  OBVIOUS
<1>8. Leads(s, x, p)
  BY <1>1, <1>2, <1>3, <1>4, <1>5, <1>7, OutwardLeads
<1>9. Leads(<<p>> \o mid, p, q) /\ mid \in Seq(Shown)
  BY <1>1, <1>2, <1>3, <1>4, FlattenLeads
<1>10. Leads(s \o mid, x, q)
  BY <1>8, <1>9, LeadsOn
<1>11. PICK v : v = Reverse(in)
  OBVIOUS
<1>12. v \in Seq(Shown)
  BY <1>6, <1>11, ReversedList
<1>13. Leads(<<y>> \o in \o <<q>>, y, q)
  BY <1>1, <1>2, <1>3, <1>4, <1>5, OutwardLeads
<1>14. Leads(<<q>> \o v \o <<y>>, q, y)
  <2>1. Leads(Reverse(<<y>> \o in \o <<q>>), q, y)
    BY <1>13, LeadsBack
  <2>2. in \in Seq(Shown)
    BY <1>6
  <2>3. TurnsRound(q, in, y)
    BY <2>2, EndsTurned
  <2> QED
    BY <1>11, <2>1, <2>3 DEF TurnsRound
<1>15. <<q>> \o v \o <<y>> = <<q>> \o (v \o <<y>>) /\ v \o <<y>> \in Seq(Shown)
  <2>1. <<q>> \in Seq(Shown) /\ <<y>> \in Seq(Shown)
    OBVIOUS
  <2> QED
    BY ONLY <1>12, <2>1, ConcatAssociative, JoinedLists
<1>16. Leads((s \o mid) \o (v \o <<y>>), x, y)
  BY <1>10, <1>14, <1>15, LeadsOn
<1>17. (s \o mid) \o (v \o <<y>>) = <<x>> \o (out \o <<p>> \o mid \o v \o <<y>>)
  <2>1. <<p>> \in Seq(Shown) /\ <<y>> \in Seq(Shown)
    OBVIOUS
  <2>2. ((<<x>> \o out \o <<p>>) \o mid) \o (v \o <<y>>)
          = <<x>> \o (out \o <<p>> \o mid \o v \o <<y>>)
    <3>1. out \in Seq(Shown) /\ mid \in Seq(Shown) /\ v \in Seq(Shown)
      BY <1>6, <1>9, <1>12
    <3>2. Unrolled(x, out, <<p>>, mid, v, <<y>>)
      BY <2>1, <3>1, FiveJoined
    <3> QED
      BY <3>2 DEF Unrolled
  <2> QED
    BY <1>7, <2>2
<1> QED
  BY <1>2, <1>3, <1>4, <1>5, <1>11, <1>16, <1>17

\* The way of a leg, after its start: along the roads, or straight to its end.
LegTrack(points) ==
    /\ points \in Seq(Shown)
    /\ \/ Leads(<<a.point>> \o points, a.point, b.point)
       \/ points = <<b.point>> /\ Bridged(segment + 1)

LEMMA LegTracks ==
    ASSUME SearchInv, LegsInv, PointLeg \/ NetworkLeg \/ AlongEdge \/ StraightLeg
    PROVE  \E points, dm, straight : AppendLeg(points, dm, straight) /\ LegTrack(points)
<1>1. MoreLegs /\ IsGraph(g)
  BY DEF PointLeg, NetworkLeg, AlongEdge, StraightLeg, SearchInv
<1>2. IsSnap(a) /\ IsSnap(b) /\ (Bridged(segment + 1) <=> Routes = {})
  BY <1>1, LegFacts
<1>3. PICK p \in Shown, q \in Shown : p = a.point /\ q = b.point
  BY <1>2 DEF IsSnap, Shown
<1>4. <<q>> \in Seq(Shown)
  OBVIOUS
<1>5. CASE PointLeg
  <2>1. SamePlace /\ AppendLeg(<<>>, 0, FALSE)
    BY <1>5 DEF PointLeg
  <2>2. p = q
    BY <1>2, <1>3, <2>1 DEF SamePlace, SameEdge, IsSnap
  <2>3. <<p>> \in Seq(Shown) /\ Len(<<p>>) = 1 /\ <<p>>[1] = p /\ 1..(1 - 1) = {}
    OBVIOUS
  <2>4. Leads(<<p>>, p, p)
    BY <2>3 DEF Leads, Chained
  <2>5. <<p>> \o <<>> = <<p>> /\ <<>> \in Seq(Shown)
    BY <2>3, ConcatEmptySeq
  <2>6. LegTrack(<<>>)
    BY <1>3, <2>2, <2>4, <2>5 DEF LegTrack
  <2> QED
    BY <2>1, <2>6
<1>6. CASE NetworkLeg
  <2>0. PICK path \in Routes :
          AppendLeg(Outward(a, path.entry) \o <<NodeLatLon(g, path.entry)>>
                        \o FlattenSeq([i \in DOMAIN path.edges |-> Travelled(path.edges[i])])
                        \o Reverse(Outward(b, path.exit)) \o <<b.point>>, Total(path), FALSE)
    BY <1>6 DEF NetworkLeg
  <2>1. PICK points :
          /\ points = Outward(a, path.entry) \o <<NodeLatLon(g, path.entry)>>
                        \o FlattenSeq([i \in DOMAIN path.edges |-> Travelled(path.edges[i])])
                        \o Reverse(Outward(b, path.exit)) \o <<b.point>>
          /\ AppendLeg(points, Total(path), FALSE)
    BY <2>0
  <2>2. IsLeg(points)
    BY <1>1, <1>2, <2>1, PathList
  <2>3. points \in Seq(Shown)
    <3>1. CASE points = <<>>
      BY <3>1
    <3>2. CASE \E s \in Seq(Shown) : points = s \o <<b.point>>
      BY <1>3, <1>4, <3>2, JoinedLists
    <3> QED
      BY <2>2, <3>1, <3>2 DEF IsLeg
  <2>4. Leads(<<a.point>> \o points, a.point, b.point)
    BY <1>1, <1>2, <2>1, NetworkLeads
  <2>5. LegTrack(points)
    BY <2>3, <2>4 DEF LegTrack
  <2> QED
    BY <2>1, <2>5
<1>7. CASE AlongEdge
  <2>1. SameEdge /\ AppendLeg(BetweenThem \o <<b.point>>, Direct, FALSE)
    BY <1>7 DEF AlongEdge
  <2>2. PICK s \in Seq(Shown) : s = BetweenThem
    BY <1>1, <1>2, <2>1, BetweenList
  <2>3. Leads(<<p>> \o s \o <<q>>, p, q)
    BY <1>1, <1>2, <1>3, <2>1, <2>2, BetweenLeads
  <2>4. <<p>> \in Seq(Shown)
    OBVIOUS
  <2>5. Regroups(<<p>>, s, <<q>>)
    BY <1>4, <2>4, ThreeJoined
  <2>6. LegTrack(s \o <<q>>)
    <3>1. s \o <<q>> \in Seq(Shown)
      BY <1>4, JoinedLists
    <3> QED
      BY <1>3, <2>3, <2>5, <3>1 DEF LegTrack, Regroups
  <2> QED
    BY <1>3, <2>1, <2>2, <2>6
<1>8. CASE StraightLeg
  <2>1. AppendLeg(<<b.point>>, Dm(Distance(a.point, b.point)), TRUE) /\ Routes = {}
    BY <1>8 DEF StraightLeg
  <2>2. LegTrack(<<b.point>>)
    BY <1>2, <1>3, <1>4, <2>1 DEF LegTrack
  <2> QED
    BY <2>1, <2>2
<1> QED
  BY <1>5, <1>6, <1>7, <1>8

----------------------------------------------------------------------------
(* The line follows the roads *)

\* The steps a line may take: along a segment, or over a gap.
Gapped == {<<snapped[i].point, snapped[i + 1].point>> :
              i \in {k \in 1..(Len(snapped) - 1) : Bridged(k)}}
Rides == RoadSteps \cup Gapped

\* The line takes such steps, past the first n waypoints in their order.
PassesAt(at, l, n) ==
    /\ \A i \in 1..n : l[at[i]] = snapped[i].point
    /\ \A i \in 1..(n - 1) : at[i] <= at[i + 1]
Tracked(l, n) ==
    /\ l \in Seq(Shown) /\ Len(l) >= 1 /\ l[Len(l)] = snapped[n].point
    /\ Chained(l, Rides)
    /\ \E at \in [1..n -> 1..Len(l)] : PassesAt(at, l, n)

LEMMA TrackedOn ==
    ASSUME NEW l, NEW n \in Nat, n >= 1, Tracked(l, n), NEW m \in {n, n + 1},
           NEW t \in Seq(Shown), Chained(t, Rides),
           Len(t) >= 1 => <<l[Len(l)], t[1]>> \in Rides,
           (l \o t)[Len(l \o t)] = snapped[m].point
    PROVE  Tracked(l \o t, m)
<1>1. PICK h \in Nat, k \in Nat : h = Len(l) /\ k = Len(t) /\ h >= 1
  BY DEF Tracked
<1>2. l \in Seq(Shown) /\ Chained(l, Rides)
  BY DEF Tracked
<1>3. PICK at \in [1..n -> 1..h] : PassesAt(at, l, n)
  BY <1>1 DEF Tracked
<1>4. PICK s : s = l \o t
  OBVIOUS
<1>5. s \in Seq(Shown) /\ Len(s) = h + k /\ \A i \in 1..h : s[i] = l[i]
  BY <1>1, <1>2, <1>4, JoinedLists
<1>6. Chained(s, Rides)
  BY <1>1, <1>2, <1>4, ChainedJoin
<1>7. PICK K \in Nat : K = h + k /\ K >= 1 /\ h <= K
  BY <1>1
<1>8. s[K] = snapped[m].point
  BY <1>4, <1>5, <1>7
<1> DEFINE new == [i \in 1..m |-> IF i = m THEN K ELSE at[i]]
<1>9. ASSUME NEW i \in 1..m, i # m PROVE i \in 1..n /\ at[i] \in 1..h /\ at[i] \in 1..K
  <2>1. i \in 1..n
    BY <1>9
  <2> QED
    BY <1>3, <1>7, <2>1
<1>10. new \in [1..m -> 1..K]
  <2>1. K \in 1..K
    BY <1>7
  <2> QED
    BY <1>9, <2>1
<1>11. ASSUME NEW i \in 1..m PROVE s[new[i]] = snapped[i].point
  <2>1. CASE i = m
    BY <1>8, <2>1
  <2>2. CASE i # m
    <3>1. new[i] = at[i] /\ i \in 1..n /\ at[i] \in 1..h
      BY <1>9, <2>2
    <3>2. l[at[i]] = snapped[i].point
      BY <1>3, <3>1 DEF PassesAt
    <3> QED
      BY <1>5, <3>1, <3>2
  <2> QED
    BY <2>1, <2>2
<1>12. ASSUME NEW i \in 1..(m - 1) PROVE new[i] <= new[i + 1]
  <2>1. i \in 1..m /\ i # m /\ i + 1 \in 1..m
    OBVIOUS
  <2>2. new[i] = at[i] /\ at[i] \in 1..h
    BY <1>9, <2>1
  <2>3. CASE i + 1 = m
    <3>1. new[i + 1] = K
      BY <2>1, <2>3
    <3> QED
      BY <1>7, <2>2, <3>1
  <2>4. CASE i + 1 # m
    <3>1. new[i + 1] = at[i + 1] /\ i \in 1..(n - 1)
      BY <2>1, <2>4
    <3> QED
      BY <1>3, <2>2, <3>1 DEF PassesAt
  <2> QED
    BY <2>3, <2>4
<1>13. PassesAt(new, s, m)
  <2> HIDE DEF new
  <2> QED
    BY <1>11, <1>12 DEF PassesAt
<1> QED
  <2> HIDE DEF new
  <2> QED
    BY <1>4, <1>5, <1>6, <1>7, <1>8, <1>10, <1>13 DEF Tracked

LEMMA ChainedIn ==
    ASSUME NEW l, NEW R, NEW Q, Chained(l, R), R \subseteq Q
    PROVE  Chained(l, Q)
  BY DEF Chained

TrackSoFar == pc = "legs" /\ segment > 0 => Tracked(line, segment + 1)

LEMMA LegTracked ==
    ASSUME SearchInv, LegsInv, LineInv, TrackSoFar, MoreLegs, NEW points, LegTrack(points)
    PROVE  Tracked(line \o <<a.point>> \o points, (segment + 1) + 1)
<1>1. /\ segment \in Nat /\ Len(snapped) \in Nat /\ segment + 1 < Len(snapped)
      /\ a = snapped[segment + 1] /\ b = snapped[(segment + 1) + 1] /\ IsSnap(a) /\ IsSnap(b)
  BY LegFacts
<1>2. PICK p \in Shown, q \in Shown : p = a.point /\ q = b.point
  BY <1>1 DEF IsSnap, Shown
<1>3. PICK n \in Nat : n = segment + 1 /\ n >= 1 /\ segment = n - 1
  BY <1>1
<1>4. pc = "legs" /\ IsGraph(g)
  BY DEF MoreLegs, SearchInv
<1>5. <<p>> \in Seq(Shown) /\ Len(<<p>>) = 1 /\ <<p>>[1] = p /\ 1..(1 - 1) = {}
  OBVIOUS
<1>6. <<p, p>> \in Rides
  <2>1. /\ a.edge \in EdgeIndices(g) /\ a.seg \in 0..Edge(g, a.edge).geo_len
        /\ Usable(g, a.edge, Mask) /\ Holds(a.edge, a.seg, p)
    BY <1>1, <1>2 DEF IsSnap
  <2>2. <<p, p>> \in RoadSteps
    BY <1>4, <2>1, StepOn
  <2> QED
    BY <2>2 DEF Rides
<1>7. Chained(<<p>>, Rides)
  BY <1>5 DEF Chained
<1>8. PICK l : l = line \o <<p>>
  OBVIOUS
<1>9. Tracked(l, n)
  <2>1. CASE segment = 0
    <3>1. line = <<>>
      BY <1>4, <2>1 DEF LineInv, LineSoFar
    <3>2. l = <<p>> /\ n = 1
      BY <1>3, <1>8, <2>1, <3>1
    <3>3. snapped[1].point = p
      BY <1>1, <1>2, <2>1
    <3>4. PICK at : at = [i \in 1..1 |-> 1]
      OBVIOUS
    <3>5. at \in [1..1 -> 1..1] /\ PassesAt(at, <<p>>, 1)
      BY <1>5, <3>3, <3>4 DEF PassesAt
    <3> QED
      BY <1>5, <1>7, <3>2, <3>3, <3>5 DEF Tracked
  <2>2. CASE segment # 0
    <3>1. Tracked(line, n)
      BY <1>1, <1>3, <1>4, <2>2 DEF TrackSoFar
    <3>2. PICK m \in Nat : m = Len(line) /\ line \in Seq(Shown)
      BY <3>1 DEF Tracked
    <3>3. line[Len(line)] = p
      BY <1>1, <1>2, <1>3, <3>1 DEF Tracked
    <3>4. Len(l) = m + 1 /\ l[m + 1] = p
      <4>1. 1 \in 1..1
        OBVIOUS
      <4> QED
        BY ONLY <1>5, <1>8, <3>2, <4>1, JoinedLists
    <3>5. snapped[n].point = p
      BY <1>1, <1>2, <1>3
    <3>6. PICK t \in Seq(Shown) : t = <<p>>
      BY <1>5
    <3>7. Chained(t, Rides) /\ <<line[Len(line)], t[1]>> \in Rides
      BY <1>5, <1>6, <1>7, <3>3, <3>6
    <3>8. (line \o t)[Len(line \o t)] = snapped[n].point
      BY <1>8, <3>4, <3>5, <3>6
    <3>9. Tracked(line \o t, n)
      BY <1>3, <3>1, <3>7, <3>8, TrackedOn
    <3> QED
      BY <1>8, <3>6, <3>9
  <2> QED
    BY <2>1, <2>2
<1>10. l \in Seq(Shown) /\ l[Len(l)] = p /\ Len(l) >= 1
  BY <1>1, <1>2, <1>3, <1>9 DEF Tracked
<1>11. PICK k \in Nat : k = Len(points) /\ points \in Seq(Shown)
  BY DEF LegTrack
<1>12. PICK u : u = <<p>> \o points
  OBVIOUS
<1>13. /\ u \in Seq(Shown) /\ Len(u) = 1 + k /\ u[1] = p
       /\ \A i \in 1..k : u[1 + i] = points[i]
  <2>1. 1 \in 1..1
    OBVIOUS
  <2> QED
    BY ONLY <1>5, <1>11, <1>12, <2>1, JoinedLists
<1>14. Chained(u, Rides) /\ u[1 + k] = q
  <2>1. CASE Leads(u, p, q)
    <3>1. RoadSteps \subseteq Rides
      BY DEF Rides
    <3> QED
      BY <1>13, <2>1, <3>1, ChainedIn DEF Leads
  <2>2. CASE points = <<b.point>> /\ Bridged(segment + 1)
    <3>1. points = <<q>> /\ k = 1 /\ 1 \in 1..1
      BY <1>2, <1>11, <2>2
    <3>2. u[1 + 1] = q
      BY <1>13, <3>1
    <3>3. <<p, q>> \in Gapped
      <4>1. n \in 1..(Len(snapped) - 1) /\ Bridged(n)
        BY <1>1, <1>3, <2>2
      <4>2. <<p, q>> = <<snapped[n].point, snapped[n + 1].point>>
        BY <1>1, <1>2, <1>3
      <4> QED
        BY <4>1, <4>2 DEF Gapped
    <3>4. \A j \in 1..((1 + 1) - 1) : j = 1
      OBVIOUS
    <3>5. Chained(u, Rides)
      BY <1>13, <3>1, <3>2, <3>3, <3>4 DEF Chained, Rides
    <3> QED
      BY <3>1, <3>2, <3>5
  <2> QED
    BY <1>2, <1>12, <2>1, <2>2 DEF LegTrack
<1>15. Chained(points, Rides) /\ (k >= 1 => <<p, points[1]>> \in Rides)
  BY <1>11, <1>12, <1>14, ChainedTail
<1>16. (l \o points)[Len(l \o points)] = q
  <2>0. PICK h \in Nat : h = Len(l) /\ h >= 1
    BY <1>10
  <2>1. PICK t : h = Len(l) /\ h >= 1 /\ t = l \o points
    BY <2>0
  <2>2. /\ Len(t) = h + k /\ \A i \in 1..h : t[i] = l[i]
        /\ \A i \in 1..k : t[h + i] = points[i]
    BY <1>10, <1>11, <2>1, JoinedLists
  <2>3. CASE k = 0
    <3>1. h + k = h /\ 1 + k = 1 /\ h \in 1..h
      BY <2>1, <2>3
    <3> QED
      BY <1>10, <1>13, <1>14, <2>1, <2>2, <3>1
  <2>4. CASE k # 0
    <3>1. k \in 1..k
      BY <2>4
    <3> QED
      BY <1>13, <1>14, <2>1, <2>2, <3>1
  <2> QED
    BY <2>3, <2>4
<1>17. snapped[n + 1].point = q
  BY <1>1, <1>2, <1>3
<1>18. Tracked(l \o points, n + 1)
  BY <1>3, <1>9, <1>10, <1>11, <1>15, <1>16, <1>17, TrackedOn
<1> QED
  BY <1>2, <1>3, <1>8, <1>18

\* Tidying keeps to the way.
LEMMA ShrunkTracked ==
    ASSUME NEW l, NEW n \in Nat, n >= 1, Tracked(l, n), NEW s \in Seq(Shown),
           Shrunk(l, Len(l), s)
    PROVE  Tracked(s, n)
<1>1. PICK L \in Nat, k \in Nat : L = Len(l) /\ k = Len(s) /\ L >= 1
  BY DEF Tracked
<1>2. PICK at \in [1..n -> 1..L] : PassesAt(at, l, n)
  BY <1>1 DEF Tracked
<1>3. l[L] = snapped[n].point /\ \A j \in 1..(L - 1) : <<l[j], l[j + 1]>> \in Rides
  BY <1>1 DEF Tracked, Chained
<1>4. /\ k >= 1
      /\ Placed(l, L, s, k)
      /\ \A j \in 1..(k - 1) : \E i \in 1..(L - 1) : s[j] = l[i] /\ s[j + 1] = l[i + 1]
  BY <1>1 DEF Shrunk
<1>5. PICK f \in [1..L -> 1..k] : ShrinksBy(f, l, L, s)
  BY <1>4 DEF Placed
<1>6. /\ \A i \in 1..L : s[f[i]] = l[i]
      /\ \A i, h \in 1..L : i <= h => f[i] <= f[h]
      /\ f[L] = k
  BY <1>1, <1>5 DEF ShrinksBy
<1>7. s[k] = snapped[n].point
  <2>1. L \in 1..L
    BY <1>1
  <2> QED
    BY <1>3, <1>6, <2>1
<1>8. Chained(s, Rides)
  BY <1>1, <1>3, <1>4 DEF Chained
<1> DEFINE new == [i \in 1..n |-> f[at[i]]]
<1>9. ASSUME NEW i \in 1..n PROVE new[i] = f[at[i]] /\ at[i] \in 1..L /\ f[at[i]] \in 1..k
  OBVIOUS
<1>10. new \in [1..n -> 1..k]
  BY <1>9
<1>11. PassesAt(new, s, n)
  <2>1. ASSUME NEW i \in 1..n PROVE s[new[i]] = snapped[i].point
    BY <1>2, <1>6, <1>9 DEF PassesAt
  <2>2. ASSUME NEW i \in 1..(n - 1) PROVE new[i] <= new[i + 1]
    <3>1. i \in 1..n /\ i + 1 \in 1..n
      OBVIOUS
    <3>2. at[i] <= at[i + 1]
      BY <1>2 DEF PassesAt
    <3> QED
      BY <1>6, <1>9, <3>1, <3>2
  <2> HIDE DEF new
  <2> QED
    BY <2>1, <2>2 DEF PassesAt
<1> HIDE DEF new
<1> QED
  BY <1>1, <1>4, <1>7, <1>8, <1>10, <1>11 DEF Tracked

\* A point stays where it is when its longitude is wrapped.
LEMMA ShownLies ==
    ASSUME IsGraph(g), NEW e \in EdgeIndices(g), NEW k \in 0..Edge(g, e).geo_len,
           NEW p \in Shown, Holds(e, k, p)
    PROVE  Holds(e, k, Wrapped(p))
<1>1. CASE p \in Places(g)
  <2>1. PICK L \in Nat : L = Edge(g, e).geo_len
    BY EdgesAreRoads, RoadFields
  <2>2. k \in 0..(L + 1) /\ k + 1 \in 0..(L + 1)
    BY <2>1
  <2>3. PICK p1 \in Places(g), p2 \in Places(g) :
          p1 = ShapePoint(g, e, k) /\ p2 = ShapePoint(g, e, k + 1)
    BY <2>1, <2>2, ShapeInPlaces
  <2>4. LiesBetween(p1, p2, p)
    BY <2>3 DEF Holds
  <2>5. LiesBetween(p1, p2, Wrapped(p))
    BY <1>1, <2>4, PlaceLies
  <2> QED
    BY <2>3, <2>5 DEF Holds
<1>2. CASE p \notin Places(g)
  <2>1. Wrapped(p) = p
    BY <1>2, ShownFacts
  <2> QED
    BY <2>1
<1> QED
  BY <1>1, <1>2

LEMMA RoadStepWrapped ==
    ASSUME IsGraph(g), NEW p, NEW q, <<p, q>> \in RoadSteps
    PROVE  OnOneRoad(Wrapped(p), Wrapped(q))
<1>1. p \in Shown /\ q \in Shown /\ OnOneRoad(p, q)
  BY DEF RoadSteps
<1>2. PICK e \in EdgeIndices(g) :
        /\ Usable(g, e, Mask)
        /\ \E k \in 0..Edge(g, e).geo_len : Holds(e, k, p) /\ Holds(e, k, q)
  BY <1>1 DEF OnOneRoad, Holds, Edge
<1>3. PICK k \in 0..Edge(g, e).geo_len : Holds(e, k, p) /\ Holds(e, k, q)
  BY <1>2
<1>4. Holds(e, k, Wrapped(p)) /\ Holds(e, k, Wrapped(q))
  BY <1>1, <1>3, ShownLies
<1> QED
  BY <1>2, <1>4 DEF OnOneRoad, Holds, Edge

\* The answer's line follows the roads.
Followed(l) ==
    /\ \E at \in [DOMAIN snapped -> DOMAIN l] :
        /\ \A i \in DOMAIN snapped : l[at[i]] = Wrapped(snapped[i].point)
        /\ \A i \in 1..(Len(snapped) - 1) : at[i] <= at[i + 1]
    /\ \A j \in 1..(Len(l) - 1) :
        \/ OnOneRoad(l[j], l[j + 1])
        \/ \E i \in 1..(Len(snapped) - 1) :
            /\ Bridged(i)
            /\ l[j] = Wrapped(snapped[i].point)
            /\ l[j + 1] = Wrapped(snapped[i + 1].point)

LEMMA WrappedFollows ==
    ASSUME SearchInv, NEW s, Tracked(s, Len(snapped)), NEW l, DOMAIN l = 1..Len(s),
           Len(l) = Len(s), \A i \in 1..Len(s) : l[i] = Wrapped(s[i])
    PROVE  Followed(l)
<1>1. PICK N \in Nat : N = Len(snapped) /\ DOMAIN snapped = 1..N
  BY SnapsAreSome
<1>2. s \in Seq(Shown)
  BY DEF Tracked
<1>3. PICK L \in Nat : L = Len(s)
  <2>1. Len(s) \in Nat
    BY ONLY <1>2
  <2> QED
    BY <2>1
<1>4. N = Len(snapped) /\ L = Len(s) /\ DOMAIN snapped = 1..N
  BY <1>1, <1>3
<1>5. PICK at \in [1..N -> 1..L] : PassesAt(at, s, N)
  BY <1>4 DEF Tracked
<1>6. /\ \A i \in 1..N : l[at[i]] = Wrapped(snapped[i].point)
      /\ \A i \in 1..(N - 1) : at[i] <= at[i + 1]
  BY <1>4, <1>5 DEF PassesAt
<1>7. ASSUME NEW j \in 1..(L - 1)
      PROVE  \/ OnOneRoad(l[j], l[j + 1])
             \/ \E i \in 1..(N - 1) : /\ Bridged(i)
                                      /\ l[j] = Wrapped(snapped[i].point)
                                      /\ l[j + 1] = Wrapped(snapped[i + 1].point)
  <2>1. j \in 1..L /\ j + 1 \in 1..L
    OBVIOUS
  <2>2. l[j] = Wrapped(s[j]) /\ l[j + 1] = Wrapped(s[j + 1])
    BY <1>4, <2>1
  <2>3. <<s[j], s[j + 1]>> \in Rides
    BY <1>4 DEF Tracked, Chained
  <2>4. CASE <<s[j], s[j + 1]>> \in RoadSteps
    BY <2>2, <2>4, RoadStepWrapped DEF SearchInv
  <2>5. CASE <<s[j], s[j + 1]>> \in Gapped
    <3>1. PICK i \in 1..(N - 1) :
            Bridged(i) /\ <<s[j], s[j + 1]>> = <<snapped[i].point, snapped[i + 1].point>>
      BY <1>4, <2>5 DEF Gapped
    <3>2. s[j] = snapped[i].point /\ s[j + 1] = snapped[i + 1].point
      BY <3>1
    <3> QED
      BY <2>2, <3>1, <3>2
  <2> QED
    BY <2>3, <2>4, <2>5 DEF Rides
<1>8. Len(l) = L /\ DOMAIN l = 1..L
  BY <1>4
<1> QED
  BY ONLY <1>4, <1>6, <1>7, <1>8, at \in [1..N -> 1..L] DEF Followed

LEMMA TidyTracked ==
    ASSUME SearchInv, LegsInv, TrackSoFar, pc = "legs", ~MoreLegs
    PROVE  Tracked(Pair(Dedup(line)), Len(snapped))
<1>1. PICK N \in Nat : N = Len(snapped) /\ N >= 2 /\ segment = N - 1
  <2>1. Len(snapped) = Len(call.points) /\ Len(call.points) >= 2 /\ snapped \in Seq(Snaps)
    BY DEF SearchInv
  <2> QED
    BY <2>1 DEF LegsInv, MoreLegs
<1>2. Tracked(line, N)
  BY <1>1 DEF TrackSoFar
<1>3. line \in Seq(Shown)
  BY <1>2 DEF Tracked
<1>4. PICK s \in Seq(Shown) : s = Dedup(line) /\ Shrunk(line, Len(line), s)
  BY <1>3, DedupFacts
<1>5. N >= 1
  BY <1>1
<1>6. Tracked(s, N)
  BY <1>2, <1>4, <1>5, ShrunkTracked
<1>7. CASE Len(s) = 1
  <2>1. PICK p \in Shown : p = s[1]
    <3>1. 1 \in 1..Len(s)
      BY <1>7
    <3> QED
      BY <3>1, ElementOfSeq
  <2>2. s[1] = snapped[N].point /\ Chained(s, Rides)
    BY <1>6, <1>7 DEF Tracked
  <2>3. <<p, p>> \in Rides
    <3>1. IsSnap(snapped[N]) /\ IsGraph(g)
      BY <1>1, SnapsAreSome DEF SearchInv
    <3>2. PICK x : x = snapped[N]
      OBVIOUS
    <3>3. /\ x.edge \in EdgeIndices(g) /\ x.seg \in 0..Edge(g, x.edge).geo_len
          /\ Usable(g, x.edge, Mask) /\ Holds(x.edge, x.seg, p)
      BY <2>1, <2>2, <3>1, <3>2 DEF IsSnap
    <3>4. <<p, p>> \in RoadSteps
      BY <3>1, <3>3, StepOn
    <3> QED
      BY <3>4 DEF Rides
  <2>4. PICK t : t = s \o s
    OBVIOUS
  <2>5. Len(t) = 2 /\ t[2] = s[1]
    <3>1. /\ Len(t) = Len(s) + Len(s)
          /\ \A j \in 1..Len(s) : t[Len(s) + j] = s[j]
      BY ONLY <2>4, s \in Seq(Shown), JoinedLists
    <3>2. 1 \in 1..Len(s) /\ Len(s) + 1 = 2 /\ Len(s) + Len(s) = 2
      BY <1>7
    <3> QED
      BY <3>1, <3>2
  <2>6. Tracked(s \o s, N)
    <3>1. <<s[Len(s)], s[1]>> \in Rides /\ (s \o s)[Len(s \o s)] = snapped[N].point
      BY <1>7, <2>1, <2>2, <2>3, <2>4, <2>5
    <3>2. N \in {N, N + 1}
      OBVIOUS
    <3> QED
      BY <1>5, <1>6, <2>2, <3>1, <3>2, TrackedOn
  <2> QED
    BY <1>1, <1>4, <1>7, <2>6 DEF Pair
<1>8. CASE Len(s) # 1
  BY <1>1, <1>4, <1>6, <1>8 DEF Pair
<1> QED
  BY <1>7, <1>8

TrackInv ==
    /\ TrackSoFar
    /\ RouteReturned => Followed(line)

LEMMA UnmovedTrack ==
    ASSUME UNCHANGED <<call, g, snapped>>
    PROVE  /\ \A l, n : Tracked(l, n)' <=> Tracked(l, n)
           /\ \A l : Followed(l)' <=> Followed(l)
<1>1. Mask' = Mask /\ Shown' = Shown /\ \A i : Bridged(i)' <=> Bridged(i)
  BY Unmoved, UnmovedSnaps DEF Shown
<1>2. \A p, q : OnOneRoad(p, q)' <=> OnOneRoad(p, q)
  BY <1>1 DEF OnOneRoad
<1>3. RoadSteps' = RoadSteps
  BY <1>1, <1>2 DEF RoadSteps
<1>4. Gapped' = Gapped
  BY <1>1 DEF Gapped
<1>5. Rides' = Rides
  BY <1>3, <1>4 DEF Rides
<1>6. \A l, n : Tracked(l, n)' <=> Tracked(l, n)
  BY <1>1, <1>5 DEF Tracked, PassesAt, Chained
<1>7. \A l : Followed(l)' <=> Followed(l)
  BY <1>1, <1>2 DEF Followed
<1> QED
  BY <1>6, <1>7

LEMMA TrackKept ==
    ASSUME SearchInv, LegsInv, LineInv, TrackInv, [Next]_vars
    PROVE  TrackInv'
<1>1. ASSUME pc' \notin {"legs", "done"} PROVE TrackInv'
  BY <1>1 DEF TrackInv, TrackSoFar, RouteReturned
<1>2. ASSUME NEW kind, NEW index, Fail(kind, index) PROVE TrackInv'
  <2>1. result' = [tag |-> "Err", kind |-> kind, index |-> index] /\ pc' = "done"
    BY <1>2 DEF Fail, Failed
  <2>2. result'.tag = "Err"
    BY <2>1
  <2> QED
    BY <2>1, <2>2 DEF TrackInv, TrackSoFar, RouteReturned
<1>3. ASSUME TooFewWaypoints \/ InvalidMaxSnap \/ SnapTooFar \/ NoPath PROVE TrackInv'
  BY <1>2, <1>3 DEF TooFewWaypoints, InvalidMaxSnap, SnapTooFar, NoPath
<1>4. ASSUME StartSnapping \/ ScanRing PROVE TrackInv'
  BY <1>1, <1>4 DEF StartSnapping, ScanRing
<1>5. CASE ReturnNearest
  <2>1. pc' = "done" /\ call'.kind # "route"
    BY <1>5 DEF ReturnNearest
  <2> QED
    BY <2>1 DEF TrackInv, TrackSoFar, RouteReturned
<1>6. CASE SnapWaypoint
  <2>1. pc = "search" /\ pc' \in {"legs", "search"} /\ UNCHANGED <<segment, line>>
    BY <1>6 DEF SnapWaypoint
  <2>2. segment' = 0
    BY <2>1 DEF SearchInv
  <2> QED
    BY <2>1, <2>2 DEF TrackInv, TrackSoFar, RouteReturned
<1>7. CASE PointLeg \/ NetworkLeg \/ AlongEdge \/ StraightLeg
  <2>1. PICK points, dm, straight : AppendLeg(points, dm, straight) /\ LegTrack(points)
    BY <1>7, LegTracks
  <2>2. MoreLegs
    BY <1>7 DEF PointLeg, NetworkLeg, AlongEdge, StraightLeg
  <2>3. /\ line' = line \o <<a.point>> \o points
        /\ segment' = segment + 1 /\ UNCHANGED <<call, g, pc, snapped>>
    BY <2>1 DEF AppendLeg
  <2>4. Tracked(line \o <<a.point>> \o points, (segment + 1) + 1)
    BY <2>1, <2>2, LegTracked DEF TrackInv
  <2>5. Tracked(line, segment + 1)'
    BY <2>3, <2>4, UnmovedTrack
  <2>6. pc' = "legs"
    BY <2>2, <2>3 DEF MoreLegs
  <2> QED
    BY <2>5, <2>6 DEF TrackInv, TrackSoFar, RouteReturned
<1>8. CASE Finish
  <2>1. pc = "legs" /\ ~MoreLegs /\ pc' = "done" /\ UNCHANGED <<call, g, snapped>>
    BY <1>8 DEF Finish
  <2>2. PICK two : two = Pair(Dedup(line))
    OBVIOUS
  <2>3. line' = IF g.shifted THEN [i \in DOMAIN two |-> Wrapped(two[i])] ELSE two
    BY <1>8, <2>2 DEF Finish, Pair
  <2>4. Tracked(two, Len(snapped))
    BY <2>1, <2>2, TidyTracked DEF TrackInv
  <2>5. PICK N \in Nat : N = Len(two) /\ DOMAIN two = 1..N /\ two \in Seq(Shown)
    BY <2>4 DEF Tracked
  <2>6. /\ DOMAIN line' = 1..N /\ Len(line') = N
        /\ \A i \in 1..N : line'[i] = Wrapped(two[i])
    <3>1. CASE g.shifted
      <4>1. line' = [i \in 1..N |-> Wrapped(two[i])]
        BY <2>3, <2>5, <3>1
      <4> QED
        BY <4>1
    <3>2. CASE ~g.shifted
      <4>1. line' = two
        BY <2>3, <3>2
      <4>2. ASSUME NEW i \in 1..N PROVE Wrapped(two[i]) = two[i]
        <5>1. two[i] \in Shown
          BY <2>5, ElementOfSeq
        <5> QED
          BY <3>2, <5>1, ShownFacts, RangeFacts DEF SearchInv
      <4> QED
        BY <2>5, <4>1, <4>2
    <3> QED
      BY <3>1, <3>2
  <2>7. Followed(line')
    BY <2>4, <2>5, <2>6, WrappedFollows
  <2>8. Followed(line)'
    BY <2>1, <2>7, UnmovedTrack
  <2> QED
    BY <2>1, <2>8 DEF TrackInv, TrackSoFar
<1>9. CASE Returned \/ UNCHANGED vars
  <2>1. UNCHANGED vars
    BY <1>9 DEF Returned
  <2>2. UNCHANGED <<call, g, snapped>>
    BY <2>1 DEF vars
  <2>3. (Followed(line)' <=> Followed(line)) /\ (Tracked(line, segment + 1)' <=> Tracked(line, segment + 1))
    BY <2>1, <2>2, UnmovedTrack DEF vars
  <2> QED
    BY <2>1, <2>3 DEF TrackInv, TrackSoFar, RouteReturned, vars
<1> QED
  BY <1>3, <1>4, <1>5, <1>6, <1>7, <1>8, <1>9 DEF Next

LEMMA LineFollows ==
    ASSUME SearchInv, LineInv, TrackInv
    PROVE  LineFollowsRoads
<1> SUFFICES ASSUME Routed PROVE Drawn(line) /\ Followed(line)
  BY DEF LineFollowsRoads, Drawn, Followed
<1> QED
  BY DEF LineInv, TrackInv

----------------------------------------------------------------------------
(* The replies *)

\* How a call may end, by what is told of it.
Explained ==
    pc = "done" /\ call.kind = "route" =>
        \/ result = [tag |-> "Ok", fallback |-> fallback]
        \/ \E kind, index :
              /\ result = Failed(kind, index)
              /\ \/ kind = "TooFewWaypoints" /\ Len(call.points) < 2
                 \/ /\ kind = "SnapTooFar" /\ Len(snapped) < Len(call.points)
                    /\ best = None \/ best.d2 > call.max * call.max
                 \/ kind = "NoPath" /\ ~call.fallback
                 \/ kind = "InvalidMaxSnapMeters" /\ call.max < 0

LEMMA EndExplained ==
    ASSUME SearchInv, LegsInv, Explained, [Next]_vars
    PROVE  Explained'
<1>1. ASSUME pc' # "done" PROVE Explained'
  BY <1>1 DEF Explained
<1>2. ASSUME NEW kind, NEW index, Fail(kind, index),
             \/ kind = "TooFewWaypoints" /\ Len(call.points) < 2
             \/ /\ kind = "SnapTooFar" /\ Len(snapped) < Len(call.points)
                /\ best = None \/ best.d2 > call.max * call.max
             \/ kind = "NoPath" /\ ~call.fallback
             \/ kind = "InvalidMaxSnapMeters" /\ call.max < 0
      PROVE  Explained'
  <2>1. result' = Failed(kind, index) /\ UNCHANGED <<call, snapped, best>>
    BY <1>2 DEF Fail
  <2> QED
    BY <1>2, <2>1 DEF Explained, Failed
<1>3. CASE TooFewWaypoints
  BY <1>2, <1>3 DEF TooFewWaypoints
<1>4. CASE InvalidMaxSnap
  BY <1>2, <1>4 DEF InvalidMaxSnap
<1>5. CASE SnapTooFar
  <2>1. Fail("SnapTooFar", Len(snapped)) /\ pc = "search" /\ ~NearEnough
    BY <1>5 DEF SnapTooFar
  <2>2. Len(snapped) < Len(call.points)
    <3>1. Len(snapped) + 1 \in DOMAIN call.points
      BY <2>1 DEF SearchInv
    <3>2. Len(call.points) \in Nat /\ DOMAIN call.points = 1..Len(call.points)
      BY PointsAreSome DEF SearchInv
    <3>3. Len(snapped) \in Nat
      BY SnapsAreSome DEF SearchInv
    <3> QED
      BY <3>1, <3>2, <3>3
  <2>3. best = None \/ best.d2 > call.max * call.max
    <3>1. CASE best = None
      BY <3>1
    <3>2. CASE best # None
      <4>1. best \in Candidates /\ IsGraph(g) /\ IsCall(call) /\ Len(snapped) + 1 \in DOMAIN call.points
        BY <2>1, <3>2 DEF SearchInv
      <4>2. best.d2 \in Nat /\ call.max \in Int
        BY <4>1, CandidateFacts DEF IsFound, IsCall
      <4>3. PICK sq \in Int, d2 \in Nat : sq = call.max * call.max /\ d2 = best.d2
        BY <4>2
      <4> QED
        BY <2>1, <3>2, <4>3 DEF NearEnough
    <3> QED
      BY <3>1, <3>2
  <2> QED
    BY <1>2, <2>1, <2>2, <2>3
<1>6. CASE NoPath
  BY <1>2, <1>6 DEF NoPath
<1>7. CASE StartSnapping \/ ScanRing
  BY <1>1, <1>7 DEF StartSnapping, ScanRing
<1>8. CASE ReturnNearest
  BY <1>8 DEF ReturnNearest, Explained
<1>9. CASE SnapWaypoint
  BY <1>1, <1>9 DEF SnapWaypoint
<1>10. CASE PointLeg \/ NetworkLeg \/ AlongEdge \/ StraightLeg
  BY <1>1, <1>10, MoreLegs => pc = "legs"
     DEF PointLeg, NetworkLeg, AlongEdge, StraightLeg, AppendLeg, MoreLegs
<1>11. CASE Finish
  <2>1. result' = [tag |-> "Ok", fallback |-> fallback] /\ UNCHANGED fallback
    BY <1>11 DEF Finish
  <2> QED
    BY <2>1 DEF Explained
<1>12. CASE Returned \/ UNCHANGED vars
  <2>1. UNCHANGED vars
    BY <1>12 DEF Returned
  <2> QED
    BY <2>1 DEF Explained, Failed, vars
<1> QED
  BY <1>3, <1>4, <1>5, <1>6, <1>7, <1>8, <1>9, <1>10, <1>11, <1>12 DEF Next

\* Of a client's request; what came of its call stands once it is replied to.
ReplyInv ==
    /\ request \in Requests /\ call = CallOf(request)
    /\ RepliesAreTrue

LEMMA FlippedTwice ==
    ASSUME NEW l \in Seq(Point)
    PROVE  Flipped(Flipped(l)) = l
<1>1. PICK n \in Nat : n = Len(l) /\ DOMAIN l = 1..n
  OBVIOUS
<1>2. ASSUME NEW i \in 1..n PROVE <<Lat(l[i]), Lon(l[i])>> = l[i]
  <2>1. l[i] \in Point
    BY <1>1, ElementOfSeq
  <2> QED
    BY <2>1 DEF Point, Lat, Lon
<1>3. PICK f : f = [i \in 1..n |-> <<Lon(l[i]), Lat(l[i])>>]
  OBVIOUS
<1>4. Flipped(l) = f /\ DOMAIN f = 1..n
  BY <1>1, <1>3 DEF Flipped
<1>5. \A i \in 1..n : <<Lon(f[i]), Lat(f[i])>> = l[i]
  BY <1>2, <1>3 DEF Lat, Lon
<1>6. Flipped(f) = [i \in 1..n |-> <<Lon(f[i]), Lat(f[i])>>]
  BY <1>4 DEF Flipped
<1>7. l = [i \in 1..n |-> l[i]]
  BY <1>1
<1> QED
  BY <1>4, <1>5, <1>6, <1>7

\* Of a route, Option(request.fallback, TRUE) is the option it was made with,
\* and a client of the C bindings has left it and the cutoff out.
LEMMA OptionsOfCall ==
    ASSUME NEW r \in Requests, NEW c, c = CallOf(r)
    PROVE  /\ c.points = r.points /\ c.kind = r.kind
           /\ c.fallback = Option(r.fallback, TRUE)
           /\ c.max < 0 => r.max < 0
           /\ r.client = "ffi" => c.fallback = TRUE /\ ~ (c.max < 0)
           /\ r.client # "rust" => r.kind = "route"
           /\ c.max \in Int /\ c.fallback \in BOOLEAN
<1>1. IsRequest(r) /\ DefaultMax \in Nat
  BY RequestAssumption
<1>2. PICK max, straight :
        /\ max = IF r.client = "ffi" THEN Absent ELSE r.max
        /\ straight = IF r.client = "ffi" THEN Absent ELSE r.fallback
  OBVIOUS
<1>3. c = [kind |-> r.kind, graph |-> r.graph, points |-> r.points, profile |-> r.profile,
           max |-> Option(max, DefaultMax), fallback |-> Option(straight, DefaultFallback)]
  BY <1>2 DEF CallOf
<1>4. /\ c.kind = r.kind /\ c.points = r.points
      /\ c.max = Option(max, DefaultMax) /\ c.fallback = Option(straight, DefaultFallback)
  BY <1>3
<1>5. /\ r.client = "ffi" => r.max = Absent /\ r.fallback = Absent
      /\ r.max \in Int \cup {Absent} /\ r.fallback \in BOOLEAN \cup {Absent}
      /\ r.client # "rust" => r.kind = "route"
  BY <1>1 DEF IsRequest
<1>6. max = r.max /\ straight = r.fallback
  BY <1>2, <1>5
<1>7. c.max \in Int /\ c.fallback \in BOOLEAN /\ (c.max < 0 => r.max < 0)
  <2>1. c.max \in Int /\ (c.max < 0 => r.max < 0)
    <3>1. CASE r.max = Absent
      <4>1. c.max = DefaultMax
        BY <1>4, <1>6, <3>1 DEF Option
      <4> QED
        BY <1>1, <4>1
    <3>2. CASE r.max # Absent
      <4>1. c.max = r.max
        BY <1>4, <1>6, <3>2 DEF Option
      <4> QED
        BY <1>5, <3>2, <4>1
    <3> QED
      BY <3>1, <3>2
  <2>2. c.fallback \in BOOLEAN
    BY <1>4, <1>5, <1>6 DEF Option, DefaultFallback
  <2> QED
    BY <2>1, <2>2
<1>8. c.fallback = Option(r.fallback, TRUE)
  BY <1>4, <1>6 DEF DefaultFallback
<1>9. r.client = "ffi" => c.fallback = TRUE /\ ~ (c.max < 0)
  BY <1>1, <1>4, <1>5, <1>6 DEF Option, DefaultFallback
<1> QED
  BY <1>4, <1>5, <1>7, <1>8, <1>9

LEMMA ReplyTrue ==
    ASSUME SearchInv, LegsInv, LineInv, Explained, ReplyInv, Reply
    PROVE  RepliesAreTrue'
<1>1. /\ pc = "done" /\ request.client # "rust" /\ UNCHANGED <<vars, request>>
      /\ reply' = IF result.tag = "Err"
                  THEN [tag |-> "Err", kind |-> ErrorOf(request.client, result.kind)]
                  ELSE Rendered(request.format)
  BY DEF Reply
<1>2. request \in Requests /\ call = CallOf(request)
  BY DEF ReplyInv
<1>3. /\ call.kind = "route" /\ call.points = request.points
      /\ call.fallback = Option(request.fallback, TRUE) /\ call.fallback \in BOOLEAN
      /\ call.max < 0 => request.max < 0
      /\ request.client = "ffi" => call.fallback = TRUE /\ ~ (call.max < 0)
  BY <1>1, <1>2, OptionsOfCall
<1>4. UNCHANGED <<call, g, snapped, line, best, request>>
  BY <1>1 DEF vars
<1>5. CASE result.tag = "Err"
  <2>1. PICK kind, index :
          /\ result = Failed(kind, index)
          /\ \/ kind = "TooFewWaypoints" /\ Len(call.points) < 2
             \/ /\ kind = "SnapTooFar" /\ Len(snapped) < Len(call.points)
                /\ best = None \/ best.d2 > call.max * call.max
             \/ kind = "NoPath" /\ ~call.fallback
             \/ kind = "InvalidMaxSnapMeters" /\ call.max < 0
    <3>1. [tag |-> "Ok", fallback |-> fallback].tag = "Ok"
      OBVIOUS
    <3>2. result # [tag |-> "Ok", fallback |-> fallback]
      BY <1>5, <3>1
    <3> QED
      BY <1>1, <1>3, <3>2 DEF Explained
  <2>2. result.kind = kind
    BY <2>1 DEF Failed
  <2>3. reply' = [tag |-> "Err", kind |-> ErrorOf(request.client, kind)]
    BY <1>1, <1>5, <2>2
  <2>4. reply'.tag = "Err" /\ reply'.kind = ErrorOf(request.client, kind)
    BY <2>3
  <2>5. ErrorOf(request.client, kind) = kind
    BY <1>3, <2>1 DEF ErrorOf, FfiError
  <2> QED
    BY <1>3, <1>4, <2>1, <2>4, <2>5 DEF RepliesAreTrue
<1>6. CASE result.tag # "Err"
  <2>1. result = [tag |-> "Ok", fallback |-> fallback]
    <3>1. \A kind, index : Failed(kind, index).tag = "Err"
      BY DEF Failed
    <3>2. \A kind, index : result # Failed(kind, index)
      BY <1>6, <3>1
    <3> QED
      BY <1>1, <1>3, <3>2 DEF Explained
  <2>2. result.tag = "Ok" /\ result.fallback = fallback
    BY <2>1
  <2>3. Drawn(line) /\ (fallback => call.fallback) /\ fallback \in BOOLEAN
    BY <1>1, <1>3, <2>2 DEF LineInv, RouteReturned, LegsInv
  <2>4. PICK format : format = request.format
    OBVIOUS
  <2>5. PICK points : points = IF format = "geojson" THEN Flipped(line) ELSE line
    OBVIOUS
  <2>6. PICK straight : straight = IF format = "gpx" THEN None ELSE fallback
    OBVIOUS
  <2>7. reply' = [tag |-> "Ok", format |-> format, points |-> points, fallback |-> straight]
    BY <1>1, <1>6, <2>4, <2>5, <2>6 DEF Rendered
  <2>8. /\ reply'.tag = "Ok" /\ reply'.format = format /\ reply'.points = points
        /\ reply'.fallback = straight
    BY <2>7
  <2>9. (IF format = "geojson" THEN Flipped(points) ELSE points) = line
    BY <2>3, <2>5, FlippedTwice DEF Drawn
  <2>10. straight # None => (straight => Option(request.fallback, TRUE))
    BY <1>3, <2>3, <2>6
  <2>11. /\ Len(line) >= 2 /\ DOMAIN line = 1..Len(line)
         /\ \A i \in 1..Len(line) : OnGlobe(line[i])
         /\ line[1] = Wrapped(snapped[1].point) /\ Last(line) = Wrapped(Last(snapped).point)
    BY <2>3, RangeFacts DEF Drawn
  <2> QED
    BY <1>4, <2>8, <2>9, <2>10, <2>11 DEF RepliesAreTrue
<1> QED
  BY <1>5, <1>6

LEMMA RepliesKept ==
    ASSUME SearchInv, LegsInv, LineInv, Explained, ReplyInv, [ClientNext]_clientVars
    PROVE  ReplyInv'
<1>1. UNCHANGED <<request, call>>
  BY DEF ClientNext, clientVars, vars, RefuseRequest, Route, Reply, Replied, Next,
         TooFewWaypoints, InvalidMaxSnap, StartSnapping, ScanRing, ReturnNearest, SnapTooFar,
         SnapWaypoint, PointLeg, NetworkLeg, AlongEdge, StraightLeg, NoPath, Finish, Returned,
         Fail, AppendLeg
<1>2. request' \in Requests /\ call' = CallOf(request')
  BY <1>1 DEF ReplyInv
<1>3. CallOf(request)' = CallOf(request')
  BY DEF CallOf, Option, DefaultFallback
<1>4. CASE RefuseRequest
  <2>1. reply' = [tag |-> "Err", kind |-> "Unreadable"]
    BY <1>4 DEF RefuseRequest
  <2>2. reply'.tag = "Err" /\ reply'.kind = "Unreadable"
    BY <2>1
  <2> QED
    BY <1>2, <1>3, <2>2 DEF ReplyInv, RepliesAreTrue
<1>5. CASE Route
  <2>1. reply' = None
    BY <1>5 DEF Route
  <2> QED
    BY <1>2, <1>3, <2>1 DEF ReplyInv, RepliesAreTrue
<1>6. CASE Reply
  BY <1>2, <1>3, <1>6, ReplyTrue DEF ReplyInv
<1>7. CASE Replied \/ UNCHANGED clientVars
  <2>1. UNCHANGED clientVars
    BY <1>7 DEF Replied
  <2>2. RepliesAreTrue' <=> RepliesAreTrue
    BY <2>1 DEF clientVars, vars, RepliesAreTrue
  <2> QED
    BY <1>2, <1>3, <2>2 DEF ReplyInv
<1> QED
  BY <1>4, <1>5, <1>6, <1>7 DEF ClientNext

LEMMA RepliesBegin == ClientInit => LineInv /\ Explained /\ ReplyInv
<1> SUFFICES ASSUME ClientInit PROVE LineInv /\ Explained /\ ReplyInv
  OBVIOUS
<1>1. request \in Requests /\ call = CallOf(request) /\ reply = None /\ Begin
  BY DEF ClientInit
<1>2. pc \in {"start", "search"}
  BY <1>1 DEF Begin
<1> QED
  BY <1>1, <1>2 DEF LineInv, LineSoFar, RouteReturned, Routed, Answered, Explained, ReplyInv,
                    RepliesAreTrue

ClientInv == SearchInv /\ LegsInv /\ LineInv /\ Explained /\ ReplyInv

LEMMA RepliesInvariant == ClientSpec => []ClientInv
<1>1. ClientInit => ClientInv
  BY ClientsBegin, RepliesBegin DEF ClientInv
<1>2. ClientInv /\ [ClientNext]_clientVars => ClientInv'
  BY ClientSteps, SearchKept, LegsKept, LineKept, EndExplained, RepliesKept DEF ClientInv
<1> QED
  BY <1>1, <1>2, PTL DEF ClientSpec

\* For every graph the builder wrote, request and client: a line in a reply,
\* read by the rules of its format, has two or more points on the globe, from
\* the first snap to the last, and an error in a reply names what happened.
THEOREM RepliesAlwaysTrue == ClientSpec => []RepliesAreTrue
<1>1. ClientInv => RepliesAreTrue
  BY DEF ClientInv, ReplyInv
<1> QED
  BY <1>1, RepliesInvariant, PTL

\* For every graph the builder wrote, call and client: no longitude of a line
\* is beyond half a turn, and two equal points follow one another only in the
\* line of a route that goes nowhere, or at a node beyond the 180th meridian.
THEOREM ZeroStepsAlwaysAtSeam == ClientSpec => []ZeroStepsOnlyAtSeam
<1>1. ClientInv => ZeroStepsOnlyAtSeam
  <2> SUFFICES ASSUME ClientInv, Routed PROVE ZeroStepsOnlyAtSeam
    BY DEF ZeroStepsOnlyAtSeam
  <2>1. Drawn(line)
    BY DEF ClientInv, LineInv
  <2>2. DOMAIN line = 1..Len(line) /\ \A i \in 1..Len(line) : Gap(0, Lon(line[i])) <= HalfCircle
    BY <2>1 DEF Drawn, InRange
  <2> QED
    BY <2>1, <2>2 DEF Drawn, ZeroStepsOnlyAtSeam
<1> QED
  BY <1>1, RepliesInvariant, PTL

----------------------------------------------------------------------------
(* The line of an answer *)

LEMMA TrackInvariant == ClientSpec => []TrackInv
<1>1. ClientInit => TrackInv
  <2> SUFFICES ASSUME ClientInit PROVE TrackInv
    OBVIOUS
  <2>1. pc \in {"start", "search"}
    BY DEF ClientInit, Begin
  <2> QED
    BY <2>1 DEF TrackInv, TrackSoFar, RouteReturned
<1>2. ClientInv /\ TrackInv /\ [ClientNext]_clientVars => TrackInv'
  BY ClientSteps, TrackKept DEF ClientInv
<1>3. ClientSpec => []ClientInv
  BY RepliesInvariant
<1> QED
  BY <1>1, <1>2, <1>3, PTL DEF ClientSpec

\* Every step of a returned line is along one segment of a road the profile
\* may use, or over a gap, and the line passes its waypoints in their order
\* (Router::route: the partial shapes it joins, forwards and backwards, the
\* duplicates it drops, the longitudes it wraps).
THEOREM LineAlwaysFollowsRoads == ClientSpec => []LineFollowsRoads
<1>1. ClientInv /\ TrackInv => LineFollowsRoads
  BY LineFollows DEF ClientInv
<1> QED
  BY <1>1, RepliesInvariant, TrackInvariant, PTL

----------------------------------------------------------------------------
(* The cells of the grid *)

LEMMA GridSize ==
    ASSUME NEW G, IsGraph(G)
    PROVE  /\ G.grid.cols \in Nat /\ G.grid.cols >= 1 /\ G.grid.cols = Cols(G)
           /\ G.grid.rows \in Nat /\ G.grid.rows >= 1 /\ G.grid.rows = Rows(G)
<1>1. G.grid.cols = Cols(G) /\ G.grid.rows = Rows(G)
  BY DEF IsGraph, BuildGrid
<1>2. PICK M \in Nat, T \in Int : M = MaxCols /\ M >= 1 /\ T = TargetCells(G)
  <2>1. NodeCount(G) \in Nat /\ MaxCells \in Nat
    BY NodesAreSome, GridAssumption
  <2> QED
    BY <2>1, GridAssumption DEF TargetCells, Clamp, Greatest, Least
<1>3. PICK w \in Int, h \in Int :
        /\ w = IF Width(G) = 0 \/ Height(G) = 0 THEN 1 ELSE Width(G)
        /\ h = IF Width(G) = 0 \/ Height(G) = 0 THEN 1 ELSE Height(G)
  BY DEF IsGraph, Point, Width, Height
<1> DEFINE Fits(c) == 4 * T * w < (2 * c + 1) * (2 * c + 1) * h
           Fine == {c \in 0..M : Fits(c) \/ c = M}
           Least0(c) == /\ Fits(c) \/ c = M
                        /\ \A lower \in 0..(c - 1) : ~Fits(lower)
<1>4. PICK c \in Fine : \A k \in Fine : c <= k
  <2>1. Fine \in SUBSET Nat /\ M \in Fine
    BY <1>2
  <2> HIDE DEF Fine
  <2> QED
    BY <2>1, LeastNatural
<1>5. c \in 0..M /\ Least0(c)
  <2>1. ASSUME NEW lower \in 0..(c - 1), Fits(lower) PROVE FALSE
    <3>1. lower \in 0..M /\ lower < c
      BY <1>4
    <3>2. lower \in Fine
      BY <2>1, <3>1
    <3> QED
      BY <1>4, <3>1, <3>2
  <2> QED
    BY <1>4, <2>1
<1>6. PICK k : k = CHOOSE x \in 0..M : Least0(x)
  OBVIOUS
<1>7. k \in 0..M
  BY <1>5, <1>6
<1>8. Cols(G) = Clamp(k, 1, M)
  BY <1>2, <1>3, <1>6 DEF Cols
<1>9. PICK C \in Nat : C = Cols(G) /\ C >= 1
  BY <1>2, <1>7, <1>8 DEF Clamp, Greatest, Least
<1>10. PICK r \in Int, top \in Int : r = (2 * T + C) \div (2 * C) /\ top = MaxCells \div C
  <2>1. (2 * T + C) \div (2 * C) \in Int /\ MaxCells \div C \in Int
    BY <1>9, GridAssumption
  <2> QED
    BY <2>1
<1>11. Rows(G) = Clamp(r, 1, top)
  BY <1>2, <1>9, <1>10 DEF Rows
<1>12. Rows(G) \in Nat /\ Rows(G) >= 1
  BY <1>11 DEF Clamp, Greatest, Least
<1> QED
  BY <1>1, <1>9, <1>12

LEMMA ClampFacts ==
    ASSUME NEW n \in Nat, n >= 1, NEW k \in Int, NEW l \in Int
    PROVE  /\ Clamp(k, 0, n - 1) \in 0..(n - 1)
           /\ k <= l => Clamp(k, 0, n - 1) <= Clamp(l, 0, n - 1)
           /\ Clamp(k, 0, n - 1) >= 1 => Clamp(k, 0, n - 1) <= k
           /\ Clamp(k, 0, n - 1) < n - 1 => k <= Clamp(k, 0, n - 1)
  BY DEF Clamp, Greatest, Least

LEMMA CellRange ==
    ASSUME NEW n \in Nat, n >= 1, NEW span \in Nat, NEW from \in Int, NEW x \in Int
    PROVE  CellAlong(x, from, span, n) \in 0..(n - 1)
<1>1. CASE span = 0
  BY <1>1 DEF CellAlong
<1>2. CASE span # 0
  <2>1. PICK z \in Int : z = (x - from) * n
    OBVIOUS
  <2>2. PICK k \in Int : k = z \div span
    BY <1>2, Quotient
  <2>3. CellAlong(x, from, span, n) = Clamp(k, 0, n - 1)
    BY <1>2, <2>1, <2>2 DEF CellAlong
  <2> QED
    BY <2>3, ClampFacts
<1> QED
  BY <1>1, <1>2

LEMMA CellOrder ==
    ASSUME NEW n \in Nat, n >= 1, NEW span \in Nat, NEW from \in Int, NEW x \in Int, NEW y \in Int,
           x <= y
    PROVE  CellAlong(x, from, span, n) <= CellAlong(y, from, span, n)
<1>1. CASE span = 0
  BY <1>1 DEF CellAlong
<1>2. CASE span # 0
  <2>1. PICK z \in Int, w \in Int : z = (x - from) * n /\ w = (y - from) * n
    OBVIOUS
  <2>2. z <= w
    <3>1. n * (x - from) <= n * (y - from)
      <4>1. x - from \in Int /\ y - from \in Int /\ x - from <= y - from
        OBVIOUS
      <4> QED
        BY <4>1, ProductOrder
    <3> QED
      BY <2>1, <3>1
  <2>3. PICK k \in Int, l \in Int : k = z \div span /\ l = w \div span
    BY <1>2, Quotient
  <2>4. k <= l
    BY <1>2, <2>2, <2>3, QuotientOrder
  <2>5. /\ CellAlong(x, from, span, n) = Clamp(k, 0, n - 1)
        /\ CellAlong(y, from, span, n) = Clamp(l, 0, n - 1)
    BY <1>2, <2>1, <2>3 DEF CellAlong
  <2> QED
    BY <2>4, <2>5, ClampFacts
<1> QED
  BY <1>1, <1>2

\* Two coordinates some cells apart are more than the cells between wide apart.
LEMMA CellsApart ==
    ASSUME NEW n \in Nat, n >= 1, NEW span \in Nat, span > 0, NEW from \in Int,
           NEW x \in Int, NEW y \in Int,
           CellAlong(x, from, span, n) < CellAlong(y, from, span, n)
    PROVE  (CellAlong(y, from, span, n) - CellAlong(x, from, span, n) - 1) * span < (y - x) * n
<1>1. PICK c \in 0..(n - 1), d \in 0..(n - 1) :
        c = CellAlong(x, from, span, n) /\ d = CellAlong(y, from, span, n)
  BY CellRange
<1>2. PICK z \in Int, w \in Int : z = (x - from) * n /\ w = (y - from) * n
  OBVIOUS
<1>3. PICK k \in Int, l \in Int : k = z \div span /\ l = w \div span
  BY Quotient
<1>4. c = Clamp(k, 0, n - 1) /\ d = Clamp(l, 0, n - 1)
  BY <1>1, <1>2, <1>3 DEF CellAlong
<1>5. c < d /\ k <= c /\ d <= l
  <2>1. c < d
    BY <1>1
  <2>2. d >= 1 /\ c < n - 1
    BY <2>1
  <2> QED
    BY <1>4, <2>1, <2>2, ClampFacts
<1>6. span * l <= w /\ z < span * k + span
  BY <1>3, Quotient
<1>7. span * d <= span * l /\ span * (k + 1) <= span * (c + 1)
  <2>1. c \in Int /\ d \in Int /\ k + 1 \in Int /\ c + 1 \in Int /\ k + 1 <= c + 1
    BY <1>5
  <2> QED
    BY <1>5, <2>1, ProductOrder
<1>8. PICK sd \in Int, sl \in Int, sk \in Int, sc \in Int :
        sd = span * d /\ sl = span * l /\ sk = span * k /\ sc = span * c
  OBVIOUS
<1>9. span * (k + 1) = sk + span /\ span * (c + 1) = sc + span
  BY <1>8
<1>10. sd <= w /\ z < sc + span
  BY ONLY <1>6, <1>7, <1>8, <1>9, sd \in Int, sl \in Int, sk \in Int, sc \in Int,
          w \in Int, z \in Int, span \in Nat
<1>11. (d - c - 1) * span = sd - sc - span /\ (y - x) * n = w - z
  BY <1>2, <1>8
<1> QED
  BY <1>1, <1>10, <1>11

LEMMA SquareBound ==
    ASSUME NEW m \in Nat, NEW span \in Nat, NEW gap \in Nat, NEW n \in Nat, m * span < gap * n
    PROVE  m * m * span * span < gap * gap * n * n
<1>1. PICK u \in Nat, v \in Nat : u = m * span /\ v = gap * n /\ u < v
  OBVIOUS
<1>2. u * u <= u * v /\ v * u <= v * v
  BY <1>1, ProductOrder
<1>3. u * u < v * v
  <2>1. v * (u + 1) <= v * v
    BY <1>1, ProductOrder
  <2>2. v * (u + 1) = v * u + v /\ u * v = v * u
    OBVIOUS
  <2>3. PICK uu \in Int, uv \in Int, vv \in Int : uu = u * u /\ uv = u * v /\ vv = v * v
    OBVIOUS
  <2> QED
    BY <1>1, <1>2, <2>1, <2>2, <2>3
<1>4. m * m * span * span = u * u /\ gap * gap * n * n = v * v
  BY <1>1
<1> QED
  BY <1>3, <1>4

\* A point one axis of which is beyond a ring is not within the ring's bound.
LEMMA AxisBound ==
    ASSUME NEW n \in Nat, n >= 1, NEW span \in Nat, NEW from \in Int, NEW x \in Int, NEW y \in Int,
           NEW m \in Nat,
           m < Gap(CellAlong(x, from, span, n), CellAlong(y, from, span, n)),
           NEW d2 \in Nat, Gap(x, y) * Gap(x, y) <= d2
    PROVE  m * m * span * span <= d2 * n * n
<1>1. PICK gap \in Nat : gap = Gap(x, y)
  <2>1. Gap(x, y) \in Nat
    BY ONLY x \in Int, y \in Int DEF Gap
  <2> QED
    BY <2>1
<1>2. PICK c \in 0..(n - 1), d \in 0..(n - 1) :
        c = CellAlong(x, from, span, n) /\ d = CellAlong(y, from, span, n)
  BY CellRange
<1>3. PICK nn \in Nat : nn = n * n
  OBVIOUS
<1>4. d2 * n * n = nn * d2 /\ gap * gap * n * n = nn * (gap * gap)
  BY <1>3
<1>5. nn * (gap * gap) <= nn * d2
  <2>1. gap * gap \in Int /\ d2 \in Int /\ gap * gap <= d2
    BY <1>1
  <2> QED
    BY <2>1, ProductOrder
<1>6. CASE span = 0
  <2>1. m * m * span * span = 0
    BY <1>6
  <2>2. nn * d2 >= 0
    OBVIOUS
  <2> QED
    BY <1>4, <2>1, <2>2
<1>7. CASE span > 0
  <2>1. m * span < gap * n
    <3>1. CASE c < d
      <4>1. (d - c - 1) * span < (y - x) * n
        BY <1>2, <1>7, <3>1, CellsApart
      <4>2. m <= d - c - 1
        BY <1>2, <3>1 DEF Gap
      <4>3. x < y
        <5> SUFFICES ASSUME y <= x PROVE FALSE
          OBVIOUS
        <5>1. d <= c
          BY <1>2, CellOrder
        <5> QED
          BY <3>1, <5>1
      <4>4. gap = y - x
        BY <1>1, <4>3 DEF Gap
      <4>5. PICK e \in Int : e = d - c - 1
        OBVIOUS
      <4>6. span * m <= span * e
        BY <4>2, <4>5, ProductOrder
      <4>7. PICK sm \in Int, se \in Int, gn \in Int : sm = span * m /\ se = span * e /\ gn = gap * n
        OBVIOUS
      <4>8. m * span = sm /\ (d - c - 1) * span = se /\ (y - x) * n = gn
        BY <4>4, <4>5, <4>7
      <4> QED
        BY <4>1, <4>6, <4>7, <4>8
    <3>2. CASE d < c
      <4>1. (c - d - 1) * span < (x - y) * n
        BY <1>2, <1>7, <3>2, CellsApart
      <4>2. m <= c - d - 1
        BY <1>2, <3>2 DEF Gap
      <4>3. y < x
        <5> SUFFICES ASSUME x <= y PROVE FALSE
          OBVIOUS
        <5>1. c <= d
          BY <1>2, CellOrder
        <5> QED
          BY <3>2, <5>1
      <4>4. gap = x - y
        BY <1>1, <4>3 DEF Gap
      <4>5. PICK e \in Int : e = c - d - 1
        OBVIOUS
      <4>6. span * m <= span * e
        BY <4>2, <4>5, ProductOrder
      <4>7. PICK sm \in Int, se \in Int, gn \in Int : sm = span * m /\ se = span * e /\ gn = gap * n
        OBVIOUS
      <4>8. m * span = sm /\ (c - d - 1) * span = se /\ (x - y) * n = gn
        BY <4>4, <4>5, <4>7
      <4> QED
        BY <4>1, <4>6, <4>7, <4>8
    <3>3. c # d
      BY <1>2 DEF Gap
    <3> QED
      BY <3>1, <3>2, <3>3
  <2>2. m * m * span * span < gap * gap * n * n
    BY <2>1, SquareBound
  <2>3. PICK l \in Int, h \in Int, t \in Int :
          l = m * m * span * span /\ h = nn * (gap * gap) /\ t = nn * d2
    OBVIOUS
  <2> QED
    BY <1>4, <1>5, <2>2, <2>3
<1> QED
  BY <1>6, <1>7

----------------------------------------------------------------------------
(* The rings *)

\* How many rings from a query's cell a point's cell is.
RingsBetween(G, q, p) ==
    Greatest(Gap(ColRow(G, p)[1], ColRow(G, q)[1]), Gap(ColRow(G, p)[2], ColRow(G, q)[2]))

LEMMA FrameFacts ==
    ASSUME NEW G, IsGraph(G)
    PROVE  /\ G.bbox.min[1] \in Int /\ G.bbox.min[2] \in Int
           /\ Places(G) # {} => Width(G) \in Nat /\ Height(G) \in Nat
<1>1. PICK lo1 \in Int, lo2 \in Int, hi1 \in Int, hi2 \in Int :
        /\ lo1 = G.bbox.min[1] /\ lo2 = G.bbox.min[2]
        /\ hi1 = G.bbox.max[1] /\ hi2 = G.bbox.max[2]
  BY DEF IsGraph, Point
<1>2. ASSUME NEW p \in Places(G) PROVE Width(G) \in Nat /\ Height(G) \in Nat
  <2>1. p[1] \in Int /\ p[2] \in Int
    BY DEF Places, Point
  <2>2. lo1 <= p[1] /\ p[1] <= hi1 /\ lo2 <= p[2] /\ p[2] <= hi2
    BY <1>1 DEF Places
  <2> QED
    BY <1>1, <2>1, <2>2 DEF Width, Height
<1> QED
  BY <1>1, <1>2

LEMMA ColRowFacts ==
    ASSUME NEW G, IsGraph(G), Places(G) # {}, NEW p \in Point
    PROVE  /\ ColRow(G, p)[1] = CellAlong(p[2], G.bbox.min[2], Width(G), G.grid.cols)
           /\ ColRow(G, p)[2] = CellAlong(p[1], G.bbox.min[1], Height(G), G.grid.rows)
           /\ ColRow(G, p) \in (0..(G.grid.cols - 1)) \X (0..(G.grid.rows - 1))
<1>1. p[1] \in Int /\ p[2] \in Int
  BY DEF Point
<1>2. PICK c, r : /\ c = CellAlong(p[2], G.bbox.min[2], Width(G), G.grid.cols)
                  /\ r = CellAlong(p[1], G.bbox.min[1], Height(G), G.grid.rows)
  OBVIOUS
<1>3. ColRow(G, p) = <<c, r>>
  BY <1>2 DEF ColRow, ColRowIn, Lat, Lon
<1>4. c \in 0..(G.grid.cols - 1) /\ r \in 0..(G.grid.rows - 1)
  BY <1>1, <1>2, CellRange, FrameFacts, GridSize
<1> QED
  BY <1>2, <1>3, <1>4

LEMMA DistanceBound ==
    ASSUME NEW p \in Point, NEW q \in Point, Gap(Lon(p), Lon(q)) <= HalfCircle
    PROVE  /\ Gap(Lon(p), Lon(q)) * Gap(Lon(p), Lon(q)) <= Distance2(q, p)
           /\ Gap(Lat(p), Lat(q)) * Gap(Lat(p), Lat(q)) <= Distance2(q, p)
<1>1. PICK py \in Int, px \in Int, qy \in Int, qx \in Int :
        py = Lat(p) /\ px = Lon(p) /\ qy = Lat(q) /\ qx = Lon(q)
  BY DEF Point, Lat, Lon
<1>2. PICK H \in Nat : H = HalfCircle /\ H > 0
  BY UnitAssumption
<1>3. PICK gx \in Nat, gy \in Nat : gx = Gap(px, qx) /\ gy = Gap(py, qy)
  <2>1. Gap(px, qx) \in Nat /\ Gap(py, qy) \in Nat
    BY DEF Gap
  <2> QED
    BY <2>1
<1>4. PICK d \in Int, east \in Int : d = px - qx /\ east = d % (2 * H)
  <2>1. px - qx \in Int /\ (px - qx) % (2 * H) \in Int
    BY <1>2
  <2> QED
    BY <2>1
<1>5. gx <= H
  BY <1>1, <1>2, <1>3
<1>6. (IF east > H THEN 2 * H - east ELSE east) = gx
  <2>1. CASE d >= 0
    <3>1. d = gx
      BY <1>3, <1>4, <2>1 DEF Gap
    <3>2. d % (2 * H) = d
      BY <1>2, <1>5, <2>1, <3>1
    <3> QED
      BY <1>4, <1>5, <3>1, <3>2
  <2>2. CASE d < 0
    <3>1. d = -gx
      BY <1>3, <1>4, <2>2 DEF Gap
    <3>2. d % (2 * H) = d + 2 * H
      BY <1>2, <1>5, <2>2, <3>1
    <3> QED
      BY <1>4, <1>5, <3>1, <3>2
  <2> QED
    BY <2>1, <2>2
<1>7. PICK up \in Int : up = py - qy
  OBVIOUS
<1>8. up * up = gy * gy
  <2>1. up = gy \/ up = -gy
    BY <1>3, <1>7 DEF Gap
  <2> QED
    BY <2>1
<1>9. Distance2(q, p) = up * up + gx * gx
  BY <1>1, <1>2, <1>4, <1>6, <1>7 DEF Distance2
<1>10. PICK xx \in Nat, yy \in Nat : xx = gx * gx /\ yy = gy * gy
  OBVIOUS
<1> QED
  BY <1>1, <1>3, <1>8, <1>9, <1>10

\* What lies within a distance, from ring r on, keeps the rings of that
\* distance going.
LEMMA RingWithin ==
    ASSUME NEW G, IsGraph(G), NEW p \in Places(G), NEW q \in Point,
           Gap(Lon(p), Lon(q)) <= HalfCircle, NEW r \in Nat, r <= RingsBetween(G, q, p),
           NEW d2 \in Nat, Distance2(q, p) <= d2
    PROVE  BoundWithin(G, r, d2)
<1>1. p \in Point /\ Places(G) # {}
  BY DEF Places
<1>2. PICK C \in Nat, R \in Nat : C = G.grid.cols /\ R = G.grid.rows /\ C >= 1 /\ R >= 1
  BY GridSize
<1>3. PICK w \in Nat, h \in Nat : w = Width(G) /\ h = Height(G)
  BY <1>1, FrameFacts
<1>4. PICK x0 \in Int, y0 \in Int : x0 = G.bbox.min[2] /\ y0 = G.bbox.min[1]
  BY FrameFacts
<1>5. PICK py \in Int, px \in Int, qy \in Int, qx \in Int :
        /\ py = Lat(p) /\ px = Lon(p) /\ qy = Lat(q) /\ qx = Lon(q)
        /\ py = p[1] /\ px = p[2] /\ qy = q[1] /\ qx = q[2]
  BY <1>1 DEF Point, Lat, Lon
<1>6. PICK m \in Nat : m = Greatest(r - 1, 0)
  BY DEF Greatest
<1>7. PICK l1 \in Int, l2 \in Int :
        /\ l1 = Gap(CellAlong(px, x0, w, C), CellAlong(qx, x0, w, C))
        /\ l2 = Gap(CellAlong(py, y0, h, R), CellAlong(qy, y0, h, R))
  <2>1. /\ CellAlong(px, x0, w, C) \in Int /\ CellAlong(qx, x0, w, C) \in Int
        /\ CellAlong(py, y0, h, R) \in Int /\ CellAlong(qy, y0, h, R) \in Int
    <3>1. /\ CellAlong(px, x0, w, C) \in 0..(C - 1) /\ CellAlong(qx, x0, w, C) \in 0..(C - 1)
          /\ CellAlong(py, y0, h, R) \in 0..(R - 1) /\ CellAlong(qy, y0, h, R) \in 0..(R - 1)
      BY <1>2, CellRange
    <3> QED
      BY <3>1
  <2> QED
    BY <2>1 DEF Gap
<1>8. r <= Greatest(l1, l2)
  BY <1>1, <1>2, <1>3, <1>4, <1>5, <1>7, ColRowFacts DEF RingsBetween
<1>9. PICK xx \in Int, yy \in Int :
        /\ xx = Gap(px, qx) * Gap(px, qx) /\ yy = Gap(py, qy) * Gap(py, qy)
        /\ xx <= d2 /\ yy <= d2
  <2>1. Gap(px, qx) \in Int /\ Gap(py, qy) \in Int
    BY DEF Gap
  <2>2. PICK xx \in Int, yy \in Int :
          xx = Gap(px, qx) * Gap(px, qx) /\ yy = Gap(py, qy) * Gap(py, qy)
    BY <2>1
  <2>3. PICK d \in Nat : d = Distance2(q, p)
    BY <1>1, DistanceTypes
  <2>4. xx <= d /\ yy <= d
    BY <1>1, <1>5, <2>2, <2>3, DistanceBound
  <2> QED
    BY <2>2, <2>3, <2>4
<1>10. CASE m = 0
  <2>1. m * m * w * w = 0 /\ d2 * C * C >= 0
    <3>1. PICK CC \in Nat : CC = C * C
      OBVIOUS
    <3>2. d2 * CC >= 0 /\ d2 * C * C = d2 * CC
      BY <3>1
    <3> QED
      BY <1>10, <3>2
  <2> QED
    BY <1>2, <1>3, <1>6, <2>1 DEF BoundWithin
<1>11. CASE m > 0
  <2>1. m < l1 \/ m < l2
    BY <1>6, <1>8, <1>11 DEF Greatest
  <2>2. CASE m < l1
    <3>1. m * m * w * w <= d2 * C * C
      BY <1>2, <1>7, <1>9, <2>2, AxisBound
    <3> QED
      BY <1>2, <1>3, <1>6, <3>1 DEF BoundWithin
  <2>3. CASE m < l2
    <3>1. m * m * h * h <= d2 * R * R
      BY <1>2, <1>7, <1>9, <2>3, AxisBound
    <3> QED
      BY <1>2, <1>3, <1>6, <3>1 DEF BoundWithin
  <2> QED
    BY <2>1, <2>2, <2>3
<1> QED
  BY <1>10, <1>11

LEMMA RingInGrid ==
    ASSUME NEW G, IsGraph(G), NEW p \in Places(G), NEW q \in Point
    PROVE  /\ RingsBetween(G, q, p) \in Nat
           /\ RingsBetween(G, q, p) <= MaxRing(G, ColRow(G, q))
           /\ ColRow(G, p) \in Ring(G, ColRow(G, q), RingsBetween(G, q, p))
           /\ MaxRing(G, ColRow(G, q)) \in Int
<1>1. p \in Point /\ Places(G) # {}
  BY DEF Places
<1>2. PICK C \in Nat, R \in Nat : C = G.grid.cols /\ R = G.grid.rows
  BY GridSize
<1>3. /\ ColRow(G, p) \in (0..(C - 1)) \X (0..(R - 1))
      /\ ColRow(G, q) \in (0..(C - 1)) \X (0..(R - 1))
  BY <1>1, <1>2, ColRowFacts
<1>4. PICK pc1 \in 0..(C - 1), pr1 \in 0..(R - 1), qc1 \in 0..(C - 1), qr1 \in 0..(R - 1) :
        /\ pc1 = ColRow(G, p)[1] /\ pr1 = ColRow(G, p)[2]
        /\ qc1 = ColRow(G, q)[1] /\ qr1 = ColRow(G, q)[2]
  BY <1>3
<1>5. PICK l \in Int : l = Greatest(Gap(pc1, qc1), Gap(pr1, qr1))
  BY DEF Greatest, Gap
<1>6. PICK top \in Int : top = Greatest(Greatest(qc1, C - 1 - qc1), Greatest(qr1, R - 1 - qr1))
  BY DEF Greatest
<1>7. l >= 0 /\ l <= top
  BY <1>5, <1>6 DEF Greatest, Gap
<1>8. RingsBetween(G, q, p) = l /\ MaxRing(G, ColRow(G, q)) = top
  BY <1>2, <1>4, <1>5, <1>6 DEF RingsBetween, MaxRing
<1>9. ColRow(G, p) \in Ring(G, ColRow(G, q), l)
  BY <1>2, <1>3, <1>4, <1>5 DEF Ring
<1> QED
  BY <1>7, <1>8, <1>9

----------------------------------------------------------------------------
(* The search has seen what matters *)

LEMMA Ordered ==
    ASSUME NEW u \in Int, NEW v \in Int, NEW z \in Int
    PROVE  Least(u, v) <= z /\ z <= Greatest(u, v) <=>
              (u <= z /\ z <= v) \/ (v <= z /\ z <= u)
  BY DEF Least, Greatest

LEMMA AxisBetween ==
    ASSUME NEW n \in Nat, n >= 1, NEW span \in Nat, NEW from \in Int,
           NEW u \in Int, NEW v \in Int, NEW z \in Int, Least(u, v) <= z, z <= Greatest(u, v)
    PROVE  LET f(x) == CellAlong(x, from, span, n)
           IN  Least(f(u), f(v)) <= f(z) /\ f(z) <= Greatest(f(u), f(v))
<1>1. PICK c \in Int, d \in Int, e \in Int :
        /\ c = CellAlong(u, from, span, n) /\ d = CellAlong(v, from, span, n)
        /\ e = CellAlong(z, from, span, n)
  <2>1. \A x \in Int : CellAlong(x, from, span, n) \in 0..(n - 1)
    BY CellRange
  <2>2. \A x \in Int : CellAlong(x, from, span, n) \in Int
    BY <2>1
  <2> QED
    BY <2>2
<1>2. (u <= z /\ z <= v) \/ (v <= z /\ z <= u)
  BY Ordered
<1>3. (c <= e /\ e <= d) \/ (d <= e /\ e <= c)
  BY <1>1, <1>2, CellOrder
<1>4. Least(c, d) <= e /\ e <= Greatest(c, d)
  BY ONLY <1>3, Ordered, c \in Int, d \in Int, e \in Int
<1> QED
  BY <1>1, <1>4

LEMMA CellBetween ==
    ASSUME NEW G, IsGraph(G), NEW p1 \in Places(G), NEW p2 \in Places(G), NEW p \in Places(G),
           Between(p1, p2, p)
    PROVE  Between(ColRow(G, p1), ColRow(G, p2), ColRow(G, p))
<1>1. PICK y1 \in Int, x1 \in Int, y2 \in Int, x2 \in Int, y \in Int, x \in Int :
        /\ y1 = p1[1] /\ x1 = p1[2] /\ y2 = p2[1] /\ x2 = p2[2] /\ y = p[1] /\ x = p[2]
  BY DEF Places, Point
<1>2. p1 \in Point /\ p2 \in Point /\ p \in Point /\ Places(G) # {}
  BY DEF Places
<1>3. /\ Least(y1, y2) <= y /\ y <= Greatest(y1, y2)
      /\ Least(x1, x2) <= x /\ x <= Greatest(x1, x2)
  BY <1>1 DEF Between
<1>4. PICK C \in Nat, R \in Nat : C = G.grid.cols /\ R = G.grid.rows /\ C >= 1 /\ R >= 1
  BY GridSize
<1>5. PICK w \in Nat, h \in Nat : w = Width(G) /\ h = Height(G)
  BY <1>2, FrameFacts
<1>6. PICK x0 \in Int, y0 \in Int : x0 = G.bbox.min[2] /\ y0 = G.bbox.min[1]
  BY FrameFacts
<1>7. /\ Least(CellAlong(x1, x0, w, C), CellAlong(x2, x0, w, C)) <= CellAlong(x, x0, w, C)
      /\ CellAlong(x, x0, w, C) <= Greatest(CellAlong(x1, x0, w, C), CellAlong(x2, x0, w, C))
  BY <1>3, <1>4, AxisBetween
<1>8. /\ Least(CellAlong(y1, y0, h, R), CellAlong(y2, y0, h, R)) <= CellAlong(y, y0, h, R)
      /\ CellAlong(y, y0, h, R) <= Greatest(CellAlong(y1, y0, h, R), CellAlong(y2, y0, h, R))
  BY <1>3, <1>4, AxisBetween
<1>9. /\ ColRow(G, p1)[1] = CellAlong(x1, x0, w, C) /\ ColRow(G, p1)[2] = CellAlong(y1, y0, h, R)
      /\ ColRow(G, p2)[1] = CellAlong(x2, x0, w, C) /\ ColRow(G, p2)[2] = CellAlong(y2, y0, h, R)
      /\ ColRow(G, p)[1] = CellAlong(x, x0, w, C) /\ ColRow(G, p)[2] = CellAlong(y, y0, h, R)
  BY <1>1, <1>2, <1>4, <1>5, <1>6, ColRowFacts
<1>10. \A axis \in 1..2 : axis = 1 \/ axis = 2
  OBVIOUS
<1> QED
  BY <1>7, <1>8, <1>9, <1>10 DEF Between

LEMMA CandidateOffered ==
    ASSUME IsGraph(g), IsCall(call), Len(snapped) + 1 \in DOMAIN call.points, NEW x \in Candidates
    PROVE  x \in Offered(RingsBetween(g, Here, x.point))
<1>1. ~Nowhere /\ Here \in Point
  BY HereIsPoint DEF Candidates
<1>2. x.point \in Places(g) /\ x.point \in Point /\ Places(g) # {}
  BY CandidateFacts DEF Places
<1>3. PICK cells, cell :
        /\ cell = ColRow(g, x.point)
        /\ cells = Ring(g, Center, RingsBetween(g, Here, x.point))
  OBVIOUS
<1>4. cell \in cells
  BY <1>1, <1>2, <1>3, RingInGrid DEF Center
<1>5. \A p : ColRow(g, p) = ColRowIn(g, p, Cols(g), Rows(g))
  BY GridSize DEF ColRow
<1>6. CASE call.kind = "node"
  <2>1. PICK n \in NodeIndices(g) : x = NodeAt(g, Here, n)
    BY <1>1, <1>6 DEF Candidates
  <2>2. x.point = At(g.nodes, n)
    BY <2>1 DEF NodeAt
  <2>3. g.grid.nodes = {<<ColRowIn(g, At(g.nodes, k), Cols(g), Rows(g)), k>> : k \in NodeIndices(g)}
    BY DEF IsGraph, BuildGrid
  <2>4. <<cell, n>> \in g.grid.nodes
    BY <1>3, <1>5, <2>2, <2>3
  <2>5. n \in Filed(g.grid.nodes, cells)
    <3>1. PICK y \in g.grid.nodes : y = <<cell, n>>
      BY <2>4
    <3>2. y[1] = cell /\ y[2] = n
      BY <3>1
    <3> QED
      BY <1>4, <3>2 DEF Filed
  <2> QED
    BY <1>1, <1>3, <1>6, <2>1, <2>5 DEF Offered, NodesAt
<1>7. CASE call.kind # "node"
  <2>1. PICK s \in Segments(g) : x = Projection(g, Here, s) /\ Usable(g, s[1], Mask)
    BY <1>1, <1>7 DEF Candidates
  <2>2. PICK e \in EdgeIndices(g) : \E k \in 0..Edge(g, e).geo_len : s = <<e, k>>
    BY SegmentFacts
  <2>3. PICK k \in 0..Edge(g, e).geo_len : s = <<e, k>>
    BY <2>2
  <2>4. PICK p1 \in Places(g), p2 \in Places(g) :
          p1 = ShapePoint(g, e, k) /\ p2 = ShapePoint(g, e, k + 1)
    <3>1. PICK L \in Nat : L = Edge(g, e).geo_len
      BY EdgesAreRoads, RoadFields
    <3>2. k \in 0..(L + 1) /\ k + 1 \in 0..(L + 1)
      BY <3>1
    <3> QED
      BY <3>1, <3>2, ShapeInPlaces
  <2>5. Between(p1, p2, x.point)
    BY <1>1, <2>1, <2>3, <2>4, ProjectionFacts
  <2>6. Between(ColRow(g, p1), ColRow(g, p2), cell)
    BY <1>2, <1>3, <2>5, CellBetween
  <2>7. cell \in (0..(Cols(g) - 1)) \X (0..(Rows(g) - 1))
    BY <1>2, <1>3, ColRowFacts, GridSize
  <2>8. <<cell, s>> \in g.grid.segments
    <3>1. g.grid.segments =
            {y \in ((0..(Cols(g) - 1)) \X (0..(Rows(g) - 1))) \X Segments(g) :
                Between(ColRowIn(g, ShapePoint(g, y[2][1], y[2][2]), Cols(g), Rows(g)),
                        ColRowIn(g, ShapePoint(g, y[2][1], y[2][2] + 1), Cols(g), Rows(g)), y[1])}
      BY DEF IsGraph, BuildGrid
    <3>2. PICK y : y = <<cell, s>>
      OBVIOUS
    <3>3. /\ y \in ((0..(Cols(g) - 1)) \X (0..(Rows(g) - 1))) \X Segments(g)
          /\ y[1] = cell /\ y[2] = s /\ s[1] = e /\ s[2] = k
      BY <2>3, <2>7, <3>2
    <3>4. Between(ColRowIn(g, ShapePoint(g, y[2][1], y[2][2]), Cols(g), Rows(g)),
                  ColRowIn(g, ShapePoint(g, y[2][1], y[2][2] + 1), Cols(g), Rows(g)), y[1])
      BY <1>5, <2>4, <2>6, <3>3
    <3> QED
      BY <3>1, <3>2, <3>3, <3>4
  <2>9. s \in Filed(g.grid.segments, cells)
    <3>1. PICK y \in g.grid.segments : y = <<cell, s>>
      BY <2>8
    <3>2. y[1] = cell /\ y[2] = s
      BY <3>1
    <3> QED
      BY <1>4, <3>2 DEF Filed
  <2> QED
    BY <1>1, <1>3, <1>7, <2>1, <2>9 DEF Offered, RoadsAt
<1> QED
  BY <1>6, <1>7

\* Of what the rings so far offered, the best is kept.
Scanned ==
    pc = "search" =>
        \A r \in 0..(ring - 1) : \A x \in Offered(r) : best # None /\ Better(best, x)

LEMMA ScannedKept ==
    ASSUME SearchInv, Scanned, [Next]_vars
    PROVE  Scanned'
<1>1. ASSUME pc' # "search" PROVE Scanned'
  BY <1>1 DEF Scanned
<1>2. ASSUME UNCHANGED <<call, g, snapped>> PROVE \A r : Offered(r)' = Offered(r)
  BY <1>2, UnmovedSnaps, Unmoved DEF Offered, Center
<1>3. ASSUME pc' = "search", ring' = 0 PROVE Scanned'
  <2>1. 0..(ring' - 1) = {}
    BY <1>3
  <2> QED
    BY <2>1 DEF Scanned
<1>4. CASE ScanRing
  <2>1. /\ pc = "search" /\ ring' = ring + 1 /\ UNCHANGED <<call, g, pc, snapped>>
    BY <1>4 DEF ScanRing
  <2>2. ring \in Nat /\ (best = None \/ best \in Candidates) /\ IsGraph(g) /\ IsCall(call)
        /\ Len(snapped) + 1 \in DOMAIN call.points
    BY <2>1 DEF SearchInv
  <2>3. ASSUME NEW r \in 0..ring, NEW x \in Offered(r) PROVE best' # None /\ Better(best', x)
    <3>1. CASE r = ring
      BY <1>4, <2>3, <3>1, ScanRingKeeps
    <3>2. CASE r # ring
      <4>1. r \in 0..(ring - 1)
        BY <2>2, <3>2
      <4>2. best # None /\ Better(best, x)
        BY <2>1, <2>3, <4>1 DEF Scanned
      <4>3. best' # None /\ Better(best', best)
        BY <1>4, <4>2, ScanRingKeeps
      <4>4. best \in Candidates /\ best' \in Candidates /\ x \in Candidates
        BY <1>4, <2>2, <2>3, <4>2, <4>3, ScanRingKeeps, OfferedAreCandidates
      <4>5. IsFound(best) /\ IsFound(best') /\ IsFound(x)
        BY <2>2, <4>4, CandidateFacts
      <4> QED
        BY <4>2, <4>3, <4>5, BetterOrder
    <3> QED
      BY <3>1, <3>2
  <2>4. 0..(ring' - 1) = 0..ring
    BY <2>1, <2>2
  <2>5. \A r : Offered(r)' = Offered(r)
    BY <1>2, <2>1
  <2> QED
    BY <2>3, <2>4, <2>5 DEF Scanned, Better
<1>5. CASE StartSnapping
  BY <1>3, <1>5 DEF StartSnapping, SearchInv
<1>6. CASE SnapWaypoint
  <2>1. ring' = 0
    BY <1>6 DEF SnapWaypoint
  <2> QED
    BY <1>1, <1>3, <2>1
<1>7. ASSUME TooFewWaypoints \/ InvalidMaxSnap \/ SnapTooFar \/ NoPath \/ ReturnNearest \/ Finish
      PROVE  Scanned'
  BY <1>1, <1>7 DEF TooFewWaypoints, InvalidMaxSnap, SnapTooFar, NoPath, ReturnNearest, Finish, Fail
<1>8. CASE PointLeg \/ NetworkLeg \/ AlongEdge \/ StraightLeg
  BY <1>1, <1>8 DEF PointLeg, NetworkLeg, AlongEdge, StraightLeg, AppendLeg, MoreLegs
<1>9. CASE Returned \/ UNCHANGED vars
  <2>1. UNCHANGED vars
    BY <1>9 DEF Returned
  <2>2. \A r : Offered(r)' = Offered(r)
    BY <1>2, <2>1 DEF vars
  <2> QED
    BY <2>1, <2>2 DEF Scanned, Better, vars
<1> QED
  BY <1>4, <1>5, <1>6, <1>7, <1>8, <1>9 DEF Next

LEMMA QuotientShift ==
    ASSUME NEW z \in Int, NEW j \in Int, NEW n \in Nat, n > 0
    PROVE  (z + n * j) \div n = (z \div n) + j
<1>1. PICK k \in Int : k = z \div n /\ n * k <= z /\ z < n * k + n
  BY Quotient
<1>2. PICK nj \in Int, nk \in Int : nj = n * j /\ nk = n * k
  OBVIOUS
<1>3. PICK l \in Int : l = (z + nj) \div n /\ n * l <= z + nj /\ z + nj < n * l + n
  <2>1. z + nj \in Int
    OBVIOUS
  <2> QED
    BY <2>1, Quotient
<1>4. PICK nl \in Int : nl = n * l
  OBVIOUS
<1>5. n * (k + j) = nk + nj /\ n * (k + j + 1) = nk + nj + n /\ n * (l + 1) = nl + n
  BY <1>2, <1>4
<1>6. nk <= z /\ z < nk + n /\ nl <= z + nj /\ z + nj < nl + n
  BY <1>1, <1>2, <1>3, <1>4
<1>7. ~ (l < k + j)
  <2> SUFFICES ASSUME l + 1 <= k + j PROVE FALSE
    OBVIOUS
  <2>1. n * (l + 1) <= n * (k + j)
    BY ProductOrder
  <2>2. nl + n <= nk + nj
    BY <1>5, <2>1
  <2> QED
    BY <1>6, <2>2
<1>8. ~ (k + j < l)
  <2> SUFFICES ASSUME k + j + 1 <= l PROVE FALSE
    OBVIOUS
  <2>1. n * (k + j + 1) <= n * l
    BY ProductOrder
  <2>2. nk + nj + n <= nl
    BY <1>4, <1>5, <2>1
  <2> QED
    BY <1>6, <2>2
<1>9. l = k + j
  BY <1>7, <1>8
<1> QED
  BY <1>1, <1>2, <1>3, <1>9

\* The part t of the way is the rest of it the other way.
LEMMA MirrorPart ==
    ASSUME NEW u \in Int, NEW v \in Int, NEW n \in Nat, n > 0, NEW t \in Int
    PROVE  v + ((n - t) * (u - v)) \div n = u + (t * (v - u)) \div n
<1>1. PICK d \in Int, z \in Int : d = v - u /\ z = t * d
  OBVIOUS
<1>2. (n - t) * (u - v) = z + n * (-d)
  BY <1>1
<1>3. (z + n * (-d)) \div n = (z \div n) + (-d)
  <2>1. -d \in Int
    OBVIOUS
  <2> QED
    BY <2>1, QuotientShift
<1>4. z \div n \in Int
  BY Quotient
<1> QED
  BY <1>1, <1>2, <1>3, <1>4

\* A road is as near in one direction as in the other.
LEMMA MirrorProjection ==
    ASSUME NEW G, IsGraph(G), NEW q \in Point, NEW e \in EdgeIndices(G), NEW f \in EdgeIndices(G),
           AreTwins(G, e, f), NEW k \in 0..Edge(G, e).geo_len
    PROVE  /\ Edge(G, e).geo_len - k \in 0..Edge(G, f).geo_len
           /\ LET x == Projection(G, q, <<e, k>>)
                  y == Projection(G, q, <<f, Edge(G, e).geo_len - k>>)
              IN  y.point = x.point /\ y.d2 = x.d2
<1>1. PICK L \in Nat : L = Edge(G, e).geo_len /\ L = Edge(G, f).geo_len
  BY EdgesAreRoads, RoadFields DEF AreTwins, Edge
<1>2. k \in 0..L /\ k + 1 \in 0..(L + 1) /\ k \in 0..(L + 1)
  BY <1>1
<1>3. PICK j \in 0..L : j = L - k
  BY <1>2
<1>4. PICK p1 \in Places(G), p2 \in Places(G) :
        p1 = ShapePoint(G, e, k) /\ p2 = ShapePoint(G, e, k + 1)
  BY <1>1, <1>2, ShapeInPlaces
<1>5. ShapePoint(G, f, j) = p2 /\ ShapePoint(G, f, j + 1) = p1
  <2>1. j \in 0..(L + 1) /\ j + 1 \in 0..(L + 1) /\ L + 1 - j = k + 1 /\ L + 1 - (j + 1) = k
    BY <1>2, <1>3
  <2>2. \A i \in 0..(L + 1) : ShapePoint(G, f, i) = ShapePoint(G, e, L + 1 - i)
    BY <1>1 DEF AreTwins, Edge
  <2>3. /\ ShapePoint(G, f, j) = ShapePoint(G, e, L + 1 - j)
        /\ ShapePoint(G, f, j + 1) = ShapePoint(G, e, L + 1 - (j + 1))
    BY <2>1, <2>2
  <2> QED
    BY <1>4, <2>1, <2>3
<1>6. PICK y1 \in Int, x1 \in Int, y2 \in Int, x2 \in Int, qy \in Int, qx \in Int :
        p1 = <<y1, x1>> /\ p2 = <<y2, x2>> /\ q = <<qy, qx>>
  BY DEF Places, Point
<1>7. PICK dx \in Int, dy \in Int : dx = x2 - x1 /\ dy = y2 - y1
  OBVIOUS
<1>8. PICK n \in Nat : n = dx * dx + dy * dy
  BY SquaredLength
<1>9. PICK w \in Int : w = (qx - x1) * dx + (qy - y1) * dy
  OBVIOUS
<1>10. PICK t \in Int : t = IF n = 0 THEN 0 ELSE Clamp(w, 0, n)
  BY DEF Clamp, Greatest, Least
<1>11. PICK s \in Int : s = IF n = 0 THEN 0 ELSE Clamp(n - w, 0, n)
  <2>1. PICK v \in Int : v = n - w
    OBVIOUS
  <2>2. PICK c \in Int : c = Clamp(v, 0, n)
    BY DEF Clamp, Greatest, Least
  <2> QED
    BY <2>1, <2>2
<1>12. n # 0 => s = n - t
  BY <1>10, <1>11 DEF Clamp, Greatest, Least
<1>13. PICK one : one = IF n = 0 THEN p1
                        ELSE <<y1 + (t * dy) \div n, x1 + (t * dx) \div n>>
  OBVIOUS
<1>14. PICK two : two = IF n = 0 THEN p2
                        ELSE <<y2 + (s * (y1 - y2)) \div n, x2 + (s * (x1 - x2)) \div n>>
  OBVIOUS
<1>15. /\ Lat(p1) = y1 /\ Lon(p1) = x1 /\ Lat(p2) = y2 /\ Lon(p2) = x2
       /\ Lat(q) = qy /\ Lon(q) = qx
  BY <1>6 DEF Lat, Lon
<1>16. Projection(G, q, <<e, k>>) =
         [key |-> <<e, k>>, t |-> t, point |-> one, d2 |-> Distance2(q, one)]
  <2>1. <<e, k>>[1] = e /\ <<e, k>>[2] = k
    OBVIOUS
  <2> QED
    BY ONLY <1>4, <1>7, <1>8, <1>9, <1>10, <1>13, <1>15, ProjectionFrom
<1>17. Projection(G, q, <<f, j>>) =
         [key |-> <<f, j>>, t |-> s, point |-> two, d2 |-> Distance2(q, two)]
  <2>1. <<f, j>>[1] = f /\ <<f, j>>[2] = j
    OBVIOUS
  <2>2. (x1 - x2) * (x1 - x2) + (y1 - y2) * (y1 - y2) = n
    BY <1>7, <1>8
  <2>3. (qx - x2) * (x1 - x2) + (qy - y2) * (y1 - y2) = n - w
    BY <1>7, <1>8, <1>9
  <2>4. PICK ex \in Int, ey \in Int : ex = x1 - x2 /\ ey = y1 - y2
    OBVIOUS
  <2>5. PICK v \in Int : v = n - w
    OBVIOUS
  <2>6. n = ex * ex + ey * ey /\ v = (qx - x2) * ex + (qy - y2) * ey
    BY <2>2, <2>3, <2>4, <2>5
  <2>7. s = IF n = 0 THEN 0 ELSE Clamp(v, 0, n)
    BY <1>11, <2>5
  <2>8. two = IF n = 0 THEN p2 ELSE <<y2 + (s * ey) \div n, x2 + (s * ex) \div n>>
    BY <1>14, <2>4
  <2> QED
    BY ONLY <1>5, <1>15, <2>4, <2>6, <2>7, <2>8, ProjectionFrom
<1>18. one = two
  <2>1. CASE n = 0
    <3>1. dx = 0 /\ dy = 0
      BY <1>8, <2>1, SquaredLength
    <3> QED
      BY <1>6, <1>7, <1>13, <1>14, <2>1, <3>1
  <2>2. CASE n # 0
    <3>1. n > 0 /\ s = n - t
      BY <1>12, <2>2
    <3>2. /\ y2 + ((n - t) * (y1 - y2)) \div n = y1 + (t * (y2 - y1)) \div n
          /\ x2 + ((n - t) * (x1 - x2)) \div n = x1 + (t * (x2 - x1)) \div n
      BY ONLY <3>1, MirrorPart, n \in Nat, t \in Int, x1 \in Int, x2 \in Int, y1 \in Int, y2 \in Int
    <3> QED
      BY <1>7, <1>13, <1>14, <2>2, <3>1, <3>2
  <2> QED
    BY <2>1, <2>2
<1>19. PICK x, y : x = Projection(G, q, <<e, k>>) /\ y = Projection(G, q, <<f, j>>)
  OBVIOUS
<1>20. y.point = x.point /\ y.d2 = x.d2
  BY <1>16, <1>17, <1>18, <1>19
<1> QED
  BY <1>1, <1>3, <1>19, <1>20

\* Nothing in reach is missed when the rings are given up.
LEMMA NothingMissed ==
    ASSUME SearchInv, Scanned, pc = "search", ~WorthLooking, NEW x \in Candidates, InReach(x)
    PROVE  best # None /\ Better(best, x)
<1>1. /\ IsGraph(g) /\ IsCall(call) /\ Len(snapped) + 1 \in DOMAIN call.points
      /\ best = None \/ best \in Candidates
      /\ ring \in Nat
  BY DEF SearchInv
<1>2. ~Nowhere /\ Here \in Point
  BY <1>1, HereIsPoint DEF Candidates
<1>3. x.point \in Places(g) /\ IsFound(x) /\ x.d2 = Distance2(Here, x.point)
  BY <1>1, CandidateFacts
<1>4. PICK r \in Nat : r = RingsBetween(g, Here, x.point) /\ r <= MaxRing(g, Center)
  BY <1>1, <1>2, <1>3, RingInGrid DEF Center
<1>5. x \in Offered(r)
  BY <1>1, <1>4, CandidateOffered
<1>6. CASE r < ring
  <2>1. r \in 0..(ring - 1)
    BY <1>1, <1>6
  <2> QED
    BY <1>5, <2>1 DEF Scanned
<1>7. CASE ring <= r
  <2>1. PICK d2 \in Nat, reach \in Nat :
          d2 = x.d2 /\ reach = call.max * call.max /\ d2 <= reach
    <3>1. call.max \in Int /\ call.max * call.max \in Nat
      BY <1>1, SquareOrder DEF IsCall
    <3> QED
      BY <1>3, <3>1 DEF InReach, IsFound
  <2>2. ASSUME NEW d \in Nat, d2 <= d PROVE BoundWithin(g, ring, d)
    <3>1. Gap(Lon(x.point), Lon(Here)) <= HalfCircle
      BY DEF InReach
    <3> QED
      BY <1>1, <1>2, <1>3, <1>4, <1>7, <2>1, <2>2, <3>1, RingWithin
  <2>3. ring <= MaxRing(g, Center)
    <3>1. PICK top \in Int : top = MaxRing(g, Center)
      BY <1>1, <1>2, <1>3, RingInGrid DEF Center
    <3> QED
      BY <1>1, <1>4, <1>7, <3>1
  <2>4. call.max >= 0 /\ BoundWithin(g, ring, call.max * call.max)
    BY <2>1, <2>2 DEF InReach
  <2>5. best # None /\ ~BoundWithin(g, ring, best.d2)
    BY <2>3, <2>4 DEF WorthLooking
  <2>6. IsFound(best)
    BY <1>1, <2>5, CandidateFacts
  <2>7. best.d2 \in Nat
    BY <2>6 DEF IsFound
  <2>8. best.d2 < d2
    BY <2>2, <2>5, <2>7
  <2> QED
    BY <2>1, <2>5, <2>8 DEF Better
<1> QED
  BY <1>1, <1>4, <1>6, <1>7

LEMMA NearestHolds ==
    ASSUME SearchInv, Scanned
    PROVE  NearestFound
<1> SUFFICES ASSUME pc = "search", ~WorthLooking PROVE NearestFound
  BY DEF NearestFound
<1>1. /\ IsGraph(g) /\ IsCall(call) /\ Len(snapped) + 1 \in DOMAIN call.points
      /\ best = None \/ best \in Candidates
  BY DEF SearchInv
<1>2. ASSUME NEW x \in Candidates, InReach(x)
      PROVE  /\ best # None /\ best.d2 <= x.d2
             /\ best.d2 = x.d2 =>
                   \/ best.key[1] < x.key[1]
                   \/ best.key[1] = x.key[1] /\ best.key[2] <= x.key[2]
  <2>1. best # None /\ Better(best, x)
    BY <1>2, NothingMissed
  <2>2. IsFound(best) /\ IsFound(x)
    BY <1>1, <2>1, CandidateFacts
  <2>3. best.d2 \in Nat /\ x.d2 \in Nat
    BY <2>2 DEF IsFound
  <2> QED
    BY <2>1, <2>3 DEF Better
<1>3. ASSUME call.kind # "node", ~Nowhere, NEW e \in EdgeIndices(g), Usable(g, e, Mask),
             NEW k \in 0..Edge(g, e).geo_len, InReach(Projection(g, Here, <<e, k>>))
      PROVE  best # None /\ best.d2 <= Projection(g, Here, <<e, k>>).d2
  <2>1. Here \in Point
    BY <1>1, <1>3, HereIsPoint
  <2>2. ASSUME NEW f \in EdgeIndices(g), NEW j \in 0..Edge(g, f).geo_len, Canonical(g, f),
               Usable(g, f, Mask)
        PROVE  Projection(g, Here, <<f, j>>) \in Candidates
    <3>1. <<f, j>> \in Segments(g) /\ <<f, j>>[1] = f
      BY <2>2 DEF Segments, Edge
    <3> QED
      BY <1>3, <2>2, <3>1 DEF Candidates
  <2>3. CASE Canonical(g, e)
    <3>1. Projection(g, Here, <<e, k>>) \in Candidates
      BY <1>3, <2>2, <2>3
    <3> QED
      BY <1>2, <1>3, <3>1
  <2>4. CASE ~Canonical(g, e)
    <3>1. PICK f \in EdgeIndices(g) : AreTwins(g, e, f)
      BY <1>1 DEF IsGraph
    <3>2. EdgeSource(g, e) # Edge(g, e).target
      BY <1>1 DEF IsGraph, Edge
    <3>3. EdgeSource(g, e) \in Int /\ Edge(g, e).target \in Int
      <4>1. EdgeSource(g, e) \in NodeIndices(g) /\ Edge(g, e).target \in NodeIndices(g)
        BY <1>1, EdgesInRows, EdgesAreRoads, RoadFields DEF Source
      <4> QED
        BY <1>1, <4>1, NodesAreSome
    <3>4. Canonical(g, f) /\ Usable(g, f, Mask)
      BY <1>3, <2>4, <3>1, <3>2, <3>3 DEF AreTwins, Canonical, Usable, Edge
    <3>5. PICK j : j = Edge(g, e).geo_len - k
      OBVIOUS
    <3>6. PICK x, y : x = Projection(g, Here, <<e, k>>) /\ y = Projection(g, Here, <<f, j>>)
      OBVIOUS
    <3>7. j \in 0..Edge(g, f).geo_len /\ y.point = x.point /\ y.d2 = x.d2
      BY <1>1, <1>3, <2>1, <3>1, <3>5, <3>6, MirrorProjection
    <3>8. y \in Candidates
      BY <2>2, <3>4, <3>6, <3>7
    <3>9. InReach(y)
      BY <1>3, <3>6, <3>7 DEF InReach
    <3> QED
      BY <1>2, <3>6, <3>7, <3>8, <3>9
  <2> QED
    BY <2>3, <2>4
<1>4. best # None => best \in Candidates
  BY <1>1
<1> QED
  BY <1>2, <1>3, <1>4 DEF NearestFound, Edge

\* For every graph the builder wrote, call and client: when a search gives up
\* its rings, it has what is nearest within reach, in either direction of a
\* road, and of equals the first.
THEOREM NearestAlwaysFound == ClientSpec => []NearestFound
<1>1. ClientInit => Scanned
  <2> SUFFICES ASSUME ClientInit PROVE Scanned
    OBVIOUS
  <2>1. ring = 0
    BY DEF ClientInit, Begin
  <2>2. 0..(ring - 1) = {}
    BY <2>1
  <2> QED
    BY <2>2 DEF Scanned
<1>2. SearchInv /\ Scanned /\ [ClientNext]_clientVars => Scanned'
  BY ClientSteps, ScannedKept
<1>3. SearchInv /\ Scanned => NearestFound
  BY NearestHolds
<1> QED
  BY <1>1, <1>2, <1>3, ClientInvariant, PTL DEF ClientSpec
============================================================================
