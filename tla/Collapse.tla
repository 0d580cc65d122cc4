------------------------------ MODULE Collapse ------------------------------
(***************************************************************************)
(* The degree-2 collapse of crates/build/src/network.rs (D13): every       *)
(* maximal chain of interior nodes of the merged road network becomes one  *)
(* edge with its nodes as geometry.  The input is any simple graph with    *)
(* both directions of every segment; Network supplies those the merge      *)
(* before it yields.  Nodes are numbered by ascending OSM id.  The         *)
(* collapse is on, as for every caller but the tests.                      *)
(*                                                                         *)
(* Abstracted data: a node's coordinates are the node, and the layout of   *)
(* the geometry pool is left out: a chain is its own range of the pool.    *)
(***************************************************************************)
EXTENDS Integers, Sequences, FiniteSets

CONSTANTS
    Size,      \* bound: nodes before the collapse
    Accesses,  \* access masks: the profiles allowed
    MaxGeo,    \* MAX_GEO_PER_EDGE
    MaxLength, \* u32::MAX
    NoWalk     \* no chain is being walked

Nodes == 0..(Size - 1)

\* What the merge promises: both directions of every segment, and no segment
\* from a node to itself.
IsNetwork(g) ==
    /\ DOMAIN g \subseteq Nodes \X Nodes
    /\ g \in [DOMAIN g -> [length : Nat \ {0}, access : Accesses]]
    /\ \A e \in DOMAIN g :
          e[1] # e[2] /\ <<e[2], e[1]>> \in DOMAIN g /\ g[<<e[2], e[1]>>] = g[e]

ASSUME NetworkAssumption ==
    /\ Size \in Nat
    /\ MaxGeo \in Nat /\ MaxGeo >= 2
    /\ MaxLength \in Nat \ {0}

Chains == [a : Nodes, b : Nodes, length : Nat, access : Accesses,
           interior : Seq(Nodes)]

ASSUME WalkAssumption == NoWalk \notin [chain : Chains, prev : Nodes, cur : Nodes]

VARIABLES
    merged,   \* merged edges: <<source, target>> -> length and access
    kept,     \* the nodes that stay
    consumed, \* the nodes some walk has passed
    chains,
    dropped,  \* the P-loops; the code counts them
    phase,    \* "anchored", "rings" or "done"
    scan,     \* rank of the edge, or the node, the phase's loop has come to
    walk,     \* the walk under way: its chain, prev and cur
    edges     \* the directed edges of the finished graph

vars == <<merged, kept, consumed, chains, dropped, phase, scan, walk, edges>>

\* The node universe.  Gaps in the numbering stand for nothing: a node without
\* a segment (a seam pair with no other road, once merged) only stays.
Vertices == {e[1] : e \in DOMAIN merged}

Adj(n) == {t \in Nodes : <<n, t>> \in DOMAIN merged}

Access(s, t) == merged[<<s, t>>].access
Length(s, t) == merged[<<s, t>>].length

\* Collapsible: exactly two edges, with equal access.  (Adj is a set because
\* parallel edges were merged.)
Interior(n) ==
    \E s, t \in Nodes :
        s # t /\ Adj(n) = {s, t} /\ Access(n, s) = Access(n, t)

Init ==
    /\ IsNetwork(merged)
    /\ kept = {n \in Vertices : ~Interior(n)}
    /\ consumed = {}
    /\ chains = <<>> /\ dropped = <<>>
    /\ phase = "anchored" /\ scan = 0
    /\ walk = NoWalk
    /\ edges = {}

----------------------------------------------------------------------------
(* One chain *)

\* Faulty: a node already walked is open to another walk.
BugOpen(n) == n \notin kept

\* A walk may enter n.
Open(n) == n \notin kept /\ n \notin consumed

\* walk(a, first, ...)
Begin(a, first) ==
    [chain |-> [a |-> a, b |-> a, length |-> Length(a, first),
                access |-> Access(a, first), interior |-> <<>>],
     prev |-> a, cur |-> first]

\* The way on from cur.
Onward == CHOOSE t \in Adj(walk.cur) : t # walk.prev

\* The chain with cur added is as long as the format allows.
Splits == Len(walk.chain.interior) + 1 >= MaxGeo

\* Faulty: the remainder of a split still counts the part before it.
BugPassed ==
    IF Splits THEN [walk.chain EXCEPT !.a = walk.cur, !.interior = <<>>]
    ELSE [walk.chain EXCEPT !.interior = Append(@, walk.cur)]

\* The chain under way after cur was passed, before the next step is added.
Passed ==
    IF Splits
    THEN [a |-> walk.cur, b |-> walk.cur, length |-> 0,
          access |-> walk.chain.access, interior |-> <<>>]
    ELSE [walk.chain EXCEPT !.interior = Append(@, walk.cur)]

\* A split keeps cur as a real node and finishes the chain before it.
Pass ==
    /\ consumed' = consumed \cup {walk.cur}
    /\ kept' = IF Splits THEN kept \cup {walk.cur} ELSE kept

SplitOff == IF Splits THEN <<[walk.chain EXCEPT !.b = walk.cur]>> ELSE <<>>

\* The walk's loop, going on.
WalkOn ==
    /\ walk # NoWalk /\ Onward \notin kept
    /\ Pass
    /\ chains' = chains \o SplitOff
    /\ walk' = [chain |-> [Passed EXCEPT !.length = @ + Length(walk.cur, Onward)],
                prev |-> walk.cur, cur |-> Onward]
    /\ UNCHANGED <<merged, dropped, phase, scan, edges>>

Reversed(s) == [i \in DOMAIN s |-> s[Len(s) + 1 - i]]

\* Lower endpoint first.
Canonical(c) ==
    IF c.a > c.b
    THEN [c EXCEPT !.a = c.b, !.b = c.a, !.interior = Reversed(@)]
    ELSE c

\* The walk's loop, meeting a kept node: the chain is a P-loop, or a plain
\* edge left over from a split, or a road segment.
WalkEnds ==
    /\ walk # NoWalk /\ Onward \in kept
    /\ Pass
    /\ LET c == [Passed EXCEPT !.length = @ + Length(walk.cur, Onward),
                               !.b = Onward]
       IN  /\ dropped' = IF c.a = c.b /\ c.interior # <<>>
                         THEN Append(dropped, c) ELSE dropped
           /\ chains' = chains \o SplitOff \o
                           IF c.a = c.b \/ c.interior = <<>> THEN <<>>
                           ELSE <<Canonical(c)>>
    /\ walk' = NoWalk
    /\ UNCHANGED <<merged, phase, scan, edges>>

----------------------------------------------------------------------------
(* The three phases *)

\* Edges are scanned by source, then target, each once.
Rank(s, t) == s * Size + t + 1

\* Phase 1: the scan comes to an edge that leads from a kept node into a chain.
Enters(s, t) ==
    <<s, t>> \in DOMAIN merged /\ Rank(s, t) > scan /\ s \in kept /\ Open(t)

Anchor(s, t) ==
    /\ phase = "anchored" /\ walk = NoWalk
    /\ Enters(s, t)
    /\ \A u, v \in Nodes : Enters(u, v) => Rank(s, t) <= Rank(u, v)
    /\ walk' = Begin(s, t) /\ scan' = Rank(s, t)
    /\ UNCHANGED <<merged, kept, consumed, chains, dropped, phase, edges>>

AnchorsDone ==
    /\ phase = "anchored" /\ walk = NoWalk
    /\ \A s, t \in Nodes : ~Enters(s, t)
    /\ phase' = "rings" /\ scan' = 0
    /\ UNCHANGED <<merged, kept, consumed, chains, dropped, walk, edges>>

\* Faulty: a ring is anchored at one node.
BugRingKept(start, low) == {start}

\* A ring keeps its lowest member and that member's lower neighbor.
RingKept(start, low) == {start, low}

\* Phase 2: a ring no kept node anchors is walked from its lowest member, the
\* long way round; its other edge is left to the direct pass.
Ring(start) ==
    /\ phase = "rings" /\ walk = NoWalk
    /\ start >= scan /\ Open(start)
    /\ \A n \in Vertices : n >= scan /\ Open(n) => start <= n
    /\ \E low, high \in Adj(start) :
        /\ low < high
        /\ kept' = kept \cup RingKept(start, low)
        /\ walk' = IF Open(high) THEN Begin(start, high) ELSE NoWalk
    /\ scan' = start + 1
    /\ UNCHANGED <<merged, consumed, chains, dropped, phase, edges>>

\* Phase 3: the edges between kept nodes, once per segment.
Direct ==
    {[a |-> e[1], b |-> e[2], length |-> merged[e].length, access |-> merged[e].access,
      interior |-> <<>>] :
        e \in {x \in DOMAIN merged : x[1] < x[2] /\ {x[1], x[2]} \subseteq kept}}

\* Kept nodes are renumbered in their old order.
NewIndex(n) == Cardinality({k \in kept : k < n})

\* u64 to u32, and never free.
Clamped(x) == IF x > MaxLength THEN MaxLength ELSE IF x < 1 THEN 1 ELSE x

\* Faulty: both directions read the geometry forwards.
BugBoth(c) ==
    {[from |-> NewIndex(c.a), to |-> NewIndex(c.b), length |-> Clamped(c.length),
      access |-> c.access, shape |-> c.interior, reversed |-> FALSE],
     [from |-> NewIndex(c.b), to |-> NewIndex(c.a), length |-> Clamped(c.length),
      access |-> c.access, shape |-> c.interior, reversed |-> FALSE]}

\* Both directions of a chain; they share its geometry.
Both(c) ==
    {[from |-> NewIndex(c.a), to |-> NewIndex(c.b), length |-> Clamped(c.length),
      access |-> c.access, shape |-> c.interior, reversed |-> FALSE],
     [from |-> NewIndex(c.b), to |-> NewIndex(c.a), length |-> Clamped(c.length),
      access |-> c.access, shape |-> c.interior, reversed |-> c.interior # <<>>]}

\* What becomes the edges of the finished graph.
Finished == Direct \cup {chains[i] : i \in DOMAIN chains}

\* The direct pass, and the graph.
Emit ==
    /\ phase = "rings" /\ walk = NoWalk
    /\ \A n \in Vertices : n >= scan => ~Open(n)
    /\ phase' = "done"
    /\ edges' = UNION {Both(c) : c \in Finished}
    /\ UNCHANGED <<merged, kept, consumed, chains, dropped, scan, walk>>

Done == phase = "done" /\ UNCHANGED vars

Next ==
    \/ \E s, t \in Nodes : Anchor(s, t)
    \/ AnchorsDone
    \/ \E n \in Vertices : Ring(n)
    \/ WalkOn \/ WalkEnds
    \/ Emit \/ Done

Spec == Init /\ [][Next]_vars

----------------------------------------------------------------------------
(* Properties *)

\* Every variable has its type (the finished edges are EdgesFollowRoads'
\* matter); the walk under way has come to a node no walk has passed.
TypeOK ==
    /\ IsNetwork(merged)
    /\ kept \subseteq Nodes /\ consumed \subseteq Nodes
    /\ chains \in Seq(Chains) /\ dropped \in Seq(Chains)
    /\ phase \in {"anchored", "rings", "done"} /\ scan \in Nat
    /\ walk # NoWalk =>
          /\ walk \in [chain : Chains, prev : Nodes, cur : Nodes]
          /\ Open(walk.cur) /\ walk.prev \in Adj(walk.cur)

\* The geometry pool's records: no node lies in two chains, or twice in one;
\* every chain has two different ends that stay, and fits geo_len.
ChainsDisjoint ==
    /\ \A i \in DOMAIN chains :
          LET c == chains[i]
          IN  /\ c.a # c.b /\ {c.a, c.b} \subseteq kept
              /\ Len(c.interior) \in 1..(MaxGeo - 1)
              /\ \A k \in DOMAIN c.interior : c.interior[k] \notin kept
    /\ \A i, j \in DOMAIN chains :
          \A k \in DOMAIN chains[i].interior, l \in DOMAIN chains[j].interior :
              chains[i].interior[k] = chains[j].interior[l] => i = j /\ k = l

\* The nodes of a chain, ends included, and its segments.
Path(c) == <<c.a>> \o c.interior \o <<c.b>>
Segments(c) == {{Path(c)[i], Path(c)[i + 1]} : i \in 1..(Len(c.interior) + 1)}

\* No road is lost and none is doubled: every segment ends up in exactly one
\* chain or direct edge, or in a dropped P-loop, which leads from a junction
\* back to itself (a ring without a junction is not dropped).
SegmentsOnce ==
    phase = "done" =>
        /\ \A e \in DOMAIN merged :
              LET In(cs) == {i \in DOMAIN cs : {e[1], e[2]} \in Segments(cs[i])}
              IN  Cardinality(In(chains)) + Cardinality(In(dropped))
                    + Cardinality({c \in Direct : {e[1], e[2]} \in Segments(c)}) = 1
        /\ \A i \in DOMAIN dropped :
              dropped[i].a = dropped[i].b /\ ~Interior(dropped[i].a)

\* The old index of a renumbered node.
OldIndex(m) == CHOOSE n \in kept : NewIndex(n) = m

\* A directed edge's shape, read in its direction.
Along(e) ==
    <<OldIndex(e.from)>> \o (IF e.reversed THEN Reversed(e.shape) ELSE e.shape)
        \o <<OldIndex(e.to)>>

\* Every directed edge follows roads open to whoever may use it, from its
\* source to its target, and its length is theirs.
EdgesFollowRoads ==
    phase = "done" =>
        \A e \in edges :
            LET p == Along(e)
                hops == [i \in 2..Len(p) |-> Length(p[i - 1], p[i])]
                sum[i \in 1..Len(p)] == IF i = 1 THEN 0 ELSE sum[i - 1] + hops[i]
            IN  /\ \A i \in 1..(Len(p) - 1) :
                      <<p[i], p[i + 1]>> \in DOMAIN merged
                        /\ Access(p[i], p[i + 1]) = e.access
                /\ e.length = Clamped(sum[Len(p)])

\* What a set of <<node, distance>> reaches over the links <<s, t, length>>,
\* and the best of it.
Beyond(D, links) ==
    D \cup UNION {{<<l[2], x[2] + l[3]>> : l \in {m \in links : m[1] = x[1]}} : x \in D}

Shortest(D) == {x \in D : \A y \in D : x[1] = y[1] => x[2] <= y[2]}

\* The distances from a node, after Bellman and Ford.
Distances(links, from) ==
    LET round[k \in 0..Size] ==
            IF k = 0 THEN {<<from, 0>>} ELSE Shortest(Beyond(round[k - 1], links))
    IN  round[Size]

\* No edge is too long for a u32.
Unclamped == \A c \in Finished : c.length <= MaxLength

\* D13, "preserves exact A* costs, so collapsed and uncollapsed graphs choose
\* identical shortest paths": between nodes that stay, no distance changes for
\* any profile, and no connection is lost or made, unless some chain is longer
\* than a u32 can say.
DistancesPreserved ==
    phase = "done" /\ Unclamped =>
        \A p \in UNION Accesses, n \in kept :
            LET before == Distances({<<m[1], m[2], merged[m].length>> :
                            m \in {x \in DOMAIN merged : p \in merged[x].access}}, n)
                after == Distances({<<e.from, e.to, e.length>> :
                            e \in {x \in edges : p \in x.access}}, NewIndex(n))
            IN  after = {<<NewIndex(x[1]), x[2]>> : x \in {y \in before : y[1] \in kept}}
=============================================================================
