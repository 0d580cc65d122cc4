-------------------------------- MODULE AStar --------------------------------
(***************************************************************************)
(* Router::astar_virtual (crates/core/src/router.rs): A* between two       *)
(* positions on edges.  Both ends of the start edge are seeded with their  *)
(* partial costs and the search may finish at either end of the goal edge. *)
(*                                                                         *)
(* Costs are whole decimetres, rounded edge by edge when the graph was     *)
(* built, while the heuristic is the straight line to the goal, floored    *)
(* once.  A road can so be shorter, in decimetres, than the straight line  *)
(* along it, and a closed node is never opened again: the properties say   *)
(* what that costs.                                                        *)
(*                                                                         *)
(* Abstracted data: where the nodes lie is only seen through their         *)
(* distance to the goal's projection (`away`), and an edge through what    *)
(* the search reads of it.  Geometry and edge order within one pair of     *)
(* nodes are left out: runs are sorted by length, so of parallel edges the *)
(* first usable one is the only one that can improve a cost.               *)
(***************************************************************************)
EXTENDS Integers, Sequences, FiniteSets, Functions

CONSTANTS
    Nodes,      \* node indices: consecutive naturals, in heap order
    Profiles,   \* what an access mask is a set of
    Queries,    \* the searches: graph, profile and the two snapped positions
    DmUnits,    \* units of `away` in a decimetre
    Infinity,   \* u64::MAX
    None        \* an absent parent, and no completion yet

Cost == 0..Infinity

Edges == [from : Nodes, to : Nodes, len : Cost \ {0}, access : SUBSET Profiles]

\* Snapped: a position on the edge src--dst, d_src dm from src.
Snaps == [src : Nodes, dst : Nodes, d_src : Cost, length : Cost]

ASSUME SizeAssumption ==
    /\ Nodes \subseteq Nat /\ IsFiniteSet(Nodes)
    /\ DmUnits \in Nat \ {0}
    /\ Infinity \in Nat \ {0}

\* A call the router can make.
IsSearch(q) ==
    /\ q.edges \subseteq Edges
    /\ q.profile \in Profiles
    /\ q.away \in [Nodes -> Nat]
    /\ \A s \in {q.a, q.b} :
        s \in Snaps /\ s.src # s.dst /\ s.d_src <= s.length

ASSUME QueryAssumption == \A q \in Queries : IsSearch(q)
ASSUME NoneAssumption == None \notin Edges /\ None \notin [total : Cost, exit : Nodes]

VARIABLES
    query,   \* the call's arguments; never changes
    g,       \* g_cost
    parent,  \* parent_edge, which determines parent_node
    closed,
    heap,    \* pairs <<f, node>>
    best,    \* [total, exit], or None
    node,    \* cursor of the walk back
    path,    \* edges collected by the walk, in travel order
    pc

vars == <<query, g, parent, closed, heap, best, node, path, pc>>

----------------------------------------------------------------------------
(* Helpers *)

SaturatingAdd(x, y) == IF x + y > Infinity THEN Infinity ELSE x + y

\* The straight line to the goal's projection, floored to whole dm.
H(n) == query.away[n] \div DmUnits

\* Faulty: edges of every profile are taken.
BugAnyProfile(e) == TRUE

\* edge.access & mask # 0
Usable(e) == query.profile \in e.access

\* Snapped::partial_to, at an endpoint of the snap's edge.
PartialTo(s, n) == IF n = s.src THEN s.d_src ELSE s.length - s.d_src

Seeds == {query.a.src, query.a.dst}
Exits == {query.b.src, query.b.dst}

UsableEdges == {e \in query.edges : Usable(e)}

\* The entry BinaryHeap::pop takes: smallest f, then smallest node index.
Least(entry) ==
    /\ entry \in heap
    /\ \A x \in heap :
        entry[1] < x[1] \/ (entry[1] = x[1] /\ entry[2] <= x[2])

\* Faulty: nodes already closed are relaxed again.
BugReopen(n, e) == e \in UsableEdges /\ e.from = n

\* The edges the loop over edges_from(n) considers.
Relaxable(n, e) == e \in UsableEdges /\ e.from = n /\ ~closed[e.to] /\ e.to # n

\* The edges out of n that lower the cost of the node they lead to, the
\* cheapest one for each node.
Improving(n) ==
    {e \in query.edges :
        /\ Relaxable(n, e)
        /\ SaturatingAdd(g[n], e.len) < g[e.to]
        /\ \A o \in query.edges :
            Relaxable(n, o) /\ o.to = e.to => e.len <= o.len}

Answer == IF best = None THEN Infinity ELSE best.total

\* Faulty: the first end of the goal edge that is settled is final.
BugFirstExit(n) == n \in Exits /\ best = None

\* n is an end of the goal edge and completes the best route so far.
Completes(n) ==
    /\ n \in Exits
    /\ best = None \/ SaturatingAdd(g[n], PartialTo(query.b, n)) < Answer

----------------------------------------------------------------------------
(* The search *)

Init ==
    /\ query \in Queries
    /\ g = [n \in Nodes |->
              IF n \in Seeds THEN PartialTo(query.a, n) ELSE Infinity]
    /\ parent = [n \in Nodes |-> None]
    /\ closed = [n \in Nodes |-> FALSE]
    /\ heap = {<<SaturatingAdd(g[n], H(n)), n>> : n \in Seeds}
    /\ best = None
    /\ node = query.b.src /\ path = <<>>
    /\ pc = "search"

\* Nothing on the frontier can improve the answer.
StopEarly(f, n) ==
    /\ pc = "search" /\ Least(<<f, n>>)
    /\ best # None /\ f >= Answer
    /\ heap' = heap \ {<<f, n>>}
    /\ node' = best.exit
    /\ pc' = "walk"
    /\ UNCHANGED <<query, g, parent, closed, best, path>>

\* Faulty: a stale entry goes back onto the heap.
BugKeepStale(f, n) == heap

Popped(f, n) == heap \ {<<f, n>>}

Continues(f) == best = None \/ f < Answer

SkipStale(f, n) ==
    /\ pc = "search" /\ Least(<<f, n>>) /\ Continues(f)
    /\ closed[n]
    /\ heap' = Popped(f, n)
    /\ UNCHANGED <<query, g, parent, closed, best, node, path, pc>>

\* One node is closed, completed if it can be, and its edges relaxed.
Settle(f, n) ==
    /\ pc = "search" /\ Least(<<f, n>>) /\ Continues(f)
    /\ ~closed[n]
    /\ closed' = [closed EXCEPT ![n] = TRUE]
    /\ best' = IF Completes(n)
               THEN [total |-> SaturatingAdd(g[n], PartialTo(query.b, n)),
                     exit |-> n]
               ELSE best
    /\ LET better == Improving(n)
           lowered == {e.to : e \in better}
           Via(m) == CHOOSE e \in better : e.to = m
       IN  /\ g' = [m \in Nodes |->
                      IF m \in lowered THEN SaturatingAdd(g[n], Via(m).len)
                      ELSE g[m]]
           /\ parent' = [m \in Nodes |->
                           IF m \in lowered THEN Via(m) ELSE parent[m]]
           /\ heap' = Popped(f, n)
                        \cup {<<SaturatingAdd(g'[m], H(m)), m>> : m \in lowered}
    /\ UNCHANGED <<query, node, path, pc>>

\* The frontier is empty: no connection, or nothing left to try.
Exhausted ==
    /\ pc = "search" /\ heap = {}
    /\ IF best = None
       THEN pc' = "nopath" /\ UNCHANGED node
       ELSE pc' = "walk" /\ node' = best.exit
    /\ UNCHANGED <<query, g, parent, closed, heap, best, path>>

----------------------------------------------------------------------------
(* The walk back along the parents *)

MoreToWalk == parent[node] # None /\ Len(path) <= Cardinality(Nodes)

WalkBack ==
    /\ pc = "walk" /\ MoreToWalk
    /\ path' = <<parent[node]>> \o path
    /\ node' = parent[node].from
    /\ UNCHANGED <<query, g, parent, closed, heap, best, pc>>

Return ==
    /\ pc = "walk" /\ ~MoreToWalk
    /\ pc' = "done"
    /\ UNCHANGED <<query, g, parent, closed, heap, best, node, path>>

Next ==
    \/ \E entry \in heap : StopEarly(entry[1], entry[2])
    \/ \E entry \in heap : SkipStale(entry[1], entry[2])
    \/ \E entry \in heap : Settle(entry[1], entry[2])
    \/ Exhausted
    \/ WalkBack
    \/ Return

\* The search is one uninterrupted call.
Spec == Init /\ [][Next]_vars /\ WF_vars(Next)

----------------------------------------------------------------------------
(* What the answer is compared with: Bellman-Ford over the same graph *)

StartEnds == {query.a.src, query.a.dst}
OpenRoads == {e \in query.edges : query.profile \in e.access}

\* One more edge on every walk, edge e costing e.len plus extra[e].
Relaxed(d, extra) ==
    [m \in Nodes |->
        LET into == {e \in OpenRoads : e.to = m}
            costs == {d[m]} \cup {SaturatingAdd(d[e.from], e.len + extra[e]) :
                                    e \in into}
        IN  CHOOSE c \in costs : \A o \in costs : c <= o]

\* By number of edges, the costs of the cheapest walks of no more edges.
Walks(extra) ==
    LET upTo[k \in 0..Cardinality(Nodes)] ==
            IF k = 0
            THEN [n \in Nodes |->
                    IF n \in StartEnds THEN PartialTo(query.a, n) ELSE Infinity]
            ELSE Relaxed(upTo[k - 1], extra)
    IN  upTo

\* The cheapest completion there is, every edge and the last partial made
\* dearer by what extra and extraEnd say.
Cheapest(extra, extraEnd) ==
    LET final == Walks(extra)[Cardinality(Nodes)]
        ends == {SaturatingAdd(final[n], PartialTo(query.b, n) + extraEnd[n]) :
                    n \in Exits}
    IN  CHOOSE c \in ends : \A o \in ends : c <= o

\* By how much the heuristic drops over an edge beyond the edge's length,
\* and over the last partial: what rounding takes from its consistency.
Slack(e) == LET drop == H(e.from) - H(e.to) - e.len
            IN  IF drop > 0 THEN drop ELSE 0
EndSlack(n) == LET drop == H(n) - PartialTo(query.b, n)
               IN  IF drop > 0 THEN drop ELSE 0

Finished == pc \in {"done", "nopath"}

----------------------------------------------------------------------------
(* Properties *)

\* Every variable of the search has its type.
TypeOK ==
    /\ IsSearch(query)
    /\ g \in [Nodes -> Cost]
    /\ parent \in [Nodes -> Edges \cup {None}]
    /\ closed \in [Nodes -> BOOLEAN]
    /\ heap \subseteq Cost \X Nodes
    /\ best = None \/ best \in [total : Cost, exit : Nodes]
    /\ node \in Nodes
    /\ path \in Seq(Edges)
    /\ pc \in {"search", "walk", "done", "nopath"}

\* A node's cost is always the cost of the way its parent edge tells: a seed's
\* partial, or the closed parent's cost plus an edge the profile may use.
\* This is what lets the walk back report the route the total was computed
\* for, and what opening a closed node again would break.
ParentsSound ==
    \A n \in Nodes :
        IF parent[n] = None
        THEN g[n] # Infinity => n \in StartEnds /\ g[n] = PartialTo(query.a, n)
        ELSE LET e == parent[n]
             IN  /\ e \in OpenRoads /\ e.to = n
                 /\ closed[e.from]
                 /\ g[n] = g[e.from] + e.len

\* The route returned is one the profile may travel, from an end of the start
\* edge to an end of the goal edge, and its cost is the total that won, added
\* up as u64 as the search does.
RouteIsReal ==
    pc = "done" =>
        LET stops == [i \in 1..Len(path) |-> path[i].from] \o <<best.exit>>
            lens == [i \in 1..Len(path) |-> path[i].len]
            roads[i \in 0..Len(path)] == IF i = 0 THEN 0 ELSE roads[i - 1] + lens[i]
        IN  /\ stops[1] \in StartEnds /\ best.exit \in Exits
            /\ \A i \in DOMAIN path : path[i] \in OpenRoads
                                      /\ path[i].to = stops[i + 1]
            /\ best.total = SaturatingAdd(PartialTo(query.a, stops[1]) + roads[Len(path)],
                                          PartialTo(query.b, best.exit))

\* The answer is never worse than the best completion by more than the
\* rounding on that completion's roads, and there is an answer exactly when
\* the two positions are connected for the profile.
BestUpToRounding ==
    Finished =>
        /\ Answer >= Cheapest([e \in query.edges |-> 0], [n \in Exits |-> 0])
        /\ Answer <= Cheapest([e \in query.edges |-> Slack(e)],
                              [n \in Exits |-> EndSlack(n)])

\* The search ends, and so does the walk.
Ends == <>Finished
=============================================================================
