---------------------------- MODULE AStarProofs ----------------------------
(* Proofs about AStar, for every graph, profile and pair of positions: the  *)
(* search's type invariant; that the costs it keeps are always the costs of *)
(* the routes its parents tell; that the route it returns can be travelled  *)
(* and costs what is reported; and that no route is better than the answer  *)
(* by more than the rounding on that route's own roads.                     *)
EXTENDS AStar, Induction

\* Saturating addition stays within a u64.
LEMMA SaturatingAddType ==
    ASSUME NEW x \in Cost, NEW y \in Nat
    PROVE  SaturatingAdd(x, y) \in Cost
BY SizeAssumption DEF SaturatingAdd, Cost

\* A partial cost is a cost.
LEMMA PartialType ==
    ASSUME IsSearch(query), NEW s \in {query.a, query.b}, NEW n \in Nodes
    PROVE  PartialTo(s, n) \in Cost
BY SizeAssumption DEF IsSearch, Snaps, PartialTo, Cost

\* The heuristic is a whole number of decimetres.
LEMMA HeuristicType ==
    ASSUME IsSearch(query), NEW n \in Nodes
    PROVE  H(n) \in Nat
BY SizeAssumption DEF IsSearch, H

\* What the search relaxes: an improving edge leads, from the settled node,
\* to another open node and lowers its cost without saturating.
LEMMA ImprovingEdge ==
    ASSUME TypeOK, NEW n \in Nodes, NEW e \in Improving(n)
    PROVE  /\ e \in Edges /\ e \in query.edges
           /\ query.profile \in e.access
           /\ e.from = n /\ e.to # n /\ ~closed[e.to]
           /\ SaturatingAdd(g[n], e.len) = g[n] + e.len
           /\ g[n] + e.len \in Cost
<1>1. /\ e \in query.edges /\ query.profile \in e.access
      /\ e.from = n /\ e.to # n /\ ~closed[e.to]
      /\ SaturatingAdd(g[n], e.len) < g[e.to]
    BY DEF Improving, Relaxable, UsableEdges, Usable
<1>2. e \in Edges
    BY <1>1 DEF TypeOK, IsSearch
<1>3. e.to \in Nodes /\ e.len \in Cost
    BY <1>2 DEF Edges
<1>4. g[e.to] \in Cost /\ g[n] \in Cost
    BY <1>3 DEF TypeOK
<1>5. g[n] + e.len \in Cost /\ SaturatingAdd(g[n], e.len) = g[n] + e.len
    BY <1>1, <1>3, <1>4, SizeAssumption DEF SaturatingAdd, Cost
<1> QED
    BY <1>1, <1>2, <1>5

----------------------------------------------------------------------------

LEMMA InitType == Init => TypeOK
<1> SUFFICES ASSUME Init PROVE TypeOK
    OBVIOUS
<1>1. IsSearch(query)
    BY QueryAssumption DEF Init
<1>2. Seeds \subseteq Nodes
    BY <1>1 DEF IsSearch, Snaps, Seeds
<1>3. g \in [Nodes -> Cost]
    BY <1>1, PartialType, SizeAssumption DEF Init, Cost
<1>4. heap \subseteq Cost \X Nodes
    BY <1>1, <1>2, <1>3, HeuristicType, SaturatingAddType DEF Init
<1>5. node \in Nodes
    BY <1>1 DEF Init, IsSearch, Snaps
<1> QED
    BY <1>1, <1>3, <1>4, <1>5 DEF Init, TypeOK

\* Settling a node keeps the types.
LEMMA SettleType ==
    ASSUME TypeOK, NEW f \in Cost, NEW n \in Nodes, Settle(f, n)
    PROVE  TypeOK'
<1> DEFINE better == Improving(n)
           lowered == {e.to : e \in better}
           Via(m) == CHOOSE e \in better : e.to = m
<1>1. \A m \in lowered : Via(m) \in better /\ Via(m).to = m
    OBVIOUS
<1>2. \A m \in lowered : Via(m) \in Edges
                         /\ SaturatingAdd(g[n], Via(m).len) \in Cost
    BY <1>1, ImprovingEdge
<1>3. lowered \subseteq Nodes
    BY ImprovingEdge DEF Edges
<1>4. g' \in [Nodes -> Cost]
    BY <1>2 DEF Settle, TypeOK
<1>5. parent' \in [Nodes -> Edges \cup {None}]
    BY <1>2 DEF Settle, TypeOK
<1>6. closed' \in [Nodes -> BOOLEAN]
    BY DEF Settle, TypeOK
<1>7. heap' \subseteq Cost \X Nodes
    <2>1. \A m \in lowered : SaturatingAdd(g'[m], H(m)) \in Cost
        BY <1>3, <1>4, SaturatingAddType, HeuristicType DEF TypeOK
    <2>2. heap' = Popped(f, n)
                    \cup {<<SaturatingAdd(g'[m], H(m)), m>> : m \in lowered}
        BY DEF Settle
    <2>3. Popped(f, n) \subseteq Cost \X Nodes
        BY DEF Popped, TypeOK
    <2> QED
        BY <1>3, <2>1, <2>2, <2>3
<1>8. best' = None \/ best' \in [total : Cost, exit : Nodes]
    <2>1. SaturatingAdd(g[n], PartialTo(query.b, n)) \in Cost
        BY SaturatingAddType, PartialType DEF TypeOK, Cost
    <2> QED
        BY <2>1 DEF Settle, TypeOK
<1> QED
    BY <1>4, <1>5, <1>6, <1>7, <1>8 DEF Settle, TypeOK

LEMMA NextType == TypeOK /\ [Next]_vars => TypeOK'
<1> SUFFICES ASSUME TypeOK, [Next]_vars PROVE TypeOK'
    OBVIOUS
<1> USE DEF TypeOK
<1>1. ASSUME NEW entry \in heap, StopEarly(entry[1], entry[2]) PROVE TypeOK'
    BY <1>1 DEF StopEarly
<1>2. ASSUME NEW entry \in heap, SkipStale(entry[1], entry[2]) PROVE TypeOK'
    BY <1>2 DEF SkipStale, Popped
<1>3. ASSUME NEW entry \in heap, Settle(entry[1], entry[2]) PROVE TypeOK'
    <2>1. entry[1] \in Cost /\ entry[2] \in Nodes
        OBVIOUS
    <2> QED
        BY <1>3, <2>1, SettleType
<1>4. CASE Exhausted
    BY <1>4 DEF Exhausted
<1>5. CASE WalkBack
    <2>1. parent[node] \in Edges
        BY <1>5 DEF WalkBack, MoreToWalk
    <2>2. parent[node].from \in Nodes /\ <<parent[node]>> \o path \in Seq(Edges)
        BY <2>1 DEF Edges
    <2> QED
        BY <1>5, <2>2 DEF WalkBack
<1>6. CASE Return
    BY <1>6 DEF Return
<1>7. CASE UNCHANGED vars
    BY <1>7 DEF vars, IsSearch
<1> QED
    BY <1>1, <1>2, <1>3, <1>4, <1>5, <1>6, <1>7 DEF Next

\* Every variable of the search keeps its type: costs stay within a u64, and
\* the walk back never leaves the graph.
THEOREM TypeCorrect == Spec => []TypeOK
BY InitType, NextType, PTL DEF Spec

----------------------------------------------------------------------------

LEMMA InitSound == Init => ParentsSound
BY NoneAssumption DEF Init, ParentsSound, Seeds, StartEnds

\* Settling a node gives a parent only to nodes still open, so the costs the
\* parents of other nodes were relaxed with are never changed.
LEMMA SettleSound ==
    ASSUME TypeOK, ParentsSound, NEW f \in Cost, NEW n \in Nodes, Settle(f, n)
    PROVE  ParentsSound'
<1> DEFINE better == Improving(n)
           lowered == {e.to : e \in better}
           Via(m) == CHOOSE e \in better : e.to = m
<1>1. \A m \in lowered : Via(m) \in better /\ Via(m).to = m
    OBVIOUS
<1>2. n \notin lowered /\ \A m \in lowered : ~closed[m]
    BY ImprovingEdge
<1>3. query' = query /\ closed' = [closed EXCEPT ![n] = TRUE]
    BY DEF Settle
<1>4. \A m \in Nodes \ lowered : g'[m] = g[m] /\ parent'[m] = parent[m]
    BY DEF Settle, TypeOK
<1> SUFFICES ASSUME NEW m \in Nodes
             PROVE  IF parent'[m] = None
                    THEN g'[m] # Infinity =>
                            m \in StartEnds /\ g'[m] = PartialTo(query.a, m)
                    ELSE LET e == parent'[m]
                         IN  /\ e \in OpenRoads /\ e.to = m
                             /\ closed'[e.from]
                             /\ g'[m] = g'[e.from] + e.len
    BY <1>3 DEF ParentsSound, StartEnds, OpenRoads, PartialTo
<1>5. CASE m \in lowered
    <2> DEFINE e == Via(m)
    <2>1. /\ e \in Edges /\ e \in OpenRoads /\ e.to = m /\ e.from = n
          /\ SaturatingAdd(g[n], e.len) = g[n] + e.len
        BY <1>1, <1>5, ImprovingEdge DEF OpenRoads
    <2>2. parent'[m] = e /\ g'[m] = g[n] + e.len
        BY <1>5, <2>1 DEF Settle
    <2>3. parent'[m] # None
        BY <2>1, <2>2, NoneAssumption
    <2>4. g'[n] = g[n] /\ closed'[n]
        BY <1>2, <1>3, <1>4 DEF TypeOK
    <2> QED
        BY <2>1, <2>2, <2>3, <2>4
<1>6. CASE m \notin lowered
    <2>1. CASE parent[m] = None
        BY <1>4, <1>6, <2>1 DEF ParentsSound
    <2>2. CASE parent[m] # None
        <3> DEFINE e == parent[m]
        <3>1. /\ e \in OpenRoads /\ e.to = m /\ closed[e.from]
              /\ g[m] = g[e.from] + e.len
            BY <2>2 DEF ParentsSound
        <3>2. e.from \in Nodes
            BY <2>2 DEF TypeOK, Edges
        <3>3. e.from \notin lowered
            BY <1>2, <3>1
        <3>4. g'[e.from] = g[e.from] /\ closed'[e.from]
            BY <1>3, <1>4, <3>1, <3>2, <3>3 DEF TypeOK
        <3> QED
            BY <1>4, <1>6, <2>2, <3>1, <3>4
    <2> QED
        BY <2>1, <2>2
<1> QED
    BY <1>5, <1>6

LEMMA NextSound == TypeOK /\ ParentsSound /\ [Next]_vars => ParentsSound'
<1> SUFFICES ASSUME TypeOK, ParentsSound, [Next]_vars PROVE ParentsSound'
    OBVIOUS
<1>1. ASSUME NEW entry \in heap, Settle(entry[1], entry[2]) PROVE ParentsSound'
    <2>1. entry[1] \in Cost /\ entry[2] \in Nodes
        BY DEF TypeOK
    <2> QED
        BY <1>1, <2>1, SettleSound
<1>2. ASSUME UNCHANGED <<query, g, parent, closed>> PROVE ParentsSound'
    BY <1>2 DEF ParentsSound, StartEnds, OpenRoads, PartialTo
<1> QED
    BY <1>1, <1>2 DEF Next, StopEarly, SkipStale, Exhausted, WalkBack, Return,
       vars

\* A node's cost is always the cost of the route its parents tell, whatever
\* the heuristic does: for any graph, any profile and any two positions.
THEOREM ParentsAlwaysSound == Spec => []ParentsSound
<1>1. Init => TypeOK /\ ParentsSound
    BY InitType, InitSound
<1>2. TypeOK /\ ParentsSound /\ [Next]_vars => (TypeOK /\ ParentsSound)'
    BY NextType, NextSound
<1> QED
    BY <1>1, <1>2, PTL DEF Spec

----------------------------------------------------------------------------
(* The route that is returned *)

\* A node without a parent is an end of the start edge, at its partial cost,
\* or has not been reached; only what was reached is on the heap or closed.
ReachInv ==
    /\ \A n \in Nodes :
          parent[n] = None =>
              g[n] = IF n \in StartEnds THEN PartialTo(query.a, n) ELSE Infinity
    /\ \A x \in heap : x[2] \in StartEnds \/ parent[x[2]] # None
    /\ \A n \in Nodes : closed[n] => n \in StartEnds \/ parent[n] # None

\* The best completion is at a closed end of the goal edge.
BestInv ==
    best # None =>
        /\ best.exit \in Exits /\ closed[best.exit]
        /\ best.total = SaturatingAdd(g[best.exit], PartialTo(query.b, best.exit))

\* Where edge i of the path leads.
Stop(i) == IF i = Len(path) THEN best.exit ELSE path[i + 1].from

\* The walk back has come along parents from the exit to the cursor, through
\* ever cheaper nodes, and is over only where there is no parent.
WalkInv ==
    /\ pc = "search" => path = <<>>
    /\ pc \in {"walk", "done"} =>
          /\ best # None
          /\ node = IF path = <<>> THEN best.exit ELSE path[1].from
          /\ \A i \in DOMAIN path :
                path[i].to = Stop(i) /\ path[i] = parent[Stop(i)]
          /\ \A i, j \in DOMAIN path : i < j => g[path[i].from] < g[path[j].from]
    /\ pc = "done" => parent[node] = None

RouteInv == TypeOK /\ ParentsSound /\ ReachInv /\ BestInv /\ WalkInv

\* What settling a node leaves alone.
LEMMA SettleKeeps ==
    ASSUME TypeOK, NEW f \in Cost, NEW n \in Nodes, Settle(f, n)
    PROVE  /\ query' = query /\ closed' = [closed EXCEPT ![n] = TRUE]
           /\ g'[n] = g[n] /\ parent'[n] = parent[n]
           /\ \A m \in Nodes : parent'[m] = None => g'[m] = g[m] /\ parent[m] = None
           /\ \A m \in Nodes : closed[m] => g'[m] = g[m] /\ parent'[m] = parent[m]
           /\ \A x \in heap' : x \in heap \/ (x[2] \in Nodes /\ parent'[x[2]] # None)
<1> DEFINE better == Improving(n)
           lowered == {e.to : e \in better}
           Via(m) == CHOOSE e \in better : e.to = m
<1>1. \A m \in lowered : Via(m) \in better /\ Via(m).to = m
    OBVIOUS
<1>2. n \notin lowered /\ \A m \in lowered : m \in Nodes /\ ~closed[m]
    BY ImprovingEdge DEF Edges
<1>3. \A m \in Nodes \ lowered : g'[m] = g[m] /\ parent'[m] = parent[m]
    BY DEF Settle
<1>4. ASSUME NEW m \in lowered PROVE parent'[m] # None
    <2>1. Via(m) \in Edges
        BY <1>1, ImprovingEdge
    <2>2. parent'[m] = Via(m)
        BY <1>2 DEF Settle
    <2> QED
        BY <2>1, <2>2, NoneAssumption
<1>5. ASSUME NEW x \in heap' PROVE x \in heap \/ (x[2] \in Nodes /\ parent'[x[2]] # None)
    <2>1. heap' = Popped(f, n)
                    \cup {<<SaturatingAdd(g'[m], H(m)), m>> : m \in lowered}
        BY DEF Settle
    <2> QED
        BY <1>2, <1>4, <2>1 DEF Popped
<1> QED
    BY <1>2, <1>3, <1>4, <1>5 DEF Settle

LEMMA SettleRoute ==
    ASSUME RouteInv, NEW entry \in heap, Settle(entry[1], entry[2])
    PROVE  ReachInv' /\ BestInv' /\ WalkInv'
<1> DEFINE n == entry[2]
<1> USE DEF RouteInv
<1>1. entry[1] \in Cost /\ n \in Nodes
    BY DEF TypeOK
<1>2. /\ query' = query /\ closed' = [closed EXCEPT ![n] = TRUE]
      /\ g'[n] = g[n] /\ parent'[n] = parent[n]
      /\ \A m \in Nodes : parent'[m] = None => g'[m] = g[m] /\ parent[m] = None
      /\ \A m \in Nodes : closed[m] => g'[m] = g[m] /\ parent'[m] = parent[m]
      /\ \A x \in heap' : x \in heap \/ (x[2] \in Nodes /\ parent'[x[2]] # None)
    BY <1>1, SettleKeeps
<1>3. StartEnds' = StartEnds /\ Exits' = Exits
      /\ \A m : PartialTo(query.a, m)' = PartialTo(query.a, m)
                /\ PartialTo(query.b, m)' = PartialTo(query.b, m)
    BY <1>2 DEF StartEnds, Exits, PartialTo
<1>4. ReachInv'
    <2>1. ASSUME NEW m \in Nodes, parent'[m] = None
          PROVE  g'[m] = IF m \in StartEnds THEN PartialTo(query.a, m) ELSE Infinity
        BY <1>2, <2>1 DEF ReachInv
    <2>2. ASSUME NEW m \in Nodes, m \in StartEnds \/ parent[m] # None
          PROVE  m \in StartEnds \/ parent'[m] # None
        BY <1>2, <2>2
    <2>3. ASSUME NEW x \in heap' PROVE x[2] \in StartEnds \/ parent'[x[2]] # None
        <3>1. CASE x \in heap
            <4>1. x[2] \in Nodes
                BY <3>1 DEF TypeOK
            <4> QED
                BY <2>2, <3>1, <4>1 DEF ReachInv
        <3> QED
            BY <1>2, <3>1
    <2>4. ASSUME NEW m \in Nodes, closed'[m] PROVE m \in StartEnds \/ parent'[m] # None
        <3>1. closed[m] \/ m = n
            BY <1>1, <1>2, <2>4 DEF TypeOK
        <3> QED
            BY <1>1, <2>2, <3>1 DEF ReachInv
    <2> QED
        BY <1>3, <2>1, <2>3, <2>4 DEF ReachInv
<1>5. BestInv'
    <2>1. CASE Completes(n)
        <3>1. best' = [total |-> SaturatingAdd(g[n], PartialTo(query.b, n)), exit |-> n]
            BY <2>1 DEF Settle
        <3>2. n \in Exits
            BY <2>1 DEF Completes
        <3>3. closed'[n] /\ SaturatingAdd(g'[n], PartialTo(query.b, n)')
                              = SaturatingAdd(g[n], PartialTo(query.b, n))
            BY <1>1, <1>2, <1>3 DEF TypeOK
        <3> QED
            BY <1>3, <3>1, <3>2, <3>3 DEF BestInv, SaturatingAdd
    <2>2. CASE ~Completes(n)
        <3>1. best' = best
            BY <2>2 DEF Settle
        <3>2. best # None => best.exit \in Nodes /\ closed[best.exit]
            BY DEF TypeOK, BestInv
        <3>3. best # None => closed'[best.exit] /\ g'[best.exit] = g[best.exit]
            BY <1>1, <1>2, <3>2 DEF TypeOK
        <3> QED
            BY <1>3, <3>1, <3>3 DEF BestInv, SaturatingAdd
    <2> QED
        BY <2>1, <2>2
<1>6. WalkInv'
    BY DEF Settle, WalkInv
<1> QED
    BY <1>4, <1>5, <1>6

\* Every entry of the path is an edge between nodes that have costs.
LEMMA PathFacts ==
    ASSUME TypeOK
    PROVE  /\ Len(path) \in Nat /\ DOMAIN path = 1..Len(path)
           /\ \A i \in 1..Len(path) :
                 path[i] \in Edges /\ path[i].from \in Nodes /\ path[i].to \in Nodes
                 /\ g[path[i].from] \in Int
<1>1. path \in Seq(Edges) /\ g \in [Nodes -> Cost] /\ Cost \subseteq Int
    BY SizeAssumption DEF TypeOK, Cost
<1>2. Len(path) \in Nat /\ DOMAIN path = 1..Len(path)
    BY <1>1
<1>3. ASSUME NEW i \in 1..Len(path)
      PROVE  path[i] \in Edges
    BY <1>1, <1>3
<1>4. \A e \in Edges : e.from \in Nodes /\ e.to \in Nodes
    BY DEF Edges
<1> QED
    BY <1>1, <1>2, <1>3, <1>4

\* The nodes the walk has left are different ones, so they are no more than
\* there are nodes: the walk's own limit never ends it.
LEMMA WalkIsShort ==
    ASSUME RouteInv, pc \in {"walk", "done"}
    PROVE  Len(path) <= Cardinality(Nodes)
<1> DEFINE from == [i \in 1..Len(path) |-> path[i].from]
<1> USE DEF RouteInv
<1>1. Len(path) \in Nat /\ DOMAIN path = 1..Len(path)
    BY PathFacts
<1>2. \A i \in 1..Len(path) : path[i].from \in Nodes
    BY PathFacts
<1>3. \A i \in 1..Len(path) : g[path[i].from] \in Int
    BY PathFacts
<1>4. ASSUME NEW i \in 1..Len(path), NEW j \in 1..Len(path), from[i] = from[j]
      PROVE  i = j
    BY <1>1, <1>3, <1>4 DEF WalkInv
<1>5. from \in Injection(1..Len(path), Nodes)
    BY <1>2, <1>4 DEF Injection, IsInjective
<1>6. Cardinality(1..Len(path)) <= Cardinality(Nodes)
    BY <1>5, FS_Injection, SizeAssumption
<1> QED
    BY <1>1, <1>6, FS_Interval

LEMMA WalkBackRoute == ASSUME RouteInv, WalkBack PROVE WalkInv'
<1> DEFINE e == parent[node]
<1> USE DEF RouteInv
<1>1. e \in Edges /\ e # None /\ e.to = node /\ e.from \in Nodes /\ e.len \in Cost \ {0}
    BY DEF WalkBack, MoreToWalk, TypeOK, ParentsSound, Edges
<1>2. g[node] = g[e.from] + e.len /\ g[e.from] < g[node]
    <2>1. g[node] = g[e.from] + e.len
        BY <1>1 DEF ParentsSound, TypeOK
    <2> QED
        BY <1>1, <2>1, SizeAssumption DEF TypeOK, Cost
<1>3. /\ path' = <<e>> \o path /\ node' = e.from
      /\ UNCHANGED <<query, g, parent, best, pc>> /\ pc = "walk"
    BY DEF WalkBack
<1>4. /\ path' \in Seq(Edges) /\ Len(path') = Len(path) + 1 /\ path'[1] = e
      /\ \A i \in 1..Len(path) : path'[i + 1] = path[i]
    BY <1>1, <1>3 DEF TypeOK
<1>5. Stop(1)' = node
    <2>1. CASE path = <<>>
        BY <1>3, <1>4, <2>1 DEF WalkInv, Stop
    <2>2. CASE path # <<>>
        <3>1. Len(path) # 0 /\ Len(path) \in Nat
            BY <2>2, PathFacts DEF TypeOK
        <3>2. path'[2] = path[1] /\ 1 # Len(path')
            BY <1>4, <3>1
        <3> QED
            BY <1>3, <2>2, <3>2 DEF WalkInv, Stop
    <2> QED
        BY <2>1, <2>2
<1>6. ASSUME NEW i \in 1..Len(path) PROVE Stop(i + 1)' = Stop(i)
    <2>1. Len(path) \in Nat /\ Len(path') = Len(path) + 1
        BY <1>4, PathFacts
    <2>2. i + 1 = Len(path') <=> i = Len(path)
        BY <2>1
    <2>3. i # Len(path) => path'[(i + 1) + 1] = path[i + 1]
        <3>1. i # Len(path) => i + 1 \in 1..Len(path)
            BY <2>1
        <3> QED
            BY <1>4, <3>1
    <2> QED
        BY <1>3, <2>2, <2>3 DEF Stop
<1>7. ASSUME NEW i \in DOMAIN path'
      PROVE  path'[i].to = Stop(i)' /\ path'[i] = parent[Stop(i)']
    <2>1. CASE i = 1
        BY <1>1, <1>4, <1>5, <2>1
    <2>2. CASE i # 1
        <3>1. i - 1 \in 1..Len(path) /\ (i - 1) + 1 = i
            BY <1>4, <2>2, PathFacts
        <3>2. path'[i] = path[i - 1] /\ Stop(i)' = Stop(i - 1)
            BY <1>4, <1>6, <3>1
        <3> QED
            BY <1>3, <3>1, <3>2, PathFacts DEF WalkInv
    <2> QED
        BY <2>1, <2>2
<1>8. ASSUME NEW i \in DOMAIN path', NEW j \in DOMAIN path', i < j
      PROVE  g[path'[i].from] < g[path'[j].from]
    <2>1. j - 1 \in 1..Len(path) /\ (j - 1) + 1 = j /\ i \in Int /\ i >= 1
        BY <1>4, <1>8, PathFacts
    <2>2. path'[j] = path[j - 1] /\ path[j - 1].from \in Nodes
        BY <1>4, <2>1, PathFacts
    <2>3. CASE i = 1
        <3>1. g[node] <= g[path[j - 1].from]
            <4>1. node = path[1].from /\ 1 \in 1..Len(path)
                BY <1>3, <2>1, PathFacts DEF WalkInv
            <4>2. g[node] \in Int /\ g[path[j - 1].from] \in Int
                BY <2>1, <4>1, PathFacts
            <4>3. j - 1 # 1 => g[path[1].from] < g[path[j - 1].from]
                <5>1. j - 1 # 1 => j - 1 \in DOMAIN path /\ 1 \in DOMAIN path /\ 1 < j - 1
                    BY <2>1, <4>1, PathFacts
                <5> QED
                    BY <1>3, <5>1 DEF WalkInv
            <4> QED
                BY <4>1, <4>2, <4>3
        <3>2. g[e.from] \in Int /\ g[node] \in Int /\ g[path[j - 1].from] \in Int
            <4>1. g \in [Nodes -> Cost] /\ Cost \subseteq Int /\ node \in Nodes
                BY SizeAssumption DEF TypeOK, Cost
            <4> QED
                BY <1>1, <2>2, <4>1
        <3> QED
            BY <1>2, <1>4, <2>2, <2>3, <3>1, <3>2
    <2>4. CASE i # 1
        <3>1. i - 1 \in 1..Len(path) /\ (i - 1) + 1 = i /\ i - 1 < j - 1
            BY <1>4, <1>8, <2>1, <2>4, PathFacts
        <3>2. path'[i] = path[i - 1]
            BY <1>4, <3>1
        <3> QED
            BY <1>3, <2>1, <2>2, <3>1, <3>2, PathFacts DEF WalkInv
    <2> QED
        BY <2>3, <2>4
<1>9. node' = path'[1].from /\ path' # <<>> /\ best # None
    BY <1>3, <1>4 DEF WalkInv
<1> QED
    BY <1>3, <1>7, <1>8, <1>9 DEF WalkInv

LEMMA NextRoute == RouteInv /\ [Next]_vars => RouteInv'
<1> SUFFICES ASSUME RouteInv, [Next]_vars PROVE RouteInv'
    OBVIOUS
<1>1. TypeOK' /\ ParentsSound'
    BY NextType, NextSound DEF RouteInv
<1> SUFFICES ReachInv' /\ BestInv' /\ WalkInv'
    BY <1>1 DEF RouteInv
<1>2. ASSUME NEW entry \in heap, Settle(entry[1], entry[2])
      PROVE  ReachInv' /\ BestInv' /\ WalkInv'
    BY <1>2, SettleRoute
<1>3. ASSUME UNCHANGED <<query, g, parent, closed, best>>, heap' \subseteq heap
      PROVE  ReachInv' /\ BestInv'
    BY <1>3 DEF RouteInv, ReachInv, BestInv, StartEnds, Exits, PartialTo
<1>4. ASSUME NEW entry \in heap, StopEarly(entry[1], entry[2])
      PROVE  ReachInv' /\ BestInv' /\ WalkInv'
    <2>1. WalkInv'
        BY <1>4 DEF StopEarly, RouteInv, WalkInv
    <2> QED
        BY <1>3, <1>4, <2>1 DEF StopEarly
<1>5. ASSUME NEW entry \in heap, SkipStale(entry[1], entry[2])
      PROVE  ReachInv' /\ BestInv' /\ WalkInv'
    <2>1. WalkInv'
        BY <1>5 DEF SkipStale, RouteInv, WalkInv, Stop
    <2> QED
        BY <1>3, <1>5, <2>1 DEF SkipStale, Popped
<1>6. CASE Exhausted
    <2>1. WalkInv'
        BY <1>6 DEF Exhausted, RouteInv, WalkInv
    <2> QED
        BY <1>3, <1>6, <2>1 DEF Exhausted
<1>7. CASE WalkBack
    BY <1>3, <1>7, WalkBackRoute DEF WalkBack
<1>8. CASE Return
    <2>1. pc = "walk" /\ parent[node] = None
        BY <1>8, WalkIsShort DEF Return, MoreToWalk
    <2>2. WalkInv'
        BY <1>8, <2>1 DEF Return, RouteInv, WalkInv, Stop
    <2> QED
        BY <1>3, <1>8, <2>2 DEF Return
<1>9. CASE UNCHANGED vars
    <2>1. WalkInv'
        BY <1>9 DEF vars, RouteInv, WalkInv, Stop
    <2> QED
        BY <1>3, <1>9, <2>1 DEF vars
<1> QED
    BY <1>2, <1>4, <1>5, <1>6, <1>7, <1>8, <1>9 DEF Next

LEMMA InitRoute == Init => RouteInv
<1> SUFFICES ASSUME Init PROVE RouteInv
    OBVIOUS
<1>1. TypeOK /\ ParentsSound
    BY InitType, InitSound
<1>2. ReachInv
    BY DEF Init, ReachInv, Seeds, StartEnds
<1>3. BestInv /\ WalkInv
    BY DEF Init, BestInv, WalkInv
<1> QED
    BY <1>1, <1>2, <1>3 DEF RouteInv

\* Along the path costs grow by the roads' lengths, from the partial at its
\* start to the cost of the exit.
LEMMA RouteSound == RouteInv => RouteIsReal
<1> SUFFICES ASSUME RouteInv, pc = "done" PROVE RouteIsReal
    BY DEF RouteIsReal
<1> USE DEF RouteInv
<1> DEFINE L == Len(path)
           stops == [i \in 1..Len(path) |-> path[i].from] \o <<best.exit>>
           lens == [i \in 1..Len(path) |-> path[i].len]
           roads[i \in 0..Len(path)] == IF i = 0 THEN 0 ELSE roads[i - 1] + lens[i]
<1>0. L \in Nat
    BY PathFacts
<1>1. /\ L \in Nat /\ DOMAIN path = 1..L
      /\ \A i \in 1..L : path[i] \in Edges /\ path[i].from \in Nodes
    BY PathFacts
<1>2. best # None /\ best.exit \in Exits /\ best.exit \in Nodes /\ closed[best.exit]
    BY DEF WalkInv, BestInv, TypeOK
<1>3. /\ \A i \in 1..L : stops[i] = path[i].from
      /\ stops[L + 1] = best.exit
      /\ \A i \in 1..(L + 1) : stops[i] \in Nodes
    <2>1. [i \in 1..L |-> path[i].from] \in Seq(Nodes)
        BY <1>1
    <2> QED
        BY <1>1, <1>2, <2>1
<1> HIDE DEF stops
<1>4. ASSUME NEW i \in 1..L
      PROVE  Stop(i) = stops[i + 1] /\ Stop(i) \in Nodes
    <2>1. i # L => i + 1 \in 1..L
        BY <1>0
    <2> QED
        BY <1>1, <1>2, <1>3, <2>1 DEF Stop
<1>5. ASSUME NEW i \in 1..L
      PROVE  /\ path[i] \in OpenRoads /\ path[i].to = stops[i + 1]
             /\ closed[stops[i]] /\ g[stops[i + 1]] = g[stops[i]] + path[i].len
    <2>1. path[i].to = Stop(i) /\ path[i] = parent[Stop(i)] /\ path[i] # None
        BY <1>1, NoneAssumption DEF WalkInv
    <2> QED
        BY <1>3, <1>4, <2>1 DEF ParentsSound
<1>6. stops[1] = node
    BY <1>1, <1>3 DEF WalkInv
<1>7. node \in StartEnds /\ g[node] = PartialTo(query.a, node)
    <2>1. closed[node] /\ node \in Nodes
        <3>1. CASE L = 0
            BY <1>2, <1>3, <1>6, <3>1
        <3>2. CASE L # 0
            BY <1>1, <1>3, <1>5, <1>6, <3>2
        <3> QED
            BY <3>1, <3>2
    <2> QED
        BY <2>1 DEF WalkInv, ReachInv
<1>8. roads[L] = g[best.exit] - g[node]
    <2>1. \A i \in 1..L : lens[i] = path[i].len /\ lens[i] \in Int
        BY <1>1, SizeAssumption DEF Edges, Cost
    <2> HIDE DEF lens
    <2>2. IsSum(roads, lens, 0, L)
        <3>1. \A i \in (0 + 1)..L : lens[i] \in Int
            BY <2>1
        <3> QED
            BY <1>1, <3>1, RunningSum
    <2> HIDE DEF roads
    <2>3. \A i \in 1..(L + 1) : g[stops[i]] \in Int
        <3>1. g \in [Nodes -> Cost] /\ Cost \subseteq Int
            BY SizeAssumption DEF TypeOK, Cost
        <3> QED
            BY <1>3, <3>1
    <2> DEFINE Good == {i \in 0..L : roads[i] = g[stops[i + 1]] - g[node]}
    <2>4. 0 \in Good
        BY <1>1, <1>6, <2>2, <2>3 DEF IsSum
    <2>5. ASSUME NEW i \in Int, 0 <= i, i < L, i \in Good PROVE i + 1 \in Good
        <3>1. i + 1 \in 1..L /\ (i + 1) - 1 = i /\ (i + 1) + 1 \in 1..(L + 1)
            BY <1>1, <2>5
        <3>2. roads[i + 1] = roads[i] + path[i + 1].len
            BY <2>1, <2>2, <3>1 DEF IsSum
        <3>3. g[stops[(i + 1) + 1]] = g[stops[i + 1]] + path[i + 1].len
            BY <1>5, <3>1
        <3>4. path[i + 1].len \in Int /\ g[stops[i + 1]] \in Int /\ g[node] \in Int
            BY <1>1, <1>6, <2>1, <2>3, <3>1
        <3> QED
            BY <1>1, <2>5, <3>1, <3>2, <3>3, <3>4
    <2>6. L \in Good
        <3> HIDE DEF Good
        <3>1. \A i \in 0..L : i \in Good
            <4>1. 0 \in Int /\ L \in Int
                BY <1>0
            <4>2. \A i \in Int : 0 <= i /\ i < L /\ i \in Good => i + 1 \in Good
                BY <2>5
            <4> HIDE DEF L
            <4> QED
                BY <2>4, <4>1, <4>2, UpFrom
        <3> QED
            BY <1>0, <3>1
    <2> QED
        BY <1>3, <2>6
<1>9. best.total = SaturatingAdd(PartialTo(query.a, stops[1]) + roads[L],
                                 PartialTo(query.b, best.exit))
    <2>1. g[best.exit] \in Int /\ g[node] \in Int
        <3>1. g \in [Nodes -> Cost] /\ Cost \subseteq Int
            BY SizeAssumption DEF TypeOK, Cost
        <3> QED
            BY <1>2, <3>1 DEF TypeOK
    <2>2. PartialTo(query.a, stops[1]) + roads[L] = g[best.exit]
        BY <1>6, <1>7, <1>8, <2>1
    <2> HIDE DEF roads
    <2> QED
        BY <1>2, <2>2 DEF BestInv
<1> HIDE DEF roads
<1>10. /\ stops[1] \in StartEnds /\ best.exit \in Exits
       /\ \A i \in DOMAIN path : path[i] \in OpenRoads /\ path[i].to = stops[i + 1]
    BY <1>1, <1>2, <1>5, <1>6, <1>7
<1> QED
    BY <1>9, <1>10 DEF RouteIsReal, stops, roads, lens

\* The route a search returns is always one the profile may travel, between an
\* end of the start edge and an end of the goal edge, and its total is what
\* its two partials and its roads add up to, for any graph and any query.
THEOREM RouteAlwaysReal == Spec => []RouteIsReal
<1>1. Init => RouteInv
    BY InitRoute
<1>2. RouteInv /\ [Next]_vars => RouteInv'
    BY NextRoute
<1>3. RouteInv => RouteIsReal
    BY RouteSound
<1> QED
    BY <1>1, <1>2, <1>3, PTL DEF Spec

----------------------------------------------------------------------------
(* What the answer is compared with *)

Tables == [Nodes -> Cost]

\* A surcharge on the edges of the graph.
IsExtra(extra) == extra \in [query.edges -> Nat]

\* One more edge: no table entry grows, each is its old value or comes over
\* an edge, and none is more than over any edge.
IsRelaxed(d, extra, r) ==
    /\ r \in Tables
    /\ \A m \in Nodes : r[m] <= d[m]
    /\ \A e \in OpenRoads : r[e.to] <= SaturatingAdd(d[e.from], e.len + extra[e])
    /\ \A m \in Nodes :
          \/ r[m] = d[m]
          \/ \E e \in OpenRoads :
                e.to = m /\ r[m] = SaturatingAdd(d[e.from], e.len + extra[e])

LEMMA OpenRoadType ==
    ASSUME IsSearch(query), NEW e \in OpenRoads
    PROVE  /\ e \in Edges /\ e \in query.edges
           /\ e.from \in Nodes /\ e.to \in Nodes
           /\ e.len \in Nat /\ e.len >= 1 /\ e.len \in Cost
<1>1. e \in query.edges /\ e \in Edges
    BY DEF OpenRoads, IsSearch
<1>2. e.from \in Nodes /\ e.to \in Nodes /\ e.len \in Cost \ {0}
    BY <1>1 DEF Edges
<1> QED
    BY <1>1, <1>2, SizeAssumption DEF Cost

LEMMA RelaxedFacts ==
    ASSUME IsSearch(query), NEW extra, IsExtra(extra), NEW d \in Tables
    PROVE  IsRelaxed(d, extra, Relaxed(d, extra))
<1> DEFINE Into(m) == {e \in OpenRoads : e.to = m}
           Costs(m) == {d[m]} \cup {SaturatingAdd(d[e.from], e.len + extra[e]) : e \in Into(m)}
           Low(m) == CHOOSE c \in Costs(m) : \A o \in Costs(m) : c <= o
           r == Relaxed(d, extra)
<1>1. \A e \in OpenRoads : SaturatingAdd(d[e.from], e.len + extra[e]) \in Cost
    <2> SUFFICES ASSUME NEW e \in OpenRoads
                 PROVE  SaturatingAdd(d[e.from], e.len + extra[e]) \in Cost
        OBVIOUS
    <2>1. d[e.from] \in Cost /\ e.len + extra[e] \in Nat
        BY OpenRoadType DEF Tables, IsExtra
    <2> QED
        BY <2>1, SaturatingAddType
<1>2. ASSUME NEW m \in Nodes
      PROVE  /\ Low(m) \in Costs(m) /\ \A o \in Costs(m) : Low(m) <= o
             /\ Low(m) \in Cost
    <2>1. d[m] \in Cost /\ Cost \subseteq Nat
        BY SizeAssumption DEF Tables, Cost
    <2>2. Costs(m) \subseteq Cost
        BY <1>1, <2>1
    <2>3. Costs(m) \in SUBSET Nat /\ Costs(m) # {}
        BY <2>1, <2>2
    <2> HIDE DEF Costs
    <2>4. \E c \in Costs(m) : \A o \in Costs(m) : c <= o
        BY <2>3, LeastNatural
    <2> QED
        BY <2>2, <2>4
<1>3. r = [m \in Nodes |-> Low(m)]
    BY DEF Relaxed
<1> HIDE DEF r, Low, Costs
<1>4. r \in Tables /\ \A m \in Nodes : r[m] = Low(m)
    BY <1>2, <1>3 DEF Tables
<1>5. \A m \in Nodes : r[m] <= d[m]
    BY <1>2, <1>4 DEF Costs
<1>6. \A e \in OpenRoads : r[e.to] <= SaturatingAdd(d[e.from], e.len + extra[e])
    <2> SUFFICES ASSUME NEW e \in OpenRoads
                 PROVE  r[e.to] <= SaturatingAdd(d[e.from], e.len + extra[e])
        OBVIOUS
    <2>1. e.to \in Nodes /\ SaturatingAdd(d[e.from], e.len + extra[e]) \in Costs(e.to)
        BY OpenRoadType DEF Costs
    <2> QED
        BY <1>2, <1>4, <2>1
<1>7. \A m \in Nodes :
          \/ r[m] = d[m]
          \/ \E e \in OpenRoads :
                e.to = m /\ r[m] = SaturatingAdd(d[e.from], e.len + extra[e])
    BY <1>2, <1>4 DEF Costs
<1> QED
    BY <1>4, <1>5, <1>6, <1>7 DEF IsRelaxed, r

StartTable == [n \in Nodes |-> IF n \in StartEnds THEN PartialTo(query.a, n) ELSE Infinity]

LEMMA StartTableType ==
    ASSUME IsSearch(query)
    PROVE  StartTable \in Tables
<1>1. Infinity \in Cost
    BY SizeAssumption DEF Cost
<1> QED
    BY <1>1, PartialType DEF StartTable, Tables

\* w is a table for every number of edges up to N, each one relaxed from the
\* one before.
AreWalks(w, extra, N) ==
    /\ w \in [0..N -> Tables]
    /\ w[0] = StartTable
    /\ \A k \in 1..N : IsRelaxed(w[k - 1], extra, w[k])

LEMMA WalksFacts ==
    ASSUME IsSearch(query), NEW extra, IsExtra(extra)
    PROVE  AreWalks(Walks(extra), extra, Cardinality(Nodes))
<1>1. PICK N \in Nat : N = Cardinality(Nodes)
    BY FS_CardinalityType, SizeAssumption
<1> DEFINE Rule(f) == f = [k \in 0..N |-> IF k = 0 THEN StartTable
                                          ELSE Relaxed(f[k - 1], extra)]
           step == [x \in (1..N) \X Tables |-> Relaxed(x[2], extra)]
           w == Walks(extra)
<1>2. \A d \in Tables : Relaxed(d, extra) \in Tables
    BY RelaxedFacts DEF IsRelaxed
<1>3. IsRule(step, 0, N, Tables)
    <2>1. (0 + 1)..N = 1..N
        OBVIOUS
    <2>2. step \in [(1..N) \X Tables -> Tables]
        BY <1>2
    <2> QED
        BY <2>1, <2>2 DEF IsRule
<1> HIDE DEF step
<1>4. PICK r \in [0..N -> Tables] : r[0] = StartTable /\ Follows(r, step, 0, N)
    <2>1. PICK b \in Tables : b = StartTable
        BY StartTableType
    <2>2. \E r \in [0..N -> Tables] : r[0] = b /\ Follows(r, step, 0, N)
        BY <1>3, RecursionExists
    <2> QED
        BY <2>1, <2>2
<1>5. \A k \in 1..N : r[k] = Relaxed(r[k - 1], extra)
    <2> SUFFICES ASSUME NEW k \in 1..N PROVE r[k] = Relaxed(r[k - 1], extra)
        OBVIOUS
    <2>1. r[k] = step[<<k, r[k - 1]>>]
        BY <1>4 DEF Follows
    <2>2. k - 1 \in 0..N
        OBVIOUS
    <2>3. <<k, r[k - 1]>> \in (1..N) \X Tables
        BY <1>4, <2>2
    <2> QED
        BY <2>1, <2>3 DEF step
<1>6. Rule(r)
    <2>1. r = [k \in 0..N |-> r[k]]
        BY <1>4
    <2>2. \A k \in 0..N : k # 0 => k \in 1..N
        OBVIOUS
    <2> QED
        BY <1>4, <1>5, <2>1, <2>2
<1>7. Rule(w)
    <2>1. w = CHOOSE f : Rule(f)
        BY <1>1 DEF Walks, StartTable
    <2> QED
        BY <1>6, <2>1
<1> HIDE DEF w
<1>8. w[0] = StartTable /\ \A k \in 1..N : w[k] = Relaxed(w[k - 1], extra)
    <2>1. \A k \in 0..N : w[k] = IF k = 0 THEN StartTable ELSE Relaxed(w[k - 1], extra)
        BY <1>7
    <2> QED
        BY <2>1
<1> DEFINE Same == {k \in 0..N : w[k] = r[k]}
<1>9. \A k \in 0..N : k \in Same
    <2>1. 0 \in Same
        BY <1>4, <1>8
    <2>2. ASSUME NEW k \in Int, 0 <= k, k < N, k \in Same PROVE k + 1 \in Same
        <3>1. k + 1 \in 1..N /\ (k + 1) - 1 = k /\ k + 1 \in 0..N
            BY <2>2
        <3> QED
            BY <1>5, <1>8, <2>2, <3>1
    <2> HIDE DEF Same
    <2> QED
        BY <2>1, <2>2, UpFrom
<1>10. w \in [0..N -> Tables]
    <2>1. w = [k \in 0..N |-> w[k]]
        BY <1>7
    <2> QED
        BY <1>4, <1>9, <2>1
<1>11. \A k \in 1..N : IsRelaxed(w[k - 1], extra, w[k])
    <2> SUFFICES ASSUME NEW k \in 1..N PROVE IsRelaxed(w[k - 1], extra, w[k])
        OBVIOUS
    <2>1. w[k - 1] \in Tables
        <3>1. k - 1 \in 0..N
            OBVIOUS
        <3> QED
            BY <1>10, <3>1
    <2> QED
        BY <1>8, <2>1, RelaxedFacts
<1> QED
    BY <1>1, <1>8, <1>10, <1>11 DEF AreWalks, w

\* A finite entry is a start's partial, or no less than over some edge.
HasLast(d, extra, n) ==
    d[n] < Infinity =>
        \/ n \in StartEnds /\ d[n] = PartialTo(query.a, n)
        \/ \E e \in OpenRoads : e.to = n /\ d[e.from] + (e.len + extra[e]) <= d[n]

LEMMA RelaxedHasLast ==
    ASSUME IsSearch(query), NEW extra, IsExtra(extra), NEW d \in Tables,
           NEW r, IsRelaxed(d, extra, r), \A n \in Nodes : HasLast(d, extra, n),
           NEW n \in Nodes
    PROVE  HasLast(r, extra, n)
<1> SUFFICES ASSUME r[n] < Infinity
             PROVE  \/ n \in StartEnds /\ r[n] = PartialTo(query.a, n)
                    \/ \E e \in OpenRoads : e.to = n /\ r[e.from] + (e.len + extra[e]) <= r[n]
    BY DEF HasLast
<1>1. \A m \in Nodes : d[m] \in Nat /\ r[m] \in Nat /\ r[m] <= d[m]
    BY SizeAssumption DEF IsRelaxed, Tables, Cost
<1>2. ASSUME NEW e \in OpenRoads
      PROVE  e.from \in Nodes /\ e.len \in Nat /\ extra[e] \in Nat
    BY OpenRoadType DEF IsExtra
<1>3. CASE r[n] = d[n]
    <2>1. CASE n \in StartEnds /\ d[n] = PartialTo(query.a, n)
        BY <1>3, <2>1
    <2>2. ASSUME NEW e \in OpenRoads, e.to = n, d[e.from] + (e.len + extra[e]) <= d[n]
          PROVE  e.to = n /\ r[e.from] + (e.len + extra[e]) <= r[n]
        <3>1. e.from \in Nodes /\ e.len \in Nat /\ extra[e] \in Nat
            BY <1>2
        <3>2. d[e.from] \in Nat /\ r[e.from] \in Nat /\ r[e.from] <= d[e.from]
            BY <1>1, <3>1
        <3> QED
            BY <1>1, <1>3, <2>2, <3>1, <3>2
    <2> QED
        BY <1>3, <2>1, <2>2 DEF HasLast
<1>4. ASSUME NEW e \in OpenRoads, e.to = n,
             r[n] = SaturatingAdd(d[e.from], e.len + extra[e])
      PROVE  r[e.from] + (e.len + extra[e]) <= r[n]
    <2>1. e.from \in Nodes /\ e.len \in Nat /\ extra[e] \in Nat
        BY <1>2
    <2>2. d[e.from] \in Nat /\ r[e.from] \in Nat /\ r[e.from] <= d[e.from] /\ r[n] \in Nat
        BY <1>1, <2>1
    <2> QED
        BY <1>4, <2>1, <2>2, SizeAssumption DEF SaturatingAdd
<1> QED
    BY <1>3, <1>4 DEF IsRelaxed

LEMMA WalksBack ==
    ASSUME IsSearch(query), NEW extra, IsExtra(extra), NEW N \in Nat,
           NEW w, AreWalks(w, extra, N)
    PROVE  \A k \in 0..N : \A n \in Nodes : HasLast(w[k], extra, n)
<1> DEFINE Good == {k \in 0..N : \A n \in Nodes : HasLast(w[k], extra, n)}
<1>1. 0 \in Good
    <2>1. \A n \in Nodes : HasLast(StartTable, extra, n)
        BY SizeAssumption DEF HasLast, StartTable
    <2> QED
        BY <2>1 DEF AreWalks
<1>2. ASSUME NEW k \in Int, 0 <= k, k < N, k \in Good PROVE k + 1 \in Good
    <2>1. k + 1 \in 1..N /\ (k + 1) - 1 = k /\ k + 1 \in 0..N /\ k \in 0..N
        BY <1>2
    <2>2. IsRelaxed(w[k], extra, w[k + 1]) /\ w[k] \in Tables
        BY <2>1 DEF AreWalks
    <2>3. \A n \in Nodes : HasLast(w[k + 1], extra, n)
        BY <1>2, <2>2, RelaxedHasLast
    <2> QED
        BY <2>1, <2>3
<1> HIDE DEF Good
<1>3. \A k \in 0..N : k \in Good
    BY <1>1, <1>2, UpFrom
<1> QED
    BY <1>3 DEF Good

\* More edges never make a walk dearer.
LEMMA WalksShrink ==
    ASSUME NEW extra, NEW N \in Nat, NEW w, AreWalks(w, extra, N),
           NEW i \in 0..N, NEW n \in Nodes
    PROVE  w[N][n] <= w[i][n]
<1> DEFINE Good == {k \in i..N : w[k][n] <= w[i][n]}
<1>0. \A k \in 0..N : w[k][n] \in Nat
    <2>1. Cost \subseteq Nat
        BY SizeAssumption DEF Cost
    <2> QED
        BY <2>1 DEF AreWalks, Tables
<1>1. i \in Good
    BY <1>0
<1>2. ASSUME NEW k \in Int, i <= k, k < N, k \in Good PROVE k + 1 \in Good
    <2>1. k + 1 \in 1..N /\ (k + 1) - 1 = k /\ k + 1 \in i..N /\ k \in 0..N /\ k + 1 \in 0..N
        BY <1>2
    <2>2. w[k + 1][n] <= w[k][n]
        BY <2>1 DEF AreWalks, IsRelaxed
    <2>3. w[k][n] <= w[i][n]
        BY <1>2
    <2>4. w[k + 1][n] \in Nat /\ w[k][n] \in Nat /\ w[i][n] \in Nat
        BY <1>0, <2>1
    <2>5. w[k + 1][n] <= w[i][n]
        BY <2>2, <2>3, <2>4
    <2> QED
        BY <2>1, <2>5
<1>3. \A k \in i..N : k \in Good
    <2> HIDE DEF Good
    <2> QED
        BY <1>1, <1>2, UpFrom
<1>4. N \in i..N
    OBVIOUS
<1> QED
    BY <1>3, <1>4

\* The cheapest completion is one over an end of the goal edge, and no dearer
\* than over either.
LEMMA CheapestFacts ==
    ASSUME IsSearch(query), NEW extra, IsExtra(extra),
           NEW last \in [Exits -> Nat],
           NEW final, final = Walks(extra)[Cardinality(Nodes)]
    PROVE  /\ final \in Tables
           /\ \E x \in Exits : Cheapest(extra, last)
                                 = SaturatingAdd(final[x], PartialTo(query.b, x) + last[x])
           /\ \A x \in Exits : Cheapest(extra, last)
                                 <= SaturatingAdd(final[x], PartialTo(query.b, x) + last[x])
<1> DEFINE EndCost(x) == SaturatingAdd(final[x], PartialTo(query.b, x) + last[x])
           ends == {EndCost(n) : n \in Exits}
<1>1. final \in Tables
    <2>1. AreWalks(Walks(extra), extra, Cardinality(Nodes))
        BY WalksFacts
    <2>2. PICK N \in Nat : N = Cardinality(Nodes)
        BY FS_CardinalityType, SizeAssumption
    <2>3. N \in 0..N
        OBVIOUS
    <2> QED
        BY <2>1, <2>2, <2>3 DEF AreWalks
<1>2. \A x \in Exits : EndCost(x) \in Cost
    <2> SUFFICES ASSUME NEW x \in Exits PROVE EndCost(x) \in Cost
        OBVIOUS
    <2>1. x \in Nodes
        BY DEF Exits, IsSearch, Snaps
    <2>2. PartialTo(query.b, x) \in Cost /\ final[x] \in Cost /\ last[x] \in Nat
        BY <1>1, <2>1, PartialType DEF Tables
    <2>3. PartialTo(query.b, x) + last[x] \in Nat
        BY <2>2, SizeAssumption DEF Cost
    <2> QED
        BY <2>2, <2>3, SaturatingAddType
<1> HIDE DEF EndCost
<1>3. ends \in SUBSET Nat /\ ends # {}
    <2>1. Cost \subseteq Nat /\ query.b.src \in Exits
        BY SizeAssumption DEF Cost, Exits
    <2> QED
        BY <1>2, <2>1
<1> DEFINE Low == CHOOSE c \in ends : \A o \in ends : c <= o
<1>4. Low \in ends /\ \A o \in ends : Low <= o
    <2> HIDE DEF ends
    <2>1. \E c \in ends : \A o \in ends : c <= o
        BY <1>3, LeastNatural
    <2> QED
        BY <2>1
<1>5. Cheapest(extra, last) = Low
    BY DEF Cheapest, EndCost
<1> HIDE DEF Low
<1>6. \E x \in Exits : Low = EndCost(x)
    BY <1>4
<1>7. \A x \in Exits : Low <= EndCost(x)
    BY <1>4
<1> QED
    BY <1>1, <1>5, <1>6, <1>7 DEF EndCost

----------------------------------------------------------------------------
(* The frontier *)

Surcharge == [e \in query.edges |-> Slack(e)]
EndSurcharge == [n \in Exits |-> EndSlack(n)]

\* The costs of the cheapest walks to every node, dearer by the rounding.
Dist == Walks(Surcharge)[Cardinality(Nodes)]

LEMMA SurchargeType ==
    ASSUME IsSearch(query)
    PROVE  IsExtra(Surcharge) /\ EndSurcharge \in [Exits -> Nat]
<1>1. ASSUME NEW e \in query.edges PROVE Slack(e) \in Nat
    <2>1. e \in Edges
        BY DEF IsSearch
    <2>2. e.from \in Nodes /\ e.to \in Nodes /\ e.len \in Nat
        BY <2>1, SizeAssumption DEF Edges, Cost
    <2>3. H(e.from) \in Nat /\ H(e.to) \in Nat
        BY <2>2, HeuristicType
    <2> QED
        BY <2>2, <2>3 DEF Slack
<1>2. ASSUME NEW n \in Exits PROVE EndSlack(n) \in Nat
    <2>1. n \in Nodes
        BY DEF Exits, IsSearch, Snaps
    <2>2. H(n) \in Nat /\ PartialTo(query.b, n) \in Nat
        BY <2>1, HeuristicType, PartialType, SizeAssumption DEF Cost
    <2> QED
        BY <2>2 DEF EndSlack
<1> QED
    BY <1>1, <1>2 DEF IsExtra, Surcharge, EndSurcharge

\* The heuristic drops over an edge by no more than its length and surcharge,
\* and at an exit is no more than the last partial and its surcharge.
LEMMA Consistent ==
    ASSUME IsSearch(query)
    PROVE  /\ \A e \in OpenRoads : /\ Surcharge[e] \in Nat
                                  /\ H(e.from) <= H(e.to) + (e.len + Surcharge[e])
           /\ \A n \in Exits : /\ EndSurcharge[n] \in Nat
                              /\ H(n) <= PartialTo(query.b, n) + EndSurcharge[n]
<1>1. ASSUME NEW e \in OpenRoads
      PROVE  Surcharge[e] \in Nat /\ H(e.from) <= H(e.to) + (e.len + Surcharge[e])
    <2>1. e \in query.edges /\ e.from \in Nodes /\ e.to \in Nodes /\ e.len \in Nat
        BY OpenRoadType
    <2>2. H(e.from) \in Nat /\ H(e.to) \in Nat /\ Surcharge[e] = Slack(e)
        BY <2>1, HeuristicType DEF Surcharge
    <2> QED
        BY <2>1, <2>2 DEF Slack
<1>2. ASSUME NEW n \in Exits
      PROVE  EndSurcharge[n] \in Nat /\ H(n) <= PartialTo(query.b, n) + EndSurcharge[n]
    <2>1. n \in Nodes
        BY DEF Exits, IsSearch, Snaps
    <2>2. H(n) \in Nat /\ PartialTo(query.b, n) \in Nat /\ EndSurcharge[n] = EndSlack(n)
        BY <2>1, HeuristicType, PartialType, SizeAssumption DEF Cost, EndSurcharge
    <2> QED
        BY <2>2 DEF EndSlack
<1> QED
    BY <1>1, <1>2

LEMMA DistFacts ==
    ASSUME IsSearch(query)
    PROVE  Dist \in Tables /\ \A n \in Nodes : HasLast(Dist, Surcharge, n)
<1>1. PICK N \in Nat : N = Cardinality(Nodes)
    BY FS_CardinalityType, SizeAssumption
<1>2. AreWalks(Walks(Surcharge), Surcharge, N)
    BY <1>1, SurchargeType, WalksFacts
<1>3. N \in 0..N
    OBVIOUS
<1>4. \A n \in Nodes : HasLast(Walks(Surcharge)[N], Surcharge, n)
    BY <1>2, <1>3, SurchargeType, WalksBack
<1>5. Walks(Surcharge)[N] \in Tables
    BY <1>2, <1>3 DEF AreWalks
<1> QED
    BY <1>1, <1>4, <1>5 DEF Dist

\* No seed costs more than its partial; what a closed node's roads lead to has
\* been relaxed; an open node that was reached is on the heap at its cost, and
\* no entry of an open node promises less; a closed exit was completed.
FrontInv ==
    /\ \A n \in Seeds : g[n] <= PartialTo(query.a, n)
    /\ \A e \in OpenRoads :
          closed[e.from] /\ ~closed[e.to] => g[e.to] <= SaturatingAdd(g[e.from], e.len)
    /\ pc = "search" =>
          \A n \in Nodes : ~closed[n] /\ g[n] < Infinity =>
              <<SaturatingAdd(g[n], H(n)), n>> \in heap
    /\ \A x \in heap : ~closed[x[2]] => SaturatingAdd(g[x[2]], H(x[2])) <= x[1]
    /\ \A n \in Exits :
          closed[n] => Answer <= SaturatingAdd(g[n], PartialTo(query.b, n))

\* A closed node costs no more than the cheapest walk to it, dearer by the
\* rounding.
ClosedInv ==
    \A n \in Nodes : closed[n] /\ Dist[n] + H(n) < Infinity => g[n] <= Dist[n]

\* Node m is on the heap for no more than c.
OpenAt(m, c) ==
    /\ m \in Nodes /\ ~closed[m]
    /\ <<g[m] + H(m), m>> \in heap /\ g[m] + H(m) <= c

\* An open node has, on its cheapest walk, a node on the heap that promises no
\* more than that walk.
LEMMA FrontierReaches ==
    ASSUME TypeOK, FrontInv, ClosedInv, pc = "search",
           NEW n \in Nodes, ~closed[n], Dist[n] + H(n) < Infinity
    PROVE  \E m : OpenAt(m, Dist[n] + H(n))
<1> DEFINE Lost == {k \in Nodes : /\ ~closed[k] /\ Dist[k] + H(k) < Infinity
                                  /\ ~\E m : OpenAt(m, Dist[k] + H(k))}
           Costs == {Dist[k] : k \in Lost}
<1>1. IsSearch(query) /\ Infinity \in Nat
    BY SizeAssumption DEF TypeOK
<1>2. \A k \in Nodes : Dist[k] \in Nat /\ H(k) \in Nat /\ g[k] \in Nat /\ g[k] <= Infinity
    <2>1. \A k \in Nodes : Dist[k] \in Cost /\ g[k] \in Cost
        BY <1>1, DistFacts DEF Tables, TypeOK
    <2> QED
        BY <1>1, <2>1, HeuristicType, SizeAssumption DEF Cost
<1> SUFFICES ASSUME n \in Lost PROVE FALSE
    OBVIOUS
<1>3. PICK k \in Lost : \A j \in Lost : Dist[k] <= Dist[j]
    <2>1. Costs \in SUBSET Nat /\ Costs # {}
        BY <1>2
    <2> HIDE DEF Lost
    <2>2. \E c \in Costs : \A d \in Costs : c <= d
        <3> HIDE DEF Costs
        <3> QED
            BY <2>1, LeastNatural
    <2> QED
        BY <2>2
<1>4. k \in Nodes /\ ~closed[k] /\ Dist[k] + H(k) < Infinity
    BY <1>3
<1>5. ~OpenAt(k, Dist[k] + H(k))
    BY <1>3
<1> HIDE DEF Costs
\* k's own entry would do.
<1>6. ~(g[k] <= Dist[k])
    <2> SUFFICES ASSUME g[k] <= Dist[k] PROVE FALSE
        OBVIOUS
    <2>1. g[k] < Infinity /\ g[k] + H(k) <= Dist[k] + H(k) /\ SaturatingAdd(g[k], H(k)) = g[k] + H(k)
        BY <1>1, <1>2, <1>4 DEF SaturatingAdd
    <2>2. <<g[k] + H(k), k>> \in heap
        BY <1>4, <2>1 DEF FrontInv
    <2> QED
        BY <1>4, <1>5, <2>1, <2>2 DEF OpenAt
<1>7. HasLast(Dist, Surcharge, k) /\ Dist[k] < Infinity
    BY <1>1, <1>2, <1>4, DistFacts
<1>8. CASE k \in StartEnds /\ Dist[k] = PartialTo(query.a, k)
    BY <1>6, <1>8 DEF FrontInv, Seeds, StartEnds
<1>9. ASSUME NEW e \in OpenRoads, e.to = k,
             Dist[e.from] + (e.len + Surcharge[e]) <= Dist[k]
      PROVE  FALSE
    <2> DEFINE p == e.from
    <2>1. p \in Nodes /\ e.len \in Nat /\ e.len >= 1 /\ Surcharge[e] \in Nat
          /\ H(p) <= H(k) + (e.len + Surcharge[e])
        BY <1>1, <1>9, OpenRoadType, Consistent
    <2>2. Dist[p] \in Nat /\ H(p) \in Nat /\ Dist[k] \in Nat /\ H(k) \in Nat
        BY <1>2, <1>4, <2>1
    <2> HIDE DEF p
    <2>3. Dist[p] < Dist[k] /\ Dist[p] + H(p) <= Dist[k] + H(k)
        BY <1>9, <2>1, <2>2 DEF p
    <2>4. Dist[p] + H(p) < Infinity
        BY <1>1, <1>4, <2>2, <2>3
    <2>5. CASE closed[p]
        <3>1. g[p] <= Dist[p]
            BY <2>1, <2>4, <2>5 DEF ClosedInv
        <3>2. g[k] <= SaturatingAdd(g[p], e.len)
            BY <1>4, <1>9, <2>5 DEF FrontInv, p
        <3>3. g[p] \in Nat /\ g[k] \in Nat
            BY <1>2, <1>4, <2>1
        <3>4. Dist[p] + (e.len + Surcharge[e]) <= Dist[k]
            BY <1>9 DEF p
        <3>5. SaturatingAdd(g[p], e.len) <= g[p] + e.len
            BY <1>1, <2>1, <3>3 DEF SaturatingAdd
        <3>6. SaturatingAdd(g[p], e.len) \in Nat
            BY <1>1, <2>1, <3>3 DEF SaturatingAdd
        <3>7. g[k] <= Dist[k]
            BY <2>1, <2>2, <3>1, <3>2, <3>3, <3>4, <3>5, <3>6
        <3> QED
            BY <1>6, <3>7
    <2>6. CASE ~closed[p]
        <3>1. p \notin Lost
            BY <1>2, <1>3, <2>2, <2>3
        <3>2. PICK m : OpenAt(m, Dist[p] + H(p))
            BY <2>1, <2>4, <2>6, <3>1
        <3>3. g[m] \in Nat /\ H(m) \in Nat
            BY <1>2, <3>2 DEF OpenAt
        <3>4. OpenAt(m, Dist[k] + H(k))
            BY <2>2, <2>3, <3>2, <3>3 DEF OpenAt
        <3> QED
            BY <1>3, <3>4
    <2> QED
        BY <2>5, <2>6
<1> QED
    BY <1>7, <1>8, <1>9 DEF HasLast

\* When the heap promises nothing better, the answer is within the rounding.
LEMMA AnswerIsGood ==
    ASSUME TypeOK, FrontInv, ClosedInv, pc = "search",
           \A x \in heap : Answer <= x[1]
    PROVE  Answer <= Cheapest(Surcharge, EndSurcharge)
<1>1. IsSearch(query) /\ Infinity \in Nat
    BY SizeAssumption DEF TypeOK
<1>2. \A k \in Nodes : Dist[k] \in Nat /\ H(k) \in Nat /\ g[k] \in Nat /\ g[k] <= Infinity
    <2>1. \A k \in Nodes : Dist[k] \in Cost /\ g[k] \in Cost
        BY <1>1, DistFacts DEF Tables, TypeOK
    <2> QED
        BY <1>1, <2>1, HeuristicType, SizeAssumption DEF Cost
<1>3. Answer \in Nat /\ Answer <= Infinity
    BY SizeAssumption DEF Answer, TypeOK, Cost
<1>4. PICK x \in Exits : Cheapest(Surcharge, EndSurcharge)
                           = SaturatingAdd(Dist[x], PartialTo(query.b, x) + EndSurcharge[x])
    BY <1>1, SurchargeType, CheapestFacts DEF Dist
<1>5. x \in Nodes /\ PartialTo(query.b, x) \in Nat
      /\ EndSurcharge[x] \in Nat /\ H(x) <= PartialTo(query.b, x) + EndSurcharge[x]
    <2>1. x \in Nodes
        BY <1>1 DEF Exits, IsSearch, Snaps
    <2>2. PartialTo(query.b, x) \in Cost
        BY <1>1, <2>1, PartialType
    <2> QED
        BY <1>1, <2>1, <2>2, Consistent, SizeAssumption DEF Cost
<1>6. Dist[x] \in Nat /\ H(x) \in Nat /\ g[x] \in Nat
    BY <1>2, <1>5
<1> DEFINE total == Dist[x] + (PartialTo(query.b, x) + EndSurcharge[x])
<1>7. total \in Nat /\ Dist[x] + H(x) <= total
    BY <1>5, <1>6
<1>8. Cheapest(Surcharge, EndSurcharge) = IF total > Infinity THEN Infinity ELSE total
    BY <1>4 DEF SaturatingAdd
<1>9. CASE total < Answer
    <2>1. Dist[x] + H(x) < Infinity
        BY <1>1, <1>3, <1>6, <1>7, <1>9
    <2>2. CASE closed[x]
        <3>1. g[x] <= Dist[x]
            BY <1>5, <2>1, <2>2 DEF ClosedInv
        <3>2. Answer <= SaturatingAdd(g[x], PartialTo(query.b, x))
            BY <2>2 DEF FrontInv
        <3>3. SaturatingAdd(g[x], PartialTo(query.b, x)) <= total
            BY <1>1, <1>5, <1>6, <3>1 DEF SaturatingAdd
        <3>4. SaturatingAdd(g[x], PartialTo(query.b, x)) \in Nat
            BY <1>1, <1>5, <1>6 DEF SaturatingAdd
        <3> HIDE DEF total
        <3> QED
            BY <1>3, <1>7, <1>9, <3>2, <3>3, <3>4
    <2>3. CASE ~closed[x]
        <3>1. PICK m : OpenAt(m, Dist[x] + H(x))
            BY <1>5, <2>1, <2>3, FrontierReaches
        <3>2. Answer <= g[m] + H(m) /\ g[m] + H(m) <= Dist[x] + H(x)
            BY <3>1 DEF OpenAt
        <3>3. g[m] + H(m) \in Nat
            BY <1>2, <3>1 DEF OpenAt
        <3> HIDE DEF total
        <3> QED
            BY <1>3, <1>6, <1>7, <1>9, <3>2, <3>3
    <2> QED
        BY <2>2, <2>3
<1> HIDE DEF total
<1> QED
    BY <1>1, <1>3, <1>7, <1>8, <1>9

\* Off the heap, the answer is within the rounding.
DoneInv == pc # "search" => Answer <= Cheapest(Surcharge, EndSurcharge)

\* The comparison depends on the query alone.
LEMMA SameQuery ==
    ASSUME UNCHANGED query
    PROVE  /\ Dist' = Dist
           /\ Cheapest(Surcharge, EndSurcharge)' = Cheapest(Surcharge, EndSurcharge)
           /\ OpenRoads' = OpenRoads /\ Seeds' = Seeds /\ Exits' = Exits
           /\ \A n : H(n)' = H(n) /\ PartialTo(query.a, n)' = PartialTo(query.a, n)
                     /\ PartialTo(query.b, n)' = PartialTo(query.b, n)
<1>1. /\ \A n : H(n)' = H(n) /\ PartialTo(query.a, n)' = PartialTo(query.a, n)
                     /\ PartialTo(query.b, n)' = PartialTo(query.b, n)
      /\ OpenRoads' = OpenRoads /\ Seeds' = Seeds /\ Exits' = Exits /\ StartEnds' = StartEnds
    BY DEF H, PartialTo, OpenRoads, Seeds, Exits, StartEnds
<1>2. Surcharge' = Surcharge /\ EndSurcharge' = EndSurcharge
    BY DEF Surcharge, EndSurcharge, Slack, EndSlack, Exits, H, PartialTo
<1>3. Walks(Surcharge)' = Walks(Surcharge)
    BY DEF Walks, Relaxed, SaturatingAdd, OpenRoads, StartEnds, PartialTo, Surcharge, Slack, H
<1>4. Dist' = Dist
    BY <1>3 DEF Dist
<1>5. Cheapest(Surcharge, EndSurcharge)' = Cheapest(Surcharge, EndSurcharge)
    BY DEF Cheapest, Walks, Relaxed, SaturatingAdd, OpenRoads, StartEnds, PartialTo,
           Surcharge, EndSurcharge, Exits, Slack, EndSlack, H
<1> QED
    BY <1>1, <1>4, <1>5

LEMMA SaturatingNat ==
    ASSUME NEW x \in Nat, NEW y \in Nat
    PROVE  SaturatingAdd(x, y) \in Nat
BY SizeAssumption DEF SaturatingAdd

LEMMA SaturatingMonotone ==
    ASSUME NEW x \in Nat, NEW y \in Nat, x <= y, NEW z \in Nat
    PROVE  /\ SaturatingAdd(x, z) <= SaturatingAdd(y, z)
           /\ SaturatingAdd(z, x) <= SaturatingAdd(z, y)
           /\ SaturatingAdd(x, z) \in Nat /\ SaturatingAdd(z, x) \in Nat
BY SizeAssumption DEF SaturatingAdd

\* What settling a node does to the costs and the heap.
LEMMA SettleRelaxes ==
    ASSUME TypeOK, NEW f \in Cost, NEW n \in Nodes, Settle(f, n)
    PROVE  /\ \A m \in Nodes :
                 /\ g'[m] <= g[m]
                 /\ \/ g'[m] = g[m]
                    \/ <<SaturatingAdd(g'[m], H(m)), m>> \in heap'
           /\ \A e \in OpenRoads :
                 e.from = n /\ ~closed[e.to] /\ e.to # n
                    => g'[e.to] <= SaturatingAdd(g[n], e.len)
           /\ \A x \in heap : x[2] # n => x \in heap'
           /\ \A x \in heap' :
                 x \in heap \/ (x[2] \in Nodes /\ x[1] = SaturatingAdd(g'[x[2]], H(x[2])))
<1> DEFINE better == Improving(n)
           lowered == {e.to : e \in better}
           Via(m) == CHOOSE e \in better : e.to = m
<1>1. \A m \in lowered : m \in Nodes /\ Via(m) \in better /\ Via(m).to = m
    BY ImprovingEdge DEF Edges
<1>2. ASSUME NEW m \in lowered
      PROVE  /\ g'[m] = SaturatingAdd(g[n], Via(m).len)
             /\ SaturatingAdd(g[n], Via(m).len) < g[m]
    <2>1. g'[m] = SaturatingAdd(g[n], Via(m).len)
        BY <1>1 DEF Settle
    <2>2. SaturatingAdd(g[n], Via(m).len) < g[m]
        BY <1>1 DEF Improving
    <2> QED
        BY <2>1, <2>2
<1>3. \A m \in Nodes \ lowered : g'[m] = g[m]
    BY DEF Settle
<1>4. \A m \in Nodes : g[m] \in Nat /\ g'[m] \in Nat
    <2>1. TypeOK'
        BY SettleType
    <2> QED
        BY <2>1, SizeAssumption DEF TypeOK, Cost
<1>5. heap' = Popped(f, n)
                \cup {<<SaturatingAdd(g'[m], H(m)), m>> : m \in lowered}
    BY DEF Settle
<1>6. ASSUME NEW m \in Nodes
      PROVE  /\ g'[m] <= g[m]
             /\ g'[m] = g[m] \/ <<SaturatingAdd(g'[m], H(m)), m>> \in heap'
    <2>1. CASE m \in lowered
        <3> HIDE DEF lowered
        <3>1. <<SaturatingAdd(g'[m], H(m)), m>> \in heap'
            BY <1>5, <2>1
        <3>2. g'[m] < g[m]
            BY <1>2, <2>1
        <3> QED
            BY <1>4, <3>1, <3>2
    <2>2. CASE m \notin lowered
        BY <1>3, <1>4, <2>2
    <2> QED
        BY <2>1, <2>2
<1>7. ASSUME NEW e \in OpenRoads, e.from = n, ~closed[e.to], e.to # n
      PROVE  g'[e.to] <= SaturatingAdd(g[n], e.len)
    <2> DEFINE m == e.to
               Ways == {o \in query.edges : Relaxable(n, o) /\ o.to = m}
               Lens == {o.len : o \in Ways}
    <2>1. e \in Ways /\ m \in Nodes
        BY <1>7, OpenRoadType DEF Relaxable, UsableEdges, Usable, OpenRoads, TypeOK
    <2>2. \A o \in Ways : o.len \in Nat
        BY SizeAssumption DEF TypeOK, IsSearch, Edges, Cost
    <2>3. PICK o \in Ways : \A p \in Ways : o.len <= p.len
        <3>1. Lens \in SUBSET Nat /\ Lens # {}
            BY <2>1, <2>2
        <3> HIDE DEF Ways
        <3>2. \E c \in Lens : \A d \in Lens : c <= d
            <4> HIDE DEF Lens
            <4> QED
                BY <3>1, LeastNatural
        <3> QED
            BY <3>2
    <2>4. SaturatingAdd(g[n], o.len) <= SaturatingAdd(g[n], e.len)
        BY <1>4, <2>1, <2>2, <2>3, SaturatingMonotone
    <2>5. SaturatingAdd(g[n], o.len) \in Nat /\ SaturatingAdd(g[n], e.len) \in Nat
        BY <1>4, <2>1, <2>2, SizeAssumption DEF SaturatingAdd
    <2>6. CASE SaturatingAdd(g[n], o.len) < g[m]
        <3>1. o \in better
            BY <2>3, <2>6 DEF Improving
        <3>2. m \in lowered
            BY <2>3, <3>1
        <3>3. Via(m).len <= e.len /\ Via(m).len \in Nat
            <4>1. Via(m) \in better /\ Via(m).to = m
                BY <1>1, <3>2
            <4> HIDE DEF Via
            <4>2. Via(m) \in Ways
                BY <4>1 DEF Improving
            <4>3. \A p \in query.edges : Relaxable(n, p) /\ p.to = m => Via(m).len <= p.len
                BY <4>1 DEF Improving
            <4> QED
                BY <2>1, <2>2, <4>2, <4>3
        <3>4. SaturatingAdd(g[n], Via(m).len) <= SaturatingAdd(g[n], e.len)
            BY <1>4, <2>1, <2>2, <3>3, SaturatingMonotone
        <3> QED
            BY <1>2, <3>2, <3>4
    <2>7. CASE ~(SaturatingAdd(g[n], o.len) < g[m])
        <3>1. g'[m] <= g[m] /\ g[m] \in Nat /\ g'[m] \in Nat
            BY <1>4, <1>6, <2>1
        <3> HIDE DEF m
        <3>2. g'[m] <= SaturatingAdd(g[n], e.len)
            BY <2>4, <2>5, <2>7, <3>1
        <3> QED
            BY <3>2 DEF m
    <2> QED
        BY <2>6, <2>7
<1>8. \A x \in heap : x[2] # n => x \in heap'
    BY <1>5 DEF Popped
<1>9. ASSUME NEW x \in heap'
      PROVE  x \in heap \/ (x[2] \in Nodes /\ x[1] = SaturatingAdd(g'[x[2]], H(x[2])))
    BY <1>1, <1>5 DEF Popped
<1> QED
    BY <1>6, <1>7, <1>8, <1>9

\* Everything the optimality of the answer rests on.
BestPart == FrontInv /\ ClosedInv /\ DoneInv

LEMMA InitBest == Init => BestPart
<1> SUFFICES ASSUME Init PROVE BestPart
    OBVIOUS
<1>0. TypeOK /\ Infinity \in Nat
    BY InitType, SizeAssumption
<1>1. \A n \in Nodes : ~closed[n]
    BY DEF Init
<1>2. \A n \in Nodes : g[n] \in Nat /\ H(n) \in Nat
    BY <1>0, HeuristicType, SizeAssumption DEF TypeOK, Cost
<1>3. ASSUME NEW n \in Seeds PROVE n \in Nodes /\ g[n] <= PartialTo(query.a, n)
    <2>1. n \in Nodes
        BY <1>0 DEF TypeOK, IsSearch, Snaps, Seeds
    <2>2. g[n] = PartialTo(query.a, n)
        BY <2>1 DEF Init
    <2> QED
        BY <1>2, <2>1, <2>2
<1>4. \A e \in OpenRoads : e.from \in Nodes
    BY <1>0, OpenRoadType DEF TypeOK
<1>5. \A n \in Exits : n \in Nodes
    BY <1>0 DEF TypeOK, IsSearch, Snaps, Exits
<1>6. \A n \in Nodes : g[n] < Infinity => <<SaturatingAdd(g[n], H(n)), n>> \in heap
    BY <1>0 DEF Init
<1>7. ASSUME NEW x \in heap PROVE SaturatingAdd(g[x[2]], H(x[2])) <= x[1]
    <2>1. x[2] \in Nodes /\ x[1] = SaturatingAdd(g[x[2]], H(x[2]))
        BY <1>3 DEF Init
    <2>2. x[1] \in Nat
        BY <1>2, <2>1, SaturatingNat
    <2> QED
        BY <2>1, <2>2
<1>8. FrontInv
    BY <1>1, <1>3, <1>4, <1>5, <1>6, <1>7 DEF FrontInv
<1> QED
    BY <1>1, <1>8 DEF BestPart, ClosedInv, DoneInv, Init

LEMMA SettleBest ==
    ASSUME TypeOK, BestPart, NEW entry \in heap, Settle(entry[1], entry[2])
    PROVE  BestPart'
<1> DEFINE f == entry[1]
           n == entry[2]
<1>0. TypeOK' /\ f \in Cost /\ n \in Nodes /\ entry = <<f, n>> /\ IsSearch(query) /\ Infinity \in Nat
    <2>1. f \in Cost /\ n \in Nodes /\ entry = <<f, n>> /\ IsSearch(query)
        BY DEF TypeOK
    <2> QED
        BY <2>1, SettleType, SizeAssumption
<1>1. /\ query' = query /\ closed' = [closed EXCEPT ![n] = TRUE] /\ ~closed[n]
      /\ pc = "search" /\ pc' = "search" /\ Least(<<f, n>>)
    BY DEF Settle
<1>2. /\ g'[n] = g[n]
      /\ \A m \in Nodes : closed[m] => g'[m] = g[m]
    BY <1>0, SettleKeeps
<1>3. /\ \A m \in Nodes :
            /\ g'[m] <= g[m]
            /\ g'[m] = g[m] \/ <<SaturatingAdd(g'[m], H(m)), m>> \in heap'
      /\ \A e \in OpenRoads :
            e.from = n /\ ~closed[e.to] /\ e.to # n
               => g'[e.to] <= SaturatingAdd(g[n], e.len)
      /\ \A x \in heap : x[2] # n => x \in heap'
      /\ \A x \in heap' :
            x \in heap \/ (x[2] \in Nodes /\ x[1] = SaturatingAdd(g'[x[2]], H(x[2])))
    BY <1>0, SettleRelaxes
<1>4. /\ Dist' = Dist /\ OpenRoads' = OpenRoads /\ Seeds' = Seeds /\ Exits' = Exits
      /\ \A m : H(m)' = H(m) /\ PartialTo(query.a, m)' = PartialTo(query.a, m)
                /\ PartialTo(query.b, m)' = PartialTo(query.b, m)
    BY <1>1, SameQuery
<1>5. \A m \in Nodes : closed'[m] <=> closed[m] \/ m = n
    BY <1>0, <1>1 DEF TypeOK
<1>6. \A m \in Nodes : g[m] \in Nat /\ g'[m] \in Nat /\ H(m) \in Nat /\ Dist[m] \in Nat
    BY <1>0, HeuristicType, DistFacts, SizeAssumption DEF TypeOK, Cost, Tables
<1>7. \A m, k : SaturatingAdd(m, k)' = SaturatingAdd(m, k)
    BY DEF SaturatingAdd
<1>8. \A m \in Exits : m \in Nodes /\ PartialTo(query.b, m) \in Nat
    BY <1>0, PartialType, SizeAssumption DEF IsSearch, Snaps, Exits, Cost
<1>9. \A m \in Seeds : m \in Nodes /\ PartialTo(query.a, m) \in Nat
    BY <1>0, PartialType, SizeAssumption DEF IsSearch, Snaps, Seeds, Cost
<1> HIDE DEF f, n
<1>10. ASSUME NEW m \in Seeds PROVE g'[m] <= PartialTo(query.a, m)
    <2>1. g'[m] <= g[m] /\ g[m] <= PartialTo(query.a, m)
        BY <1>3, <1>9 DEF BestPart, FrontInv
    <2> QED
        BY <1>6, <1>9, <2>1
<1>11. ASSUME NEW e \in OpenRoads, closed'[e.from], ~closed'[e.to]
       PROVE  g'[e.to] <= SaturatingAdd(g'[e.from], e.len)
    <2>1. e.from \in Nodes /\ e.to \in Nodes /\ e.len \in Nat
        BY <1>0, OpenRoadType
    <2>2. ~closed[e.to] /\ e.to # n
        BY <1>5, <1>11, <2>1
    <2>3. CASE e.from = n
        BY <1>2, <1>3, <2>2, <2>3
    <2>4. CASE closed[e.from]
        <3>1. g[e.to] <= SaturatingAdd(g[e.from], e.len)
            BY <2>2, <2>4 DEF BestPart, FrontInv
        <3>2. g'[e.to] <= g[e.to] /\ g'[e.from] = g[e.from]
            BY <1>2, <1>3, <2>1, <2>4
        <3>3. SaturatingAdd(g[e.from], e.len) \in Nat
            BY <1>6, <2>1, SaturatingNat
        <3> QED
            BY <1>6, <2>1, <3>1, <3>2, <3>3
    <2> QED
        BY <1>5, <1>11, <2>1, <2>3, <2>4
<1>12. ASSUME NEW m \in Nodes, ~closed'[m], g'[m] < Infinity
       PROVE  <<SaturatingAdd(g'[m], H(m)), m>> \in heap'
    <2>1. ~closed[m] /\ m # n
        BY <1>5, <1>12
    <2>2. CASE g'[m] = g[m]
        <3>1. <<SaturatingAdd(g[m], H(m)), m>> \in heap
            BY <1>1, <1>12, <2>1, <2>2 DEF BestPart, FrontInv
        <3> QED
            BY <1>3, <2>1, <2>2, <3>1
    <2> QED
        BY <1>3, <2>2
<1>13. ASSUME NEW x \in heap', ~closed'[x[2]]
       PROVE  SaturatingAdd(g'[x[2]], H(x[2])) <= x[1]
    <2>1. x[2] \in Nodes /\ x[1] \in Nat
        BY <1>0, SizeAssumption DEF TypeOK, Cost
    <2>2. CASE x \in heap
        <3>1. SaturatingAdd(g[x[2]], H(x[2])) <= x[1]
            BY <1>5, <1>13, <2>1, <2>2 DEF BestPart, FrontInv
        <3>2. g'[x[2]] <= g[x[2]]
            BY <1>3, <2>1
        <3>3. SaturatingAdd(g'[x[2]], H(x[2])) <= SaturatingAdd(g[x[2]], H(x[2]))
            BY <1>6, <2>1, <3>2, SaturatingMonotone
        <3>4. SaturatingAdd(g'[x[2]], H(x[2])) \in Nat /\ SaturatingAdd(g[x[2]], H(x[2])) \in Nat
            BY <1>6, <2>1, SaturatingNat
        <3> QED
            BY <2>1, <3>1, <3>3, <3>4
    <2>3. CASE x[1] = SaturatingAdd(g'[x[2]], H(x[2]))
        BY <2>1, <2>3
    <2> QED
        BY <1>3, <2>2, <2>3
<1>14. Answer \in Nat /\ Answer' \in Nat /\ Answer <= Infinity
    BY <1>0, SizeAssumption DEF TypeOK, Answer, Cost
<1>15. Answer' <= Answer /\ (n \in Exits => Answer' <= SaturatingAdd(g[n], PartialTo(query.b, n)))
    <2> DEFINE total == SaturatingAdd(g[n], PartialTo(query.b, n))
    <2>1. CASE Completes(n)
        <3>1. n \in Exits /\ (best = None \/ total < Answer)
            BY <2>1 DEF Completes
        <3>2. total \in Nat /\ total <= Infinity
            BY <1>0, <1>6, <1>8, <3>1, SizeAssumption DEF SaturatingAdd
        <3>3. best' = [total |-> total, exit |-> n]
            BY <2>1 DEF Settle, n
        <3>4. best' # None => Answer' = total
            BY <3>3 DEF Answer
        <3> HIDE DEF total
        <3>6. best = None => Answer = Infinity
            BY DEF Answer
        <3>7. best' # None
            <4>1. total \in Cost
                BY <1>0, <3>2 DEF Cost
            <4> HIDE DEF total
            <4>2. [total |-> total, exit |-> n] \in [total : Cost, exit : Nodes]
                BY <1>0, <4>1 DEF n
            <4> QED
                BY <3>3, <4>2, NoneAssumption
        <3>8. Answer' <= Answer /\ Answer' <= total
            <4>1. Answer' = total /\ total <= Answer
                BY <1>14, <3>1, <3>2, <3>4, <3>6, <3>7
            <4> QED
                BY <3>2, <4>1
        <3> QED
            BY <3>8 DEF total
    <2>2. CASE ~Completes(n)
        <3>1. best' = best
            BY <2>2 DEF Settle, n
        <3>2. Answer' = Answer
            BY <3>1 DEF Answer
        <3>3. n \in Exits => ~(total < Answer)
            BY <2>2 DEF Completes
        <3>4. n \in Exits => total \in Nat
            BY <1>0, <1>6, <1>8, SizeAssumption DEF SaturatingAdd
        <3> HIDE DEF total
        <3>5. n \in Exits => Answer <= total
            BY <1>14, <3>3, <3>4
        <3> QED
            BY <1>14, <3>2, <3>5 DEF total
    <2> QED
        BY <2>1, <2>2
<1>16. ASSUME NEW m \in Exits, closed'[m]
       PROVE  Answer' <= SaturatingAdd(g'[m], PartialTo(query.b, m))
    <2>1. m \in Nodes /\ PartialTo(query.b, m) \in Nat
        BY <1>8
    <2>2. CASE m = n
        BY <1>2, <1>15, <2>2
    <2>3. CASE closed[m]
        <3>1. Answer <= SaturatingAdd(g[m], PartialTo(query.b, m)) /\ g'[m] = g[m]
            BY <1>2, <2>1, <2>3 DEF BestPart, FrontInv
        <3>2. SaturatingAdd(g[m], PartialTo(query.b, m)) \in Nat
            BY <1>6, <2>1, SaturatingNat
        <3> QED
            BY <1>14, <1>15, <3>1, <3>2
    <2> QED
        BY <1>5, <1>16, <2>1, <2>2, <2>3
<1>17. FrontInv'
    BY <1>4, <1>7, <1>10, <1>11, <1>12, <1>13, <1>16 DEF FrontInv
\* A node on the heap that promised less than the one settled would have been
\* popped before it.
<1>18. ASSUME Dist[n] + H(n) < Infinity PROVE g[n] <= Dist[n]
    <2>1. PICK m : OpenAt(m, Dist[n] + H(n))
        BY <1>0, <1>1, <1>18, FrontierReaches DEF BestPart
    <2>2. m \in Nodes /\ <<g[m] + H(m), m>> \in heap /\ g[m] + H(m) <= Dist[n] + H(n)
        BY <2>1 DEF OpenAt
    <2>3. f <= g[m] + H(m)
        <3>1. f < g[m] + H(m) \/ f = g[m] + H(m)
            BY <1>1, <2>2 DEF Least
        <3>2. f \in Nat /\ g[m] + H(m) \in Nat
            BY <1>0, <1>6, <2>2, SizeAssumption DEF Cost
        <3> QED
            BY <3>1, <3>2
    <2>4. SaturatingAdd(g[n], H(n)) <= f
        BY <1>1 DEF BestPart, FrontInv, f, n
    <2>5. /\ g[n] \in Nat /\ H(n) \in Nat /\ Dist[n] \in Nat /\ g[m] \in Nat /\ H(m) \in Nat
          /\ f \in Nat
        BY <1>0, <1>6, <2>2, SizeAssumption DEF Cost
    <2> QED
        BY <1>0, <1>18, <2>2, <2>3, <2>4, <2>5 DEF SaturatingAdd
<1>19. ClosedInv'
    <2> SUFFICES ASSUME NEW m \in Nodes, closed'[m], Dist[m] + H(m) < Infinity
                 PROVE  g'[m] <= Dist[m]
        BY <1>4 DEF ClosedInv
    <2>1. CASE m = n
        BY <1>2, <1>18, <2>1
    <2>2. CASE closed[m]
        BY <1>2, <2>2 DEF BestPart, ClosedInv
    <2> QED
        BY <1>5, <2>1, <2>2
<1> QED
    BY <1>1, <1>17, <1>19 DEF BestPart, DoneInv

\* No path is reported only without a completion.
NoPathInv == pc = "nopath" => best = None

LEMMA NextBest ==
    TypeOK /\ BestPart /\ NoPathInv /\ [Next]_vars => BestPart' /\ NoPathInv'
<1> SUFFICES ASSUME TypeOK, BestPart, NoPathInv, [Next]_vars
             PROVE  BestPart' /\ NoPathInv'
    OBVIOUS
<1>1. ASSUME NEW entry \in heap, Settle(entry[1], entry[2])
      PROVE  BestPart' /\ NoPathInv'
    BY <1>1, SettleBest DEF Settle, NoPathInv
\* The other steps leave the costs alone.
<1>2. ASSUME UNCHANGED <<query, g, closed, best>>, heap' \subseteq heap,
             pc' = "search" =>
                pc = "search" /\ \A x \in heap : ~closed[x[2]] => x \in heap'
      PROVE  FrontInv' /\ ClosedInv' /\ Answer' = Answer
             /\ Cheapest(Surcharge, EndSurcharge)' = Cheapest(Surcharge, EndSurcharge)
    <2>1. /\ Dist' = Dist /\ OpenRoads' = OpenRoads /\ Seeds' = Seeds /\ Exits' = Exits
          /\ Cheapest(Surcharge, EndSurcharge)' = Cheapest(Surcharge, EndSurcharge)
          /\ \A m : H(m)' = H(m) /\ PartialTo(query.a, m)' = PartialTo(query.a, m)
                    /\ PartialTo(query.b, m)' = PartialTo(query.b, m)
        BY <1>2, SameQuery
    <2>2. Answer' = Answer
        BY <1>2 DEF Answer
    <2>3. \A m, k : SaturatingAdd(m, k)' = SaturatingAdd(m, k)
        BY DEF SaturatingAdd
    <2>4. pc' = "search" =>
             \A n \in Nodes : ~closed[n] /\ g[n] < Infinity =>
                 <<SaturatingAdd(g[n], H(n)), n>> \in heap'
        BY <1>2 DEF BestPart, FrontInv
    <2>5. FrontInv'
        BY <1>2, <2>1, <2>2, <2>3, <2>4 DEF BestPart, FrontInv
    <2>6. ClosedInv'
        BY <1>2, <2>1 DEF BestPart, ClosedInv
    <2> QED
        BY <2>1, <2>2, <2>5, <2>6
<1>3. ASSUME NEW entry \in heap, StopEarly(entry[1], entry[2])
      PROVE  BestPart' /\ NoPathInv'
    <2>1. FrontInv' /\ ClosedInv' /\ Answer' = Answer /\ pc = "search" /\ pc' = "walk"
          /\ Cheapest(Surcharge, EndSurcharge)' = Cheapest(Surcharge, EndSurcharge)
        BY <1>2, <1>3 DEF StopEarly
    <2>2. ASSUME NEW x \in heap PROVE Answer <= x[1]
        <3>1. Answer <= entry[1] /\ (entry[1] < x[1] \/ entry[1] = x[1])
            BY <1>3 DEF StopEarly, Least
        <3>2. Answer \in Nat /\ entry[1] \in Nat /\ x[1] \in Nat
            BY SizeAssumption DEF TypeOK, Answer, Cost
        <3> QED
            BY <3>1, <3>2
    <2>3. Answer <= Cheapest(Surcharge, EndSurcharge)
        BY <2>1, <2>2, AnswerIsGood DEF BestPart
    <2> QED
        BY <2>1, <2>3 DEF BestPart, DoneInv, NoPathInv
<1>4. ASSUME NEW entry \in heap, SkipStale(entry[1], entry[2])
      PROVE  BestPart' /\ NoPathInv'
    <2>1. heap' \subseteq heap /\ \A x \in heap : ~closed[x[2]] => x \in heap'
        BY <1>4 DEF SkipStale, Popped
    <2>2. FrontInv' /\ ClosedInv' /\ pc = "search" /\ pc' = "search"
        BY <1>2, <1>4, <2>1 DEF SkipStale
    <2> QED
        BY <2>2 DEF BestPart, DoneInv, NoPathInv
<1>5. CASE Exhausted
    <2>1. FrontInv' /\ ClosedInv' /\ Answer' = Answer /\ pc = "search" /\ heap = {}
          /\ Cheapest(Surcharge, EndSurcharge)' = Cheapest(Surcharge, EndSurcharge)
        BY <1>2, <1>5 DEF Exhausted
    <2>2. Answer <= Cheapest(Surcharge, EndSurcharge)
        BY <2>1, AnswerIsGood DEF BestPart
    <2>3. NoPathInv'
        BY <1>5 DEF Exhausted, NoPathInv
    <2> QED
        BY <2>1, <2>2, <2>3 DEF BestPart, DoneInv
<1>6. ASSUME UNCHANGED <<query, g, closed, heap, best>>, pc = "walk", pc' \in {"walk", "done"}
      PROVE  BestPart' /\ NoPathInv'
    <2>1. FrontInv' /\ ClosedInv' /\ Answer' = Answer
          /\ Cheapest(Surcharge, EndSurcharge)' = Cheapest(Surcharge, EndSurcharge)
        BY <1>2, <1>6
    <2> QED
        BY <1>6, <2>1 DEF BestPart, DoneInv, NoPathInv
<1>7. CASE UNCHANGED vars
    <2>1. FrontInv' /\ ClosedInv' /\ Answer' = Answer /\ pc' = pc /\ best' = best
          /\ Cheapest(Surcharge, EndSurcharge)' = Cheapest(Surcharge, EndSurcharge)
        BY <1>2, <1>7 DEF vars
    <2> QED
        BY <2>1 DEF BestPart, DoneInv, NoPathInv
<1> QED
    BY <1>1, <1>3, <1>4, <1>5, <1>6, <1>7 DEF Next, WalkBack, Return

----------------------------------------------------------------------------
(* No route is cheaper than the cheapest *)

Unladen == [e \in query.edges |-> 0]
EndUnladen == [n \in Exits |-> 0]

\* The walk the path tells is one of those the comparison allows.
LEMMA PathIsWalk ==
    ASSUME RouteInv, pc = "done",
           NEW final, final = Walks(Unladen)[Cardinality(Nodes)]
    PROVE  /\ best # None /\ best.exit \in Exits /\ best.exit \in Nodes
           /\ final[best.exit] <= g[best.exit]
<1> USE DEF RouteInv
<1>1. PICK N \in Nat : N = Cardinality(Nodes)
    BY FS_CardinalityType, SizeAssumption
<1>2. PICK L \in Nat : L = Len(path)
    BY PathFacts
<1>3. L <= N
    BY <1>1, <1>2, WalkIsShort
<1>4. PICK w : w = Walks(Unladen)
    OBVIOUS
<1>5. AreWalks(w, Unladen, N) /\ IsSearch(query) /\ IsExtra(Unladen)
    BY <1>1, <1>4, WalksFacts DEF TypeOK, IsExtra, Unladen
<1>6. best # None /\ best.exit \in Exits /\ best.exit \in Nodes /\ closed[best.exit]
    BY DEF WalkInv, BestInv, TypeOK
<1> DEFINE stop == [i \in 0..L |-> IF i = L THEN best.exit ELSE path[i + 1].from]
<1>7. \A i \in 0..L : stop[i] \in Nodes
    <2>1. \A i \in 0..L : i # L => i + 1 \in 1..Len(path)
        BY <1>2
    <2> QED
        BY <1>6, <2>1, PathFacts
<1>8. ASSUME NEW i \in 1..L
      PROVE  /\ path[i] \in OpenRoads /\ path[i].to = stop[i] /\ path[i].from = stop[i - 1]
             /\ closed[stop[i - 1]] /\ g[stop[i]] = g[stop[i - 1]] + path[i].len
    <2>1. i \in DOMAIN path /\ i \in 0..L /\ i - 1 \in 0..L /\ i - 1 # L /\ (i - 1) + 1 = i
        BY <1>2, PathFacts
    <2>2. stop[i] = Stop(i) /\ stop[i - 1] = path[i].from
        BY <1>2, <2>1 DEF Stop
    <2>3. path[i].to = Stop(i) /\ path[i] = parent[Stop(i)] /\ path[i] # None
        BY <1>2, <2>1, PathFacts, NoneAssumption DEF WalkInv
    <2>4. Stop(i) \in Nodes
        BY <1>7, <2>1, <2>2
    <2> HIDE DEF stop
    <2> QED
        BY <2>2, <2>3, <2>4 DEF ParentsSound
<1>9. stop[0] = node
    <2>1. CASE L = 0
        BY <1>2, <2>1, PathFacts DEF WalkInv, TypeOK
    <2>2. CASE L # 0
        <3>1. path # <<>>
            BY <1>2, <2>2
        <3> QED
            BY <2>2, <3>1 DEF WalkInv
    <2> QED
        BY <2>1, <2>2
<1>10. stop[L] = best.exit
    OBVIOUS
<1> HIDE DEF stop
<1>11. node \in Nodes /\ node \in StartEnds /\ g[node] = PartialTo(query.a, node)
    <2>1. closed[node] /\ node \in Nodes
        <3>1. CASE L = 0
            BY <1>6, <1>9, <1>10, <3>1
        <3>2. CASE L # 0
            <4>1. 1 \in 1..L /\ 1 - 1 = 0 /\ 0 \in 0..L
                BY <3>2
            <4> QED
                BY <1>7, <1>8, <1>9, <4>1
        <3> QED
            BY <3>1, <3>2
    <2> QED
        BY <2>1 DEF WalkInv, ReachInv
<1>12. \A i \in 0..L : /\ g[stop[i]] \in Nat /\ g[stop[i]] <= Infinity
                       /\ w[i] \in Tables /\ w[i][stop[i]] \in Nat
    <2>1. \A n \in Nodes : g[n] \in Nat /\ g[n] <= Infinity
        BY SizeAssumption DEF TypeOK, Cost
    <2>2. \A i \in 0..L : i \in 0..N
        BY <1>3
    <2>3. \A i \in 0..L : w[i] \in Tables
        BY <1>5, <2>2 DEF AreWalks
    <2>4. \A i \in 0..L : w[i][stop[i]] \in Cost
        BY <1>7, <2>3 DEF Tables
    <2>5. Cost \subseteq Nat
        BY SizeAssumption DEF Cost
    <2>6. \A i \in 0..L : g[stop[i]] \in Nat /\ g[stop[i]] <= Infinity
        BY <1>7, <2>1
    <2>7. \A i \in 0..L : w[i][stop[i]] \in Nat
        BY <2>4, <2>5
    <2> QED
        BY <2>3, <2>6, <2>7
<1> DEFINE Good == {i \in 0..L : w[i][stop[i]] <= g[stop[i]]}
<1>13. 0 \in Good
    <2>1. w[0][stop[0]] = PartialTo(query.a, node)
        BY <1>5, <1>9, <1>11 DEF AreWalks, StartTable
    <2>2. 0 \in 0..L
        OBVIOUS
    <2> QED
        BY <1>9, <1>11, <1>12, <2>1, <2>2
<1>14. ASSUME NEW i \in Int, 0 <= i, i < L, i \in Good PROVE i + 1 \in Good
    <2>1. i + 1 \in 1..L /\ (i + 1) - 1 = i /\ i + 1 \in 1..N /\ i + 1 \in 0..L /\ i \in 0..L
        BY <1>3, <1>14
    <2>2. PICK e \in OpenRoads : e = path[i + 1]
        BY <1>8, <2>1
    <2>3. e.to = stop[i + 1] /\ e.from = stop[i] /\ g[stop[i + 1]] = g[stop[i]] + e.len
        BY <1>8, <2>1, <2>2
    <2>4. IsRelaxed(w[i], Unladen, w[i + 1])
        BY <1>5, <2>1 DEF AreWalks
    <2>5. w[i + 1][stop[i + 1]] <= SaturatingAdd(w[i][stop[i]], e.len + Unladen[e])
        BY <2>2, <2>3, <2>4 DEF IsRelaxed
    <2>6. e.len \in Nat /\ Unladen[e] = 0
        BY <1>5, OpenRoadType DEF Unladen
    <2>7. w[i][stop[i]] <= g[stop[i]]
        BY <1>14
    <2>8. SaturatingAdd(w[i][stop[i]], e.len + Unladen[e]) = w[i][stop[i]] + e.len
        BY <1>12, <2>1, <2>3, <2>6, <2>7, SizeAssumption DEF SaturatingAdd
    <2>9. w[i + 1][stop[i + 1]] <= g[stop[i + 1]]
        BY <1>12, <2>1, <2>3, <2>5, <2>6, <2>7, <2>8
    <2> QED
        BY <2>1, <2>9
<1>15. L \in 0..L
    OBVIOUS
<1>16. w[L][best.exit] <= g[best.exit]
    <2> HIDE DEF Good
    <2>1. \A i \in 0..L : i \in Good
        BY <1>13, <1>14, UpFrom
    <2> QED
        BY <1>10, <1>15, <2>1 DEF Good
<1>17. w[N][best.exit] <= w[L][best.exit]
    <2>1. L \in 0..N
        BY <1>3
    <2> QED
        BY <1>5, <1>6, <2>1, WalksShrink
<1>18. w[N][best.exit] \in Nat
    <2>1. N \in 0..N
        OBVIOUS
    <2>2. w[N][best.exit] \in Cost
        BY <1>5, <1>6, <2>1 DEF AreWalks, Tables
    <2> QED
        BY <2>2, SizeAssumption DEF Cost
<1>19. w[L][best.exit] \in Nat /\ g[best.exit] \in Nat
    BY <1>10, <1>12, <1>15
<1>20. w[N][best.exit] <= g[best.exit]
    BY <1>16, <1>17, <1>18, <1>19
<1> QED
    BY <1>1, <1>4, <1>6, <1>20

LEMMA AnswerIsNoBetter ==
    ASSUME RouteInv, NoPathInv, pc \in {"done", "nopath"}
    PROVE  Answer >= Cheapest(Unladen, EndUnladen)
<1> DEFINE low == Cheapest(Unladen, EndUnladen)
<1>1. IsSearch(query) /\ IsExtra(Unladen) /\ EndUnladen \in [Exits -> Nat]
    BY DEF RouteInv, TypeOK, IsExtra, Unladen, EndUnladen
<1>2. PICK final : final = Walks(Unladen)[Cardinality(Nodes)]
    OBVIOUS
<1>3. /\ final \in Tables
      /\ \E x \in Exits : low = SaturatingAdd(final[x], PartialTo(query.b, x) + EndUnladen[x])
      /\ \A x \in Exits : low <= SaturatingAdd(final[x], PartialTo(query.b, x) + EndUnladen[x])
    BY <1>1, <1>2, CheapestFacts
<1> HIDE DEF low
<1>4. ASSUME NEW x \in Exits
      PROVE  final[x] \in Nat /\ PartialTo(query.b, x) \in Nat /\ EndUnladen[x] = 0
             /\ PartialTo(query.b, x) + EndUnladen[x] = PartialTo(query.b, x)
    <2>1. x \in Nodes
        BY <1>1 DEF IsSearch, Snaps, Exits
    <2>2. final[x] \in Cost /\ PartialTo(query.b, x) \in Cost
        BY <1>1, <1>3, <2>1, PartialType DEF Tables
    <2> QED
        BY <2>2, SizeAssumption DEF Cost, EndUnladen
<1>5. low \in Nat /\ low <= Infinity
    <2>1. PICK n \in Exits : low = SaturatingAdd(final[n], PartialTo(query.b, n) + EndUnladen[n])
        BY <1>3
    <2>2. low = SaturatingAdd(final[n], PartialTo(query.b, n))
        BY <1>4, <2>1
    <2> QED
        BY <1>4, <2>2, SizeAssumption DEF SaturatingAdd
<1>6. CASE pc = "done"
    <2>1. /\ best # None /\ best.exit \in Exits /\ best.exit \in Nodes
          /\ final[best.exit] <= g[best.exit]
        BY <1>2, <1>6, PathIsWalk
    <2>2. best.total = SaturatingAdd(g[best.exit], PartialTo(query.b, best.exit))
        BY <2>1 DEF RouteInv, BestInv
    <2>3. low <= SaturatingAdd(final[best.exit], PartialTo(query.b, best.exit))
        BY <1>3, <1>4, <2>1
    <2>4. final[best.exit] \in Nat /\ PartialTo(query.b, best.exit) \in Nat /\ g[best.exit] \in Nat
        <3>1. g \in [Nodes -> Cost]
            BY DEF RouteInv, TypeOK
        <3>2. Cost \subseteq Nat
            BY SizeAssumption DEF Cost
        <3> QED
            BY <1>4, <2>1, <3>1, <3>2
    <2>5. SaturatingAdd(final[best.exit], PartialTo(query.b, best.exit)) <= best.total
        <3>1. SaturatingAdd(final[best.exit], PartialTo(query.b, best.exit))
                 <= SaturatingAdd(g[best.exit], PartialTo(query.b, best.exit))
            BY <2>1, <2>4, SaturatingMonotone
        <3> QED
            BY <2>2, <3>1
    <2>6. SaturatingAdd(final[best.exit], PartialTo(query.b, best.exit)) \in Nat /\ best.total \in Nat
        BY <2>2, <2>4, SaturatingNat
    <2>7. Answer = best.total
        BY <2>1 DEF Answer
    <2>8. low <= best.total
        BY <1>5, <2>3, <2>5, <2>6
    <2> QED
        BY <1>5, <2>6, <2>7, <2>8 DEF low
<1>7. CASE pc = "nopath"
    <2>1. Answer = Infinity
        BY <1>7 DEF NoPathInv, Answer
    <2> QED
        BY <1>5, <2>1, SizeAssumption DEF low
<1> QED
    BY <1>6, <1>7

\* The answer is never better than the cheapest route and never worse than it
\* by more than the rounding on that route's roads, for any graph, profile and
\* pair of positions; and none is reported only where no completion is a cost.
THEOREM AlwaysBestUpToRounding == Spec => []BestUpToRounding
<1> DEFINE Inv == RouteInv /\ BestPart /\ NoPathInv
<1>1. Init => Inv
    BY InitRoute, InitBest DEF Init, NoPathInv
<1>2. Inv /\ [Next]_vars => Inv'
    BY NextRoute, NextBest DEF RouteInv
<1>3. Inv => BestUpToRounding
    <2> SUFFICES ASSUME Inv, Finished PROVE BestUpToRounding
        BY DEF BestUpToRounding
    <2>1. Answer >= Cheapest(Unladen, EndUnladen)
        BY AnswerIsNoBetter DEF Finished
    <2>2. Answer <= Cheapest(Surcharge, EndSurcharge)
        BY DEF Finished, BestPart, DoneInv
    <2> QED
        BY <2>1, <2>2 DEF BestUpToRounding, Unladen, EndUnladen, Surcharge, EndSurcharge
<1> HIDE DEF Inv
<1> QED
    BY <1>1, <1>2, <1>3, PTL DEF Spec
=============================================================================
