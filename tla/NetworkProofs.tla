--------------------------- MODULE NetworkProofs ---------------------------
(***************************************************************************)
(* The network builder: first the degree-2 collapse, of any network and    *)
(* for any limit, then what Network makes of every extract.                *)
(*                                                                         *)
(* The collapse: no walk meets a node that a walk has passed, so that      *)
(* chains share no node; the finished edges follow the roads and are as    *)
(* long; and every segment of the network ends up in exactly one of them.  *)
(*                                                                         *)
(* The network: the frame is sound, the merged network is the road map as  *)
(* drawn, and the collapse of it keeps what is shown of any network.       *)
(* The invariant has four parts, one per stretch of the builder.  ReadInv  *)
(* gives the reader's tables as functions of the extract; FrameInv the     *)
(* list of the road nodes, the frame, and the redirect of the stitch;      *)
(* MergeInv says that the merged edges are what Connect makes of these;    *)
(* CollapseInv that the collapse is in its initial state until it begins   *)
(* and keeps its own invariant from then on.                               *)
(***************************************************************************)
EXTENDS Network, SequenceTheorems, Induction

\* What was collapsed, or still may be, had two edges of equal access.
InteriorInv ==
    /\ \A n \in Vertices : n \notin kept => Interior(n)
    /\ \A n \in consumed : Interior(n)

\* A passed node has no open neighbor, but for the walk's own next step.
ClosedInv ==
    \A x \in consumed : \A y \in Adj(x) :
        \/ y \in kept \cup consumed
        \/ walk # NoWalk /\ x = walk.prev /\ y = walk.cur

\* Every node of the chain is one of the nodes s.
Swallowed(c, s) == \A k \in DOMAIN c.interior : c.interior[k] \in s

NoRepeat(s) == \A k, l \in DOMAIN s : s[k] = s[l] => k = l

Apart(c, d) ==
    \A k \in DOMAIN c.interior, l \in DOMAIN d.interior :
        c.interior[k] # d.interior[l]

\* A chain between two of the nodes k, through nodes of s.
ChainOK(c, k, s) ==
    /\ c.a # c.b /\ {c.a, c.b} \subseteq k
    /\ Len(c.interior) \in 1..(MaxGeo - 1)
    /\ Swallowed(c, s) /\ NoRepeat(c.interior)

ChainsOK(cs, k, s) ==
    /\ \A i \in DOMAIN cs : ChainOK(cs[i], k, s)
    /\ \A i, j \in DOMAIN cs : i # j => Apart(cs[i], cs[j])

\* The nodes that were passed and did not stay.
Gone == consumed \ kept

\* The walk under way.
WalkInv ==
    walk # NoWalk =>
        /\ walk.prev \in kept \cup consumed
        /\ walk.chain.a \in kept
        /\ Len(walk.chain.interior) < MaxGeo
        /\ Swallowed(walk.chain, Gone) /\ NoRepeat(walk.chain.interior)
        /\ \A i \in DOMAIN chains : Apart(chains[i], walk.chain)

ChainsInv == ChainsOK(chains, kept, Gone)

Inv == TypeOK /\ InteriorInv /\ ClosedInv /\ WalkInv /\ ChainsInv

----------------------------------------------------------------------------
(* The network *)

LEMMA EdgeFacts ==
    ASSUME IsNetwork(merged), NEW s \in Nodes, NEW t \in Adj(s)
    PROVE  /\ t \in Nodes /\ s # t /\ s \in Adj(t) /\ t \in Vertices
           /\ Length(s, t) \in Nat /\ Access(s, t) \in Accesses
<1>1. /\ <<s, t>> \in DOMAIN merged /\ t \in Nodes
      /\ <<t, s>> \in DOMAIN merged /\ s # t
  BY DEF Adj, IsNetwork
<1>2. merged[<<s, t>>] \in [length : Nat \ {0}, access : Accesses]
  BY <1>1 DEF IsNetwork
<1> QED BY <1>1, <1>2 DEF Adj, Vertices, Length, Access

LEMMA VerticesAreNodes == IsNetwork(merged) => Vertices \subseteq Nodes
  BY DEF IsNetwork, Vertices

\* There is exactly one way on.
LEMMA OnwardFacts ==
    ASSUME Interior(walk.cur), walk.prev \in Adj(walk.cur)
    PROVE  /\ Onward \in Adj(walk.cur) /\ Onward # walk.prev
           /\ Adj(walk.cur) = {walk.prev, Onward}
<1>1. PICK s, t \in Nodes : s # t /\ Adj(walk.cur) = {s, t}
  BY DEF Interior
<1>2. \E x \in Adj(walk.cur) : x # walk.prev
  BY <1>1
<1>3. Onward \in Adj(walk.cur) /\ Onward # walk.prev
  BY <1>2 DEF Onward
<1> QED BY <1>1, <1>3

\* A node with an open neighbor was not passed by a walk, unless it is where
\* the walk under way comes from.
LEMMA OpenNeighbor ==
    ASSUME Inv, NEW x \in Nodes, NEW y \in Adj(x), Open(y),
           walk # NoWalk => x # walk.prev
    PROVE  x \notin consumed
  BY DEF Inv, ClosedInv, Open

----------------------------------------------------------------------------
(* Chains *)

LEMMA AddChain ==
    ASSUME NEW cs \in Seq(Chains), NEW c \in Chains
    PROVE  LET ds == cs \o <<c>>
           IN  /\ ds \in Seq(Chains) /\ Len(ds) = Len(cs) + 1
               /\ \A i \in DOMAIN ds :
                     \/ i \in DOMAIN cs /\ ds[i] = cs[i]
                     \/ i = Len(cs) + 1 /\ ds[i] = c
  OBVIOUS

LEMMA ReversedFacts ==
    ASSUME NEW s \in Seq(Nodes)
    PROVE  /\ Reversed(s) \in Seq(Nodes) /\ Len(Reversed(s)) = Len(s)
           /\ \A k \in DOMAIN s : Len(s) + 1 - k \in DOMAIN s
           /\ \A k \in DOMAIN Reversed(s) :
                 k \in 1..Len(s) /\ k \in DOMAIN s
                   /\ Reversed(s)[k] = s[Len(s) + 1 - k]
<1>1. DOMAIN s = 1..Len(s) /\ Len(s) \in Nat
  OBVIOUS
<1>2. \A k \in 1..Len(s) : Len(s) + 1 - k \in 1..Len(s)
  BY <1>1
<1>3. Reversed(s) = [k \in 1..Len(s) |-> s[Len(s) + 1 - k]]
  BY <1>1 DEF Reversed
<1>4. \A k \in 1..Len(s) : s[Len(s) + 1 - k] \in Nodes
  BY <1>1, <1>2
<1>5. Reversed(s) \in Seq(Nodes) /\ Len(Reversed(s)) = Len(s)
  BY <1>1, <1>3, <1>4
<1> QED BY <1>1, <1>2, <1>3, <1>5

\* Turning a chain round changes neither its nodes nor its length.
LEMMA CanonicalFacts ==
    ASSUME NEW c \in Chains
    PROVE  /\ Canonical(c) \in Chains
           /\ {Canonical(c).a, Canonical(c).b} = {c.a, c.b}
           /\ Len(Canonical(c).interior) = Len(c.interior)
           /\ NoRepeat(c.interior) => NoRepeat(Canonical(c).interior)
           /\ \A k \in DOMAIN Canonical(c).interior :
                 \E l \in DOMAIN c.interior :
                    Canonical(c).interior[k] = c.interior[l]
<1>1. CASE c.a > c.b
  <2>1. Canonical(c) = [a |-> c.b, b |-> c.a, length |-> c.length,
                        access |-> c.access, interior |-> Reversed(c.interior)]
    BY <1>1 DEF Canonical, Chains
  <2>2. c.interior \in Seq(Nodes)
    BY DEF Chains
  <2> DEFINE s == c.interior
  <2>3. NoRepeat(s) => NoRepeat(Reversed(s))
    <3> SUFFICES ASSUME NoRepeat(s),
                        NEW k \in DOMAIN Reversed(s), NEW l \in DOMAIN Reversed(s),
                        Reversed(s)[k] = Reversed(s)[l]
                 PROVE  k = l
      BY DEF NoRepeat
    <3>1. Len(s) + 1 - k = Len(s) + 1 - l
      BY <2>2, ReversedFacts DEF NoRepeat
    <3>2. k \in 1..Len(s) /\ l \in 1..Len(s)
      BY <2>2, ReversedFacts
    <3>3. Len(s) \in Nat
      BY <2>2
    <3> QED BY <3>1, <3>2, <3>3
  <2> QED BY <2>1, <2>2, <2>3, ReversedFacts DEF Chains
<1>2. CASE ~(c.a > c.b)
  BY <1>2 DEF Canonical
<1> QED BY <1>1, <1>2

\* A set of chains stays sound as nodes are kept and passed.
LEMMA Grow ==
    ASSUME NEW cs, NEW k, NEW k2, NEW s, NEW s2,
           k \subseteq k2, s \subseteq s2, ChainsOK(cs, k, s)
    PROVE  ChainsOK(cs, k2, s2)
  BY DEF ChainsOK, ChainOK, Swallowed

\* A sound chain apart from the others may join them.
LEMMA JoinChains ==
    ASSUME NEW cs \in Seq(Chains), NEW c \in Chains, NEW k, NEW s,
           ChainsOK(cs, k, s), ChainOK(c, k, s),
           \A i \in DOMAIN cs : Apart(cs[i], c)
    PROVE  cs \o <<c>> \in Seq(Chains) /\ ChainsOK(cs \o <<c>>, k, s)
<1> DEFINE ds == cs \o <<c>>
<1>1. /\ ds \in Seq(Chains)
      /\ \A i \in DOMAIN ds : \/ i \in DOMAIN cs /\ ds[i] = cs[i]
                              \/ i = Len(cs) + 1 /\ ds[i] = c
  BY AddChain
<1>2. \A i \in DOMAIN ds : ChainOK(ds[i], k, s)
  BY <1>1 DEF ChainsOK
<1>3. ASSUME NEW i \in DOMAIN ds, NEW j \in DOMAIN ds, i # j
      PROVE  Apart(ds[i], ds[j])
  <2>1. \A e, f : Apart(e, f) => Apart(f, e)
    BY DEF Apart
  <2> QED BY <1>1, <1>3, <2>1 DEF ChainsOK
<1> QED BY <1>1, <1>2, <1>3 DEF ChainsOK

----------------------------------------------------------------------------
(* A step of a walk *)

\* Where the walk under way is: no walk has passed its next node either.
LEMMA Ahead ==
    ASSUME Inv, walk # NoWalk
    PROVE  /\ walk.cur \in Nodes /\ walk.cur \notin kept /\ walk.cur \notin consumed
           /\ Interior(walk.cur)
           /\ Onward \in Nodes /\ Onward # walk.cur /\ walk.cur \in Adj(Onward)
           /\ Adj(walk.cur) = {walk.prev, Onward}
           /\ Length(walk.cur, Onward) \in Nat
           /\ Onward \notin kept => Open(Onward)
<1>1. /\ walk \in [chain : Chains, prev : Nodes, cur : Nodes]
      /\ Open(walk.cur) /\ walk.prev \in Adj(walk.cur) /\ IsNetwork(merged)
  BY DEF Inv, TypeOK
<1>2. walk.cur \in Nodes /\ walk.cur \notin kept /\ walk.cur \notin consumed
  BY <1>1 DEF Open
<1>3. walk.cur \in Vertices
  BY <1>1, <1>2, EdgeFacts
<1>4. Interior(walk.cur)
  BY <1>2, <1>3 DEF Inv, InteriorInv
<1>5. /\ Onward \in Adj(walk.cur) /\ Onward # walk.prev
      /\ Adj(walk.cur) = {walk.prev, Onward}
  BY <1>1, <1>4, OnwardFacts
<1>6. /\ Onward \in Nodes /\ Onward # walk.cur /\ walk.cur \in Adj(Onward)
      /\ Length(walk.cur, Onward) \in Nat
  BY <1>1, <1>2, <1>5, EdgeFacts
<1>7. Onward \notin kept => Open(Onward)
  BY <1>1, <1>5, <1>6, OpenNeighbor DEF Open
<1> QED BY <1>2, <1>4, <1>5, <1>6, <1>7

\* What passing cur does to the chain, and to those finished before.
LEMMA PassFacts ==
    ASSUME Inv, walk # NoWalk, Pass
    PROVE  /\ kept \subseteq kept' /\ kept' \subseteq kept \cup {walk.cur}
           /\ consumed' = consumed \cup {walk.cur}
           /\ Gone \subseteq Gone'
           /\ Passed \in Chains /\ Passed.a \in kept'
           /\ Len(Passed.interior) < MaxGeo
           /\ Swallowed(Passed, Gone') /\ NoRepeat(Passed.interior)
           /\ chains \o SplitOff \in Seq(Chains)
           /\ ChainsOK(chains \o SplitOff, kept', Gone')
           /\ \A i \in DOMAIN (chains \o SplitOff) :
                 Apart((chains \o SplitOff)[i], Passed)
<1> DEFINE w == walk.chain
<1>1. /\ walk.cur \in Nodes /\ walk.cur \notin kept /\ walk.cur \notin consumed
  BY Ahead
<1>2. /\ w \in Chains /\ w.a \in kept /\ chains \in Seq(Chains)
      /\ Len(w.interior) < MaxGeo /\ Swallowed(w, Gone) /\ NoRepeat(w.interior)
      /\ \A i \in DOMAIN chains : Apart(chains[i], w)
  BY DEF Inv, TypeOK, WalkInv
<1>3. w.interior \in Seq(Nodes) /\ Len(w.interior) \in Nat
  BY <1>2 DEF Chains
<1>4. MaxGeo \in Nat /\ MaxGeo >= 2
  BY NetworkAssumption
<1>5. /\ kept \subseteq kept' /\ kept' \subseteq kept \cup {walk.cur}
      /\ consumed' = consumed \cup {walk.cur} /\ Gone \subseteq Gone'
  BY <1>1 DEF Pass, Gone
<1>6. ChainsOK(chains, kept', Gone')
  BY <1>5, Grow DEF Inv, ChainsInv
<1>7. CASE Splits
  <2> DEFINE c == [w EXCEPT !.b = walk.cur]
  <2>1. /\ Passed = [a |-> walk.cur, b |-> walk.cur, length |-> 0,
                      access |-> w.access, interior |-> <<>>]
        /\ SplitOff = <<c>> /\ walk.cur \in kept'
    BY <1>7 DEF Passed, SplitOff, Pass
  <2>2. /\ c \in Chains /\ c.a = w.a /\ c.b = walk.cur
        /\ c.interior = w.interior
    BY <1>1, <1>2 DEF Chains
  <2>3. Len(w.interior) \in 1..(MaxGeo - 1)
    BY <1>2, <1>3, <1>4, <1>7 DEF Splits
  <2>4. Swallowed(c, Gone')
    BY <1>2, <1>5, <2>2 DEF Swallowed
  <2>5. ChainOK(c, kept', Gone')
    BY <1>1, <1>2, <1>5, <2>1, <2>2, <2>3, <2>4 DEF ChainOK
  <2>6. \A i \in DOMAIN chains : Apart(chains[i], c)
    BY <1>2, <2>2 DEF Apart
  <2>7. chains \o <<c>> \in Seq(Chains) /\ ChainsOK(chains \o <<c>>, kept', Gone')
    BY <1>2, <1>6, <2>2, <2>5, <2>6, JoinChains
  <2>8. Passed \in Chains /\ Passed.a \in kept' /\ Passed.interior = <<>>
    BY <1>1, <1>2, <2>1 DEF Chains
  <2>9. /\ Len(Passed.interior) < MaxGeo
        /\ Swallowed(Passed, Gone') /\ NoRepeat(Passed.interior)
        /\ \A d : Apart(d, Passed)
    BY <1>4, <2>8 DEF Swallowed, NoRepeat, Apart
  <2> QED BY <1>5, <2>1, <2>7, <2>8, <2>9
<1>8. CASE ~Splits
  <2> DEFINE p == Append(w.interior, walk.cur)
  <2>1. /\ Passed = [w EXCEPT !.interior = p] /\ SplitOff = <<>>
        /\ walk.cur \in Gone'
    BY <1>1, <1>8 DEF Passed, SplitOff, Pass, Gone
  <2>2. /\ p \in Seq(Nodes) /\ Len(p) = Len(w.interior) + 1
        /\ \A k \in DOMAIN p :
              \/ k \in DOMAIN w.interior /\ p[k] = w.interior[k]
              \/ k = Len(w.interior) + 1 /\ p[k] = walk.cur
    BY <1>1, <1>3
  <2>3. Passed \in Chains /\ Passed.a = w.a /\ Passed.interior = p
    BY <1>2, <2>1, <2>2 DEF Chains
  <2>4. Len(p) < MaxGeo
    BY <1>3, <1>4, <1>8, <2>2 DEF Splits
  <2>5. walk.cur \notin Gone
    BY <1>1 DEF Gone
  <2>6. Swallowed(Passed, Gone')
    BY <1>2, <1>5, <2>1, <2>2, <2>3 DEF Swallowed
  <2>7. NoRepeat(p)
    BY <1>2, <2>2, <2>5 DEF Swallowed, NoRepeat
  <2>8. \A i \in DOMAIN chains : Apart(chains[i], Passed)
    <3>1. \A i \in DOMAIN chains : Swallowed(chains[i], Gone)
      BY DEF Inv, ChainsInv, ChainsOK, ChainOK
    <3> QED BY <1>2, <2>2, <2>3, <2>5, <3>1 DEF Swallowed, Apart
  <2>9. chains \o SplitOff = chains
    BY <1>2, <2>1
  <2> QED BY <1>2, <1>5, <1>6, <2>3, <2>4, <2>6, <2>7, <2>8, <2>9
<1> QED BY <1>7, <1>8

----------------------------------------------------------------------------
(* The steps *)

\* A walk that begins at an open neighbor of a kept node.
LEMMA BeginFacts ==
    ASSUME IsNetwork(merged), NEW a \in Nodes, NEW first \in Adj(a)
    PROVE  /\ Begin(a, first) \in [chain : Chains, prev : Nodes, cur : Nodes]
           /\ Begin(a, first) # NoWalk
           /\ Begin(a, first).prev = a /\ Begin(a, first).cur = first
           /\ Begin(a, first).chain.a = a
           /\ Begin(a, first).chain.interior = <<>>
<1> DEFINE c == [a |-> a, b |-> a, length |-> Length(a, first),
                 access |-> Access(a, first), interior |-> <<>>]
<1>1. c \in Chains
  BY EdgeFacts DEF Chains
<1>2. Begin(a, first) = [chain |-> c, prev |-> a, cur |-> first] /\ first \in Nodes
  BY EdgeFacts DEF Begin
<1>3. c.a = a /\ c.interior = <<>>
  OBVIOUS
<1> HIDE DEF c
<1>4. Begin(a, first) \in [chain : Chains, prev : Nodes, cur : Nodes]
  BY <1>1, <1>2
<1> QED BY <1>2, <1>3, <1>4, WalkAssumption

LEMMA InitInv == Init => Inv
<1> SUFFICES ASSUME Init PROVE Inv
  OBVIOUS
<1>1. IsNetwork(merged)
  BY DEF Init
<1>2. TypeOK
  BY <1>1, VerticesAreNodes DEF Init, TypeOK
<1>3. InteriorInv /\ ClosedInv /\ WalkInv /\ ChainsInv
  BY DEF Init, InteriorInv, ClosedInv, WalkInv, ChainsInv, ChainsOK
<1> QED BY <1>2, <1>3 DEF Inv

\* Passing cur leaves no open neighbor behind but the walk's next node.
LEMMA PassCloses ==
    ASSUME Inv, walk # NoWalk, Pass, merged' = merged,
           \/ Onward \in kept
           \/ walk' # NoWalk /\ walk'.prev = walk.cur /\ walk'.cur = Onward
    PROVE  InteriorInv' /\ ClosedInv'
<1>1. /\ Interior(walk.cur) /\ Adj(walk.cur) = {walk.prev, Onward}
      /\ walk.prev \in kept \cup consumed
  BY Ahead DEF Inv, WalkInv
<1>2. kept \subseteq kept' /\ consumed' = consumed \cup {walk.cur}
  BY PassFacts
<1>3. \A n : Interior(n)' <=> Interior(n)
  BY DEF Interior, Adj, Access
<1>4. Vertices' = Vertices /\ \A n : Adj(n)' = Adj(n)
  BY DEF Vertices, Adj
<1>5. InteriorInv'
  BY <1>1, <1>2, <1>3, <1>4 DEF Inv, InteriorInv
<1>6. ASSUME NEW x \in consumed', NEW y \in Adj(x)
      PROVE  \/ y \in kept' \cup consumed'
             \/ walk' # NoWalk /\ x = walk'.prev /\ y = walk'.cur
  <2>1. CASE x = walk.cur
    BY <1>1, <1>2, <1>6, <2>1
  <2>2. CASE x # walk.cur
    BY <1>2, <1>6, <2>2 DEF Inv, ClosedInv
  <2> QED BY <2>1, <2>2
<1>7. ClosedInv'
  BY <1>4, <1>6 DEF ClosedInv
<1> QED BY <1>5, <1>7

LEMMA WalkOnInv == Inv /\ WalkOn => Inv'
<1> SUFFICES ASSUME Inv, WalkOn PROVE Inv'
  OBVIOUS
<1>1. /\ walk # NoWalk /\ Onward \notin kept /\ Pass
      /\ chains' = chains \o SplitOff /\ merged' = merged
  BY DEF WalkOn
<1> DEFINE c == [Passed EXCEPT !.length = @ + Length(walk.cur, Onward)]
<1>2. walk' = [chain |-> c, prev |-> walk.cur, cur |-> Onward]
  BY DEF WalkOn
<1>3. /\ walk.cur \in Nodes /\ Onward \in Nodes /\ Onward # walk.cur
      /\ walk.cur \in Adj(Onward) /\ Length(walk.cur, Onward) \in Nat
      /\ Onward \notin kept /\ Onward \notin consumed
  BY <1>1, Ahead DEF Open
<1>4. PICK p : p = Passed
  OBVIOUS
<1>5. /\ c \in Chains /\ c.a = p.a /\ c.interior = p.interior
  <2>1. p \in Chains
    BY <1>1, <1>4, PassFacts
  <2>2. c = [p EXCEPT !.length = @ + Length(walk.cur, Onward)]
    BY <1>4
  <2> HIDE DEF c
  <2> QED BY <1>3, <2>1, <2>2 DEF Chains
<1>6. /\ walk' \in [chain : Chains, prev : Nodes, cur : Nodes]
      /\ walk' # NoWalk /\ walk'.chain = c
      /\ walk'.prev = walk.cur /\ walk'.cur = Onward
  BY <1>2, <1>3, <1>5, WalkAssumption
<1>7. /\ kept \subseteq kept' /\ kept' \subseteq kept \cup {walk.cur}
      /\ consumed' = consumed \cup {walk.cur}
  BY <1>1, PassFacts
<1>8. Open(walk.cur)' /\ (walk.prev \in Adj(walk.cur))'
  BY <1>1, <1>3, <1>6, <1>7 DEF Open, Adj
<1>9. TypeOK'
  <2>1. chains' \in Seq(Chains)
    BY <1>1, PassFacts
  <2>2. /\ IsNetwork(merged)' /\ kept' \subseteq Nodes /\ consumed' \subseteq Nodes
        /\ (dropped \in Seq(Chains))' /\ scan' \in Nat
        /\ phase' \in {"anchored", "rings", "done"}
    BY <1>1, <1>3, <1>7 DEF WalkOn, Inv, TypeOK, IsNetwork
  <2> QED BY <1>6, <1>8, <2>1, <2>2 DEF TypeOK
<1>10. InteriorInv' /\ ClosedInv'
  BY <1>1, <1>6, PassCloses
<1>11. ChainsInv'
  BY <1>1, PassFacts DEF ChainsInv
<1>12. WalkInv'
  <2>1. /\ p.a \in kept' /\ Len(p.interior) < MaxGeo
        /\ Swallowed(p, Gone') /\ NoRepeat(p.interior)
        /\ \A i \in DOMAIN chains' : Apart(chains'[i], p)
    BY <1>1, <1>4, PassFacts
  <2>2. /\ Swallowed(c, Gone') /\ \A i \in DOMAIN chains' : Apart(chains'[i], c)
    BY <1>5, <2>1 DEF Swallowed, Apart
  <2> QED BY <1>5, <1>6, <1>7, <2>1, <2>2 DEF WalkInv
<1> QED BY <1>9, <1>10, <1>11, <1>12 DEF Inv

LEMMA WalkEndsInv == Inv /\ WalkEnds => Inv'
<1> SUFFICES ASSUME Inv, WalkEnds PROVE Inv'
  OBVIOUS
<1> DEFINE c == [Passed EXCEPT !.length = @ + Length(walk.cur, Onward), !.b = Onward]
           cs == chains \o SplitOff
<1>1. /\ walk # NoWalk /\ Onward \in kept /\ Pass /\ merged' = merged
      /\ walk' = NoWalk /\ UNCHANGED <<phase, scan>>
      /\ dropped' = IF c.a = c.b /\ c.interior # <<>>
                    THEN Append(dropped, c) ELSE dropped
      /\ chains' = cs \o (IF c.a = c.b \/ c.interior = <<>> THEN <<>>
                          ELSE <<Canonical(c)>>)
  BY DEF WalkEnds
<1>2. /\ walk.cur \in Nodes /\ Onward \in Nodes /\ Length(walk.cur, Onward) \in Nat
  BY <1>1, Ahead
<1>3. PICK p : p = Passed
  OBVIOUS
<1>4. /\ kept \subseteq kept' /\ kept' \subseteq kept \cup {walk.cur}
      /\ consumed' = consumed \cup {walk.cur}
      /\ p \in Chains /\ p.a \in kept' /\ Len(p.interior) < MaxGeo
      /\ Swallowed(p, Gone') /\ NoRepeat(p.interior)
      /\ cs \in Seq(Chains) /\ ChainsOK(cs, kept', Gone')
      /\ \A i \in DOMAIN cs : Apart(cs[i], p)
  BY <1>1, <1>3, PassFacts
<1>5. /\ c \in Chains /\ c.a = p.a /\ c.b = Onward /\ c.interior = p.interior
  <2>1. c = [p EXCEPT !.length = @ + Length(walk.cur, Onward), !.b = Onward]
    BY <1>3
  <2> HIDE DEF c
  <2> DEFINE l == Length(walk.cur, Onward)
             n == Onward
  <2>2. n \in Nodes /\ l \in Nat
    BY <1>2
  <2>3. c = [p EXCEPT !.length = @ + l, !.b = n]
    BY <2>1
  <2> HIDE DEF l, n
  <2>4. c = [a |-> p.a, b |-> n, length |-> p.length + l, access |-> p.access,
             interior |-> p.interior]
    BY <1>4, <2>3 DEF Chains
  <2>5. c \in Chains /\ c.a = p.a /\ c.b = n /\ c.interior = p.interior
    BY <1>4, <2>2, <2>4 DEF Chains
  <2> QED BY <2>5 DEF n
<1> HIDE DEF c, cs
<1>6. chains' \in Seq(Chains) /\ ChainsInv'
  <2>1. CASE c.a = c.b \/ c.interior = <<>>
    <3>1. chains' = cs
      BY <1>1, <1>4, <2>1
    <3> QED BY <1>4, <3>1 DEF ChainsInv
  <2>2. CASE ~(c.a = c.b \/ c.interior = <<>>)
    <3> DEFINE d == Canonical(c)
    <3>1. chains' = cs \o <<d>>
      BY <1>1, <2>2
    <3>2. /\ d \in Chains /\ {d.a, d.b} = {c.a, c.b}
          /\ Len(d.interior) = Len(c.interior)
          /\ NoRepeat(c.interior) => NoRepeat(d.interior)
          /\ \A k \in DOMAIN d.interior :
                \E l \in DOMAIN c.interior : d.interior[k] = c.interior[l]
      BY <1>5, CanonicalFacts
    <3> HIDE DEF d
    <3>3. Len(c.interior) \in Nat /\ Len(c.interior) # 0
      <4>1. c.interior \in Seq(Nodes)
        BY <1>5 DEF Chains
      <4> QED BY <2>2, <4>1
    <3>4. Len(d.interior) \in 1..(MaxGeo - 1)
      BY <1>4, <1>5, <3>2, <3>3, NetworkAssumption
    <3>5. Swallowed(d, Gone')
      BY <1>4, <1>5, <3>2 DEF Swallowed
    <3>6. d.a # d.b /\ {d.a, d.b} \subseteq kept'
      BY <1>1, <1>4, <1>5, <2>2, <3>2
    <3>7. ChainOK(d, kept', Gone')
      BY <1>4, <1>5, <3>2, <3>4, <3>5, <3>6 DEF ChainOK
    <3>8. \A i \in DOMAIN cs : Apart(cs[i], d)
      BY <1>4, <1>5, <3>2 DEF Apart
    <3> QED BY <1>4, <3>1, <3>2, <3>7, <3>8, JoinChains DEF ChainsInv
  <2> QED BY <2>1, <2>2
<1>7. TypeOK'
  <2>1. dropped' \in Seq(Chains)
    BY <1>1, <1>5 DEF Inv, TypeOK
  <2> QED BY <1>1, <1>2, <1>4, <1>6, <2>1 DEF Inv, TypeOK, IsNetwork
<1>8. InteriorInv' /\ ClosedInv'
  BY <1>1, PassCloses
<1>9. WalkInv'
  BY <1>1 DEF WalkInv
<1> QED BY <1>6, <1>7, <1>8, <1>9 DEF Inv

\* A walk begins at a kept node; no walk was under way.
LEMMA BeginInv ==
    ASSUME Inv, walk = NoWalk, NEW a \in kept', NEW first \in Adj(a),
           a \in Nodes, first \notin kept', first \notin consumed,
           walk' = Begin(a, first),
           kept \subseteq kept', kept' \subseteq Nodes, Gone \subseteq Gone',
           UNCHANGED <<merged, consumed, chains, dropped, phase>>, scan' \in Nat
    PROVE  Inv'
<1>1. IsNetwork(merged) /\ first \in Nodes /\ a \in Adj(first)
  BY EdgeFacts DEF Inv, TypeOK
<1>2. /\ walk' \in [chain : Chains, prev : Nodes, cur : Nodes] /\ walk' # NoWalk
      /\ walk'.prev = a /\ walk'.cur = first
      /\ walk'.chain.a = a /\ walk'.chain.interior = <<>>
  BY <1>1, BeginFacts
<1>3. Vertices' = Vertices /\ \A n : Adj(n)' = Adj(n) /\ Interior(n)' = Interior(n)
  BY DEF Vertices, Interior, Adj, Access
<1>4. TypeOK'
  <2>1. Open(walk.cur)' /\ (walk.prev \in Adj(walk.cur))'
    BY <1>1, <1>2 DEF Open, Adj
  <2> QED BY <1>1, <1>2, <2>1 DEF Inv, TypeOK, IsNetwork
<1>5. InteriorInv'
  BY <1>3 DEF Inv, InteriorInv
<1>6. ClosedInv'
  BY <1>3 DEF Inv, ClosedInv
<1>7. ChainsInv'
  BY Grow DEF Inv, ChainsInv
<1>8. WalkInv'
  BY <1>2, NetworkAssumption DEF WalkInv, Swallowed, NoRepeat, Apart
<1> QED BY <1>4, <1>5, <1>6, <1>7, <1>8 DEF Inv

LEMMA AnchorInv ==
    ASSUME Inv, NEW s \in Nodes, NEW t \in Nodes, Anchor(s, t)
    PROVE  Inv'
<1>1. /\ s \in kept /\ t \notin kept /\ t \notin consumed /\ t \in Adj(s)
  BY DEF Anchor, Enters, Open, Adj
<1>2. Rank(s, t) \in Nat
  BY NetworkAssumption DEF Rank, Nodes
<1>3. Gone' = Gone
  BY DEF Anchor, Gone
<1> QED BY <1>1, <1>2, <1>3, BeginInv DEF Anchor, Inv, TypeOK

\* A step that only moves the phase or the scan on, or keeps more nodes.
LEMMA NoWalkInv ==
    ASSUME Inv, walk = NoWalk, walk' = NoWalk,
           kept \subseteq kept', kept' \subseteq Nodes, Gone \subseteq Gone',
           UNCHANGED <<merged, consumed, chains, dropped>>,
           phase' \in {"anchored", "rings", "done"}, scan' \in Nat
    PROVE  Inv'
<1>1. Vertices' = Vertices /\ \A n : Adj(n)' = Adj(n) /\ Interior(n)' = Interior(n)
  BY DEF Vertices, Interior, Adj, Access
<1>2. TypeOK'
  BY DEF Inv, TypeOK, IsNetwork
<1>3. InteriorInv'
  BY <1>1 DEF Inv, InteriorInv
<1>4. ClosedInv'
  BY <1>1 DEF Inv, ClosedInv
<1>5. ChainsInv'
  BY Grow DEF Inv, ChainsInv
<1>6. WalkInv'
  BY DEF WalkInv
<1> QED BY <1>2, <1>3, <1>4, <1>5, <1>6 DEF Inv

LEMMA RingInv ==
    ASSUME Inv, NEW start \in Vertices, Ring(start)
    PROVE  Inv'
<1>1. /\ walk = NoWalk /\ start \notin kept /\ start \notin consumed
      /\ UNCHANGED <<merged, consumed, chains, dropped, phase>>
      /\ IsNetwork(merged) /\ kept \subseteq Nodes
  BY DEF Ring, Open, Inv, TypeOK
<1>2. PICK low \in Adj(start), high \in Adj(start) :
        /\ low < high
        /\ kept' = kept \cup {start, low}
        /\ walk' = IF Open(high) THEN Begin(start, high) ELSE NoWalk
  BY DEF Ring, RingKept
<1>3. start \in Nodes
  BY <1>1, VerticesAreNodes
<1>4. /\ low \in Nodes /\ high \in Nodes /\ start # high
      /\ start \in Adj(low)
  BY <1>1, <1>3, EdgeFacts
<1>5. low # high
  BY <1>2, <1>4 DEF Nodes
<1>6. low \notin Gone
  BY <1>1, <1>4, OpenNeighbor DEF Open, Gone
<1>7. kept \subseteq kept' /\ kept' \subseteq Nodes /\ Gone \subseteq Gone'
  BY <1>1, <1>2, <1>3, <1>4, <1>6 DEF Gone
<1>8. scan' \in Nat /\ phase' \in {"anchored", "rings", "done"}
  BY <1>3 DEF Ring, Nodes, Inv, TypeOK
<1>9. CASE Open(high)
  <2>1. start \in kept' /\ high \notin kept' /\ high \notin consumed
    BY <1>2, <1>4, <1>5, <1>9 DEF Open
  <2> QED BY <1>1, <1>2, <1>3, <1>7, <1>8, <1>9, <2>1, BeginInv
<1>10. CASE ~Open(high)
  BY <1>1, <1>2, <1>7, <1>8, <1>10, NoWalkInv
<1> QED BY <1>9, <1>10

LEMMA StepInv == Inv /\ [Next]_vars => Inv'
<1> SUFFICES ASSUME Inv, [Next]_vars PROVE Inv'
  OBVIOUS
<1>1. ASSUME NEW s \in Nodes, NEW t \in Nodes, Anchor(s, t) PROVE Inv'
  BY <1>1, AnchorInv
<1>2. CASE AnchorsDone
  BY <1>2, NoWalkInv DEF AnchorsDone, Inv, TypeOK, Gone
<1>3. ASSUME NEW n \in Vertices, Ring(n) PROVE Inv'
  BY <1>3, RingInv
<1>4. CASE WalkOn
  BY <1>4, WalkOnInv
<1>5. CASE WalkEnds
  BY <1>5, WalkEndsInv
<1>6. CASE Emit
  BY <1>6, NoWalkInv DEF Emit, Inv, TypeOK, Gone
<1>7. CASE UNCHANGED vars
  <2>1. TypeOK'
    BY <1>7 DEF vars, Inv, TypeOK, IsNetwork, Open, Adj
  <2>2. InteriorInv'
    <3>1. Vertices' = Vertices /\ \A n : Interior(n)' = Interior(n)
      BY <1>7 DEF vars, Vertices, Interior, Adj, Access
    <3> QED BY <1>7, <3>1 DEF vars, Inv, InteriorInv
  <2>3. ClosedInv' /\ WalkInv' /\ ChainsInv'
    BY <1>7 DEF vars, Inv, ClosedInv, WalkInv, ChainsInv, Gone, Adj
  <2> QED BY <2>1, <2>2, <2>3 DEF Inv
<1> QED BY <1>1, <1>2, <1>3, <1>4, <1>5, <1>6, <1>7 DEF Next, Done

----------------------------------------------------------------------------
(* Roads *)

\* The lengths of the segments of p, in a network m.
Hops(m, p) == [i \in 2..Len(p) |-> m[<<p[i - 1], p[i]>>].length]

\* p follows segments of m of one access without turning back, and is as long
\* as they are together.
Road(m, p, access, length) ==
    /\ p \in Seq(Nodes) /\ Len(p) >= 2
    /\ \A i \in 2..Len(p) :
          <<p[i - 1], p[i]>> \in DOMAIN m /\ m[<<p[i - 1], p[i]>>].access = access
    /\ \A i \in 3..Len(p) : p[i - 2] # p[i]
    /\ \E s : IsSum(s, Hops(m, p), 1, Len(p)) /\ s[Len(p)] = length

LEMMA SegmentFacts ==
    ASSUME NEW m, IsNetwork(m), NEW s, NEW t, <<s, t>> \in DOMAIN m
    PROVE  /\ s \in Nodes /\ t \in Nodes /\ s # t
           /\ <<t, s>> \in DOMAIN m /\ m[<<t, s>>] = m[<<s, t>>]
           /\ m[<<s, t>>].length \in Nat /\ m[<<s, t>>].access \in Accesses
<1>1. PICK e \in DOMAIN m : e = <<s, t>>
  OBVIOUS
<1>2. e \in Nodes \X Nodes /\ m[e] \in [length : Nat \ {0}, access : Accesses]
  BY DEF IsNetwork
<1>3. e[1] # e[2] /\ <<e[2], e[1]>> \in DOMAIN m /\ m[<<e[2], e[1]>>] = m[e]
  BY DEF IsNetwork
<1> QED BY <1>1, <1>2, <1>3

\* A sequence between two ends.
LEMMA Between ==
    ASSUME NEW a \in Nodes, NEW s \in Seq(Nodes), NEW b \in Nodes
    PROVE  LET t == <<a>> \o s \o <<b>>
           IN  /\ t \in Seq(Nodes) /\ Len(t) = Len(s) + 2 /\ Len(s) \in Nat
               /\ t[1] = a /\ t[Len(s) + 2] = b
               /\ \A i \in 1..Len(s) : t[i + 1] = s[i] /\ s[i] \in Nodes
  OBVIOUS

LEMMA SameSequence ==
    ASSUME NEW s \in Seq(Nodes), NEW t \in Seq(Nodes), Len(s) = Len(t),
           \A i \in 1..Len(s) : s[i] = t[i]
    PROVE  s = t
  OBVIOUS

LEMMA NothingBetween ==
    ASSUME NEW a \in Nodes, NEW b \in Nodes
    PROVE  <<a>> \o <<>> \o <<b>> = <<a, b>>
<1> DEFINE u == <<a>> \o <<>>
<1>1. <<a>> \in Seq(Nodes) /\ <<b>> \in Seq(Nodes)
  OBVIOUS
<1>2. u = <<a>>
  BY <1>1, ConcatEmptySeq
<1>3. LET v == <<a>> \o <<b>>
      IN  v \in Seq(Nodes) /\ Len(v) = 2 /\ v[1] = a /\ v[2] = b
  BY <1>1
<1>4. \A i \in 1..2 : i = 1 \/ i = 2
  OBVIOUS
<1>5. <<a>> \o <<b>> = <<a, b>>
  <2>1. PICK v : v = <<a>> \o <<b>>
    OBVIOUS
  <2>2. v \in Seq(Nodes) /\ Len(v) = 2 /\ v[1] = a /\ v[2] = b
    BY <1>3, <2>1
  <2>3. <<a, b>> \in Seq(Nodes) /\ Len(<<a, b>>) = 2
    OBVIOUS
  <2>4. v = <<a, b>>
    BY <1>4, <2>2, <2>3, SameSequence
  <2> QED BY <2>1, <2>4
<1> QED BY <1>2, <1>5

LEMMA RoadStart ==
    ASSUME NEW m, IsNetwork(m), NEW a, NEW b, <<a, b>> \in DOMAIN m
    PROVE  Road(m, <<a, b>>, m[<<a, b>>].access, m[<<a, b>>].length)
<1> DEFINE p == <<a, b>>
           s == [i \in 1..2 |-> IF i = 1 THEN 0 ELSE m[<<a, b>>].length]
<1>1. a \in Nodes /\ b \in Nodes /\ m[<<a, b>>].length \in Nat
  BY SegmentFacts
<1>2. p \in Seq(Nodes) /\ Len(p) = 2 /\ p[1] = a /\ p[2] = b
  BY <1>1
<1>3. Hops(m, p)[2] = m[<<a, b>>].length
  BY <1>2 DEF Hops
<1>4. IsSum(s, Hops(m, p), 1, 2)
  BY <1>1, <1>3 DEF IsSum
<1>5. s[2] = m[<<a, b>>].length
  OBVIOUS
<1>6. (\A i \in 2..Len(p) : i = 2) /\ 3..Len(p) = {}
  BY <1>2
<1> HIDE DEF s
<1> QED BY <1>1, <1>2, <1>4, <1>5, <1>6 DEF Road

LEMMA RoadExtend ==
    ASSUME NEW m, IsNetwork(m), NEW p, NEW access, NEW length,
           Road(m, p, access, length), NEW n,
           <<p[Len(p)], n>> \in DOMAIN m, m[<<p[Len(p)], n>>].access = access,
           n # p[Len(p) - 1]
    PROVE  Road(m, Append(p, n), access, length + m[<<p[Len(p)], n>>].length)
<1> DEFINE q == Append(p, n)
           l == Len(p)
           hop == m[<<p[Len(p)], n>>].length
<1>1. n \in Nodes /\ hop \in Nat
  BY SegmentFacts
<1>2. /\ q \in Seq(Nodes) /\ Len(q) = l + 1 /\ q[l + 1] = n /\ l \in Nat /\ l >= 2
      /\ \A i \in 1..l : q[i] = p[i]
  BY <1>1 DEF Road
<1>3. \A i \in 2..l : i \in 1..l /\ i - 1 \in 1..l
  BY <1>2
<1>4. ASSUME NEW i \in 2..(l + 1)
      PROVE  <<q[i - 1], q[i]>> \in DOMAIN m /\ m[<<q[i - 1], q[i]>>].access = access
  <2>1. CASE i = l + 1
    <3>1. PICK k \in Nat : k = l /\ k >= 2
      BY <1>2
    <3>2. k \in 1..k /\ (k + 1) - 1 = k
      BY <3>1
    <3>3. q[i] = n /\ q[i - 1] = p[l]
      BY <1>2, <2>1, <3>1, <3>2
    <3> QED BY <3>3
  <2>2. CASE i # l + 1
    <3>1. i \in 2..l
      BY <1>2, <2>2
    <3>2. q[i] = p[i] /\ q[i - 1] = p[i - 1]
      BY <1>2, <1>3, <3>1
    <3> QED BY <3>1, <3>2 DEF Road
  <2> QED BY <2>1, <2>2
<1>5. /\ Hops(m, q)[l + 1] = hop
      /\ \A i \in (1 + 1)..l : Hops(m, q)[i] = Hops(m, p)[i]
  <2>1. l + 1 \in 2..Len(q) /\ (l + 1) - 1 = l /\ l \in 1..l
    BY <1>2
  <2>2. Hops(m, q)[l + 1] = hop
    BY <1>2, <2>1 DEF Hops
  <2>3. ASSUME NEW i \in 2..l PROVE Hops(m, q)[i] = Hops(m, p)[i]
    <3>1. i \in 2..Len(q) /\ i \in 2..Len(p) /\ q[i] = p[i] /\ q[i - 1] = p[i - 1]
      BY <1>2, <1>3
    <3> QED BY <3>1 DEF Hops
  <2> QED BY <2>2, <2>3
<1>6. PICK s : IsSum(s, Hops(m, p), 1, l) /\ s[l] = length
  BY DEF Road
<1>7. \E t : IsSum(t, Hops(m, q), 1, l + 1) /\ t[l + 1] = s[l] + hop
  <2>1. l \in Int /\ 1 <= l /\ 1 \in Int /\ Hops(m, q)[l + 1] \in Int
    BY <1>1, <1>2, <1>5
  <2>2. PICK a, b : a = Hops(m, p) /\ b = Hops(m, q)
    OBVIOUS
  <2> HIDE DEF l, hop, q
  <2>3. LET t == [i \in 1..(l + 1) |-> IF i = l + 1 THEN s[l] + b[l + 1] ELSE s[i]]
        IN  IsSum(t, b, 1, l + 1) /\ t[l + 1] = s[l] + b[l + 1]
    BY <1>5, <1>6, <2>1, <2>2, SumExtend
  <2> QED BY <1>5, <2>2, <2>3
<1>8. ASSUME NEW i \in 3..(l + 1) PROVE q[i - 2] # q[i]
  <2>1. CASE i = l + 1
    <3>1. i - 2 = l - 1 /\ l - 1 \in 1..l
      BY <1>2, <2>1
    <3> QED BY <1>2, <2>1, <3>1
  <2>2. CASE i # l + 1
    <3>1. i \in 3..l /\ i \in 1..l /\ i - 2 \in 1..l
      BY <1>2, <2>2
    <3> QED BY <1>2, <3>1 DEF Road
  <2> QED BY <2>1, <2>2
<1> HIDE DEF hop
<1> QED BY <1>2, <1>4, <1>6, <1>7, <1>8 DEF Road, hop

LEMMA RoadReverse ==
    ASSUME NEW m, IsNetwork(m), NEW p, NEW access, NEW length,
           Road(m, p, access, length)
    PROVE  Road(m, Reversed(p), access, length)
<1> DEFINE q == Reversed(p)
           l == Len(p)
<1>1. /\ q \in Seq(Nodes) /\ Len(q) = l /\ l \in Nat /\ l >= 2
      /\ \A i \in 1..l : q[i] = p[l + 1 - i]
  BY ReversedFacts DEF Road
<1>2. ASSUME NEW i \in 2..l
      PROVE  /\ l + 2 - i \in 2..l
             /\ q[i - 1] = p[l + 2 - i] /\ q[i] = p[(l + 2 - i) - 1]
  <2>1. i - 1 \in 1..l /\ i \in 1..l /\ l + 1 - (i - 1) = l + 2 - i
        /\ l + 1 - i = (l + 2 - i) - 1 /\ l + 2 - i \in 2..l
    BY <1>1
  <2> QED BY <1>1, <2>1
<1>3. ASSUME NEW i \in 2..l
      PROVE  /\ <<q[i - 1], q[i]>> \in DOMAIN m
             /\ m[<<q[i - 1], q[i]>>] = m[<<p[(l + 2 - i) - 1], p[l + 2 - i]>>]
             /\ m[<<q[i - 1], q[i]>>].access = access
  <2> DEFINE j == l + 2 - i
  <2>1. <<p[j - 1], p[j]>> \in DOMAIN m /\ m[<<p[j - 1], p[j]>>].access = access
    BY <1>2 DEF Road
  <2>2. <<p[j], p[j - 1]>> \in DOMAIN m
        /\ m[<<p[j], p[j - 1]>>] = m[<<p[j - 1], p[j]>>]
    BY <2>1, SegmentFacts
  <2> QED BY <1>2, <2>1, <2>2
<1>4. \A i \in 2..l : Hops(m, q)[i] = Hops(m, p)[l + 2 - i] /\ Hops(m, p)[i] \in Int
  <2>1. ASSUME NEW i \in 2..l PROVE Hops(m, q)[i] = Hops(m, p)[l + 2 - i]
    BY <1>1, <1>2, <1>3 DEF Hops
  <2>2. ASSUME NEW i \in 2..l PROVE Hops(m, p)[i] \in Int
    <3>1. <<p[i - 1], p[i]>> \in DOMAIN m
      BY DEF Road
    <3>2. m[<<p[i - 1], p[i]>>].length \in Nat
      BY <3>1, SegmentFacts
    <3> QED BY <3>2 DEF Hops
  <2> QED BY <2>1, <2>2
<1>5. PICK s : IsSum(s, Hops(m, p), 1, l) /\ s[l] = length
  BY DEF Road
<1>6. PICK t : IsSum(t, Hops(m, q), 1, l)
  <2>1. \A i \in (1 + 1)..l : Hops(m, q)[i] \in Int
    BY <1>2, <1>4
  <2>2. 1 \in Int /\ l \in Int /\ 1 <= l
    BY <1>1
  <2> HIDE DEF q, l
  <2> QED BY <2>1, <2>2, SumExists
<1>7. t[l] = s[l]
  <2>1. l \in Nat /\ l >= 1
    BY <1>1
  <2> HIDE DEF q, l
  <2> QED BY <1>4, <1>5, <1>6, <2>1, SumReverse
<1>8. ASSUME NEW i \in 3..l PROVE q[i - 2] # q[i]
  <2>1. i - 2 \in 1..l /\ i \in 1..l /\ l + 1 - (i - 2) = l + 3 - i
        /\ l + 1 - i = (l + 3 - i) - 2 /\ l + 3 - i \in 3..l
    BY <1>1
  <2>2. q[i - 2] = p[l + 3 - i] /\ q[i] = p[(l + 3 - i) - 2]
    BY <1>1, <2>1
  <2> QED BY <2>1, <2>2 DEF Road
<1> QED BY <1>1, <1>3, <1>5, <1>6, <1>7, <1>8 DEF Road

----------------------------------------------------------------------------
(* Chains follow roads *)

ChainRoad(m, c) == Road(m, Path(c), c.access, c.length)

\* The nodes the walk under way has come along, to cur.
Trail == <<walk.chain.a>> \o walk.chain.interior \o <<walk.cur>>

\* A chain, finished or under way, follows roads of its access and is as long
\* as they are; a finished edge is a direction of such a chain.
RoadInv ==
    /\ walk # NoWalk =>
          /\ Road(merged, Trail, walk.chain.access, walk.chain.length)
          /\ Trail[Len(walk.chain.interior) + 1] = walk.prev
    /\ \A i \in DOMAIN chains : ChainRoad(merged, chains[i])

EdgeInv ==
    phase = "done" => walk = NoWalk /\ edges = UNION {Both(c) : c \in Finished}

\* The walk may go on to Onward: the road does, with the same access.
LEMMA PassRoad ==
    ASSUME Inv, RoadInv, walk # NoWalk
    PROVE  LET t == <<Passed.a>> \o Passed.interior \o <<Onward>>
           IN  /\ Road(merged, t, Passed.access,
                       Passed.length + Length(walk.cur, Onward))
               /\ t[Len(Passed.interior) + 1] = walk.cur
               /\ \A i \in DOMAIN SplitOff : ChainRoad(merged, SplitOff[i])
<1> DEFINE w == walk.chain
           t == <<Passed.a>> \o Passed.interior \o <<Onward>>
           n == Len(w.interior)
<1>1. /\ walk.cur \in Nodes /\ Onward \in Nodes /\ Interior(walk.cur)
      /\ Adj(walk.cur) = {walk.prev, Onward}
  BY Ahead
<1>2. w \in Chains /\ walk.prev \in Nodes /\ IsNetwork(merged)
  BY DEF Inv, TypeOK
<1>3. w.a \in Nodes /\ w.interior \in Seq(Nodes)
  BY <1>2 DEF Chains
<1>4. /\ Trail \in Seq(Nodes) /\ Len(Trail) = n + 2 /\ n \in Nat
      /\ Trail[1] = w.a /\ Trail[n + 2] = walk.cur
      /\ \A i \in 1..n : Trail[i + 1] = w.interior[i]
  <2>1. PICK from \in Nodes, to \in Nodes, s \in Seq(Nodes) :
          from = w.a /\ to = walk.cur /\ s = w.interior
    BY <1>1, <1>3
  <2>2. Trail = <<from>> \o s \o <<to>>
    BY <2>1 DEF Trail
  <2>3. /\ Trail \in Seq(Nodes) /\ Len(Trail) = Len(s) + 2 /\ Len(s) \in Nat
        /\ Trail[1] = from /\ Trail[Len(s) + 2] = to
        /\ \A i \in 1..Len(s) : Trail[i + 1] = s[i]
    BY ONLY <2>2, Between, from \in Nodes, to \in Nodes, s \in Seq(Nodes)
  <2> QED
    BY <2>1, <2>3
<1>5. /\ Road(merged, Trail, w.access, w.length) /\ Trail[n + 1] = walk.prev
  BY DEF RoadInv
<1>6. /\ <<walk.cur, Onward>> \in DOMAIN merged
      /\ merged[<<walk.cur, Onward>>].access = w.access
      /\ merged[<<walk.cur, Onward>>].length = Length(walk.cur, Onward)
  <2>1. n + 2 \in 2..Len(Trail) /\ (n + 2) - 1 = n + 1
    BY <1>4
  <2>2. <<walk.prev, walk.cur>> \in DOMAIN merged
        /\ merged[<<walk.prev, walk.cur>>].access = w.access
    <3>1. PICK m \in Int : m = n + 2
      BY <1>4
    <3>2. m \in 2..Len(Trail) /\ Trail[m] = walk.cur /\ Trail[m - 1] = walk.prev
      BY ONLY <1>4, <1>5, <2>1, <3>1
    <3>3. \A i \in 2..Len(Trail) : /\ <<Trail[i - 1], Trail[i]>> \in DOMAIN merged
                                    /\ merged[<<Trail[i - 1], Trail[i]>>].access = w.access
      BY <1>5 DEF Road
    <3> QED BY ONLY <3>2, <3>3
  <2>3. merged[<<walk.cur, walk.prev>>] = merged[<<walk.prev, walk.cur>>]
    BY <1>2, <2>2, SegmentFacts
  <2>4. Access(walk.cur, walk.prev) = Access(walk.cur, Onward)
    BY <1>1 DEF Interior
  <2>5. Onward \in Adj(walk.cur)
    BY <1>1
  <2> QED BY <2>2, <2>3, <2>4, <2>5 DEF Access, Adj, Length
<1>7. CASE Splits
  <2> DEFINE c == [w EXCEPT !.b = walk.cur]
  <2>1. /\ Passed = [a |-> walk.cur, b |-> walk.cur, length |-> 0,
                     access |-> w.access, interior |-> <<>>]
        /\ SplitOff = <<c>>
    BY <1>7 DEF Passed, SplitOff
  <2>2. t = <<walk.cur, Onward>> /\ t[1] = walk.cur
    <3>1. t = <<walk.cur>> \o <<>> \o <<Onward>>
      BY <2>1
    <3>2. <<walk.cur>> \o <<>> \o <<Onward>> = <<walk.cur, Onward>>
      BY <1>1, NothingBetween
    <3> HIDE DEF t
    <3> QED BY <3>1, <3>2
  <2>3. Road(merged, t, w.access, Length(walk.cur, Onward))
    BY <1>2, <1>6, <2>2, RoadStart
  <2>4. Length(walk.cur, Onward) \in Nat
    BY Ahead
  <2>5. /\ Passed.access = w.access /\ Len(Passed.interior) + 1 = 1
        /\ Passed.length + Length(walk.cur, Onward) = Length(walk.cur, Onward)
    BY <2>1, <2>4
  <2>6. /\ c.a = w.a /\ c.b = walk.cur /\ c.interior = w.interior
        /\ c.access = w.access /\ c.length = w.length
    BY <1>2 DEF Chains
  <2> HIDE DEF c
  <2>7. ChainRoad(merged, c)
    BY <1>5, <2>6 DEF ChainRoad, Path, Trail
  <2>8. \A i \in DOMAIN SplitOff : SplitOff[i] = c
    BY <2>1
  <2> HIDE DEF t
  <2> QED BY <2>2, <2>3, <2>5, <2>7, <2>8 DEF t
<1>8. CASE ~Splits
  <2> DEFINE p == Append(w.interior, walk.cur)
  <2>1. Passed = [w EXCEPT !.interior = p] /\ SplitOff = <<>>
    BY <1>8 DEF Passed, SplitOff
  <2>2. /\ Passed.a = w.a /\ Passed.interior = p /\ Passed.access = w.access
        /\ Passed.length = w.length
    BY <1>2, <2>1 DEF Chains
  <2>3. /\ p \in Seq(Nodes) /\ Len(p) = n + 1 /\ p[n + 1] = walk.cur
        /\ \A i \in 1..n : p[i] = w.interior[i]
    BY <1>1, <1>3
  <2>4. t = <<w.a>> \o p \o <<Onward>>
    BY <2>2
  <2> HIDE DEF p, t
  <2>5. /\ t \in Seq(Nodes) /\ Len(t) = Len(p) + 2 /\ t[1] = w.a
        /\ t[Len(p) + 2] = Onward /\ \A i \in 1..Len(p) : t[i + 1] = p[i]
    <3>1. PICK a \in Nodes, x \in Seq(Nodes), b \in Nodes :
              a = w.a /\ x = p /\ b = Onward
      BY <1>1, <1>3, <2>3
    <3>2. LET u == <<a>> \o x \o <<b>>
          IN  /\ u \in Seq(Nodes) /\ Len(u) = Len(x) + 2 /\ u[1] = a
              /\ u[Len(x) + 2] = b /\ \A i \in 1..Len(x) : u[i + 1] = x[i]
      BY Between
    <3> QED BY <2>4, <3>1, <3>2
  <2>6. t = Append(Trail, Onward)
    <3>1. PICK a \in Nodes, x \in Seq(Nodes), c \in Nodes, b \in Nodes :
              a = w.a /\ x = w.interior /\ c = walk.cur /\ b = Onward
      BY <1>1, <1>3
    <3>2. PICK A \in Seq(Nodes), C \in Seq(Nodes), B \in Seq(Nodes) :
              A = <<a>> /\ C = <<c>> /\ B = <<b>>
      <4>1. <<a>> \in Seq(Nodes) /\ <<c>> \in Seq(Nodes) /\ <<b>> \in Seq(Nodes)
        BY ONLY a \in Nodes, c \in Nodes, b \in Nodes
      <4> QED BY ONLY <4>1
    <3>3. A \o x \in Seq(Nodes) /\ x \o C \in Seq(Nodes) /\ (A \o x) \o C \in Seq(Nodes)
      BY ConcatProperties
    <3>4. A \o (x \o C) = (A \o x) \o C
      BY ONLY ConcatAssociative, A \in Seq(Nodes), x \in Seq(Nodes), C \in Seq(Nodes), SMTT(20)
    <3>5. Append(x, c) = x \o C /\ Append((A \o x) \o C, b) = ((A \o x) \o C) \o B
      BY <3>2, <3>3, AppendIsConcat
    <3>6. t = (A \o (x \o C)) \o B
      <4>1. p = x \o C
        BY ONLY <3>1, <3>5 DEF p
      <4> QED BY ONLY <2>4, <3>1, <3>2, <4>1
    <3>7. Trail = (A \o x) \o C
      BY ONLY <3>1, <3>2 DEF Trail
    <3>8. PICK z : z = (A \o x) \o C
      OBVIOUS
    <3>9. t = z \o B /\ Append(z, b) = z \o B /\ Trail = z
      BY ONLY <3>4, <3>5, <3>6, <3>7, <3>8
    <3> QED BY ONLY <3>1, <3>9
  <2>7. Road(merged, t, w.access, w.length + Length(walk.cur, Onward))
    <3>1. Onward # Trail[Len(Trail) - 1]
      BY <1>4, <1>5, Ahead, OnwardFacts DEF Inv, TypeOK
    <3>2. PICK v : v = Trail /\ v[Len(v)] = walk.cur
      BY <1>4
    <3>3. PICK k, b : k = w.length /\ b = Onward
      OBVIOUS
    <3>4. Road(merged, Append(v, b), w.access, k + merged[<<v[Len(v)], b>>].length)
      BY <1>2, <1>5, <1>6, <3>1, <3>2, <3>3, RoadExtend
    <3> QED BY <1>6, <2>6, <3>2, <3>3, <3>4
  <2>8. t[Len(p) + 1] = walk.cur
    <3>1. Len(p) \in 1..Len(p) /\ Len(p) = n + 1
      BY <1>4, <2>3
    <3> QED BY <2>3, <2>5, <3>1
  <2>9. DOMAIN SplitOff = {}
    BY <2>1
  <2> QED BY <2>2, <2>7, <2>8, <2>9 DEF t
<1> QED BY <1>7, <1>8

LEMMA PathFacts ==
    ASSUME NEW c \in Chains, NEW p, p = Path(c)
    PROVE  /\ p \in Seq(Nodes) /\ Len(p) = Len(c.interior) + 2
           /\ p[1] = c.a /\ p[Len(c.interior) + 2] = c.b
           /\ \A i \in 1..Len(c.interior) : p[i + 1] = c.interior[i]
<1>1. PICK a \in Nodes, x \in Seq(Nodes), b \in Nodes :
        a = c.a /\ x = c.interior /\ b = c.b
  BY DEF Chains
<1>2. LET u == <<a>> \o x \o <<b>>
      IN  /\ u \in Seq(Nodes) /\ Len(u) = Len(x) + 2 /\ u[1] = a
          /\ u[Len(x) + 2] = b /\ \A i \in 1..Len(x) : u[i + 1] = x[i]
  BY Between
<1>3. p = <<a>> \o x \o <<b>>
  BY <1>1 DEF Path
<1> QED BY <1>1, <1>2, <1>3

\* The ends of a path turned round.
LEMMA PathReversed ==
    ASSUME NEW c \in Chains
    PROVE  LET d == [c EXCEPT !.a = c.b, !.b = c.a, !.interior = Reversed(c.interior)]
           IN  d \in Chains /\ Path(d) = Reversed(Path(c))
               /\ d.length = c.length /\ d.access = c.access
<1> DEFINE d == [c EXCEPT !.a = c.b, !.b = c.a, !.interior = Reversed(c.interior)]
           s == c.interior
           n == Len(c.interior)
<1>1. c.a \in Nodes /\ c.b \in Nodes /\ s \in Seq(Nodes) /\ n \in Nat
  BY DEF Chains
<1>2. /\ Reversed(s) \in Seq(Nodes) /\ Len(Reversed(s)) = n
      /\ \A k \in 1..n : Reversed(s)[k] = s[n + 1 - k]
  BY <1>1, ReversedFacts
<1>3. /\ d \in Chains /\ d.a = c.b /\ d.b = c.a /\ d.interior = Reversed(s)
      /\ d.length = c.length /\ d.access = c.access
  BY <1>1, <1>2 DEF Chains
<1> HIDE DEF d
<1>4. PICK p, q : p = Path(c) /\ q = Path(d)
  OBVIOUS
<1>5. /\ p \in Seq(Nodes) /\ Len(p) = n + 2 /\ p[1] = c.a /\ p[n + 2] = c.b
      /\ \A i \in 1..n : p[i + 1] = s[i]
  BY <1>4, PathFacts
<1>6. /\ q \in Seq(Nodes) /\ Len(q) = n + 2 /\ q[1] = c.b /\ q[n + 2] = c.a
      /\ \A i \in 1..n : q[i + 1] = s[n + 1 - i]
  <2>1. /\ q \in Seq(Nodes) /\ Len(q) = Len(d.interior) + 2
        /\ q[1] = d.a /\ q[Len(d.interior) + 2] = d.b
        /\ \A i \in 1..Len(d.interior) : q[i + 1] = d.interior[i]
    BY <1>3, <1>4, PathFacts
  <2> QED BY <1>2, <1>3, <2>1
<1>7. /\ Reversed(p) \in Seq(Nodes) /\ Len(Reversed(p)) = n + 2
      /\ \A i \in 1..(n + 2) : Reversed(p)[i] = p[n + 3 - i]
  <2>1. /\ Reversed(p) \in Seq(Nodes) /\ Len(Reversed(p)) = Len(p)
        /\ \A i \in 1..Len(p) : Reversed(p)[i] = p[Len(p) + 1 - i]
    <3>1. Reversed(p) \in Seq(Nodes) /\ Len(Reversed(p)) = Len(p)
      BY <1>5, ReversedFacts
    <3>2. DOMAIN Reversed(p) = 1..Len(p)
      BY <3>1
    <3> QED BY <1>5, <3>1, <3>2, ReversedFacts
  <2>2. \A i \in 1..(n + 2) : n + 3 - i = (n + 2) + 1 - i
    BY <1>1
  <2> QED BY <1>5, <2>1, <2>2
<1>8. ASSUME NEW i \in 1..(n + 2) PROVE q[i] = Reversed(p)[i]
  <2>1. CASE i = 1
    BY <1>1, <1>5, <1>6, <1>7, <2>1
  <2>2. CASE i = n + 2
    BY <1>1, <1>5, <1>6, <1>7, <2>2
  <2>3. CASE i \in 2..(n + 1)
    <3>1. i - 1 \in 1..n /\ (i - 1) + 1 = i /\ n + 1 - (i - 1) = n + 2 - i
          /\ n + 2 - i \in 1..n /\ (n + 2 - i) + 1 = n + 3 - i
      BY <1>1, <2>3
    <3>2. q[i] = s[n + 2 - i] /\ p[n + 3 - i] = s[n + 2 - i]
      BY <1>5, <1>6, <3>1
    <3> QED BY <1>7, <3>2
  <2>4. i = 1 \/ i = n + 2 \/ i \in 2..(n + 1)
    BY <1>1
  <2> QED BY <2>1, <2>2, <2>3, <2>4
<1>9. q = Reversed(p)
  BY <1>6, <1>7, <1>8, SameSequence
<1> QED BY <1>3, <1>4, <1>9 DEF d

\* Whichever way round it is written.
LEMMA CanonicalRoad ==
    ASSUME NEW m, IsNetwork(m), NEW c \in Chains, ChainRoad(m, c)
    PROVE  ChainRoad(m, Canonical(c))
<1> DEFINE d == [c EXCEPT !.a = c.b, !.b = c.a, !.interior = Reversed(c.interior)]
<1>1. Path(d) = Reversed(Path(c)) /\ d.length = c.length /\ d.access = c.access
  BY PathReversed
<1> HIDE DEF d
<1>2. ChainRoad(m, d)
  BY <1>1, RoadReverse DEF ChainRoad
<1>3. CASE c.a > c.b
  <2>1. Canonical(c) = d
    BY <1>3 DEF Canonical, d
  <2> QED BY <1>2, <2>1
<1>4. CASE ~(c.a > c.b)
  BY <1>4 DEF Canonical
<1> QED BY <1>3, <1>4

\* What chains \o SplitOff holds.
LEMMA SplitRoads ==
    ASSUME Inv, RoadInv, walk # NoWalk, Pass
    PROVE  \A i \in DOMAIN (chains \o SplitOff) :
              ChainRoad(merged, (chains \o SplitOff)[i])
<1>1. chains \in Seq(Chains) /\ chains \o SplitOff \in Seq(Chains)
  BY PassFacts DEF Inv, TypeOK
<1>2. /\ \A i \in DOMAIN SplitOff : ChainRoad(merged, SplitOff[i])
      /\ \A i \in DOMAIN chains : ChainRoad(merged, chains[i])
  BY PassRoad DEF RoadInv
<1>3. CASE Splits
  <2> DEFINE c == [walk.chain EXCEPT !.b = walk.cur]
  <2>1. SplitOff = <<c>>
    BY <1>3 DEF SplitOff
  <2>2. c \in Chains
    BY Ahead DEF Inv, TypeOK, Chains
  <2> HIDE DEF c
  <2>3. 1 \in DOMAIN SplitOff /\ SplitOff[1] = c
    BY <2>1
  <2>4. ChainRoad(merged, c)
    BY <1>2, <2>3
  <2> QED BY <1>1, <1>2, <2>1, <2>2, <2>4, AddChain
<1>4. CASE ~Splits
  BY <1>1, <1>2, <1>4 DEF SplitOff
<1> QED BY <1>3, <1>4

LEMMA WalkOnRoad == Inv /\ RoadInv /\ WalkOn => RoadInv'
<1> SUFFICES ASSUME Inv, RoadInv, WalkOn PROVE RoadInv'
  OBVIOUS
<1> DEFINE c == [Passed EXCEPT !.length = @ + Length(walk.cur, Onward)]
<1>1. /\ walk # NoWalk /\ Pass /\ chains' = chains \o SplitOff /\ merged' = merged
      /\ walk' = [chain |-> c, prev |-> walk.cur, cur |-> Onward]
  BY DEF WalkOn
<1>2. Passed \in Chains
  BY <1>1, PassFacts
<1>3. /\ c.a = Passed.a /\ c.interior = Passed.interior /\ c.access = Passed.access
      /\ c.length = Passed.length + Length(walk.cur, Onward)
  BY <1>2 DEF Chains
<1> HIDE DEF c
<1>4. /\ walk'.chain = c /\ walk'.prev = walk.cur /\ walk'.cur = Onward
  BY <1>1
<1>5. Trail' = <<Passed.a>> \o Passed.interior \o <<Onward>>
  BY <1>3, <1>4 DEF Trail
<1>6. /\ Road(merged, Trail', c.access, c.length)
      /\ Trail'[Len(Passed.interior) + 1] = walk.cur
  BY <1>1, <1>3, <1>5, PassRoad
<1>7. \A i \in DOMAIN chains' : ChainRoad(merged, chains'[i])
  BY <1>1, SplitRoads
<1> QED BY <1>1, <1>3, <1>4, <1>6, <1>7 DEF RoadInv

LEMMA WalkEndsRoad == Inv /\ RoadInv /\ WalkEnds => RoadInv'
<1> SUFFICES ASSUME Inv, RoadInv, WalkEnds PROVE RoadInv'
  OBVIOUS
<1> DEFINE c == [Passed EXCEPT !.length = @ + Length(walk.cur, Onward), !.b = Onward]
           cs == chains \o SplitOff
<1>1. /\ walk # NoWalk /\ Pass /\ merged' = merged /\ walk' = NoWalk
      /\ chains' = cs \o (IF c.a = c.b \/ c.interior = <<>> THEN <<>>
                          ELSE <<Canonical(c)>>)
  BY DEF WalkEnds
<1>2. Passed \in Chains /\ cs \in Seq(Chains) /\ IsNetwork(merged)
      /\ Onward \in Nodes /\ Length(walk.cur, Onward) \in Nat
  BY <1>1, PassFacts, Ahead DEF Inv, TypeOK
<1>3. /\ c.a = Passed.a /\ c.interior = Passed.interior /\ c.access = Passed.access
      /\ c.length = Passed.length + Length(walk.cur, Onward) /\ c.b = Onward
      /\ c \in Chains
  <2>1. PICK p, l, n : p = Passed /\ l = Length(walk.cur, Onward) /\ n = Onward
    OBVIOUS
  <2>2. p \in Chains /\ l \in Nat /\ n \in Nodes
    BY <1>2, <2>1
  <2>3. c = [p EXCEPT !.length = @ + l, !.b = n]
    BY <2>1
  <2> HIDE DEF c
  <2>4. c = [a |-> p.a, b |-> n, length |-> p.length + l, access |-> p.access,
             interior |-> p.interior]
    BY <2>2, <2>3 DEF Chains
  <2> QED BY <2>1, <2>2, <2>4 DEF Chains
<1> HIDE DEF c
<1>4. ChainRoad(merged, c)
  BY <1>1, <1>3, PassRoad DEF ChainRoad, Path
<1>5. ChainRoad(merged, Canonical(c)) /\ Canonical(c) \in Chains
  BY <1>2, <1>3, <1>4, CanonicalRoad, CanonicalFacts
<1>6. \A i \in DOMAIN cs : ChainRoad(merged, cs[i])
  BY <1>1, SplitRoads
<1> HIDE DEF cs
<1>7. \A i \in DOMAIN chains' : ChainRoad(merged, chains'[i])
  <2>1. CASE c.a = c.b \/ c.interior = <<>>
    BY <1>1, <1>2, <1>6, <2>1
  <2>2. CASE ~(c.a = c.b \/ c.interior = <<>>)
    <3>1. chains' = cs \o <<Canonical(c)>>
      BY <1>1, <2>2
    <3>2. PICK d \in Chains : d = Canonical(c)
      BY <1>5
    <3> QED BY <1>2, <1>5, <1>6, <3>1, <3>2, AddChain
  <2> QED BY <2>1, <2>2
<1> QED BY <1>1, <1>7 DEF RoadInv

\* A walk begins along a segment.
LEMMA BeginRoad ==
    ASSUME Inv, RoadInv, NEW a \in Nodes, NEW first \in Adj(a),
           walk' = Begin(a, first), UNCHANGED <<merged, chains>>
    PROVE  RoadInv'
<1>1. IsNetwork(merged) /\ first \in Nodes /\ <<a, first>> \in DOMAIN merged
  BY EdgeFacts DEF Inv, TypeOK, Adj
<1>2. /\ walk'.prev = a /\ walk'.cur = first
      /\ walk'.chain = [a |-> a, b |-> a, length |-> Length(a, first),
                        access |-> Access(a, first), interior |-> <<>>]
  BY DEF Begin
<1>3. Trail' = <<a, first>>
  <2>1. Trail' = <<a>> \o <<>> \o <<first>>
    BY <1>2 DEF Trail
  <2>2. <<a>> \o <<>> \o <<first>> = <<a, first>>
    BY <1>1, NothingBetween
  <2> QED BY <2>1, <2>2
<1>4. Road(merged, <<a, first>>, Access(a, first), Length(a, first))
  BY <1>1, RoadStart DEF Access, Length
<1>5. Len(walk'.chain.interior) + 1 = 1 /\ Trail'[1] = a
  BY <1>2, <1>3
<1> QED BY <1>2, <1>3, <1>4, <1>5 DEF RoadInv

LEMMA AnchorRoad ==
    ASSUME Inv, RoadInv, NEW s \in Nodes, NEW t \in Nodes, Anchor(s, t)
    PROVE  RoadInv'
<1>1. t \in Adj(s)
  BY DEF Anchor, Enters, Adj
<1> QED BY <1>1, BeginRoad DEF Anchor

LEMMA RingRoad ==
    ASSUME Inv, RoadInv, NEW start \in Vertices, Ring(start)
    PROVE  RoadInv'
<1>1. start \in Nodes
  BY VerticesAreNodes DEF Inv, TypeOK
<1>2. PICK high \in Adj(start) : walk' = IF Open(high) THEN Begin(start, high) ELSE NoWalk
  BY DEF Ring
<1>3. CASE Open(high)
  BY <1>1, <1>2, <1>3, BeginRoad DEF Ring
<1>4. CASE ~Open(high)
  BY <1>2, <1>4 DEF Ring, RoadInv
<1> QED BY <1>3, <1>4

\* What becomes edges are chains between kept nodes that follow roads.
LEMMA FinishedChains ==
    ASSUME Inv, RoadInv, NEW c \in Finished
    PROVE  c \in Chains /\ ChainRoad(merged, c) /\ {c.a, c.b} \subseteq kept
<1>1. IsNetwork(merged) /\ chains \in Seq(Chains)
  BY DEF Inv, TypeOK
<1>2. ASSUME NEW i \in DOMAIN chains
      PROVE  chains[i] \in Chains /\ ChainRoad(merged, chains[i])
             /\ {chains[i].a, chains[i].b} \subseteq kept
  BY <1>1 DEF RoadInv, Inv, ChainsInv, ChainsOK, ChainOK
<1>3. ASSUME c \in Direct
      PROVE  c \in Chains /\ ChainRoad(merged, c) /\ {c.a, c.b} \subseteq kept
  <2>1. PICK x \in DOMAIN merged :
          /\ {x[1], x[2]} \subseteq kept
          /\ c = [a |-> x[1], b |-> x[2], length |-> merged[x].length,
                  access |-> merged[x].access, interior |-> <<>>]
    BY <1>3 DEF Direct
  <2>2. x = <<x[1], x[2]>>
    BY <1>1 DEF IsNetwork
  <2>3. PICK s, t : s = x[1] /\ t = x[2] /\ x = <<s, t>>
    BY <2>2
  <2>4. /\ s \in Nodes /\ t \in Nodes
        /\ merged[<<s, t>>].length \in Nat /\ merged[<<s, t>>].access \in Accesses
    <3>1. <<s, t>> \in DOMAIN merged
      BY <2>3
    <3> QED BY <1>1, <3>1, SegmentFacts
  <2>5. /\ c.a = s /\ c.b = t /\ c.length = merged[<<s, t>>].length
        /\ c.access = merged[<<s, t>>].access /\ c.interior = <<>>
        /\ c \in Chains
    BY <2>1, <2>3, <2>4 DEF Chains
  <2>6. Path(c) = <<s, t>>
    BY <2>4, <2>5, NothingBetween DEF Path
  <2>7. ChainRoad(merged, c)
    BY <1>1, <2>3, <2>5, <2>6, RoadStart DEF ChainRoad
  <2> QED BY <2>1, <2>3, <2>5, <2>7
<1> QED BY <1>2, <1>3 DEF Finished

LEMMA SameBoth ==
    kept' = kept /\ merged' = merged /\ chains' = chains
        => Finished' = Finished /\ \A c : Both(c)' = Both(c)
  BY DEF Finished, Direct, Both, NewIndex

LEMMA EmitEdges == Emit => EdgeInv'
<1> SUFFICES ASSUME Emit PROVE EdgeInv'
  OBVIOUS
<1>1. /\ walk' = NoWalk /\ edges' = UNION {Both(c) : c \in Finished}
      /\ Finished' = Finished /\ \A c : Both(c)' = Both(c)
  BY SameBoth DEF Emit
<1> QED BY <1>1 DEF EdgeInv

----------------------------------------------------------------------------
(* No segment is lost or doubled *)

\* Interior(n) in a network m.
TwoRoads(m, n) ==
    \E s, t \in Nodes :
        /\ s # t /\ {u \in Nodes : <<n, u>> \in DOMAIN m} = {s, t}
        /\ m[<<n, s>>].access = m[<<n, t>>].access

\* n is inside the chain c, or inside one of the chains cs.
Inside(n, c) == \E k \in DOMAIN c.interior : c.interior[k] = n
Covered(n, cs) == \E i \in DOMAIN cs : Inside(n, cs[i])

\* The first node that the chain c comes to, on its way to n.
First(c, n) == IF c.interior = <<>> THEN n ELSE c.interior[1]

\* Until rings are walked, a node that stays although it could be collapsed was
\* passed; and no node that a ring could begin at is left behind.
KeptInv ==
    phase = "anchored" => \A n \in kept : Interior(n) => n \in consumed

ScanInv ==
    /\ phase # "anchored" => \A n \in Vertices : n < scan => ~Open(n)
    /\ phase = "done" => walk = NoWalk /\ \A n \in Vertices : ~Open(n)

\* A chain from a node with two roads does not come back to it: the other road
\* leads to a node of s that is not inside the chain.
Leaves(m, c, n, s) ==
    TwoRoads(m, c.a) =>
        \E y \in s : <<c.a, y>> \in DOMAIN m /\ y # First(c, n) /\ ~Inside(y, c)

BackInv ==
    walk # NoWalk => Leaves(merged, walk.chain, walk.cur, kept \cup consumed)

\* A dropped chain, from a junction back to itself through nodes of s.
Loop(m, c, k, s) ==
    /\ c.a = c.b /\ c.a \in k /\ ~TwoRoads(m, c.a)
    /\ c.interior # <<>>
    /\ Swallowed(c, s) /\ NoRepeat(c.interior)
    /\ ChainRoad(m, c)

DroppedInv ==
    /\ \A i \in DOMAIN dropped : Loop(merged, dropped[i], kept, Gone)
    /\ \A i, j \in DOMAIN dropped : i # j => Apart(dropped[i], dropped[j])
    /\ \A i \in DOMAIN dropped, j \in DOMAIN chains : Apart(dropped[i], chains[j])
    /\ walk # NoWalk => \A i \in DOMAIN dropped : Apart(dropped[i], walk.chain)

\* A node that did not stay is inside some chain.
CoverInv ==
    \A n \in Gone :
        \/ Covered(n, chains) \/ Covered(n, dropped)
        \/ walk # NoWalk /\ Inside(n, walk.chain)

SegmentInv == KeptInv /\ ScanInv /\ BackInv /\ DroppedInv /\ CoverInv

LEMMA InteriorTwoRoads == \A n : Interior(n) <=> TwoRoads(merged, n)
  BY DEF Interior, TwoRoads, Adj, Access

LEMMA LastChain ==
    ASSUME NEW cs \in Seq(Chains), NEW c \in Chains, NEW ds, ds = cs \o <<c>>
    PROVE  /\ \A i \in DOMAIN cs : i \in DOMAIN ds /\ ds[i] = cs[i]
           /\ Len(cs) + 1 \in DOMAIN ds /\ ds[Len(cs) + 1] = c
           /\ Len(cs) + 1 \notin DOMAIN cs
           /\ \A i \in DOMAIN ds : i \in DOMAIN cs \/ i = Len(cs) + 1
  OBVIOUS

LEMMA CoveredByMore ==
    ASSUME NEW cs \in Seq(Chains), NEW c \in Chains, NEW n
    PROVE  Covered(n, cs \o <<c>>) <=> Covered(n, cs) \/ Inside(n, c)
<1> DEFINE ds == cs \o <<c>>
<1>1. /\ \A i \in DOMAIN cs : i \in DOMAIN ds /\ ds[i] = cs[i]
      /\ Len(cs) + 1 \in DOMAIN ds /\ ds[Len(cs) + 1] = c
      /\ \A i \in DOMAIN ds : i \in DOMAIN cs \/ i = Len(cs) + 1
  BY LastChain
<1> HIDE DEF ds
<1>2. Covered(n, ds) <=> Covered(n, cs) \/ Inside(n, c)
  BY <1>1 DEF Covered
<1> QED BY <1>2 DEF ds

\* Turning a chain round keeps what is inside it.
LEMMA CanonicalInside ==
    ASSUME NEW c \in Chains, NEW n, Inside(n, c)
    PROVE  Inside(n, Canonical(c))
<1> DEFINE s == c.interior
<1>1. s \in Seq(Nodes)
  BY DEF Chains
<1>2. CASE c.a > c.b
  <2>1. Canonical(c).interior = Reversed(s)
    BY <1>2 DEF Canonical, Chains
  <2>2. PICK k \in DOMAIN s : s[k] = n
    BY DEF Inside
  <2>3. /\ k \in 1..Len(s) /\ Len(s) \in Nat /\ Reversed(s) \in Seq(Nodes)
        /\ Len(Reversed(s)) = Len(s)
    BY <1>1, ReversedFacts
  <2>4. Len(s) + 1 - k \in 1..Len(s) /\ Len(s) + 1 - (Len(s) + 1 - k) = k
    BY <2>3
  <2>5. DOMAIN Reversed(s) = 1..Len(s)
    BY <2>3
  <2>6. Reversed(s)[Len(s) + 1 - k] = s[k]
    BY <1>1, <2>4, <2>5, ReversedFacts
  <2> QED BY <2>1, <2>2, <2>4, <2>5, <2>6 DEF Inside
<1>3. CASE ~(c.a > c.b)
  BY <1>3 DEF Canonical
<1> QED BY <1>2, <1>3

\* Passing cur leaves every node that went inside some chain, and the dropped
\* ones apart.
LEMMA PassCover ==
    ASSUME Inv, DroppedInv, CoverInv, walk # NoWalk, Pass
    PROVE  /\ \A n \in Gone' : \/ Covered(n, chains \o SplitOff)
                               \/ Covered(n, dropped)
                               \/ Inside(n, Passed)
           /\ \A i \in DOMAIN dropped :
                 /\ Apart(dropped[i], Passed)
                 /\ \A j \in DOMAIN (chains \o SplitOff) :
                       Apart(dropped[i], (chains \o SplitOff)[j])
<1> DEFINE w == walk.chain
<1>1. /\ walk.cur \in Nodes /\ walk.cur \notin kept /\ walk.cur \notin consumed
      /\ w \in Chains /\ chains \in Seq(Chains) /\ w.interior \in Seq(Nodes)
  BY Ahead DEF Inv, TypeOK, Chains
<1>2. consumed' = consumed \cup {walk.cur}
  BY DEF Pass
<1>3. CASE Splits
  <2> DEFINE c == [w EXCEPT !.b = walk.cur]
  <2>1. /\ Passed.interior = <<>> /\ SplitOff = <<c>>
        /\ kept' = kept \cup {walk.cur}
    BY <1>3 DEF Passed, SplitOff, Pass
  <2>2. c \in Chains /\ c.interior = w.interior
    BY <1>1 DEF Chains
  <2> HIDE DEF c
  <2>3. Gone' = Gone
    BY <1>1, <1>2, <2>1 DEF Gone
  <2>4. \A n \in Gone : Covered(n, chains \o <<c>>) \/ Covered(n, dropped)
    <3>1. \A n : Inside(n, w) <=> Inside(n, c)
      BY <2>2 DEF Inside
    <3> QED BY <1>1, <2>2, <3>1, CoveredByMore DEF CoverInv
  <2>5. \A i \in DOMAIN dropped : Apart(dropped[i], c) /\ Apart(dropped[i], Passed)
    BY <2>1, <2>2 DEF DroppedInv, Apart
  <2>6. ASSUME NEW i \in DOMAIN dropped, NEW j \in DOMAIN (chains \o <<c>>)
        PROVE  Apart(dropped[i], (chains \o <<c>>)[j])
    BY <1>1, <2>2, <2>5, AddChain DEF DroppedInv
  <2> QED BY <2>1, <2>3, <2>4, <2>5, <2>6
<1>4. CASE ~Splits
  <2> DEFINE p == Append(w.interior, walk.cur)
  <2>1. /\ Passed.interior = p /\ chains \o SplitOff = chains /\ kept' = kept
    BY <1>1, <1>4 DEF Passed, SplitOff, Pass, Chains
  <2>2. /\ \A k \in DOMAIN w.interior : k \in DOMAIN p /\ p[k] = w.interior[k]
        /\ Len(w.interior) + 1 \in DOMAIN p /\ p[Len(w.interior) + 1] = walk.cur
        /\ \A k \in DOMAIN p : k \in DOMAIN w.interior \/ k = Len(w.interior) + 1
    <3>1. PICK s \in Seq(Nodes) : s = w.interior
      BY <1>1 DEF Chains
    <3>2. p = Append(s, walk.cur)
      BY <3>1
    <3> HIDE DEF p
    <3>3. \A k \in 1..Len(s) : k \in 1..(Len(s) + 1) /\ p[k] = s[k]
      BY <3>2
    <3>4. DOMAIN p = 1..(Len(s) + 1) /\ p[Len(s) + 1] = walk.cur /\ Len(s) \in Nat
      BY <3>2
    <3> QED
      BY ONLY <3>1, <3>3, <3>4, s \in Seq(Nodes)
  <2> HIDE DEF p
  <2>3. \A n : Inside(n, w) \/ n = walk.cur => Inside(n, Passed)
    BY <2>1, <2>2 DEF Inside
  <2>4. \A n \in Gone' : n \in Gone \/ n = walk.cur
    BY <1>2, <2>1 DEF Gone
  <2>5. \A n \in Gone' : Covered(n, chains) \/ Covered(n, dropped) \/ Inside(n, Passed)
    BY <2>3, <2>4 DEF CoverInv
  <2>6. ASSUME NEW i \in DOMAIN dropped PROVE Apart(dropped[i], Passed)
    <3>1. Swallowed(dropped[i], Gone) /\ walk.cur \notin Gone
      BY <1>1 DEF DroppedInv, Loop, Gone
    <3>2. Apart(dropped[i], w)
      BY DEF DroppedInv
    <3> QED BY <2>1, <2>2, <3>1, <3>2 DEF Apart, Swallowed
  <2> QED BY <2>1, <2>5, <2>6 DEF DroppedInv
<1> QED BY <1>3, <1>4

\* What a step of a walk keeps of the first two.
LEMMA WalkScan ==
    ASSUME KeptInv, ScanInv, walk # NoWalk, Pass, UNCHANGED <<merged, phase, scan>>
    PROVE  KeptInv' /\ ScanInv'
<1>1. /\ kept \subseteq kept' /\ kept' \subseteq kept \cup {walk.cur}
      /\ consumed' = consumed \cup {walk.cur} /\ phase # "done"
  BY DEF Pass, ScanInv
<1>2. \A n : (Interior(n)' <=> Interior(n)) /\ (Open(n)' => Open(n))
  BY <1>1 DEF Interior, Adj, Access, Open
<1>3. Vertices' = Vertices
  BY DEF Vertices
<1> QED BY <1>1, <1>2, <1>3 DEF KeptInv, ScanInv

\* Dropped chains stay sound as nodes are kept and passed.
LEMMA LoopStays ==
    ASSUME NEW m, NEW c, NEW k, NEW k2, NEW s, NEW s2,
           k \subseteq k2, s \subseteq s2, Loop(m, c, k, s)
    PROVE  Loop(m, c, k2, s2)
  BY DEF Loop, Swallowed

LEMMA WalkOnSegment == Inv /\ RoadInv /\ SegmentInv /\ WalkOn => SegmentInv'
<1> SUFFICES ASSUME Inv, RoadInv, SegmentInv, WalkOn PROVE SegmentInv'
  OBVIOUS
<1> USE DEF SegmentInv
<1> DEFINE c == [Passed EXCEPT !.length = @ + Length(walk.cur, Onward)]
           w == walk.chain
<1>1. /\ walk # NoWalk /\ Pass /\ chains' = chains \o SplitOff
      /\ UNCHANGED <<merged, dropped, phase, scan>>
      /\ walk' = [chain |-> c, prev |-> walk.cur, cur |-> Onward] /\ Onward \notin kept
  BY DEF WalkOn
<1>2. /\ Passed \in Chains /\ kept \subseteq kept' /\ Gone \subseteq Gone'
      /\ consumed' = consumed \cup {walk.cur}
  BY <1>1, PassFacts
<1>3. c.a = Passed.a /\ c.interior = Passed.interior /\ c \in Chains
  <2>1. PICK p, l : p = Passed /\ l = Length(walk.cur, Onward)
    OBVIOUS
  <2>2. p \in Chains /\ l \in Nat
    BY <1>1, <1>2, <2>1, Ahead
  <2>3. c = [p EXCEPT !.length = @ + l]
    BY <2>1
  <2> HIDE DEF c
  <2> QED BY <2>1, <2>2, <2>3 DEF Chains
<1> HIDE DEF c
<1>4. walk'.chain = c /\ walk'.cur = Onward
  BY <1>1
<1>5. KeptInv' /\ ScanInv'
  BY <1>1, WalkScan
<1>6. DroppedInv'
  <2>1. \A i \in DOMAIN dropped : Loop(merged, dropped[i], kept', Gone')
    BY <1>2, LoopStays DEF DroppedInv
  <2>2. \A i \in DOMAIN dropped :
          Apart(dropped[i], c) /\ \A j \in DOMAIN chains' : Apart(dropped[i], chains'[j])
    BY <1>1, <1>3, PassCover DEF Apart
  <2> QED BY <1>1, <1>4, <2>1, <2>2 DEF DroppedInv
<1>7. CoverInv'
  <2>1. \A n : Inside(n, Passed) <=> Inside(n, c)
    BY <1>3 DEF Inside
  <2>2. walk' # NoWalk
    BY <1>1, <1>3, Ahead, WalkAssumption
  <2> QED BY <1>1, <1>4, <2>1, <2>2, PassCover DEF CoverInv
<1>8. BackInv'
  <2>1. /\ walk.cur \notin kept /\ walk.cur \notin consumed
        /\ Onward # walk.cur /\ Onward \notin consumed
        /\ walk.cur \in Nodes /\ walk.prev \in Adj(walk.cur) /\ Onward # walk.prev
        /\ w.interior \in Seq(Nodes) /\ w \in Chains
        /\ walk.prev \in kept \cup consumed
    BY <1>1, Ahead, OnwardFacts DEF Open, Inv, TypeOK, Chains, WalkInv
  <2>2. Leaves(merged, c, Onward, kept' \cup consumed')
    <3>1. CASE Splits
      <4>1. c.a = walk.cur /\ c.interior = <<>>
        BY <1>3, <3>1 DEF Passed
      <4>2. First(c, Onward) = Onward /\ \A y : ~Inside(y, c)
        BY <4>1 DEF First, Inside
      <4>3. walk.prev \in kept' \cup consumed' /\ <<c.a, walk.prev>> \in DOMAIN merged
        BY <1>2, <2>1, <4>1 DEF Adj
      <4> QED BY <2>1, <4>2, <4>3 DEF Leaves
    <3>2. CASE ~Splits
      <4> DEFINE p == Append(w.interior, walk.cur)
      <4>1. c.a = w.a /\ c.interior = p
        BY <1>3, <2>1, <3>2 DEF Passed, Chains
      <4>2. /\ p # <<>> /\ p[1] = First(w, walk.cur)
            /\ \A k \in DOMAIN p : \/ k \in DOMAIN w.interior /\ p[k] = w.interior[k]
                                  \/ p[k] = walk.cur
        <5>1. /\ Len(w.interior) \in Nat /\ DOMAIN w.interior = 1..Len(w.interior)
              /\ DOMAIN p = 1..(Len(w.interior) + 1)
              /\ p[Len(w.interior) + 1] = walk.cur
              /\ \A k \in 1..Len(w.interior) : p[k] = w.interior[k]
          BY <2>1
        <5>2. p # <<>>
          <6> HIDE DEF p
          <6>1. 1 \in DOMAIN p
            BY <5>1
          <6> QED BY <6>1
        <5>3. p[1] = First(w, walk.cur)
          <6>1. CASE w.interior = <<>>
            BY <5>1, <6>1 DEF First
          <6>2. CASE w.interior # <<>>
            <7>1. 1 \in 1..Len(w.interior)
              BY <2>1, <6>2
            <7> QED BY <5>1, <6>2, <7>1 DEF First
          <6> QED BY <6>1, <6>2
        <5> HIDE DEF p
        <5> QED BY <5>1, <5>2, <5>3
      <4> HIDE DEF p
      <4>3. First(c, Onward) = First(w, walk.cur)
        BY <4>1, <4>2 DEF First
      <4> SUFFICES ASSUME TwoRoads(merged, c.a)
                   PROVE  \E y \in kept' \cup consumed' :
                            <<c.a, y>> \in DOMAIN merged
                              /\ y # First(c, Onward) /\ ~Inside(y, c)
        BY DEF Leaves
      <4>4. PICK y \in kept \cup consumed :
              <<w.a, y>> \in DOMAIN merged /\ y # First(w, walk.cur) /\ ~Inside(y, w)
        BY <1>1, <4>1 DEF BackInv, Leaves
      <4>5. ~Inside(y, c)
        BY <2>1, <4>1, <4>2, <4>4 DEF Inside
      <4> QED BY <1>2, <4>1, <4>3, <4>4, <4>5
    <3> QED BY <3>1, <3>2
  <2> QED BY <1>1, <1>4, <2>2 DEF BackInv
<1> QED BY <1>5, <1>6, <1>7, <1>8

\* A walk that comes back to where its chain began, with nodes inside it,
\* began at a junction.
LEMMA LoopsAtJunctions ==
    ASSUME Inv, RoadInv, BackInv, walk # NoWalk, ~Splits, Onward = walk.chain.a
    PROVE  ~TwoRoads(merged, walk.chain.a)
<1> DEFINE w == walk.chain
           a == walk.chain.a
           n == Len(w.interior)
<1> SUFFICES ASSUME TwoRoads(merged, a) PROVE FALSE
  OBVIOUS
<1>1. /\ walk.cur \in Nodes /\ walk.cur \in Adj(a) /\ a \in Nodes
      /\ walk.cur \notin kept /\ walk.cur \notin consumed
      /\ w \in Chains /\ Onward # walk.prev /\ w.interior \in Seq(Nodes)
  BY Ahead, OnwardFacts DEF Inv, TypeOK, Chains
<1>2. PICK y \in kept \cup consumed :
        <<a, y>> \in DOMAIN merged /\ y # First(w, walk.cur)
  BY DEF BackInv, Leaves
<1>3. <<a, First(w, walk.cur)>> \in DOMAIN merged /\ First(w, walk.cur) \in Nodes
  <2>1. PICK x \in Nodes, v \in Seq(Nodes), b \in Nodes :
          x = w.a /\ v = w.interior /\ b = walk.cur
    BY <1>1
  <2>2. LET u == <<x>> \o v \o <<b>>
        IN  /\ u \in Seq(Nodes) /\ Len(u) = Len(v) + 2 /\ u[1] = x
            /\ u[Len(v) + 2] = b /\ \A i \in 1..Len(v) : u[i + 1] = v[i]
    BY Between
  <2>3. PICK t : t = Trail
    OBVIOUS
  <2>4. /\ t \in Seq(Nodes) /\ Len(t) = n + 2 /\ t[1] = a /\ n \in Nat
        /\ t[n + 2] = walk.cur /\ \A i \in 1..n : t[i + 1] = w.interior[i]
    <3>1. t = <<x>> \o v \o <<b>>
      BY <2>1, <2>3 DEF Trail
    <3>2. n \in Nat
      BY <1>1
    <3> QED BY <2>1, <2>2, <3>1, <3>2
  <2>5. t[2] = First(w, walk.cur)
    <3>1. CASE n = 0
      <4>1. w.interior = <<>>
        BY <1>1, <3>1
      <4> QED BY <2>4, <3>1, <4>1 DEF First
    <3>2. CASE n # 0
      <4>1. 1 \in 1..n /\ w.interior # <<>>
        BY <2>4, <3>2
      <4> QED BY <2>4, <4>1 DEF First
    <3> QED BY <3>1, <3>2
  <2>6. 2 \in 2..Len(t) /\ 2 - 1 = 1 /\ 2 \in 1..Len(t)
    BY <2>4
  <2>7. <<t[1], t[2]>> \in DOMAIN merged /\ t[2] \in Nodes
    BY <2>3, <2>4, <2>6 DEF RoadInv, Road
  <2> QED BY <2>4, <2>5, <2>7
<1>4. y \in Nodes /\ y # walk.cur
  BY <1>1, <1>2 DEF Inv, TypeOK
<1>5. walk.cur = First(w, walk.cur)
  <2>1. walk.cur \in {u \in Nodes : <<a, u>> \in DOMAIN merged}
    BY <1>1 DEF Adj
  <2> QED BY <1>2, <1>3, <1>4, <2>1 DEF TwoRoads
<1>6. w.interior = <<>>
  <2>1. w.interior # <<>> => 1 \in DOMAIN w.interior
    BY <1>1
  <2>2. w.interior # <<>> => w.interior[1] \in Gone
    BY <2>1 DEF Inv, WalkInv, Swallowed
  <2> QED BY <1>1, <1>5, <2>2 DEF First, Gone
<1>7. Trail = <<a, walk.cur>> /\ Len(w.interior) = 0
  BY <1>1, <1>6, NothingBetween DEF Trail
<1>8. walk.prev = a
  BY <1>7 DEF RoadInv
<1> QED BY <1>1, <1>8

LEMMA WalkEndsSegment == Inv /\ RoadInv /\ SegmentInv /\ WalkEnds => SegmentInv'
<1> SUFFICES ASSUME Inv, RoadInv, SegmentInv, WalkEnds PROVE SegmentInv'
  OBVIOUS
<1> USE DEF SegmentInv
<1> DEFINE c == [Passed EXCEPT !.length = @ + Length(walk.cur, Onward), !.b = Onward]
           cs == chains \o SplitOff
<1>1. /\ walk # NoWalk /\ Pass /\ walk' = NoWalk
      /\ UNCHANGED <<merged, phase, scan>> /\ Onward \in kept
      /\ dropped' = IF c.a = c.b /\ c.interior # <<>>
                    THEN Append(dropped, c) ELSE dropped
      /\ chains' = cs \o (IF c.a = c.b \/ c.interior = <<>> THEN <<>>
                          ELSE <<Canonical(c)>>)
  BY DEF WalkEnds
<1>2. /\ Passed \in Chains /\ kept \subseteq kept' /\ Gone \subseteq Gone'
      /\ cs \in Seq(Chains) /\ dropped \in Seq(Chains)
      /\ Swallowed(Passed, Gone') /\ NoRepeat(Passed.interior) /\ Passed.a \in kept'
      /\ Onward \in Nodes /\ Length(walk.cur, Onward) \in Nat
  BY <1>1, PassFacts, Ahead DEF Inv, TypeOK
<1>3. /\ c.a = Passed.a /\ c.interior = Passed.interior /\ c.b = Onward
      /\ c.access = Passed.access
      /\ c.length = Passed.length + Length(walk.cur, Onward) /\ c \in Chains
  <2>1. PICK p, l, n : p = Passed /\ l = Length(walk.cur, Onward) /\ n = Onward
    OBVIOUS
  <2>2. p \in Chains /\ l \in Nat /\ n \in Nodes
    BY <1>2, <2>1
  <2>3. c = [p EXCEPT !.length = @ + l, !.b = n]
    BY <2>1
  <2> HIDE DEF c
  <2>4. c = [a |-> p.a, b |-> n, length |-> p.length + l, access |-> p.access,
             interior |-> p.interior]
    BY <2>2, <2>3 DEF Chains
  <2> QED BY <2>1, <2>2, <2>4 DEF Chains
<1> HIDE DEF c
<1>4. KeptInv' /\ ScanInv' /\ BackInv'
  <2>1. KeptInv' /\ ScanInv'
    BY <1>1, WalkScan
  <2> QED BY <1>1, <2>1 DEF BackInv
<1>5. /\ \A n \in Gone' : Covered(n, cs) \/ Covered(n, dropped) \/ Inside(n, c)
      /\ \A i \in DOMAIN dropped :
            /\ Apart(dropped[i], c)
            /\ \A j \in DOMAIN cs : Apart(dropped[i], cs[j])
  BY <1>1, <1>3, PassCover DEF Inside, Apart
<1>6. \A i \in DOMAIN cs : Apart(cs[i], c)
  BY <1>1, <1>3, PassFacts DEF Apart
<1>7. \A i \in DOMAIN dropped : Loop(merged, dropped[i], kept', Gone')
  BY <1>2, LoopStays DEF DroppedInv
<1> HIDE DEF cs
<1>8. CASE c.interior = <<>>
  <2>1. dropped' = dropped /\ chains' = cs
    BY <1>1, <1>2, <1>8
  <2>2. \A n : ~Inside(n, c)
    BY <1>8 DEF Inside
  <2> QED BY <1>1, <1>4, <1>5, <1>7, <2>1, <2>2 DEF DroppedInv, CoverInv
<1>9. CASE c.a = c.b /\ c.interior # <<>>
  <2>1. dropped' = Append(dropped, c) /\ chains' = cs
    BY <1>1, <1>2, <1>9
  <2>2. PICK ds : ds = dropped \o <<c>>
    OBVIOUS
  <2>3. dropped' = ds
    BY <1>2, <1>3, <2>1, <2>2
  <2>4. /\ \A i \in DOMAIN dropped : i \in DOMAIN ds /\ ds[i] = dropped[i]
        /\ Len(dropped) + 1 \in DOMAIN ds /\ ds[Len(dropped) + 1] = c
        /\ \A i \in DOMAIN ds : i \in DOMAIN dropped \/ i = Len(dropped) + 1
    BY <1>2, <1>3, <2>2, LastChain
  <2>5. Loop(merged, c, kept', Gone')
    <3>1. ~Splits /\ Passed.a = walk.chain.a
      <4>1. ~Splits
        BY <1>3, <1>9 DEF Passed
      <4> QED BY <4>1 DEF Passed, Inv, TypeOK, Chains
    <3>2. ~TwoRoads(merged, c.a)
      BY <1>1, <1>3, <1>9, <3>1, LoopsAtJunctions
    <3>3. ChainRoad(merged, c)
      BY <1>1, <1>3, PassRoad DEF ChainRoad, Path
    <3> QED BY <1>2, <1>3, <1>9, <3>2, <3>3 DEF Loop, Swallowed
  <2>6. \A i \in DOMAIN ds : Loop(merged, ds[i], kept', Gone')
    BY <1>7, <2>4, <2>5
  <2>7. \A d, e : Apart(d, e) => Apart(e, d)
    BY DEF Apart
  <2>8. \A i, j \in DOMAIN ds : i # j => Apart(ds[i], ds[j])
    BY <1>5, <2>4, <2>7 DEF DroppedInv
  <2>9. \A i \in DOMAIN ds, j \in DOMAIN cs : Apart(ds[i], cs[j])
    BY <1>5, <1>6, <2>4, <2>7
  <2>10. \A n \in Gone' : Covered(n, cs) \/ Covered(n, ds)
    BY <1>5, <2>4 DEF Covered
  <2> QED BY <1>1, <1>4, <2>1, <2>3, <2>6, <2>8, <2>9, <2>10 DEF DroppedInv, CoverInv
<1>10. CASE c.a # c.b /\ c.interior # <<>>
  <2>1. dropped' = dropped /\ chains' = cs \o <<Canonical(c)>>
    BY <1>1, <1>10
  <2>2. PICK d : d = Canonical(c)
    OBVIOUS
  <2>3. /\ d \in Chains
        /\ \A k \in DOMAIN d.interior : \E l \in DOMAIN c.interior : d.interior[k] = c.interior[l]
        /\ \A n : Inside(n, c) => Inside(n, d)
    BY <1>3, <2>2, CanonicalFacts, CanonicalInside
  <2>4. PICK ds : ds = cs \o <<d>>
    OBVIOUS
  <2>5. /\ \A i \in DOMAIN cs : i \in DOMAIN ds /\ ds[i] = cs[i]
        /\ Len(cs) + 1 \in DOMAIN ds /\ ds[Len(cs) + 1] = d
        /\ \A i \in DOMAIN ds : i \in DOMAIN cs \/ i = Len(cs) + 1
    BY <1>2, <2>3, <2>4, LastChain
  <2>6. \A i \in DOMAIN dropped : Apart(dropped[i], d)
    BY <1>5, <2>3 DEF Apart
  <2>7. \A i \in DOMAIN dropped, j \in DOMAIN ds : Apart(dropped[i], ds[j])
    BY <1>5, <2>5, <2>6
  <2>8. \A n \in Gone' : Covered(n, ds) \/ Covered(n, dropped)
    BY <1>5, <2>3, <2>5 DEF Covered
  <2>9. chains' = ds
    BY <2>1, <2>2, <2>4
  <2> QED BY <1>1, <1>4, <1>7, <2>1, <2>7, <2>8, <2>9 DEF DroppedInv, CoverInv
<1> QED BY <1>8, <1>9, <1>10

\* A walk begins: nothing is passed, and nothing inside the chain yet.
LEMMA BeginSegment ==
    ASSUME Inv, SegmentInv, NEW CONSTANT s, NEW CONSTANT t,
           walk = NoWalk, walk' = Begin(s, t), kept \subseteq kept', Gone \subseteq Gone',
           UNCHANGED <<merged, consumed, chains, dropped>>,
           Leaves(merged, walk'.chain, walk'.cur, kept' \cup consumed')
    PROVE  BackInv' /\ DroppedInv' /\ CoverInv'
<1>1. walk'.chain.interior = <<>>
  BY DEF Begin
<1>2. Gone' \subseteq Gone
  BY DEF Gone
<1>3. \A i \in DOMAIN dropped : Loop(merged, dropped[i], kept', Gone')
  BY LoopStays DEF SegmentInv, DroppedInv
<1>4. \A d : Apart(d, walk'.chain)
  BY <1>1 DEF Apart
<1>5. DroppedInv'
  BY <1>3, <1>4 DEF SegmentInv, DroppedInv
<1>6. CoverInv'
  BY <1>2 DEF SegmentInv, CoverInv
<1>7. BackInv'
  BY DEF BackInv
<1> QED BY <1>5, <1>6, <1>7

LEMMA AnchorSegment ==
    ASSUME Inv, SegmentInv, NEW s \in Nodes, NEW t \in Nodes, Anchor(s, t)
    PROVE  SegmentInv'
<1>1. /\ s \in kept /\ t \in Adj(s) /\ Open(t) /\ walk = NoWalk
      /\ walk' = Begin(s, t) /\ phase = "anchored"
      /\ UNCHANGED <<merged, kept, consumed, chains, dropped, phase>>
  BY DEF Anchor, Enters, Adj
<1>2. s \notin consumed
  BY <1>1, OpenNeighbor
<1>3. ~TwoRoads(merged, s)
  BY <1>1, <1>2, InteriorTwoRoads DEF SegmentInv, KeptInv
<1>4. Leaves(merged, walk'.chain, walk'.cur, kept' \cup consumed')
  BY <1>1, <1>3 DEF Begin, Leaves
<1>5. BackInv' /\ DroppedInv' /\ CoverInv'
  BY <1>1, <1>4, BeginSegment DEF Gone
<1>6. \A n : Interior(n)' <=> Interior(n)
  BY <1>1 DEF Interior, Adj, Access
<1>7. KeptInv' /\ ScanInv'
  BY <1>1, <1>6 DEF SegmentInv, KeptInv, ScanInv
<1> QED BY <1>5, <1>7 DEF SegmentInv

\* A step that begins no walk and passes nothing.
LEMMA StillSegment ==
    ASSUME SegmentInv, walk = NoWalk, walk' = NoWalk, kept \subseteq kept',
           UNCHANGED <<merged, consumed, chains, dropped>>
    PROVE  Gone \subseteq Gone' => BackInv' /\ DroppedInv' /\ CoverInv'
<1> SUFFICES ASSUME Gone \subseteq Gone' PROVE BackInv' /\ DroppedInv' /\ CoverInv'
  OBVIOUS
<1>1. Gone' \subseteq Gone
  BY DEF Gone
<1>2. \A i \in DOMAIN dropped : Loop(merged, dropped[i], kept', Gone')
  BY LoopStays DEF SegmentInv, DroppedInv
<1> QED BY <1>1, <1>2 DEF SegmentInv, BackInv, DroppedInv, CoverInv

LEMMA RingSegment ==
    ASSUME Inv, SegmentInv, NEW start \in Vertices, Ring(start)
    PROVE  SegmentInv'
<1>1. /\ walk = NoWalk /\ Open(start) /\ phase = "rings"
      /\ UNCHANGED <<merged, consumed, chains, dropped, phase>> /\ scan' = start + 1
      /\ \A n \in Vertices : n >= scan /\ Open(n) => start <= n
      /\ IsNetwork(merged) /\ kept \subseteq Nodes /\ scan \in Nat
  BY DEF Ring, Inv, TypeOK
<1>2. PICK low \in Adj(start), high \in Adj(start) :
        /\ low < high
        /\ kept' = kept \cup {start, low}
        /\ walk' = IF Open(high) THEN Begin(start, high) ELSE NoWalk
  BY DEF Ring, RingKept
<1>3. start \in Nodes /\ Nodes \subseteq Int
  BY <1>1, VerticesAreNodes DEF Nodes
<1>4. /\ low \in Nodes /\ high \in Nodes /\ start \in Adj(low) /\ low # high
      /\ <<start, low>> \in DOMAIN merged
  <2>1. low \in Nodes /\ high \in Nodes /\ start \in Adj(low)
    BY <1>1, <1>3, EdgeFacts
  <2> QED BY <1>2, <1>3, <2>1 DEF Adj
<1>5. low \notin consumed /\ start \notin consumed
  BY <1>1, <1>4, OpenNeighbor DEF Open
<1>6. Gone \subseteq Gone' /\ kept \subseteq kept'
  BY <1>1, <1>2, <1>5 DEF Gone
<1>7. BackInv' /\ DroppedInv' /\ CoverInv'
  <2>1. CASE Open(high)
    <3>1. /\ walk' = Begin(start, high) /\ walk'.chain.a = start
          /\ walk'.chain.interior = <<>> /\ walk'.cur = high
      BY <1>2, <2>1 DEF Begin
    <3>2. Leaves(merged, walk'.chain, walk'.cur, kept' \cup consumed')
      <4>1. PICK c, n : c = walk'.chain /\ n = walk'.cur
        OBVIOUS
      <4>2. c.a = start /\ First(c, n) = high /\ ~Inside(low, c)
        BY <3>1, <4>1 DEF First, Inside
      <4>3. low \in kept' \cup consumed'
        BY <1>2
      <4> QED BY <1>4, <4>1, <4>2, <4>3 DEF Leaves
    <3>3. start \in Nodes /\ high \in Nodes
      BY <1>3, <1>4
    <3> QED BY <1>1, <1>6, <3>1, <3>2, BeginSegment
  <2>2. CASE ~Open(high)
    BY <1>1, <1>2, <1>6, <2>2, StillSegment
  <2> QED BY <2>1, <2>2
<1>8. KeptInv' /\ ScanInv'
  <2>1. Vertices' = Vertices /\ \A n : Open(n)' => Open(n) /\ n # start
    BY <1>1, <1>2 DEF Vertices, Open
  <2>2. ASSUME NEW n \in Vertices, n < start + 1, Open(n), n # start PROVE FALSE
    <3>1. n \in Int /\ start \in Int /\ scan \in Int
      BY <1>1, <1>3, VerticesAreNodes
    <3>2. n < start
      BY <2>2, <3>1
    <3>3. ~(n >= scan)
      BY <1>1, <2>2, <3>1, <3>2
    <3>4. n < scan
      BY <3>1, <3>3
    <3> QED BY <1>1, <2>2, <3>4 DEF SegmentInv, ScanInv
  <2> QED BY <1>1, <2>1, <2>2 DEF KeptInv, ScanInv
<1> QED BY <1>7, <1>8 DEF SegmentInv

LEMMA StepSegment == Inv /\ RoadInv /\ SegmentInv /\ [Next]_vars => SegmentInv'
<1> SUFFICES ASSUME Inv, RoadInv, SegmentInv, [Next]_vars PROVE SegmentInv'
  OBVIOUS
<1>0. ASSUME UNCHANGED <<merged, kept, consumed>>
      PROVE  /\ Gone' = Gone /\ Vertices' = Vertices
             /\ \A n : (Interior(n)' <=> Interior(n)) /\ (Open(n)' <=> Open(n))
  BY <1>0 DEF Gone, Vertices, Interior, Adj, Access, Open
<1>1. ASSUME NEW s \in Nodes, NEW t \in Nodes, Anchor(s, t) PROVE SegmentInv'
  BY <1>1, AnchorSegment
<1>2. CASE AnchorsDone
  <2>1. BackInv' /\ DroppedInv' /\ CoverInv'
    BY <1>0, <1>2, StillSegment DEF AnchorsDone
  <2>2. KeptInv' /\ ScanInv'
    <3>1. \A n \in Vertices : ~(n < 0)
      BY VerticesAreNodes DEF Inv, TypeOK, Nodes
    <3> QED BY <1>0, <1>2, <3>1 DEF AnchorsDone, KeptInv, ScanInv
  <2> QED BY <2>1, <2>2 DEF SegmentInv
<1>3. ASSUME NEW n \in Vertices, Ring(n) PROVE SegmentInv'
  BY <1>3, RingSegment
<1>4. CASE WalkOn
  BY <1>4, WalkOnSegment
<1>5. CASE WalkEnds
  BY <1>5, WalkEndsSegment
<1>6. CASE Emit
  <2>1. BackInv' /\ DroppedInv' /\ CoverInv'
    BY <1>0, <1>6, StillSegment DEF Emit
  <2>2. KeptInv' /\ ScanInv'
    <3>1. \A n \in Vertices : n \in Int /\ scan \in Int
      BY VerticesAreNodes DEF Inv, TypeOK, Nodes
    <3>2. \A n \in Vertices : ~Open(n)
      <4> SUFFICES ASSUME NEW n \in Vertices PROVE ~Open(n)
        OBVIOUS
      <4>1. n >= scan \/ n < scan
        BY <3>1
      <4> QED BY <1>6, <4>1 DEF Emit, SegmentInv, ScanInv
    <3> QED BY <1>0, <1>6, <3>2 DEF Emit, KeptInv, ScanInv
  <2> QED BY <2>1, <2>2 DEF SegmentInv
<1>7. CASE UNCHANGED vars
  BY <1>0, <1>7 DEF vars, SegmentInv, KeptInv, ScanInv, BackInv, DroppedInv, CoverInv
<1> QED BY <1>1, <1>2, <1>3, <1>4, <1>5, <1>6, <1>7 DEF Next, Done

\* The invariant of the walks, with the roads.
AllInv == Inv /\ RoadInv /\ EdgeInv /\ SegmentInv

LEMMA InitAll == Init => AllInv
<1> SUFFICES ASSUME Init PROVE AllInv
  OBVIOUS
<1>1. RoadInv /\ EdgeInv
  BY DEF Init, RoadInv, EdgeInv
<1>2. SegmentInv
  BY DEF Init, SegmentInv, KeptInv, ScanInv, BackInv, DroppedInv, CoverInv, Gone
<1> QED BY <1>1, <1>2, InitInv DEF AllInv

LEMMA StepAll == AllInv /\ [Next]_vars => AllInv'
<1> SUFFICES ASSUME AllInv, [Next]_vars PROVE RoadInv' /\ EdgeInv'
  BY StepInv, StepSegment DEF AllInv
<1> USE DEF AllInv
<1>1. ASSUME NEW s \in Nodes, NEW t \in Nodes, Anchor(s, t) PROVE RoadInv' /\ EdgeInv'
  BY <1>1, AnchorRoad DEF Anchor, EdgeInv
<1>2. CASE AnchorsDone
  BY <1>2 DEF AnchorsDone, RoadInv, EdgeInv
<1>3. ASSUME NEW n \in Vertices, Ring(n) PROVE RoadInv' /\ EdgeInv'
  BY <1>3, RingRoad DEF Ring, EdgeInv
<1>4. CASE WalkOn
  <2>1. phase # "done" /\ phase' = phase
    BY <1>4 DEF WalkOn, EdgeInv
  <2> QED BY <1>4, <2>1, WalkOnRoad DEF EdgeInv
<1>5. CASE WalkEnds
  <2>1. phase # "done" /\ phase' = phase
    BY <1>5 DEF WalkEnds, EdgeInv
  <2> QED BY <1>5, <2>1, WalkEndsRoad DEF EdgeInv
<1>6. CASE Emit
  <2>1. RoadInv'
    BY <1>6 DEF Emit, RoadInv
  <2> QED BY <1>6, <2>1, EmitEdges
<1>7. CASE UNCHANGED vars
  <2>1. Finished' = Finished /\ \A c : Both(c)' = Both(c)
    BY <1>7, SameBoth DEF vars
  <2>2. EdgeInv'
    BY <1>7, <2>1 DEF vars, EdgeInv
  <2>3. RoadInv'
    <3>1. Trail' = Trail
      BY <1>7 DEF vars, Trail
    <3> QED BY <1>7, <3>1 DEF vars, RoadInv
  <2> QED BY <2>2, <2>3
<1> QED BY <1>1, <1>2, <1>3, <1>4, <1>5, <1>6, <1>7 DEF Next, Done

\* Renumbering keeps the nodes apart.
LEMMA NewIndexApart ==
    ASSUME kept \subseteq Nodes, NEW n \in kept
    PROVE  OldIndex(NewIndex(n)) = n
<1> DEFINE Below(k) == {j \in kept : j < k}
<1>1. IsFiniteSet(kept) /\ kept \subseteq Int
  <2>1. IsFiniteSet(Nodes) /\ Nodes \subseteq Int
    BY FS_Interval, NetworkAssumption DEF Nodes
  <2> QED BY <2>1, FS_Subset
<1>2. ASSUME NEW k \in kept, NEW j \in kept, k < j PROVE NewIndex(k) < NewIndex(j)
  <2>1. k \in Int /\ j \in Int /\ (\A x \in kept : x \in Int)
    BY <1>1
  <2>2. Below(k) \subseteq Below(j) /\ k \in Below(j) /\ k \notin Below(k)
    <3>1. \A x \in kept : x < k => x < j
      BY <1>2, <2>1
    <3>2. k < j /\ ~ (k < k)
      BY <1>2, <2>1
    <3> QED BY <3>1, <3>2
  <2>3. IsFiniteSet(Below(j))
    BY <1>1, FS_Subset
  <2>4. /\ Cardinality(Below(k)) <= Cardinality(Below(j))
        /\ Cardinality(Below(k)) = Cardinality(Below(j)) => Below(k) = Below(j)
        /\ Cardinality(Below(k)) \in Nat /\ Cardinality(Below(j)) \in Nat
    BY <2>2, <2>3, FS_Subset, FS_CardinalityType
  <2> QED BY <2>2, <2>4 DEF NewIndex
<1>3. \A k \in kept : NewIndex(k) = NewIndex(n) => k = n
  <2> SUFFICES ASSUME NEW k \in kept, NewIndex(k) = NewIndex(n), k # n PROVE FALSE
    OBVIOUS
  <2>1. NewIndex(k) \in Nat /\ NewIndex(n) \in Nat
    BY <1>1, FS_Subset, FS_CardinalityType DEF NewIndex
  <2>2. k < n \/ n < k
    BY <1>1
  <2> QED BY <1>2, <2>1, <2>2
<1> QED BY <1>3 DEF OldIndex

\* An edge read in its direction is its chain's path, one way or the other.
LEMMA EdgeFollows ==
    ASSUME kept \subseteq Nodes, IsNetwork(merged), NEW c \in Chains,
           ChainRoad(merged, c), {c.a, c.b} \subseteq kept, NEW e \in Both(c)
    PROVE  /\ Road(merged, Along(e), c.access, c.length)
           /\ e.access = c.access /\ e.length = Clamped(c.length)
<1>1. OldIndex(NewIndex(c.a)) = c.a /\ OldIndex(NewIndex(c.b)) = c.b
  BY NewIndexApart
<1>2. /\ e.access = c.access /\ e.length = Clamped(c.length) /\ e.shape = c.interior
      /\ \/ e.from = NewIndex(c.a) /\ e.to = NewIndex(c.b) /\ ~e.reversed
         \/ e.from = NewIndex(c.b) /\ e.to = NewIndex(c.a)
            /\ e.reversed = (c.interior # <<>>)
  BY DEF Both
<1>3. CASE e.from = NewIndex(c.a) /\ e.to = NewIndex(c.b) /\ ~e.reversed
  <2>1. Along(e) = Path(c)
    BY <1>1, <1>2, <1>3 DEF Along, Path
  <2> QED BY <1>2, <2>1 DEF ChainRoad
<1>4. CASE e.from = NewIndex(c.b) /\ e.to = NewIndex(c.a)
            /\ e.reversed = (c.interior # <<>>)
  <2> DEFINE d == [c EXCEPT !.a = c.b, !.b = c.a, !.interior = Reversed(c.interior)]
  <2>1. /\ d \in Chains /\ Path(d) = Reversed(Path(c))
        /\ d.length = c.length /\ d.access = c.access
    BY PathReversed
  <2>2. d.a = c.b /\ d.b = c.a /\ d.interior = Reversed(c.interior)
    BY DEF Chains
  <2> HIDE DEF d
  <2>3. c.interior = <<>> => Reversed(c.interior) = c.interior
    <3>1. <<>> \in Seq(Nodes) /\ Len(<<>>) = 0
      OBVIOUS
    <3>2. Reversed(<<>>) \in Seq(Nodes) /\ Len(Reversed(<<>>)) = 0
      BY <3>1, ReversedFacts
    <3>3. Reversed(<<>>) = <<>>
      BY <3>2
    <3> QED BY <3>3
  <2>4. Along(e) = Path(d)
    BY <1>1, <1>2, <1>4, <2>2, <2>3 DEF Along, Path
  <2> QED BY <1>2, <2>1, <2>4, RoadReverse DEF ChainRoad
<1> QED BY <1>2, <1>3, <1>4

LEMMA EdgesFollow == AllInv => EdgesFollowRoads
<1> SUFFICES ASSUME AllInv, phase = "done", NEW e \in edges
    PROVE  LET p == Along(e)
               hops == [i \in 2..Len(p) |-> Length(p[i - 1], p[i])]
               sum[i \in 1..Len(p)] == IF i = 1 THEN 0 ELSE sum[i - 1] + hops[i]
           IN  /\ \A i \in 1..(Len(p) - 1) :
                     <<p[i], p[i + 1]>> \in DOMAIN merged
                       /\ Access(p[i], p[i + 1]) = e.access
               /\ e.length = Clamped(sum[Len(p)])
  BY DEF EdgesFollowRoads
<1>1. IsNetwork(merged) /\ kept \subseteq Nodes
  BY DEF AllInv, Inv, TypeOK
<1>2. PICK c \in Chains :
        ChainRoad(merged, c) /\ {c.a, c.b} \subseteq kept /\ e \in Both(c)
  BY FinishedChains DEF AllInv, EdgeInv
<1> DEFINE p == Along(e)
           hops == [i \in 2..Len(p) |-> Length(p[i - 1], p[i])]
           sum[i \in 1..Len(p)] == IF i = 1 THEN 0 ELSE sum[i - 1] + hops[i]
<1>3. /\ Road(merged, p, c.access, c.length)
      /\ e.access = c.access /\ e.length = Clamped(c.length)
  BY <1>1, <1>2, EdgeFollows
<1> HIDE DEF p
<1>4. p \in Seq(Nodes) /\ Len(p) \in Nat /\ Len(p) >= 2
  BY <1>3 DEF Road
<1>5. ASSUME NEW i \in 1..(Len(p) - 1)
      PROVE  <<p[i], p[i + 1]>> \in DOMAIN merged /\ Access(p[i], p[i + 1]) = e.access
  <2>1. i + 1 \in 2..Len(p) /\ (i + 1) - 1 = i
    BY <1>4
  <2> QED BY <1>3, <2>1 DEF Road, Access
<1>6. hops = Hops(merged, p)
  BY DEF Hops, Length
<1>7. \A i \in (1 + 1)..Len(p) : hops[i] \in Int
  <2> SUFFICES ASSUME NEW i \in 2..Len(p) PROVE Length(p[i - 1], p[i]) \in Int
    OBVIOUS
  <2>1. <<p[i - 1], p[i]>> \in DOMAIN merged
    BY <1>3 DEF Road
  <2>2. merged[<<p[i - 1], p[i]>>].length \in Nat
    BY <1>1, <2>1, SegmentFacts
  <2> QED BY <2>2 DEF Length
<1> HIDE DEF hops
<1>8. IsSum(sum, hops, 1, Len(p))
  BY <1>4, <1>7, RunningSum
<1> HIDE DEF sum
<1>9. sum[Len(p)] = c.length
  <2>1. PICK s : IsSum(s, Hops(merged, p), 1, Len(p)) /\ s[Len(p)] = c.length
    BY <1>3 DEF Road
  <2>2. 1 \in Int /\ Len(p) \in Int /\ 1 <= Len(p)
    BY <1>4
  <2>3. s = sum
    BY <1>6, <1>8, <2>1, <2>2, SumUnique
  <2> QED BY <2>1, <2>3
<1> QED BY <1>3, <1>5, <1>9 DEF p, hops, sum

LEMMA SegmentsOf ==
    ASSUME NEW c \in Chains, NEW p, p = Path(c)
    PROVE  Segments(c) = {{p[i], p[i + 1]} : i \in 1..(Len(c.interior) + 1)}
  BY DEF Segments

\* A node of a segment of c that is not an end of c is inside it.
LEMMA InsideOrEnd ==
    ASSUME NEW c \in Chains, NEW x, NEW y, {x, y} \in Segments(c), x # c.a, x # c.b
    PROVE  Inside(x, c)
<1> DEFINE n == Len(c.interior)
<1>1. PICK p : p = Path(c)
  OBVIOUS
<1>2. /\ n \in Nat /\ p[1] = c.a /\ p[n + 2] = c.b
      /\ \A i \in 1..n : p[i + 1] = c.interior[i]
      /\ DOMAIN c.interior = 1..n
  BY <1>1, PathFacts DEF Chains
<1>3. PICK i \in 1..(n + 1) : {x, y} = {p[i], p[i + 1]}
  <2>1. Segments(c) = {{p[i], p[i + 1]} : i \in 1..(n + 1)}
    BY <1>1, SegmentsOf
  <2> QED BY <2>1
<1>4. PICK j \in 1..(n + 2) : x = p[j]
  <2>1. i \in 1..(n + 2) /\ i + 1 \in 1..(n + 2)
    BY <1>2
  <2> QED BY <1>3, <2>1
<1>5. j - 1 \in 1..n /\ (j - 1) + 1 = j
  BY <1>2, <1>4
<1> QED BY <1>2, <1>4, <1>5 DEF Inside

\* Of a chain that follows roads, both roads of a node inside it are segments.
LEMMA InsideSegments ==
    ASSUME IsNetwork(merged), NEW c \in Chains, ChainRoad(merged, c),
           NEW x \in Nodes, Inside(x, c), Interior(x), NEW y \in Adj(x)
    PROVE  {x, y} \in Segments(c)
<1> DEFINE n == Len(c.interior)
<1>1. PICK p : p = Path(c)
  OBVIOUS
<1>2. /\ n \in Nat /\ Len(p) = n + 2 /\ p \in Seq(Nodes)
      /\ \A i \in 1..n : p[i + 1] = c.interior[i]
      /\ DOMAIN c.interior = 1..n
  BY <1>1, PathFacts DEF Chains
<1>3. PICK k \in 1..n : c.interior[k] = x
  BY <1>2 DEF Inside
<1>4. p[k + 1] = x /\ p[k] \in Nodes /\ p[k + 2] \in Nodes /\ p[k] # p[k + 2]
  <2>1. k \in 1..Len(p) /\ k + 2 \in 1..Len(p) /\ k + 2 \in 3..Len(p) /\ (k + 2) - 2 = k
    BY <1>2
  <2> QED BY <1>1, <1>2, <1>3, <2>1 DEF ChainRoad, Road
<1>5. p[k] \in Adj(x) /\ p[k + 2] \in Adj(x)
  <2>1. k + 1 \in 2..Len(p) /\ k + 2 \in 2..Len(p) /\ (k + 1) - 1 = k /\ (k + 2) - 1 = k + 1
    BY <1>2
  <2>2. <<p[k], p[k + 1]>> \in DOMAIN merged /\ <<p[k + 1], p[k + 2]>> \in DOMAIN merged
    BY <1>1, <2>1 DEF ChainRoad, Road
  <2>3. <<p[k + 1], p[k]>> \in DOMAIN merged
    BY <2>2, SegmentFacts
  <2> QED BY <1>4, <2>2, <2>3 DEF Adj
<1>6. y = p[k] \/ y = p[k + 2]
  BY <1>4, <1>5 DEF Interior
<1>7. {p[k], p[k + 1]} \in Segments(c) /\ {p[k + 1], p[k + 2]} \in Segments(c)
  <2>1. k \in 1..(n + 1) /\ k + 1 \in 1..(n + 1) /\ (k + 1) + 1 = k + 2
    BY <1>2
  <2>2. Segments(c) = {{p[i], p[i + 1]} : i \in 1..(n + 1)}
    BY <1>1, SegmentsOf
  <2>3. {p[k + 1], p[(k + 1) + 1]} \in Segments(c)
    BY <2>1, <2>2
  <2> QED BY <2>1, <2>2, <2>3
<1> QED BY <1>4, <1>6, <1>7

\* Every segment of a chain with a shape has a node inside it.
LEMMA SegmentInside ==
    ASSUME NEW c \in Chains, c.interior # <<>>, NEW x, NEW y, {x, y} \in Segments(c)
    PROVE  Inside(x, c) \/ Inside(y, c)
<1> DEFINE n == Len(c.interior)
<1>1. PICK p : p = Path(c)
  OBVIOUS
<1>2. /\ n \in Nat /\ n # 0 /\ \A i \in 1..n : p[i + 1] = c.interior[i]
      /\ DOMAIN c.interior = 1..n
  BY <1>1, PathFacts DEF Chains
<1>3. PICK i \in 1..(n + 1) : {x, y} = {p[i], p[i + 1]}
  <2>1. Segments(c) = {{p[i], p[i + 1]} : i \in 1..(n + 1)}
    BY <1>1, SegmentsOf
  <2> QED BY <2>1
<1>4. CASE i = n + 1
  <2>1. i - 1 \in 1..n /\ (i - 1) + 1 = i
    BY <1>2, <1>4
  <2> QED BY <1>2, <1>3, <2>1 DEF Inside
<1>5. CASE i # n + 1
  <2>1. i \in 1..n
    BY <1>2, <1>5
  <2> QED BY <1>2, <1>3, <2>1 DEF Inside
<1> QED BY <1>4, <1>5

\* A direct edge is its one segment.
LEMMA DirectSegments ==
    ASSUME NEW x \in Nodes, NEW y \in Nodes, NEW c,
           c.a = x, c.b = y, c.interior = <<>>
    PROVE  Segments(c) = {{x, y}}
<1>1. PICK p : p = Path(c)
  OBVIOUS
<1>2. p = <<x, y>>
  BY <1>1, NothingBetween DEF Path
<1>3. Len(c.interior) + 1 = 1 /\ 1..1 = {1}
  OBVIOUS
<1>4. Segments(c) = {{p[i], p[i + 1]} : i \in 1..1}
  BY <1>1, <1>3 DEF Segments
<1> QED BY <1>2, <1>3, <1>4

\* Of three sets, one has one element and the others none.
LEMMA OneOfThree ==
    ASSUME NEW A, NEW B, NEW C,
           \/ (\E d : A = {d}) /\ B = {} /\ C = {}
           \/ A = {} /\ (\E d : B = {d}) /\ C = {}
           \/ A = {} /\ B = {} /\ (\E d : C = {d})
    PROVE  Cardinality(A) + Cardinality(B) + Cardinality(C) = 1
<1>1. Cardinality({}) = 0
  BY FS_EmptySet
<1>2. \A d : Cardinality({d}) = 1
  BY FS_Singleton
<1>3. ASSUME NEW X, \E d : X = {d} PROVE Cardinality(X) = 1
  BY <1>2, <1>3
<1>4. \/ Cardinality(A) = 1 /\ Cardinality(B) = 0 /\ Cardinality(C) = 0
      \/ Cardinality(A) = 0 /\ Cardinality(B) = 1 /\ Cardinality(C) = 0
      \/ Cardinality(A) = 0 /\ Cardinality(B) = 0 /\ Cardinality(C) = 1
  BY <1>1, <1>3
<1> QED BY <1>4

\* A road of the network is in one chain, one dropped loop or one direct edge.
LEMMA SegmentCounted ==
    ASSUME AllInv, phase = "done", NEW x, NEW y, <<x, y>> \in DOMAIN merged
    PROVE  Cardinality({i \in DOMAIN chains : {x, y} \in Segments(chains[i])})
             + Cardinality({i \in DOMAIN dropped : {x, y} \in Segments(dropped[i])})
             + Cardinality({c \in Direct : {x, y} \in Segments(c)}) = 1
<1> DEFINE In(cs) == {i \in DOMAIN cs : {x, y} \in Segments(cs[i])}
           Straight == {c \in Direct : {x, y} \in Segments(c)}
<1>1. /\ IsNetwork(merged) /\ x \in Nodes /\ y \in Nodes /\ x # y
      /\ <<y, x>> \in DOMAIN merged
      /\ merged[<<y, x>>] = merged[<<x, y>>] /\ walk = NoWalk
  BY SegmentFacts DEF AllInv, Inv, TypeOK, EdgeInv
<1>2. /\ \A i \in DOMAIN chains :
            /\ chains[i] \in Chains /\ chains[i].interior # <<>>
            /\ chains[i].a \in kept /\ chains[i].b \in kept
            /\ Swallowed(chains[i], Gone) /\ ChainRoad(merged, chains[i])
      /\ \A i, j \in DOMAIN chains : i # j => Apart(chains[i], chains[j])
  <2>1. chains \in Seq(Chains)
    BY DEF AllInv, Inv, TypeOK
  <2>2. \A i \in DOMAIN chains : chains[i] \in Chains /\ chains[i].interior # <<>>
    <3> SUFFICES ASSUME NEW i \in DOMAIN chains
                 PROVE  chains[i] \in Chains /\ chains[i].interior # <<>>
      OBVIOUS
    <3>1. chains[i] \in Chains /\ Len(chains[i].interior) \in 1..(MaxGeo - 1)
      BY <2>1 DEF AllInv, Inv, ChainsInv, ChainsOK, ChainOK
    <3>2. Len(<<>>) = 0
      OBVIOUS
    <3>3. Len(chains[i].interior) # 0
      BY <3>1, NetworkAssumption
    <3> QED BY <3>1, <3>2, <3>3
  <2> QED BY <2>2 DEF AllInv, Inv, ChainsInv, ChainsOK, ChainOK, RoadInv
<1>3. /\ \A i \in DOMAIN dropped :
            /\ dropped[i] \in Chains /\ dropped[i].interior # <<>>
            /\ dropped[i].a \in kept /\ dropped[i].b \in kept
            /\ Swallowed(dropped[i], Gone) /\ ChainRoad(merged, dropped[i])
      /\ \A i, j \in DOMAIN dropped : i # j => Apart(dropped[i], dropped[j])
      /\ \A i \in DOMAIN dropped, j \in DOMAIN chains : Apart(dropped[i], chains[j])
  BY DEF AllInv, Inv, TypeOK, SegmentInv, DroppedInv, Loop
<1>4. \A c \in Direct : /\ c.a \in kept /\ c.b \in kept /\ Segments(c) = {{c.a, c.b}}
  <2> SUFFICES ASSUME NEW c \in Direct
               PROVE  c.a \in kept /\ c.b \in kept /\ Segments(c) = {{c.a, c.b}}
    OBVIOUS
  <2>1. /\ c.a \in kept /\ c.b \in kept /\ c.interior = <<>>
    BY DEF Direct
  <2>2. kept \subseteq Nodes
    BY DEF AllInv, Inv, TypeOK
  <2> QED BY <2>1, <2>2, DirectSegments
<1>5. \A n, c, d : Inside(n, c) /\ Inside(n, d) => ~Apart(c, d)
  BY DEF Inside, Apart
<1>6. \A n, c : Inside(n, c) /\ Swallowed(c, Gone) => n \notin kept
  BY DEF Inside, Swallowed, Gone
<1>7. ASSUME x \in kept, y \in kept
      PROVE  Cardinality(In(chains)) + Cardinality(In(dropped)) + Cardinality(Straight) = 1
  <2>1. In(chains) = {} /\ In(dropped) = {}
    BY <1>2, <1>3, <1>6, <1>7, SegmentInside
  <2>2. \E d : Straight = {d}
    <3>1. ASSUME NEW s, NEW t, {s, t} = {x, y}, s < t, <<s, t>> \in DOMAIN merged
          PROVE  \E d : Straight = {d}
      <4> DEFINE d == [a |-> s, b |-> t, length |-> merged[<<s, t>>].length,
                       access |-> merged[<<s, t>>].access, interior |-> <<>>]
      <4>1. <<s, t>>[1] = s /\ <<s, t>>[2] = t /\ {s, t} \subseteq kept
        BY <1>7, <3>1
      <4>2. d \in Direct
        BY <3>1, <4>1 DEF Direct
      <4>3. {x, y} \in Segments(d)
        BY <1>4, <3>1, <4>2
      <4>4. ASSUME NEW c \in Straight PROVE c = d
        <5>1. PICK e \in DOMAIN merged :
                /\ e[1] < e[2]
                /\ c = [a |-> e[1], b |-> e[2], length |-> merged[e].length,
                        access |-> merged[e].access, interior |-> <<>>]
          BY DEF Direct
        <5>2. e = <<e[1], e[2]>> /\ e[1] \in Int /\ e[2] \in Int
          BY <1>1 DEF IsNetwork, Nodes
        <5>3. {x, y} = {e[1], e[2]}
          BY <1>4, <5>1
        <5>4. s \in Int /\ t \in Int
          BY <1>1, <3>1 DEF Nodes
        <5> DEFINE u == e[1]
                   v == e[2]
        <5>5. {u, v} = {s, t} /\ u < v /\ u \in Int /\ v \in Int
          BY <3>1, <5>1, <5>2, <5>3
        <5> HIDE DEF u, v
        <5>6. u = s /\ v = t
          BY <3>1, <5>4, <5>5
        <5>7. e[1] = s /\ e[2] = t
          BY <5>6 DEF u, v
        <5> QED BY <5>1, <5>2, <5>7
      <4> QED BY <4>2, <4>3, <4>4
    <3>2. x < y \/ y < x
      BY <1>1 DEF Nodes
    <3> QED BY <1>1, <3>1, <3>2
  <2> HIDE DEF In, Straight
  <2> QED BY <2>1, <2>2, OneOfThree
<1>8. ASSUME NEW z, NEW v, {z, v} = {x, y}, z \notin kept, v \in Adj(z), z \in Nodes
      PROVE  Cardinality(In(chains)) + Cardinality(In(dropped)) + Cardinality(Straight) = 1
  <2>1. z \in Gone /\ Interior(z)
    <3>1. z \in Vertices
      BY <1>1, <1>8, EdgeFacts DEF Vertices, Adj
    <3> QED BY <1>8, <3>1 DEF AllInv, SegmentInv, ScanInv, Inv, InteriorInv, Open, Gone
  <2>2. Straight = {}
    BY <1>4, <1>8
  <2>3. ASSUME NEW c \in Chains, c.a \in kept, c.b \in kept, ChainRoad(merged, c)
        PROVE  {x, y} \in Segments(c) <=> Inside(z, c)
    <3>1. {z, v} \in Segments(c) => Inside(z, c)
      BY <1>8, <2>3, InsideOrEnd
    <3>2. Inside(z, c) => {z, v} \in Segments(c)
      BY <1>1, <1>8, <2>1, <2>3, InsideSegments
    <3> QED BY <1>8, <3>1, <3>2
  <2>4. /\ In(chains) = {i \in DOMAIN chains : Inside(z, chains[i])}
        /\ In(dropped) = {i \in DOMAIN dropped : Inside(z, dropped[i])}
    BY <1>2, <1>3, <2>3
  <2>5. Covered(z, chains) \/ Covered(z, dropped)
    BY <1>1, <2>1 DEF AllInv, SegmentInv, CoverInv
  <2> HIDE DEF In, Straight
  <2>6. CASE Covered(z, chains)
    <3>1. \E i : In(chains) = {i}
      <4>1. PICK i \in DOMAIN chains : Inside(z, chains[i])
        BY <2>6 DEF Covered
      <4>2. In(chains) = {i}
        BY <1>2, <1>5, <2>4, <4>1
      <4> QED BY <4>2
    <3>2. In(dropped) = {}
      BY <1>3, <1>5, <2>4, <2>6 DEF Covered
    <3> QED BY <2>2, <3>1, <3>2, OneOfThree
  <2>7. CASE Covered(z, dropped)
    <3>1. \E i : In(dropped) = {i}
      <4>1. PICK i \in DOMAIN dropped : Inside(z, dropped[i])
        BY <2>7 DEF Covered
      <4>2. In(dropped) = {i}
        BY <1>3, <1>5, <2>4, <4>1
      <4> QED BY <4>2
    <3>2. In(chains) = {}
      BY <1>3, <1>5, <2>4, <2>7 DEF Covered
    <3> QED BY <2>2, <3>1, <3>2, OneOfThree
  <2> QED BY <2>5, <2>6, <2>7
<1>9. Cardinality(In(chains)) + Cardinality(In(dropped)) + Cardinality(Straight) = 1
  <2>1. y \in Adj(x) /\ x \in Adj(y) /\ {y, x} = {x, y}
    BY <1>1 DEF Adj
  <2>2. CASE x \notin kept
    BY <1>1, <1>8, <2>1, <2>2
  <2>3. CASE y \notin kept
    BY <1>1, <1>8, <2>1, <2>3
  <2>4. CASE x \in kept /\ y \in kept
    BY <1>7, <2>4
  <2> QED BY <2>2, <2>3, <2>4
<1> QED BY <1>9

LEMMA SegmentsCounted == AllInv => SegmentsOnce
<1> SUFFICES ASSUME AllInv, phase = "done" PROVE SegmentsOnce
  BY DEF SegmentsOnce
<1>1. ASSUME NEW e \in DOMAIN merged
      PROVE  LET In(cs) == {i \in DOMAIN cs : {e[1], e[2]} \in Segments(cs[i])}
             IN  Cardinality(In(chains)) + Cardinality(In(dropped))
                   + Cardinality({c \in Direct : {e[1], e[2]} \in Segments(c)}) = 1
  <2>1. <<e[1], e[2]>> \in DOMAIN merged
    BY DEF AllInv, Inv, TypeOK, IsNetwork
  <2> QED BY <2>1, SegmentCounted
<1>2. \A i \in DOMAIN dropped :
        dropped[i].a = dropped[i].b /\ ~Interior(dropped[i].a)
  BY InteriorTwoRoads DEF AllInv, SegmentInv, DroppedInv, Loop
<1> QED BY <1>1, <1>2 DEF SegmentsOnce

----------------------------------------------------------------------------
(* Distances *)

\* Links between nodes, each of some length.
AreLinks(L) == L \in SUBSET (Nodes \X Nodes \X (Nat \ {0}))

\* S has what L reaches from its members.
Onwards(S, L) ==
    \A x \in S, l \in L : l[1] = x[1] => <<l[2], x[2] + l[3]>> \in S

\* S has a distance from n for each node that L reaches, and no other: it has
\* no more than a link adds to a distance, and nothing but what a link adds.
AreDistances(S, L, n) ==
    /\ S \in SUBSET (Nodes \X Nat)
    /\ \A x, y \in S : x[1] = y[1] => x[2] = y[2]
    /\ <<n, 0>> \in S
    /\ \A x \in S, l \in L :
          l[1] = x[1] => \E y \in S : y[1] = l[2] /\ y[2] <= x[2] + l[3]
    /\ \A y \in S : y # <<n, 0>> =>
          \E x \in S, l \in L : l[1] = x[1] /\ y[1] = l[2] /\ y[2] = x[2] + l[3]

LEMMA LinkFacts ==
    ASSUME NEW L, AreLinks(L), NEW l \in L
    PROVE  l[1] \in Nodes /\ l[2] \in Nodes /\ l[3] \in Nat /\ l[3] >= 1
  BY DEF AreLinks

LEMMA PairFacts ==
    ASSUME NEW S \in SUBSET (Nodes \X Nat), NEW x \in S
    PROVE  x[1] \in Nodes /\ x[2] \in Nat /\ x = <<x[1], x[2]>>
  OBVIOUS

\* The nearest of the pairs of a node.
LEMMA Nearest ==
    ASSUME NEW S \in SUBSET (Nodes \X Nat), NEW x \in S
    PROVE  \E y \in Shortest(S) : y[1] = x[1] /\ y[2] <= x[2]
<1> DEFINE Far == {d \in Nat : <<x[1], d>> \in S}
<1>1. x[2] \in Far
  BY PairFacts
<1>2. PICK d \in Far : \A k \in Far : d <= k
  <2>1. Far \in SUBSET Nat /\ Far # {}
    BY <1>1
  <2> HIDE DEF Far
  <2> QED
    BY <2>1, LeastNatural
<1>3. ASSUME NEW y \in S, x[1] = y[1] PROVE d <= y[2]
  <2>1. y[2] \in Far
    BY <1>3, PairFacts
  <2> QED
    BY <1>2, <2>1
<1>4. <<x[1], d>> \in Shortest(S)
  BY <1>2, <1>3 DEF Shortest
<1> QED
  BY <1>1, <1>2, <1>4

LEMMA ShortestFacts ==
    ASSUME NEW S \in SUBSET (Nodes \X Nat)
    PROVE  /\ Shortest(S) \in SUBSET (Nodes \X Nat) /\ Shortest(S) \subseteq S
           /\ \A x, y \in Shortest(S) : x[1] = y[1] => x[2] = y[2]
           /\ \A x \in Shortest(S), y \in S : x[1] = y[1] => x[2] <= y[2]
<1>1. \A x \in Shortest(S), y \in S : x[1] = y[1] => x[2] <= y[2]
  BY DEF Shortest
<1>2. Shortest(S) \subseteq S
  BY DEF Shortest
<1>3. ASSUME NEW x \in Shortest(S), NEW y \in Shortest(S), x[1] = y[1] PROVE x[2] = y[2]
  <2>1. x[2] \in Nat /\ y[2] \in Nat
    BY <1>2, PairFacts
  <2>2. x[2] <= y[2] /\ y[2] <= x[2]
    BY <1>1, <1>2, <1>3
  <2> QED
    BY <2>1, <2>2
<1> QED
  BY <1>1, <1>2, <1>3

\* The shortest of all that L reaches from n are the distances from n: what L
\* reaches is in every set that has what L reaches.
LEMMA ReachExists ==
    ASSUME NEW L, AreLinks(L), NEW n \in Nodes
    PROVE  \E A \in SUBSET (Nodes \X Nat) :
              <<n, 0>> \in A /\ Onwards(A, L) /\ AreDistances(Shortest(A), L, n)
<1> DEFINE Has(S) == <<n, 0>> \in S /\ Onwards(S, L)
           A == {x \in Nodes \X Nat : \A S \in SUBSET (Nodes \X Nat) : Has(S) => x \in S}
           D == Shortest(A)
<1>1. A \in SUBSET (Nodes \X Nat) /\ <<n, 0>> \in A
  OBVIOUS
<1>2. ASSUME NEW x \in A, NEW l \in L, l[1] = x[1]
      PROVE  <<l[2], x[2] + l[3]>> \in A
  <2>1. <<l[2], x[2] + l[3]>> \in Nodes \X Nat
    BY LinkFacts
  <2>2. ASSUME NEW S \in SUBSET (Nodes \X Nat), Has(S)
        PROVE  <<l[2], x[2] + l[3]>> \in S
    BY <1>2, <2>2 DEF Onwards
  <2> QED
    BY <2>1, <2>2
<1>3. ASSUME NEW S \in SUBSET (Nodes \X Nat), Has(S) PROVE A \subseteq S
  BY <1>3
<1> HIDE DEF A
<1>4. Onwards(A, L)
  BY <1>2 DEF Onwards
<1>5. /\ D \in SUBSET (Nodes \X Nat) /\ D \subseteq A
      /\ \A x, y \in D : x[1] = y[1] => x[2] = y[2]
      /\ \A x \in D, y \in A : x[1] = y[1] => x[2] <= y[2]
  BY <1>1, ShortestFacts
<1>6. <<n, 0>> \in D
  <2>1. ASSUME NEW y \in A PROVE 0 <= y[2]
    BY <1>1, PairFacts
  <2> QED
    BY <1>1, <2>1 DEF Shortest
<1>7. ASSUME NEW x \in D, NEW l \in L, l[1] = x[1]
      PROVE  \E y \in D : y[1] = l[2] /\ y[2] <= x[2] + l[3]
  <2>1. PICK z \in A : z[1] = l[2] /\ z[2] = x[2] + l[3]
    BY <1>2, <1>5, <1>7
  <2>2. \E y \in D : y[1] = z[1] /\ y[2] <= z[2]
    BY <1>1, Nearest
  <2> QED
    BY <2>1, <2>2
<1>8. ASSUME NEW y \in D, y # <<n, 0>>
      PROVE  \E x \in D, l \in L : l[1] = x[1] /\ y[1] = l[2] /\ y[2] = x[2] + l[3]
  <2>1. \E x \in A, l \in L : l[1] = x[1] /\ y[1] = l[2] /\ y[2] = x[2] + l[3]
    <3> SUFFICES ASSUME \A x \in A, l \in L :
                          ~ (l[1] = x[1] /\ y[1] = l[2] /\ y[2] = x[2] + l[3])
                 PROVE  FALSE
      OBVIOUS
    <3> DEFINE S == A \ {y}
    <3>1. S \in SUBSET (Nodes \X Nat) /\ <<n, 0>> \in S
      BY <1>1, <1>8
    <3>2. ASSUME NEW x \in S, NEW l \in L, l[1] = x[1]
          PROVE  <<l[2], x[2] + l[3]>> \in S
      <4>1. <<l[2], x[2] + l[3]>> \in A
        BY <1>2, <3>2
      <4>2. y # <<l[2], x[2] + l[3]>>
        BY <3>2
      <4> QED
        BY <4>1, <4>2
    <3>3. Has(S)
      BY <3>1, <3>2 DEF Onwards
    <3>4. A \subseteq S
      BY <1>3, <3>1, <3>3
    <3> QED
      BY <1>5, <3>4
  <2>2. PICK x \in A, l \in L : l[1] = x[1] /\ y[1] = l[2] /\ y[2] = x[2] + l[3]
    BY <2>1
  <2>3. ASSUME NEW z \in A, x[1] = z[1] PROVE x[2] <= z[2]
    <3>1. PICK w \in A : w[1] = l[2] /\ w[2] = z[2] + l[3]
      <4>1. <<l[2], z[2] + l[3]>> \in A
        BY <1>2, <2>2, <2>3
      <4> QED
        BY <4>1
    <3>2. y[2] <= w[2]
      BY <1>5, <2>2, <3>1
    <3>3. x[2] \in Nat /\ z[2] \in Nat /\ l[3] \in Nat
      BY <1>1, PairFacts, LinkFacts
    <3>4. PICK p \in Nat, q \in Nat, r \in Nat : p = x[2] /\ q = z[2] /\ r = l[3]
      BY <3>3
    <3>5. p + r <= q + r
      BY <2>2, <3>1, <3>2, <3>4
    <3> QED
      BY <3>4, <3>5
  <2>4. x \in D
    BY <2>3 DEF Shortest
  <2> QED
    BY <2>2, <2>4
<1>9. AreDistances(D, L, n)
  <2> HIDE DEF D
  <2> QED
    BY <1>5, <1>6, <1>7, <1>8 DEF AreDistances
<1> QED
  BY <1>1, <1>4, <1>9

\* What one round of Bellman and Ford adds.
LEMMA BeyondFacts ==
    ASSUME NEW L, AreLinks(L), NEW S \in SUBSET (Nodes \X Nat)
    PROVE  /\ Beyond(S, L) \in SUBSET (Nodes \X Nat) /\ S \subseteq Beyond(S, L)
           /\ \A x \in S, l \in L : l[1] = x[1] => <<l[2], x[2] + l[3]>> \in Beyond(S, L)
           /\ \A A : S \subseteq A /\ Onwards(A, L) => Beyond(S, L) \subseteq A
<1>1. ASSUME NEW x \in S, NEW l \in L, l[1] = x[1]
      PROVE  <<l[2], x[2] + l[3]>> \in Beyond(S, L)
  BY <1>1 DEF Beyond
<1>2. ASSUME NEW z \in Beyond(S, L)
      PROVE  z \in S \/ \E x \in S, l \in L : l[1] = x[1] /\ z = <<l[2], x[2] + l[3]>>
  BY DEF Beyond
<1>3. ASSUME NEW x \in S, NEW l \in L
      PROVE  <<l[2], x[2] + l[3]>> \in Nodes \X Nat
  BY PairFacts, LinkFacts
<1>4. S \subseteq Beyond(S, L)
  BY DEF Beyond
<1>5. Beyond(S, L) \in SUBSET (Nodes \X Nat)
  BY <1>2, <1>3
<1>6. ASSUME NEW A, S \subseteq A, Onwards(A, L) PROVE Beyond(S, L) \subseteq A
  BY <1>2, <1>6 DEF Onwards
<1> QED
  BY <1>1, <1>4, <1>5, <1>6

\* The rounds of Bellman and Ford from n.
AreRounds(r, L, n) ==
    r[0] = {<<n, 0>>} /\ \A k \in 1..Size : r[k] = Shortest(Beyond(r[k - 1], L))

\* Each round settles the distance of one more node at least, so that after as
\* many rounds as there are nodes the distances are all there.
LEMMA RoundsSettle ==
    ASSUME NEW L, AreLinks(L), NEW n \in Nodes, NEW r, AreRounds(r, L, n)
    PROVE  AreDistances(r[Size], L, n)
<1>1. PICK A \in SUBSET (Nodes \X Nat) :
        <<n, 0>> \in A /\ Onwards(A, L) /\ AreDistances(Shortest(A), L, n)
  BY ReachExists
<1>2. PICK D : D = Shortest(A)
  OBVIOUS
<1>3. /\ D \in SUBSET (Nodes \X Nat) /\ D \subseteq A
      /\ \A x, y \in D : x[1] = y[1] => x[2] = y[2]
      /\ \A x \in D, y \in A : x[1] = y[1] => x[2] <= y[2]
      /\ <<n, 0>> \in D
      /\ \A y \in D : y # <<n, 0>> =>
            \E x \in D, l \in L : l[1] = x[1] /\ y[1] = l[2] /\ y[2] = x[2] + l[3]
  BY <1>1, <1>2, ShortestFacts DEF AreDistances
<1>4. Size \in Nat /\ Size >= 1 /\ IsFiniteSet(Nodes) /\ Cardinality(Nodes) = Size
  <2>1. Size \in Nat /\ n \in 0..(Size - 1)
    BY NetworkAssumption DEF Nodes
  <2>2. IsFiniteSet(Nodes) /\ Cardinality(Nodes) = (Size - 1) - 0 + 1
    BY <2>1, FS_Interval DEF Nodes
  <2> QED
    BY <2>1, <2>2
<1> DEFINE Exact(S) == S \in SUBSET (Nodes \X Nat) /\ S \subseteq A
                      /\ \A x, y \in S : x[1] = y[1] => x[2] = y[2]
           Settled(S) == {v \in Nodes : \E x \in D \cap S : x[1] = v}
           Far(k) == Exact(r[k]) /\ <<n, 0>> \in r[k]
                     /\ (D \subseteq r[k] \/ Cardinality(Settled(r[k])) >= k + 1)
<1>5. ASSUME NEW S, NEW T, Exact(S), T = Shortest(Beyond(S, L))
      PROVE  /\ Exact(T)
             /\ D \cap S \subseteq T
             /\ \A x \in D \cap S, l \in L, y \in D :
                   l[1] = x[1] /\ y[1] = l[2] /\ y[2] = x[2] + l[3] => y \in T
  <2>1. /\ Beyond(S, L) \in SUBSET (Nodes \X Nat) /\ S \subseteq Beyond(S, L)
        /\ Beyond(S, L) \subseteq A
        /\ \A x \in S, l \in L : l[1] = x[1] => <<l[2], x[2] + l[3]>> \in Beyond(S, L)
    BY <1>1, <1>5, BeyondFacts
  <2>2. Exact(T)
    BY <1>5, <2>1, ShortestFacts
  <2>3. ASSUME NEW x \in D, x \in Beyond(S, L) PROVE x \in T
    BY <1>3, <1>5, <2>1, <2>3 DEF Shortest
  <2>4. ASSUME NEW x \in D \cap S, NEW l \in L, NEW y \in D,
               l[1] = x[1], y[1] = l[2], y[2] = x[2] + l[3]
        PROVE  y \in T
    <3>1. y = <<l[2], x[2] + l[3]>>
      BY <1>3, <2>4, PairFacts
    <3>2. y \in Beyond(S, L)
      BY <2>1, <2>4, <3>1
    <3> QED
      BY <2>3, <3>2
  <2> QED
    BY <2>1, <2>2, <2>3, <2>4
<1>6. Far(0)
  <2>1. r[0] = {<<n, 0>>}
    BY DEF AreRounds
  <2>2. Exact(r[0]) /\ <<n, 0>> \in r[0]
    BY <1>1, <2>1
  <2>3. Settled(r[0]) = {n}
    BY <1>3, <2>1
  <2>4. Cardinality(Settled(r[0])) = 1
    BY <2>3, FS_Singleton
  <2> QED
    BY <2>2, <2>4
<1>7. ASSUME NEW k \in Int, 0 <= k, k < Size, Far(k) PROVE Far(k + 1)
  <2>1. PICK S, T : S = r[k] /\ T = r[k + 1]
    OBVIOUS
  <2>2. T = Shortest(Beyond(S, L))
    <3>1. k + 1 \in 1..Size /\ (k + 1) - 1 = k
      BY <1>4, <1>7
    <3> QED
      BY <2>1, <3>1 DEF AreRounds
  <2>3. Exact(S) /\ <<n, 0>> \in S /\ (D \subseteq S \/ Cardinality(Settled(S)) >= k + 1)
    BY <1>7, <2>1
  <2>4. /\ Exact(T)
        /\ D \cap S \subseteq T
        /\ \A x \in D \cap S, l \in L, y \in D :
              l[1] = x[1] /\ y[1] = l[2] /\ y[2] = x[2] + l[3] => y \in T
    <3> HIDE DEF Exact
    <3> QED
      BY <1>5, <2>2, <2>3
  <2>5. <<n, 0>> \in T
    BY <1>3, <2>3, <2>4
  <2>6. CASE D \subseteq S
    BY <2>1, <2>4, <2>5, <2>6
  <2>7. CASE ~ (D \subseteq S)
    <3>1. PICK y \in D : y \notin S /\ \A z \in D : z \notin S => y[2] <= z[2]
      <4> DEFINE Lacks == {d \in Nat : \E z \in D : z \notin S /\ z[2] = d}
      <4>1. Lacks \in SUBSET Nat /\ Lacks # {}
        BY <1>3, <2>7, PairFacts
      <4>2. PICK d \in Lacks : \A e \in Lacks : d <= e
        <5> HIDE DEF Lacks
        <5> QED
          BY <4>1, LeastNatural
      <4>3. \A z \in D : z \notin S => z[2] \in Lacks
        BY <1>3, PairFacts
      <4> QED
        BY <4>2, <4>3
    <3>2. PICK x \in D, l \in L : l[1] = x[1] /\ y[1] = l[2] /\ y[2] = x[2] + l[3]
      BY <1>3, <2>3, <3>1
    <3>3. x \in S
      <4>1. x[2] \in Nat /\ l[3] \in Nat /\ l[3] >= 1
        BY <1>3, PairFacts, LinkFacts
      <4>2. ~ (y[2] <= x[2])
        BY <3>2, <4>1
      <4> QED
        BY <3>1, <4>2
    <3>4. y \in T
      BY <2>4, <3>2, <3>3
    <3>5. y[1] \in Nodes /\ y[1] \in Settled(T) /\ y[1] \notin Settled(S)
      <4>1. y[1] \in Nodes /\ y = <<y[1], y[2]>>
        BY <1>3, PairFacts
      <4>2. ASSUME NEW z \in D \cap S, z[1] = y[1] PROVE FALSE
        <5>1. z[2] = y[2] /\ z = <<z[1], z[2]>>
          BY <1>3, <4>2, PairFacts
        <5> QED
          BY <3>1, <4>1, <4>2, <5>1
      <4> QED
        BY <3>4, <4>1, <4>2
    <3>6. Settled(S) \cup {y[1]} \subseteq Settled(T)
      BY <2>4, <3>5
    <3>7. IsFiniteSet(Settled(S)) /\ IsFiniteSet(Settled(T))
      BY <1>4, FS_Subset
    <3> HIDE DEF Settled
    <3>8. PICK u : u = y[1]
      OBVIOUS
    <3>9. /\ IsFiniteSet(Settled(S) \cup {u})
          /\ Cardinality(Settled(S) \cup {u}) = Cardinality(Settled(S)) + 1
      BY <3>5, <3>7, <3>8, FS_AddElement
    <3>10. Cardinality(Settled(S) \cup {u}) <= Cardinality(Settled(T))
      BY <3>6, <3>7, <3>8, FS_Subset
    <3>11. Cardinality(Settled(S)) \in Nat /\ Cardinality(Settled(T)) \in Nat
      BY <3>7, FS_CardinalityType
    <3>12. Cardinality(Settled(T)) >= (k + 1) + 1
      BY <1>7, <2>3, <2>7, <3>9, <3>10, <3>11
    <3> HIDE DEF Exact
    <3> QED
      BY <2>1, <2>4, <2>5, <3>12
  <2> QED
    BY <2>6, <2>7
<1>8. Far(Size)
  <2> DEFINE K == {k \in 0..Size : Far(k)}
  <2>1. 0 \in K
    BY <1>4, <1>6
  <2>2. \A k \in Int : 0 <= k /\ k < Size /\ k \in K => k + 1 \in K
    <3> HIDE DEF Far
    <3> QED
      BY <1>4, <1>7
  <2> HIDE DEF K
  <2>3. \A k \in 0..Size : k \in K
    BY <1>4, <2>1, <2>2, UpFrom
  <2>4. Size \in K
    BY <1>4, <2>3
  <2> HIDE DEF Far
  <2> QED
    BY <2>4 DEF K
<1>9. PICK S : S = r[Size]
  OBVIOUS
<1>10. D \subseteq S
  <2>1. Settled(S) \subseteq Nodes
    OBVIOUS
  <2>2. Cardinality(Settled(S)) <= Size /\ Cardinality(Settled(S)) \in Nat
    <3> HIDE DEF Settled
    <3> QED
      BY <1>4, <2>1, FS_Subset, FS_CardinalityType
  <2>3. D \subseteq S \/ Cardinality(Settled(S)) >= Size + 1
    <3> HIDE DEF Settled
    <3> QED
      BY <1>8, <1>9
  <2> HIDE DEF Settled
  <2> QED
    BY <1>4, <2>2, <2>3
<1>11. S \subseteq D
  <2>1. Exact(S)
    BY <1>8, <1>9
  <2> SUFFICES ASSUME NEW x \in S PROVE x \in D
    OBVIOUS
  <2>2. x \in A /\ x = <<x[1], x[2]>>
    BY <2>1, PairFacts
  <2>3. PICK y \in D : y[1] = x[1] /\ y[2] <= x[2]
    BY <1>2, <2>2, Nearest
  <2>4. y[2] = x[2] /\ y = <<y[1], y[2]>>
    BY <1>3, <1>10, <2>1, <2>3, PairFacts
  <2> QED
    BY <2>2, <2>3, <2>4
<1> QED
  BY <1>1, <1>2, <1>9, <1>10, <1>11

\* What Distances computes are the distances.
LEMMA DistancesAre ==
    ASSUME NEW L, AreLinks(L), NEW n \in Nodes
    PROVE  AreDistances(Distances(L, n), L, n)
<1> DEFINE Rule(s) == s = [k \in 0..Size |->
                             IF k = 0 THEN {<<n, 0>>} ELSE Shortest(Beyond(s[k - 1], L))]
           s == CHOOSE r : Rule(r)
           T == SUBSET (Nodes \X Nat)
           g == [p \in (1..Size) \X T |-> Shortest(Beyond(p[2], L))]
<1>1. Size \in Nat /\ {<<n, 0>>} \in T
  BY NetworkAssumption
<1>2. \A S \in T : Shortest(Beyond(S, L)) \in T
  BY BeyondFacts, ShortestFacts
<1>3. PICK r \in [0..Size -> T] : r[0] = {<<n, 0>>} /\ Follows(r, g, 0, Size)
  <2>1. g \in [(1..Size) \X T -> T]
    BY <1>2
  <2>2. IsRule(g, 0, Size, T)
    <3>1. (0 + 1)..Size = 1..Size
      BY <1>1
    <3> HIDE DEF g, T
    <3> QED
      BY <2>1, <3>1 DEF IsRule
  <2>3. 0 \in Int /\ Size \in Int /\ 0 <= Size
    BY <1>1
  <2> HIDE DEF g, T
  <2> QED
    BY <1>1, <2>2, <2>3, RecursionExists
<1>4. Rule(r)
  <2>1. ASSUME NEW k \in 1..Size PROVE r[k] = Shortest(Beyond(r[k - 1], L))
    <3>1. k \in (0 + 1)..Size /\ k - 1 \in 0..Size
      BY <1>1
    <3>2. r[k - 1] \in T
      BY <1>3, <3>1
    <3>3. <<k, r[k - 1]>> \in (1..Size) \X T
      BY <3>2
    <3>4. r[k] = g[<<k, r[k - 1]>>]
      BY <1>3, <3>1 DEF Follows
    <3>5. g[<<k, r[k - 1]>>] = Shortest(Beyond(r[k - 1], L))
      BY <3>3
    <3> QED
      BY <3>4, <3>5
  <2>2. \A k \in 0..Size : r[k] = IF k = 0 THEN {<<n, 0>>} ELSE Shortest(Beyond(r[k - 1], L))
    BY <1>1, <1>3, <2>1
  <2>3. r = [k \in 0..Size |-> r[k]]
    BY <1>3
  <2> HIDE DEF T, g
  <2> QED
    BY <2>2, <2>3
<1>5. Rule(s)
  <2> HIDE DEF Rule
  <2> QED
    BY <1>4
<1>6. Distances(L, n) = s[Size]
  BY DEF Distances
<1> HIDE DEF s
<1>7. AreRounds(s, L, n)
  <2>1. s[0] = {<<n, 0>>}
    BY <1>1, <1>5
  <2>2. ASSUME NEW k \in 1..Size PROVE s[k] = Shortest(Beyond(s[k - 1], L))
    <3>1. k \in 0..Size /\ k # 0
      BY <1>1
    <3> DEFINE Value(i) == IF i = 0 THEN {<<n, 0>>} ELSE Shortest(Beyond(s[i - 1], L))
    <3>2. s = [i \in 0..Size |-> Value(i)]
      BY <1>5
    <3>3. s[k] = Value(k)
      <4> HIDE DEF Value
      <4> QED
        BY <3>1, <3>2
    <3> QED
      BY <3>1, <3>3
  <2> QED
    BY <2>1, <2>2 DEF AreRounds
<1> QED
  BY <1>6, <1>7, RoundsSettle

\* There is one set of distances.
LEMMA DistancesAgree ==
    ASSUME NEW L, AreLinks(L), NEW n, NEW S, NEW T,
           AreDistances(S, L, n), AreDistances(T, L, n)
    PROVE  S = T
<1> DEFINE Only(X, Y) == {x \in X : x \notin Y}
           Ranges == {d \in Nat : \E x \in Only(S, T) \cup Only(T, S) : x[2] = d}
<1> SUFFICES ASSUME S # T PROVE FALSE
  OBVIOUS
<1>1. PICK d \in Ranges : \A k \in Ranges : d <= k
  <2>1. S \in SUBSET (Nodes \X Nat) /\ T \in SUBSET (Nodes \X Nat)
    BY DEF AreDistances
  <2>2. Ranges \in SUBSET Nat /\ Ranges # {}
    BY <2>1, PairFacts
  <2> HIDE DEF Ranges
  <2> QED
    BY <2>2, LeastNatural
<1>2. ASSUME NEW X, NEW Y, AreDistances(X, L, n), AreDistances(Y, L, n),
             NEW y \in Only(X, Y), y[2] = d,
             \A x \in Only(X, Y) \cup Only(Y, X) : d <= x[2]
      PROVE  FALSE
  <2>1. y \in X /\ y \notin Y /\ y # <<n, 0>>
    BY <1>2 DEF AreDistances
  <2>2. PICK x \in X, l \in L : l[1] = x[1] /\ y[1] = l[2] /\ y[2] = x[2] + l[3]
    BY <1>2, <2>1 DEF AreDistances
  <2>3. \A z \in X \cup Y : z[1] \in Nodes /\ z[2] \in Nat /\ z = <<z[1], z[2]>>
    BY <1>2, PairFacts DEF AreDistances
  <2>4. l[3] \in Nat /\ l[3] >= 1
    BY LinkFacts
  <2>5. x \in Y
    <3>1. ~ (d <= x[2])
      BY <1>2, <2>2, <2>3, <2>4
    <3> QED
      BY <1>2, <3>1
  <2>6. PICK z \in Y : z[1] = l[2] /\ z[2] <= x[2] + l[3]
    BY <1>2, <2>2, <2>5 DEF AreDistances
  <2>7. z # y
    BY <2>1
  <2>8. z[2] < d
    BY <1>2, <2>1, <2>2, <2>3, <2>6, <2>7
  <2>9. z \in X
    <3>1. ~ (d <= z[2])
      BY <1>1, <2>3, <2>8
    <3> QED
      BY <1>2, <3>1
  <2>10. z[2] = y[2]
    BY <1>2, <2>1, <2>2, <2>6, <2>9 DEF AreDistances
  <2> QED
    BY <2>3, <2>6, <2>7, <2>2, <2>10, <2>1
<1>3. PICK x \in Only(S, T) \cup Only(T, S) : x[2] = d
  BY <1>1
<1>4. \A y \in Only(S, T) \cup Only(T, S) : d <= y[2]
  <2>1. \A y \in S \cup T : y[2] \in Nat
    BY PairFacts DEF AreDistances
  <2>2. \A y \in Only(S, T) \cup Only(T, S) : y[2] \in Ranges
    BY <2>1
  <2> HIDE DEF Ranges, Only
  <2> QED
    BY <1>1, <2>2
<1>5. Only(S, T) \cup Only(T, S) = Only(T, S) \cup Only(S, T)
  OBVIOUS
<1> HIDE DEF Ranges, Only
<1> QED
  BY <1>2, <1>3, <1>4, <1>5

----------------------------------------------------------------------------
(* Distances before and after *)

\* The links a profile may use, of the network and of the finished graph.
RoadLinks(p) == {<<m[1], m[2], merged[m].length>> : m \in {x \in DOMAIN merged : p \in merged[x].access}}
EdgeLinks(p) == {<<e.from, e.to, e.length>> : e \in {x \in edges : p \in x.access}}

LEMMA RoadLinkFacts ==
    ASSUME IsNetwork(merged), NEW p
    PROVE  /\ AreLinks(RoadLinks(p))
           /\ \A s, t : <<s, t>> \in DOMAIN merged /\ p \in merged[<<s, t>>].access
                 => <<s, t, merged[<<s, t>>].length>> \in RoadLinks(p)
           /\ \A l \in RoadLinks(p) :
                 /\ <<l[1], l[2]>> \in DOMAIN merged /\ p \in merged[<<l[1], l[2]>>].access
                 /\ l[3] = merged[<<l[1], l[2]>>].length
<1>1. ASSUME NEW m \in DOMAIN merged
      PROVE  m \in Nodes \X Nodes /\ merged[m].length \in Nat \ {0}
  BY DEF IsNetwork
<1>2. AreLinks(RoadLinks(p))
  BY <1>1 DEF AreLinks, RoadLinks
<1>3. ASSUME NEW s, NEW t, <<s, t>> \in DOMAIN merged, p \in merged[<<s, t>>].access
      PROVE  <<s, t, merged[<<s, t>>].length>> \in RoadLinks(p)
  <2>1. PICK m \in DOMAIN merged : m = <<s, t>>
    BY <1>3
  <2>2. <<m[1], m[2], merged[m].length>> \in RoadLinks(p)
    BY <1>3, <2>1 DEF RoadLinks
  <2> QED
    BY <2>1, <2>2
<1>4. ASSUME NEW l \in RoadLinks(p)
      PROVE  /\ <<l[1], l[2]>> \in DOMAIN merged /\ p \in merged[<<l[1], l[2]>>].access
             /\ l[3] = merged[<<l[1], l[2]>>].length
  <2>1. PICK m \in DOMAIN merged :
          p \in merged[m].access /\ l = <<m[1], m[2], merged[m].length>>
    BY DEF RoadLinks
  <2>2. m = <<m[1], m[2]>>
    BY <1>1
  <2> QED
    BY <2>1, <2>2
<1> QED
  BY <1>2, <1>3, <1>4

\* Distances grow along a road by its length at most.
LEMMA DistanceAhead ==
    ASSUME IsNetwork(merged), NEW r, NEW access, NEW length, Road(merged, r, access, length),
           NEW p, p \in access, NEW n, NEW B, AreDistances(B, RoadLinks(p), n),
           NEW x \in B, x[1] = r[1]
    PROVE  \E y \in B : y[1] = r[Len(r)] /\ y[2] <= x[2] + length
<1>1. PICK N \in Nat : N = Len(r) /\ N >= 2
  BY DEF Road
<1>2. PICK s : IsSum(s, Hops(merged, r), 1, N) /\ s[N] = length
  BY <1>1 DEF Road
<1> DEFINE S == {i \in 1..N : \E y \in B : y[1] = r[i] /\ y[2] <= x[2] + s[i]}
<1>3. \A y \in B : y[1] \in Nodes /\ y[2] \in Nat
  BY PairFacts DEF AreDistances
<1>4. 1 \in S
  BY <1>1, <1>2, <1>3 DEF IsSum
<1>5. ASSUME NEW i \in Int, 1 <= i, i < N, i \in S PROVE i + 1 \in S
  <2>1. i + 1 \in 2..N /\ i + 1 \in (1 + 1)..N /\ i + 1 \in 1..N /\ i \in 1..N /\ (i + 1) - 1 = i
    BY <1>1, <1>5
  <2>2. PICK hop : hop = merged[<<r[i], r[i + 1]>>].length
    OBVIOUS
  <2>3. /\ <<r[i], r[i + 1]>> \in DOMAIN merged /\ hop \in Nat
        /\ merged[<<r[i], r[i + 1]>>].access = access
    <3>1. /\ <<r[i], r[i + 1]>> \in DOMAIN merged
          /\ merged[<<r[i], r[i + 1]>>].access = access
      BY <1>1, <2>1 DEF Road
    <3> QED
      BY <2>2, <3>1, SegmentFacts
  <2>4. s[i + 1] = s[i] + hop /\ s[i] \in Int
    <3>1. s[i + 1] = s[i] + Hops(merged, r)[i + 1] /\ s[i] \in Int
      BY <1>2, <2>1 DEF IsSum
    <3>2. Hops(merged, r)[i + 1] = hop
      BY <1>1, <2>1, <2>2 DEF Hops
    <3> QED
      BY <3>1, <3>2
  <2>5. PICK l \in RoadLinks(p) : l[1] = r[i] /\ l[2] = r[i + 1] /\ l[3] = hop
    <3>1. <<r[i], r[i + 1], hop>> \in RoadLinks(p)
      BY <2>2, <2>3, RoadLinkFacts
    <3> QED
      BY <3>1
  <2>6. PICK y \in B : y[1] = r[i] /\ y[2] <= x[2] + s[i]
    BY <1>5
  <2>7. PICK z \in B : z[1] = r[i + 1] /\ z[2] <= y[2] + hop
    BY <2>5, <2>6 DEF AreDistances
  <2>8. z[2] <= x[2] + s[i + 1]
    BY <1>3, <2>3, <2>4, <2>6, <2>7
  <2> QED
    BY <2>1, <2>7, <2>8
<1>6. N \in S
  <2> HIDE DEF S
  <2>1. \A i \in 1..N : i \in S
    <3>1. 1 \in Int /\ N \in Int
      BY <1>1
    <3> QED
      BY ONLY <1>4, <1>5, <3>1, UpFrom
  <2> QED
    BY <1>1, <2>1
<1> QED
  BY <1>1, <1>2, <1>6

\* What reached the start of a road r from its second node came all along it,
\* if the nodes between have no other road.
LEMMA DistanceBehind ==
    ASSUME IsNetwork(merged), NEW r, NEW access, NEW length, Road(merged, r, access, length),
           NEW p, p \in access, NEW n, NEW B, AreDistances(B, RoadLinks(p), n),
           \A i \in 2..(Len(r) - 1) : Interior(r[i]) /\ r[i] # n,
           NEW y \in B, NEW x \in B, y[1] = r[1], x[1] = r[2],
           y[2] = x[2] + merged[<<r[2], r[1]>>].length
    PROVE  \E z \in B : z[1] = r[Len(r)] /\ y[2] = z[2] + length
<1>1. PICK N \in Nat : N = Len(r) /\ N >= 2
  BY DEF Road
<1>2. PICK s : IsSum(s, Hops(merged, r), 1, N) /\ s[N] = length
  BY <1>1 DEF Road
<1>3. \A z \in B : z[1] \in Nodes /\ z[2] \in Nat
  BY PairFacts DEF AreDistances
<1>4. ASSUME NEW i \in 2..N
      PROVE  /\ <<r[i - 1], r[i]>> \in DOMAIN merged /\ <<r[i], r[i - 1]>> \in DOMAIN merged
             /\ merged[<<r[i], r[i - 1]>>].length \in Nat
             /\ s[i] = s[i - 1] + merged[<<r[i], r[i - 1]>>].length
             /\ s[i] \in Int /\ s[i - 1] \in Int
             /\ r[i] \in Nodes /\ r[i - 1] \in Nodes
  <2>1. <<r[i - 1], r[i]>> \in DOMAIN merged
    BY <1>1 DEF Road
  <2>2. /\ <<r[i], r[i - 1]>> \in DOMAIN merged /\ r[i] \in Nodes /\ r[i - 1] \in Nodes
        /\ merged[<<r[i], r[i - 1]>>] = merged[<<r[i - 1], r[i]>>]
        /\ merged[<<r[i - 1], r[i]>>].length \in Nat
    BY <2>1, SegmentFacts
  <2>3. Hops(merged, r)[i] = merged[<<r[i - 1], r[i]>>].length
    BY <1>1 DEF Hops
  <2>4. s[i] = s[i - 1] + Hops(merged, r)[i] /\ s[i] \in Int /\ s[i - 1] \in Int
    <3>1. i \in (1 + 1)..N /\ i - 1 \in 1..N /\ i \in 1..N
      BY <1>1
    <3> QED
      BY <1>2, <3>1 DEF IsSum
  <2> QED
    BY <2>1, <2>2, <2>3, <2>4
<1> DEFINE Came(i, z, w) == /\ z[1] = r[i] /\ y[2] = z[2] + s[i]
                            /\ w[1] = r[i - 1]
                            /\ w[2] = z[2] + merged[<<r[i], r[i - 1]>>].length
           S == {i \in 2..N : \E z, w \in B : Came(i, z, w)}
<1>5. 2 \in S
  <2>1. 2 \in 2..N /\ 2 - 1 = 1
    BY <1>1
  <2>2. s[2] = s[1] + merged[<<r[2], r[1]>>].length /\ s[1] = 0
        /\ merged[<<r[2], r[1]>>].length \in Nat
    BY <1>2, <1>4, <2>1 DEF IsSum
  <2>3. Came(2, x, y)
    BY <1>3, <2>1, <2>2
  <2> QED
    BY <2>1, <2>3
<1>6. ASSUME NEW i \in Int, 2 <= i, i < N, i \in S PROVE i + 1 \in S
  <2>1. i \in 2..(Len(r) - 1) /\ i \in 2..N /\ i + 1 \in 2..N /\ (i + 1) - 1 = i
    BY <1>1, <1>6
  <2>2. PICK z \in B, w \in B : Came(i, z, w)
    BY <1>6
  <2>3. z # <<n, 0>>
    <3>1. r[i] # n /\ z[1] = r[i]
      BY <2>1, <2>2
    <3>2. <<n, 0>>[1] = n
      OBVIOUS
    <3> QED
      BY <3>1, <3>2
  <2>4. PICK v \in B, l \in RoadLinks(p) : l[1] = v[1] /\ z[1] = l[2] /\ z[2] = v[2] + l[3]
    BY <2>3 DEF AreDistances
  <2>5. /\ <<v[1], r[i]>> \in DOMAIN merged
        /\ l[3] = merged[<<v[1], r[i]>>].length
    BY <2>2, <2>4, RoadLinkFacts
  <2>6. v[1] = r[i - 1] \/ v[1] = r[i + 1]
    <3>1. r[i - 1] # r[i + 1]
      <4>1. i + 1 \in 3..Len(r) /\ (i + 1) - 2 = i - 1
        BY <1>1, <2>1
      <4> QED
        BY <4>1 DEF Road
    <3>2. r[i - 1] \in Adj(r[i]) /\ r[i + 1] \in Adj(r[i])
      BY <1>4, <2>1 DEF Adj
    <3>3. v[1] \in Adj(r[i])
      <4>1. <<r[i], v[1]>> \in DOMAIN merged /\ v[1] \in Nodes
        BY <2>5, SegmentFacts
      <4> QED
        BY <4>1 DEF Adj
    <3>4. PICK s1, s2 : Adj(r[i]) = {s1, s2}
      BY <2>1 DEF Interior
    <3> QED
      BY <3>1, <3>2, <3>3, <3>4
  <2>7. v[1] # r[i - 1]
    <3> SUFFICES ASSUME v[1] = r[i - 1] PROVE FALSE
      OBVIOUS
    <3>1. v[2] = w[2]
      BY <2>2 DEF AreDistances
    <3>2. l[3] \in Nat /\ l[3] >= 1 /\ merged[<<r[i], r[i - 1]>>].length \in Nat
      BY <1>4, <2>1, RoadLinkFacts, LinkFacts
    <3> QED
      BY <1>3, <2>2, <2>4, <3>1, <3>2
  <2>8. z[2] = v[2] + merged[<<r[i + 1], r[i]>>].length
    BY <2>4, <2>5, <2>6, <2>7
  <2>9. s[i + 1] = s[i] + merged[<<r[i + 1], r[i]>>].length /\ s[i] \in Int
        /\ merged[<<r[i + 1], r[i]>>].length \in Nat
    BY <1>4, <2>1
  <2>10. Came(i + 1, v, z)
    <3>1. v[1] = r[i + 1] /\ z[1] = r[i] /\ y[2] = z[2] + s[i]
      BY <2>2, <2>6, <2>7
    <3>2. PICK m \in Nat : m = merged[<<r[i + 1], r[i]>>].length
      BY <2>9
    <3>3. v[2] \in Nat /\ z[2] \in Nat
      BY <1>3
    <3>4. y[2] = v[2] + s[i + 1]
      BY ONLY <2>8, <2>9, <3>1, <3>2, <3>3
    <3> QED
      BY ONLY <2>1, <2>8, <3>1, <3>4
  <2> QED
    BY <2>1, <2>10
<1>7. N \in S
  <2> HIDE DEF S
  <2>1. \A i \in 2..N : i \in S
    <3> HIDE DEF Came
    <3>1. 2 \in Int /\ N \in Int
      BY <1>1
    <3> QED
      BY ONLY <1>5, <1>6, <3>1, UpFrom
  <2> QED
    BY <1>1, <2>1
<1> QED
  BY <1>1, <1>2, <1>7

LEMMA RoadIsLong ==
    ASSUME IsNetwork(merged), NEW r, NEW access, NEW length, Road(merged, r, access, length)
    PROVE  length \in Nat /\ length >= 1
<1>1. PICK N \in Nat : N = Len(r) /\ N >= 2
  BY DEF Road
<1>2. PICK s : IsSum(s, Hops(merged, r), 1, N) /\ s[N] = length
  BY <1>1 DEF Road
<1> DEFINE S == {i \in 2..N : s[i] \in Nat /\ s[i] >= 1}
<1>3. ASSUME NEW i \in 2..N
      PROVE  /\ s[i] = s[i - 1] + merged[<<r[i - 1], r[i]>>].length
             /\ merged[<<r[i - 1], r[i]>>].length \in Nat \ {0}
  <2>1. i \in (1 + 1)..N /\ i \in 2..Len(r)
    BY <1>1
  <2>2. s[i] = s[i - 1] + Hops(merged, r)[i]
    BY <1>2, <2>1 DEF IsSum
  <2>3. Hops(merged, r)[i] = merged[<<r[i - 1], r[i]>>].length
    BY <2>1 DEF Hops
  <2>4. <<r[i - 1], r[i]>> \in DOMAIN merged
    BY <2>1 DEF Road
  <2> QED
    BY <2>2, <2>3, <2>4 DEF IsNetwork
<1>4. 2 \in S
  <2>1. 2 \in 2..N /\ 2 - 1 = 1 /\ s[1] = 0
    BY <1>1, <1>2 DEF IsSum
  <2>2. PICK hop \in Nat \ {0} : hop = merged[<<r[2 - 1], r[2]>>].length
    BY <1>3, <2>1
  <2>3. s[2] = 0 + hop
    BY <1>3, <2>1, <2>2
  <2> QED
    BY <2>1, <2>2, <2>3
<1>5. ASSUME NEW i \in Int, 2 <= i, i < N, i \in S PROVE i + 1 \in S
  <2>1. i + 1 \in 2..N /\ (i + 1) - 1 = i
    BY <1>1, <1>5
  <2>2. PICK hop \in Nat \ {0} : hop = merged[<<r[(i + 1) - 1], r[i + 1]>>].length
    BY <1>3, <2>1
  <2>3. s[i + 1] = s[i] + hop /\ s[i] \in Nat
    BY <1>3, <1>5, <2>1, <2>2
  <2> QED
    BY <2>1, <2>2, <2>3
<1>6. N \in S
  <2>1. 2 \in Int /\ N \in Int /\ N \in 2..N
    BY <1>1
  <2> HIDE DEF S
  <2>2. \A i \in 2..N : i \in S
    BY ONLY <1>4, <1>5, <2>1, UpFrom
  <2> QED
    BY <2>1, <2>2
<1> QED
  BY <1>2, <1>6

LEMMA NewIndexNode ==
    ASSUME kept \subseteq Nodes, NEW n \in kept
    PROVE  NewIndex(n) \in Nodes
<1>1. Size \in Nat /\ n \in 0..(Size - 1) /\ \A k \in kept : k \in 0..(Size - 1)
  BY NetworkAssumption DEF Nodes
<1> DEFINE Low == {k \in kept : k < n}
<1>2. Low \subseteq 0..(n - 1)
  <2> SUFFICES ASSUME NEW k \in kept, k < n PROVE k \in 0..(n - 1)
    OBVIOUS
  <2>1. k \in Int /\ n \in Int /\ 0 <= k
    BY <1>1
  <2> QED
    BY <2>1
<1>3. IsFiniteSet(0..(n - 1)) /\ Cardinality(0..(n - 1)) = n
  <2>1. Cardinality(0..(n - 1)) = (IF 0 > n - 1 THEN 0 ELSE (n - 1) - 0 + 1) /\ IsFiniteSet(0..(n - 1))
    BY <1>1, FS_Interval
  <2> QED
    BY <1>1, <2>1
<1>4. Cardinality(Low) <= n /\ Cardinality(Low) \in Nat
  <2> HIDE DEF Low
  <2> QED
    BY <1>2, <1>3, FS_Subset, FS_CardinalityType
<1> QED
  BY <1>1, <1>4 DEF NewIndex, Nodes

\* A chain is a road from either end to the other, through the nodes inside it.
LEMMA ChainWays ==
    ASSUME IsNetwork(merged), NEW c \in Chains, ChainRoad(merged, c),
           NEW r \in {Path(c), Reversed(Path(c))}
    PROVE  /\ Road(merged, r, c.access, c.length)
           /\ r = Path(c) => r[1] = c.a /\ r[Len(r)] = c.b
           /\ r = Reversed(Path(c)) => r[1] = c.b /\ r[Len(r)] = c.a
           /\ \A i \in 2..(Len(r) - 1) : Inside(r[i], c)
<1>0. PICK q : q = Path(c)
  OBVIOUS
<1>1. q = Path(c) /\ \E w \in Nat : w = Len(c.interior)
  BY <1>0 DEF Chains
<1> PICK w \in Nat : w = Len(c.interior)
  BY <1>1
<1>2. /\ q \in Seq(Nodes) /\ Len(q) = w + 2 /\ q[1] = c.a /\ q[w + 2] = c.b
      /\ \A i \in 1..w : q[i + 1] = c.interior[i]
      /\ DOMAIN c.interior = 1..w
  BY <1>1, PathFacts DEF Chains
<1>3. \A i \in 2..(w + 1) : Inside(q[i], c)
  <2> SUFFICES ASSUME NEW i \in 2..(w + 1) PROVE Inside(q[i], c)
    OBVIOUS
  <2>1. i - 1 \in 1..w /\ (i - 1) + 1 = i
    BY <1>1
  <2> QED
    BY <1>2, <2>1 DEF Inside
<1>4. Road(merged, q, c.access, c.length)
  BY <1>1 DEF ChainRoad
<1>7. /\ Len(Reversed(q)) = w + 2
      /\ \A i \in 1..(w + 2) : Reversed(q)[i] = q[(w + 2) + 1 - i]
  <2>1. Len(q) = w + 2 /\ q \in Seq(Nodes)
    BY <1>2
  <2>2. /\ Len(Reversed(q)) = Len(q)
        /\ \A i \in 1..Len(q) : Reversed(q)[i] = q[Len(q) + 1 - i]
    <3>1. Len(Reversed(q)) = Len(q) /\ DOMAIN Reversed(q) = DOMAIN q
      BY <2>1, ReversedFacts DEF Reversed
    <3>2. \A i \in DOMAIN q : Reversed(q)[i] = q[Len(q) + 1 - i]
      BY ONLY TRUE DEF Reversed
    <3>3. DOMAIN q = 1..Len(q)
      BY <2>1
    <3> QED
      BY ONLY <3>1, <3>2, <3>3
  <2> QED
    BY ONLY <2>1, <2>2
<1>5. CASE r = q
  <2>1. \A i \in 2..(Len(r) - 1) : Inside(r[i], c)
    BY <1>2, <1>3, <1>5
  <2>2. r = Reversed(q) => r[1] = c.b /\ r[Len(r)] = c.a
    <3>1. r = Reversed(q) => r[1] = q[w + 2] /\ r[w + 2] = q[1]
      <4>1. \A i \in 1..(w + 2) : Reversed(q)[i] = q[(w + 2) + 1 - i]
        BY <1>7
      <4>2. 1 \in 1..(w + 2) /\ w + 2 \in 1..(w + 2) /\ (w + 2) + 1 - 1 = w + 2
            /\ (w + 2) + 1 - (w + 2) = 1
        BY <1>1
      <4> QED
        BY <4>1, <4>2
    <3> QED
      BY <1>2, <1>5, <3>1
  <2> QED
    BY <1>1, <1>2, <1>4, <1>5, <2>1, <2>2
<1>6. CASE r = Reversed(q) /\ r # q
  <2>1. Len(r) = w + 2 /\ \A i \in 1..(w + 2) : r[i] = q[(w + 2) + 1 - i]
    BY <1>6, <1>7
  <2>2. r[1] = q[w + 2] /\ r[w + 2] = q[1]
    <3>1. 1 \in 1..(w + 2) /\ w + 2 \in 1..(w + 2) /\ (w + 2) + 1 - 1 = w + 2
          /\ (w + 2) + 1 - (w + 2) = 1
      BY <1>1
    <3> QED
      BY <2>1, <3>1
  <2>3. ASSUME NEW i \in 2..(w + 1) PROVE Inside(r[i], c)
    <3>1. i \in 1..(w + 2) /\ (w + 2) + 1 - i \in 2..(w + 1)
      BY <1>1
    <3> QED
      BY <1>3, <2>1, <3>1
  <2>4. Road(merged, r, c.access, c.length)
    BY <1>4, <1>6, RoadReverse
  <2>5. Len(r) - 1 = w + 1
    BY <1>1, <2>1
  <2> QED
    BY <1>1, <1>2, <1>6, <2>1, <2>2, <2>3, <2>4, <2>5
<1> QED
  BY <1>1, <1>5, <1>6

\* The start of a chain and the node inside it next to the start.
LEMMA ChainEntry ==
    ASSUME NEW c \in Chains, NEW u, NEW v, {u, v} \in Segments(c),
           Inside(u, c), ~Inside(v, c), c.a # u, c.b # u
    PROVE  \E r \in {Path(c), Reversed(Path(c))} : r[1] = v /\ r[2] = u
<1>1. PICK q : q = Path(c)
  OBVIOUS
<1>2. PICK w \in Nat : w = Len(c.interior)
  BY DEF Chains
<1>3. /\ q \in Seq(Nodes) /\ Len(q) = w + 2 /\ q[1] = c.a /\ q[w + 2] = c.b
      /\ \A i \in 1..w : q[i + 1] = c.interior[i]
      /\ DOMAIN c.interior = 1..w
  BY <1>1, <1>2, PathFacts DEF Chains
<1>4. PICK i \in 1..(w + 1) : {u, v} = {q[i], q[i + 1]}
  <2>1. Segments(c) = {{q[i], q[i + 1]} : i \in 1..(w + 1)}
    BY <1>1, <1>2, SegmentsOf
  <2> QED
    BY <2>1
<1>5. ASSUME NEW j \in 2..(w + 1) PROVE q[j] # v
  <2>1. j - 1 \in 1..w /\ (j - 1) + 1 = j
    BY <1>5
  <2> QED
    BY <1>3, <2>1 DEF Inside
<1>6. u # v
  OBVIOUS
<1>7. CASE v = q[i]
  <2>1. i = 1
    BY <1>5, <1>7
  <2>2. u = q[2]
    BY <1>4, <1>6, <1>7, <2>1
  <2> QED
    BY <1>1, <1>7, <2>1, <2>2
<1>8. CASE v = q[i + 1]
  <2>1. i = w + 1
    <3>1. i # w + 1 => i + 1 \in 2..(w + 1)
      OBVIOUS
    <3> QED
      BY <1>5, <1>8, <3>1
  <2>2. u = q[w + 1] /\ v = q[w + 2]
    <3>1. i + 1 = w + 2
      BY <2>1
    <3> QED
      BY <1>4, <1>6, <1>8, <2>1, <3>1
  <2>3. Reversed(q)[1] = q[w + 2] /\ Reversed(q)[2] = q[w + 1]
    <3>1. 1 \in 1..(w + 2) /\ 2 \in 1..(w + 2) /\ (w + 2) + 1 - 1 = w + 2
          /\ (w + 2) + 1 - 2 = w + 1
      OBVIOUS
    <3>2. \A j \in 1..(w + 2) : Reversed(q)[j] = q[(w + 2) + 1 - j]
      BY <1>3 DEF Reversed
    <3> QED
      BY <3>1, <3>2
  <2> QED
    BY <1>1, <2>2, <2>3
<1> QED
  BY <1>4, <1>7, <1>8

\* The last step to a node that stays is along a whole edge of the finished
\* graph: the nodes inside a chain have no other road, and what comes round a
\* dropped loop comes too late.
LEMMA LastEdge ==
    ASSUME AllInv, phase = "done", NEW p, NEW n \in kept,
           NEW B, AreDistances(B, RoadLinks(p), n),
           NEW y \in B, y[1] \in kept, y # <<n, 0>>
    PROVE  \E c \in Finished, x \in B :
              /\ p \in c.access /\ y[2] = x[2] + c.length
              /\ {x[1], y[1]} = {c.a, c.b} /\ x[1] # y[1]
<1>1. IsNetwork(merged) /\ kept \subseteq Nodes
  BY DEF AllInv, Inv, TypeOK
<1>2. \A x \in B : x[1] \in Nodes /\ x[2] \in Nat
  BY PairFacts DEF AreDistances
<1>3. PICK x \in B, l \in RoadLinks(p) : l[1] = x[1] /\ y[1] = l[2] /\ y[2] = x[2] + l[3]
  BY DEF AreDistances
<1>4. PICK u, v : u = x[1] /\ v = y[1]
  OBVIOUS
<1>5. PICK hop : hop = merged[<<u, v>>].length
  OBVIOUS
<1>6. /\ <<u, v>> \in DOMAIN merged /\ p \in merged[<<u, v>>].access
      /\ y[2] = x[2] + hop
  BY <1>1, <1>3, <1>4, <1>5, RoadLinkFacts
<1>7. /\ u \in Nodes /\ v \in Nodes /\ u # v /\ <<v, u>> \in DOMAIN merged
      /\ merged[<<v, u>>] = merged[<<u, v>>]
  BY <1>1, <1>6, SegmentFacts
<1>8. CASE u \in kept
  <2>1. ASSUME NEW s, NEW t, {s, t} = {u, v}, s < t, <<s, t>> \in DOMAIN merged,
               merged[<<s, t>>] = merged[<<u, v>>]
        PROVE  \E c \in Finished :
                  /\ p \in c.access /\ c.length = hop
                  /\ c.a = s /\ c.b = t
    <3> DEFINE c == [a |-> s, b |-> t, length |-> merged[<<s, t>>].length,
                     access |-> merged[<<s, t>>].access, interior |-> <<>>]
    <3>1. <<s, t>>[1] = s /\ <<s, t>>[2] = t /\ {s, t} \subseteq kept
      BY <1>4, <1>8, <2>1
    <3>2. c \in Direct
      BY <2>1, <3>1 DEF Direct
    <3>3. c \in Finished
      BY <3>2 DEF Finished
    <3>4. p \in c.access /\ c.length = hop /\ c.a = s /\ c.b = t
      BY <1>5, <1>6, <2>1
    <3> HIDE DEF c
    <3> QED
      BY <3>3, <3>4
  <2>2. u < v \/ v < u
    BY <1>7 DEF Nodes
  <2>3. CASE u < v
    <3>1. PICK c \in Finished : p \in c.access /\ c.length = hop /\ c.a = u /\ c.b = v
      BY <1>6, <2>1, <2>3
    <3> QED
      BY <1>4, <1>6, <1>7, <3>1
  <2>4. CASE v < u
    <3>1. PICK c \in Finished : p \in c.access /\ c.length = hop /\ c.a = v /\ c.b = u
      BY <1>7, <2>1, <2>4
    <3> QED
      BY <1>4, <1>6, <1>7, <3>1
  <2> QED
    BY <2>2, <2>3, <2>4
<1>9. CASE u \notin kept
  <2>1. u \in Gone
    <3>1. u \in Vertices
      BY <1>6 DEF Vertices
    <3> QED
      BY <1>9, <3>1 DEF AllInv, SegmentInv, ScanInv, Open, Gone
  <2>2. \A z \in Gone : Interior(z) /\ z \notin kept
    BY DEF AllInv, Inv, InteriorInv, Gone
  <2>3. walk = NoWalk
    BY DEF AllInv, EdgeInv
  <2>4. PICK c \in Chains :
          /\ Inside(u, c) /\ Swallowed(c, Gone) /\ ChainRoad(merged, c)
          /\ c.a \in kept /\ c.b \in kept
          /\ c \in Finished \/ c.a = c.b
    <3>1. CASE Covered(u, chains)
      <4>1. PICK i \in DOMAIN chains : Inside(u, chains[i])
        BY <3>1 DEF Covered
      <4>2. chains[i] \in Chains /\ chains[i] \in Finished
        BY DEF AllInv, Inv, TypeOK, Finished
      <4> QED
        BY <4>1, <4>2 DEF AllInv, Inv, RoadInv, ChainsInv, ChainsOK, ChainOK
    <3>2. CASE Covered(u, dropped)
      <4>1. PICK i \in DOMAIN dropped : Inside(u, dropped[i])
        BY <3>2 DEF Covered
      <4>2. dropped[i] \in Chains
        BY DEF AllInv, Inv, TypeOK
      <4> QED
        BY <4>1, <4>2 DEF AllInv, SegmentInv, DroppedInv, Loop
    <3> QED
      BY <2>1, <2>3, <3>1, <3>2 DEF AllInv, SegmentInv, CoverInv
  <2>5. {u, v} \in Segments(c)
    <3>1. v \in Adj(u)
      BY <1>6, <1>7 DEF Adj
    <3> QED
      BY <1>1, <1>7, <2>1, <2>2, <2>4, <3>1, InsideSegments
  <2>6. \A z : Inside(z, c) => z \in Gone
    BY <2>4 DEF Inside, Swallowed
  <2>7. ~Inside(v, c) /\ c.a # u /\ c.b # u
    BY <1>4, <1>9, <2>2, <2>4, <2>6
  <2>8. PICK r \in {Path(c), Reversed(Path(c))} : r[1] = v /\ r[2] = u
    BY <2>4, <2>5, <2>7, ChainEntry
  <2>9. /\ Road(merged, r, c.access, c.length)
        /\ \/ r[1] = c.a /\ r[Len(r)] = c.b
           \/ r[1] = c.b /\ r[Len(r)] = c.a
        /\ \A i \in 2..(Len(r) - 1) : Inside(r[i], c)
    BY <1>1, <2>4, ChainWays
  <2>10. p \in c.access
    <3>1. 2 \in 2..Len(r) /\ 2 - 1 = 1
      BY <2>9 DEF Road
    <3>2. merged[<<r[1], r[2]>>].access = c.access
      BY <2>9, <3>1 DEF Road
    <3> QED
      BY <1>6, <1>7, <2>8, <3>2
  <2>11. \A i \in 2..(Len(r) - 1) : Interior(r[i]) /\ r[i] # n
    BY <2>2, <2>6, <2>9
  <2>12. y[2] = x[2] + merged[<<r[2], r[1]>>].length
    BY <1>5, <1>6, <2>8
  <2>13. PICK z \in B : z[1] = r[Len(r)] /\ y[2] = z[2] + c.length
    BY <1>1, <1>4, <2>8, <2>9, <2>10, <2>11, <2>12, DistanceBehind
  <2>14. c.length \in Nat /\ c.length >= 1
    BY <1>1, <2>9, RoadIsLong
  <2>15. c.a # c.b
    <3> SUFFICES ASSUME c.a = c.b PROVE FALSE
      OBVIOUS
    <3>1. z[1] = y[1]
      BY <1>4, <2>8, <2>9, <2>13
    <3>2. z[2] = y[2]
      BY <3>1 DEF AreDistances
    <3> QED
      BY <1>2, <2>13, <2>14, <3>2
  <2>16. {z[1], y[1]} = {c.a, c.b} /\ z[1] # y[1]
    BY <1>4, <2>8, <2>9, <2>13, <2>15
  <2> QED
    BY <2>4, <2>10, <2>13, <2>15, <2>16
<1> QED
  BY <1>8, <1>9

\* The links of the finished graph are its chains, whole.
LEMMA EdgeLinkFacts ==
    ASSUME AllInv, phase = "done", Unclamped, NEW p
    PROVE  /\ AreLinks(EdgeLinks(p))
           /\ \A c \in Finished : p \in c.access =>
                 /\ <<NewIndex(c.a), NewIndex(c.b), c.length>> \in EdgeLinks(p)
                 /\ <<NewIndex(c.b), NewIndex(c.a), c.length>> \in EdgeLinks(p)
           /\ \A l \in EdgeLinks(p) : \E c \in Finished :
                 /\ p \in c.access /\ l[3] = c.length
                 /\ \/ l[1] = NewIndex(c.a) /\ l[2] = NewIndex(c.b)
                    \/ l[1] = NewIndex(c.b) /\ l[2] = NewIndex(c.a)
<1>1. IsNetwork(merged) /\ kept \subseteq Nodes
  BY DEF AllInv, Inv, TypeOK
<1>2. edges = UNION {Both(c) : c \in Finished}
  BY DEF AllInv, EdgeInv
<1>3. ASSUME NEW c \in Finished
      PROVE  /\ c.a \in kept /\ c.b \in kept /\ c.length \in Nat /\ c.length >= 1
             /\ Clamped(c.length) = c.length
             /\ NewIndex(c.a) \in Nodes /\ NewIndex(c.b) \in Nodes
  <2>1. c \in Chains /\ ChainRoad(merged, c) /\ {c.a, c.b} \subseteq kept
    BY FinishedChains DEF AllInv
  <2>2. c.length \in Nat /\ c.length >= 1
    BY <1>1, <2>1, RoadIsLong DEF ChainRoad
  <2>3. Clamped(c.length) = c.length
    BY <2>2, NetworkAssumption DEF Clamped, Unclamped
  <2> QED
    BY <1>1, <2>1, <2>2, <2>3, NewIndexNode
<1>4. ASSUME NEW c \in Finished, NEW e \in Both(c)
      PROVE  /\ e.access = c.access /\ e.length = c.length
             /\ \/ e.from = NewIndex(c.a) /\ e.to = NewIndex(c.b)
                \/ e.from = NewIndex(c.b) /\ e.to = NewIndex(c.a)
  BY <1>3 DEF Both
<1>5. ASSUME NEW c \in Finished
      PROVE  /\ \E e \in Both(c) : /\ e.from = NewIndex(c.a) /\ e.to = NewIndex(c.b)
                                   /\ e.access = c.access /\ e.length = c.length
             /\ \E e \in Both(c) : /\ e.from = NewIndex(c.b) /\ e.to = NewIndex(c.a)
                                   /\ e.access = c.access /\ e.length = c.length
  BY <1>3 DEF Both
<1>6. ASSUME NEW c \in Finished, p \in c.access
      PROVE  /\ <<NewIndex(c.a), NewIndex(c.b), c.length>> \in EdgeLinks(p)
             /\ <<NewIndex(c.b), NewIndex(c.a), c.length>> \in EdgeLinks(p)
  <2>1. \A e \in Both(c) : e \in edges
    BY <1>2
  <2> QED
    BY <1>5, <1>6, <2>1 DEF EdgeLinks
<1>7. ASSUME NEW l \in EdgeLinks(p)
      PROVE  \E c \in Finished :
                 /\ p \in c.access /\ l[3] = c.length
                 /\ \/ l[1] = NewIndex(c.a) /\ l[2] = NewIndex(c.b)
                    \/ l[1] = NewIndex(c.b) /\ l[2] = NewIndex(c.a)
                 /\ l = <<l[1], l[2], l[3]>>
  <2>1. PICK e \in edges : p \in e.access /\ l = <<e.from, e.to, e.length>>
    BY DEF EdgeLinks
  <2>2. PICK c \in Finished : e \in Both(c)
    BY <1>2
  <2> QED
    BY <1>4, <2>1, <2>2
<1>8. AreLinks(EdgeLinks(p))
  <2> SUFFICES ASSUME NEW l \in EdgeLinks(p)
               PROVE  l \in Nodes \X Nodes \X (Nat \ {0})
    BY DEF AreLinks
  <2>1. PICK c \in Finished :
                 /\ l[3] = c.length
                 /\ \/ l[1] = NewIndex(c.a) /\ l[2] = NewIndex(c.b)
                    \/ l[1] = NewIndex(c.b) /\ l[2] = NewIndex(c.a)
                 /\ l = <<l[1], l[2], l[3]>>
    BY <1>7
  <2>2. l[1] \in Nodes /\ l[2] \in Nodes /\ l[3] \in Nat \ {0}
    BY <1>3, <2>1
  <2> QED
    BY <2>1, <2>2
<1> QED
  BY <1>6, <1>7, <1>8

\* The distances between nodes that stay, renumbered, are distances of the
\* finished graph.
LEMMA DistancesMove ==
    ASSUME AllInv, phase = "done", Unclamped, NEW p, NEW n \in kept,
           NEW B, AreDistances(B, RoadLinks(p), n)
    PROVE  AreDistances({<<NewIndex(x[1]), x[2]>> : x \in {y \in B : y[1] \in kept}},
                        EdgeLinks(p), NewIndex(n))
<1> DEFINE A == {<<NewIndex(x[1]), x[2]>> : x \in {y \in B : y[1] \in kept}}
<1>1. IsNetwork(merged) /\ kept \subseteq Nodes
  BY DEF AllInv, Inv, TypeOK
<1>2. /\ \A k \in kept : NewIndex(k) \in Nodes
      /\ \A j, k \in kept : NewIndex(j) = NewIndex(k) => j = k
  <2>1. \A k \in kept : OldIndex(NewIndex(k)) = k
    BY <1>1, NewIndexApart
  <2>2. \A j, k \in kept : NewIndex(j) = NewIndex(k) => j = k
    BY <2>1
  <2> QED
    BY <1>1, <2>2, NewIndexNode
<1>3. \A x \in B : x[1] \in Nodes /\ x[2] \in Nat /\ x = <<x[1], x[2]>>
  BY PairFacts DEF AreDistances
<1>4. ASSUME NEW a \in A
      PROVE  \E x \in B : x[1] \in kept /\ a[1] = NewIndex(x[1]) /\ a[2] = x[2]
                          /\ a = <<NewIndex(x[1]), x[2]>>
  OBVIOUS
<1>5. ASSUME NEW x \in B, x[1] \in kept
      PROVE  \E a \in A : a[1] = NewIndex(x[1]) /\ a[2] = x[2]
  <2>1. <<NewIndex(x[1]), x[2]>> \in A
    BY <1>5
  <2> QED
    BY <2>1
<1>6. A \in SUBSET (Nodes \X Nat)
  BY <1>2, <1>3
<1>7. <<NewIndex(n), 0>> \in A
  <2>1. <<n, 0>> \in B /\ <<n, 0>>[1] \in kept
    BY DEF AreDistances
  <2> QED
    BY <2>1
<1> HIDE DEF A
<1>8. ASSUME NEW a \in A, NEW b \in A, a[1] = b[1] PROVE a[2] = b[2]
  <2>1. PICK x \in B : x[1] \in kept /\ a[1] = NewIndex(x[1]) /\ a[2] = x[2]
    BY <1>4
  <2>2. PICK y \in B : y[1] \in kept /\ b[1] = NewIndex(y[1]) /\ b[2] = y[2]
    BY <1>4
  <2>3. x[1] = y[1]
    BY <1>2, <1>8, <2>1, <2>2
  <2> QED
    BY <2>1, <2>2, <2>3 DEF AreDistances
<1>9. ASSUME NEW a \in A, NEW l \in EdgeLinks(p), l[1] = a[1]
      PROVE  \E b \in A : b[1] = l[2] /\ b[2] <= a[2] + l[3]
  <2>1. PICK x \in B : x[1] \in kept /\ a[1] = NewIndex(x[1]) /\ a[2] = x[2]
    BY <1>4
  <2>2. PICK c \in Finished :
                 /\ p \in c.access /\ l[3] = c.length
                 /\ \/ l[1] = NewIndex(c.a) /\ l[2] = NewIndex(c.b)
                    \/ l[1] = NewIndex(c.b) /\ l[2] = NewIndex(c.a)
    BY EdgeLinkFacts
  <2>3. c \in Chains /\ ChainRoad(merged, c) /\ c.a \in kept /\ c.b \in kept
    BY FinishedChains DEF AllInv
  <2>4. \E k \in kept : \E y \in B : l[2] = NewIndex(k) /\ y[1] = k /\ y[2] <= x[2] + c.length
    <3>1. ASSUME NEW r \in {Path(c), Reversed(Path(c))}, r[1] = x[1]
          PROVE  \E y \in B : y[1] = r[Len(r)] /\ y[2] <= x[2] + c.length
      <4>1. Road(merged, r, c.access, c.length)
        BY <1>1, <2>3, ChainWays
      <4> QED
        BY <1>1, <2>2, <3>1, <4>1, DistanceAhead
    <3>2. /\ Path(c)[1] = c.a /\ Path(c)[Len(Path(c))] = c.b
          /\ Reversed(Path(c))[1] = c.b /\ Reversed(Path(c))[Len(Reversed(Path(c)))] = c.a
      BY <1>1, <2>3, ChainWays
    <3>3. CASE l[1] = NewIndex(c.a) /\ l[2] = NewIndex(c.b)
      <4>1. x[1] = c.a
        BY <1>2, <1>9, <2>1, <2>3, <3>3
      <4> QED
        BY <2>3, <3>1, <3>2, <3>3, <4>1
    <3>4. CASE l[1] = NewIndex(c.b) /\ l[2] = NewIndex(c.a)
      <4>1. x[1] = c.b
        BY <1>2, <1>9, <2>1, <2>3, <3>4
      <4> QED
        BY <2>3, <3>1, <3>2, <3>4, <4>1
    <3> QED
      BY <2>2, <3>3, <3>4
  <2>5. PICK y \in B : y[1] \in kept /\ l[2] = NewIndex(y[1]) /\ y[2] <= x[2] + c.length
    BY <2>4
  <2>6. PICK b \in A : b[1] = NewIndex(y[1]) /\ b[2] = y[2]
    BY <1>5, <2>5
  <2> QED
    BY <2>1, <2>2, <2>5, <2>6
<1>10. ASSUME NEW b \in A, b # <<NewIndex(n), 0>>
       PROVE  \E a \in A, l \in EdgeLinks(p) :
                 l[1] = a[1] /\ b[1] = l[2] /\ b[2] = a[2] + l[3]
  <2>1. PICK y \in B : /\ y[1] \in kept /\ b[1] = NewIndex(y[1]) /\ b[2] = y[2]
                       /\ b = <<NewIndex(y[1]), y[2]>>
    BY <1>4
  <2>2. y # <<n, 0>>
    BY <1>10, <2>1
  <2>3. PICK c \in Finished, x \in B :
              /\ p \in c.access /\ y[2] = x[2] + c.length
              /\ {x[1], y[1]} = {c.a, c.b} /\ x[1] # y[1]
    BY <2>1, <2>2, LastEdge
  <2>4. c.a \in kept /\ c.b \in kept
    BY FinishedChains DEF AllInv
  <2>5. PICK a \in A : a[1] = NewIndex(x[1]) /\ a[2] = x[2]
    BY <1>5, <2>3, <2>4
  <2>6. <<NewIndex(x[1]), NewIndex(y[1]), c.length>> \in EdgeLinks(p)
    BY <2>3, EdgeLinkFacts
  <2>7. PICK l \in EdgeLinks(p) :
          l[1] = NewIndex(x[1]) /\ l[2] = NewIndex(y[1]) /\ l[3] = c.length
    BY <2>6
  <2> QED
    BY <2>1, <2>3, <2>5, <2>7
<1>11. AreDistances(A, EdgeLinks(p), NewIndex(n))
  BY <1>6, <1>7, <1>8, <1>9, <1>10 DEF AreDistances
<1> QED
  BY <1>11 DEF A

LEMMA DistancesKept == AllInv => DistancesPreserved
<1> SUFFICES ASSUME AllInv, phase = "done", Unclamped, NEW p, NEW n \in kept
             PROVE  Distances(EdgeLinks(p), NewIndex(n))
                      = {<<NewIndex(x[1]), x[2]>> :
                           x \in {y \in Distances(RoadLinks(p), n) : y[1] \in kept}}
  BY DEF DistancesPreserved, RoadLinks, EdgeLinks
<1>1. IsNetwork(merged) /\ kept \subseteq Nodes
  BY DEF AllInv, Inv, TypeOK
<1>2. PICK B : B = Distances(RoadLinks(p), n)
  OBVIOUS
<1>3. PICK A : A = {<<NewIndex(x[1]), x[2]>> : x \in {y \in B : y[1] \in kept}}
  OBVIOUS
<1>4. AreLinks(RoadLinks(p)) /\ AreLinks(EdgeLinks(p)) /\ n \in Nodes /\ NewIndex(n) \in Nodes
  BY <1>1, RoadLinkFacts, EdgeLinkFacts, NewIndexNode
<1>5. AreDistances(B, RoadLinks(p), n)
  BY <1>2, <1>4, DistancesAre
<1>6. AreDistances(A, EdgeLinks(p), NewIndex(n))
  BY <1>3, <1>5, DistancesMove
<1>7. AreDistances(Distances(EdgeLinks(p), NewIndex(n)), EdgeLinks(p), NewIndex(n))
  BY <1>4, DistancesAre
<1>8. Distances(EdgeLinks(p), NewIndex(n)) = A
  BY <1>4, <1>6, <1>7, DistancesAgree
<1> QED
  BY <1>2, <1>3, <1>8

----------------------------------------------------------------------------
(* The results *)

LEMMA Invariance == Spec => []Inv
<1> QED BY InitInv, StepInv, PTL DEF Spec

\* For every network, limit and size: each walk under way has come to a node
\* that no walk has passed (network.rs walk and its guards on consumed).
THEOREM TypeCorrect == Spec => []TypeOK
<1>1. Inv => TypeOK
  BY DEF Inv
<1> QED BY <1>1, Invariance, PTL

LEMMA ChainsApart == Inv => ChainsDisjoint
<1> SUFFICES ASSUME Inv PROVE ChainsDisjoint
  OBVIOUS
<1>1. ASSUME NEW i \in DOMAIN chains
      PROVE  LET c == chains[i]
             IN  /\ c.a # c.b /\ {c.a, c.b} \subseteq kept
                 /\ Len(c.interior) \in 1..(MaxGeo - 1)
                 /\ \A k \in DOMAIN c.interior : c.interior[k] \notin kept
  BY <1>1 DEF Inv, ChainsInv, ChainsOK, ChainOK, Swallowed, Gone
<1>2. ASSUME NEW i \in DOMAIN chains, NEW j \in DOMAIN chains,
             NEW k \in DOMAIN chains[i].interior,
             NEW l \in DOMAIN chains[j].interior,
             chains[i].interior[k] = chains[j].interior[l]
      PROVE  i = j /\ k = l
  <2>1. i = j
    BY <1>2 DEF Inv, ChainsInv, ChainsOK, Apart
  <2>2. NoRepeat(chains[i].interior)
    BY DEF Inv, ChainsInv, ChainsOK, ChainOK
  <2> QED BY <1>2, <2>1, <2>2 DEF NoRepeat
<1> QED BY <1>1, <1>2 DEF ChainsDisjoint

\* For every network, limit and size: no node lies in two chains or twice in
\* one, and every chain joins two different kept nodes and fits geo_len.
THEOREM ChainsAlwaysDisjoint == Spec => []ChainsDisjoint
<1> QED BY ChainsApart, Invariance, PTL

\* For every network, limit and size: each directed edge of the finished graph
\* follows segments of the network from its source to its target, with their
\* access, and its length is their sum, clamped (network.rs walk, emit and the
\* renumbering).
THEOREM EdgesAlwaysFollowRoads == Spec => []EdgesFollowRoads
<1> QED BY InitAll, StepAll, EdgesFollow, PTL DEF Spec

\* For every network, limit and size: each segment ends up in exactly one
\* chain, direct edge or dropped loop, and only loops at junctions are dropped
\* (network.rs, the three phases).
THEOREM SegmentsAlwaysOnce == Spec => []SegmentsOnce
<1> QED BY InitAll, StepAll, SegmentsCounted, PTL DEF Spec

\* For every network, limit and size, unless a chain is longer than a u32 can
\* say: between the nodes that stay, the distances the Bellman-Ford rounds find
\* for a profile are the same before and after the collapse, and so is what
\* cannot be reached (network.rs 442 to 674; D13 promises it).
THEOREM DistancesAlwaysPreserved == Spec => []DistancesPreserved
<1> QED
  BY InitAll, StepAll, DistancesKept, PTL DEF Spec

----------------------------------------------------------------------------
(* Orders and ranks *)

\* O, a set of pairs, orders S.
IsOrder(O, S) ==
    /\ \A x, y \in S : x # y => <<x, y>> \in O \/ <<y, x>> \in O
    /\ \A x \in S : <<x, x>> \notin O
    /\ \A x, y, z \in S : <<x, y>> \in O /\ <<y, z>> \in O => <<x, z>> \in O

Below(O, S, x) == {y \in S : <<y, x>> \in O}
RankIn(O, S, x) == Cardinality(Below(O, S, x))

LEMMA RankFacts ==
    ASSUME NEW S, IsFiniteSet(S), NEW O, IsOrder(O, S)
    PROVE  /\ \A x \in S : RankIn(O, S, x) \in 0..(Cardinality(S) - 1)
           /\ \A x, y \in S : <<x, y>> \in O <=> RankIn(O, S, x) < RankIn(O, S, y)
           /\ \A r \in 0..(Cardinality(S) - 1) : \E x \in S : RankIn(O, S, x) = r
<1>1. PICK N \in Nat : N = Cardinality(S)
  BY FS_CardinalityType
<1>2. ASSUME NEW x \in S PROVE IsFiniteSet(Below(O, S, x)) /\ RankIn(O, S, x) \in Nat
  <2>1. Below(O, S, x) \in SUBSET S
    BY DEF Below
  <2> QED
    BY <2>1, FS_Subset, FS_CardinalityType DEF RankIn
<1>3. ASSUME NEW x \in S PROVE RankIn(O, S, x) \in 0..(N - 1)
  <2>1. Below(O, S, x) \in SUBSET (S \ {x})
    BY DEF Below, IsOrder
  <2>2. IsFiniteSet(S \ {x}) /\ Cardinality(S \ {x}) = N - 1
    BY <1>1, FS_RemoveElement
  <2>3. RankIn(O, S, x) <= N - 1
    BY <2>1, <2>2, FS_Subset DEF RankIn
  <2> QED
    BY <1>1, <1>2, <2>3
<1>4. ASSUME NEW x \in S, NEW y \in S, <<x, y>> \in O
      PROVE  RankIn(O, S, x) < RankIn(O, S, y)
  <2>1. Below(O, S, x) \in SUBSET Below(O, S, y)
    BY <1>4 DEF Below, IsOrder
  <2>2. x \in Below(O, S, y) /\ x \notin Below(O, S, x)
    BY <1>4 DEF Below, IsOrder
  <2>3. RankIn(O, S, x) <= RankIn(O, S, y) /\ RankIn(O, S, x) # RankIn(O, S, y)
    BY <1>2, <2>1, <2>2, FS_Subset DEF RankIn
  <2> QED
    BY <1>2, <2>3
<1>5. \A x, y \in S : <<x, y>> \in O <=> RankIn(O, S, x) < RankIn(O, S, y)
  <2> SUFFICES ASSUME NEW x \in S, NEW y \in S, RankIn(O, S, x) < RankIn(O, S, y)
               PROVE  <<x, y>> \in O
    BY <1>4
  <2>1. x # y /\ ~(RankIn(O, S, y) < RankIn(O, S, x))
    BY <1>2
  <2> QED
    BY <1>4, <2>1 DEF IsOrder
<1> DEFINE f == [x \in S |-> RankIn(O, S, x)]
<1>6. f \in Injection(S, 0..(N - 1))
  <2>1. f \in [S -> 0..(N - 1)]
    BY <1>3
  <2>2. ASSUME NEW x \in S, NEW y \in S, RankIn(O, S, x) = RankIn(O, S, y) PROVE x = y
    <3>1. ~(<<x, y>> \in O) /\ ~(<<y, x>> \in O)
      BY <1>2, <1>4, <2>2
    <3> QED
      BY <3>1 DEF IsOrder
  <2>3. \A x, y \in S : f[x] = f[y] => x = y
    BY <2>2
  <2> HIDE DEF f
  <2> QED
    BY <2>1, <2>3 DEF Injection, IsInjective
<1>7. f \in Surjection(S, 0..(N - 1))
  <2>1. IsFiniteSet(0..(N - 1)) /\ Cardinality(0..(N - 1)) = N
    BY FS_Interval
  <2> HIDE DEF f
  <2> QED
    BY <1>1, <1>6, <2>1, FS_Injection
<1>8. \A r \in 0..(N - 1) : \E x \in S : f[x] = r
  <2> HIDE DEF f
  <2> QED
    BY <1>7 DEF Surjection
<1> QED
  BY <1>1, <1>3, <1>5, <1>8

\* s lists S in the order O.
Lists(s, O, S) ==
    /\ s \in Seq(S) /\ Len(s) = Cardinality(S)
    /\ \A i \in 1..Len(s) : RankIn(O, S, s[i]) = i - 1
    /\ \A x \in S : RankIn(O, S, x) + 1 \in 1..Len(s) /\ s[RankIn(O, S, x) + 1] = x
    /\ \A i, j \in 1..Len(s) : i < j <=> <<s[i], s[j]>> \in O

LEMMA ListFacts ==
    ASSUME NEW S, IsFiniteSet(S), NEW O, IsOrder(O, S)
    PROVE  Lists(<<>> \o [i \in 1..Cardinality(S) |-> CHOOSE x \in S : RankIn(O, S, x) = i - 1],
                 O, S)
<1>1. PICK N \in Nat : N = Cardinality(S)
  BY FS_CardinalityType
<1>2. /\ \A x \in S : RankIn(O, S, x) \in 0..(N - 1)
      /\ \A x, y \in S : <<x, y>> \in O <=> RankIn(O, S, x) < RankIn(O, S, y)
      /\ \A r \in 0..(N - 1) : \E x \in S : RankIn(O, S, x) = r
  BY <1>1, RankFacts
<1>3. \A x, y \in S : RankIn(O, S, x) = RankIn(O, S, y) => x = y
  BY <1>2 DEF IsOrder
<1> DEFINE t == [i \in 1..N |-> CHOOSE x \in S : RankIn(O, S, x) = i - 1]
           s == <<>> \o t
<1>4. ASSUME NEW i \in 1..N PROVE t[i] \in S /\ RankIn(O, S, t[i]) = i - 1
  <2>1. i - 1 \in 0..(N - 1)
    OBVIOUS
  <2> QED
    BY <1>2, <2>1
<1>5. t \in [1..N -> S]
  BY <1>4
<1> HIDE DEF t
<1>6. t \in Seq(S) /\ Len(t) = N
  BY <1>5
<1>7. s = t
  BY <1>6
<1>8. \A i \in 1..N : s[i] \in S /\ RankIn(O, S, s[i]) = i - 1
  BY <1>4, <1>7
<1>9. s \in Seq(S) /\ Len(s) = N
  BY <1>6, <1>7
<1> HIDE DEF s
<1>10. ASSUME NEW x \in S PROVE RankIn(O, S, x) + 1 \in 1..N /\ s[RankIn(O, S, x) + 1] = x
  <2>1. RankIn(O, S, x) + 1 \in 1..N /\ (RankIn(O, S, x) + 1) - 1 = RankIn(O, S, x)
    BY <1>2
  <2>2. RankIn(O, S, s[RankIn(O, S, x) + 1]) = RankIn(O, S, x) /\ s[RankIn(O, S, x) + 1] \in S
    BY <1>8, <2>1
  <2> QED
    BY <1>3, <2>1, <2>2
<1>11. ASSUME NEW i \in 1..N, NEW j \in 1..N PROVE i < j <=> <<s[i], s[j]>> \in O
  <2>1. <<s[i], s[j]>> \in O <=> i - 1 < j - 1
    BY <1>2, <1>8
  <2> QED
    BY <2>1
<1>12. Lists(s, O, S)
  BY <1>1, <1>8, <1>9, <1>10, <1>11 DEF Lists
<1> QED
  BY <1>1, <1>12 DEF s, t

----------------------------------------------------------------------------
(* Ascending numbers *)

LessThan == {p \in Int \X Int : p[1] < p[2]}

LEMMA LessIsOrder == ASSUME NEW S \in SUBSET Int PROVE IsOrder(LessThan, S)
BY DEF IsOrder, LessThan

LEMMA RankLess ==
    ASSUME NEW S \in SUBSET Int, NEW x \in S
    PROVE  RankIn(LessThan, S, x) = Cardinality({y \in S : y < x})
<1>1. Below(LessThan, S, x) = {y \in S : y < x}
  BY DEF Below, LessThan
<1> QED
  BY <1>1 DEF RankIn

\* Sorted lists a finite set of numbers in ascending order.
Ascending(s, S) ==
    /\ s \in Seq(S) /\ Len(s) = Cardinality(S)
    /\ \A i \in 1..Len(s) : Cardinality({y \in S : y < s[i]}) = i - 1
    /\ \A x \in S : /\ Cardinality({y \in S : y < x}) + 1 \in 1..Len(s)
                    /\ s[Cardinality({y \in S : y < x}) + 1] = x
    /\ \A i, j \in 1..Len(s) : i < j <=> s[i] < s[j]

LEMMA SortedAscends ==
    ASSUME NEW S \in SUBSET Int, IsFiniteSet(S)
    PROVE  Ascending(Sorted(S, <), S)
<1> DEFINE t == <<>> \o [i \in 1..Cardinality(S) |->
                          CHOOSE x \in S : RankIn(LessThan, S, x) = i - 1]
           u == <<>> \o [i \in 1..Cardinality(S) |->
                          CHOOSE x \in S : Cardinality({y \in S : y < x}) = i - 1]
<1>1. Sorted(S, <) = u
  BY DEF Sorted
<1>2. ASSUME NEW i
      PROVE  (CHOOSE x \in S : RankIn(LessThan, S, x) = i - 1)
                = CHOOSE x \in S : Cardinality({y \in S : y < x}) = i - 1
  <2>1. \A x \in S : RankIn(LessThan, S, x) = Cardinality({y \in S : y < x})
    BY RankLess
  <2> QED
    BY <2>1
<1>3. t = u
  BY <1>2
<1>4. Lists(t, LessThan, S)
  BY LessIsOrder, ListFacts
<1> HIDE DEF t, u
<1>5. t \in Seq(S) /\ Len(t) = Cardinality(S) /\ \A i \in 1..Len(t) : t[i] \in S
  BY <1>4 DEF Lists
<1>6. \A i \in 1..Len(t) : Cardinality({y \in S : y < t[i]}) = i - 1
  BY <1>4, <1>5, RankLess DEF Lists
<1>7. \A x \in S : /\ Cardinality({y \in S : y < x}) + 1 \in 1..Len(t)
                   /\ t[Cardinality({y \in S : y < x}) + 1] = x
  BY <1>4, RankLess DEF Lists
<1>8. \A i, j \in 1..Len(t) : i < j <=> t[i] < t[j]
  <2>1. \A i, j \in 1..Len(t) : <<t[i], t[j]>> \in LessThan <=> t[i] < t[j]
    BY <1>5 DEF LessThan
  <2> QED
    BY <1>4, <2>1 DEF Lists
<1>9. Ascending(t, S)
  BY <1>5, <1>6, <1>7, <1>8 DEF Ascending
<1> QED
  BY <1>1, <1>3, <1>9

\* A finite set of numbers has a largest and a smallest member.
LEMMA Extremes ==
    ASSUME NEW S \in SUBSET Int, IsFiniteSet(S), S # {}
    PROVE  /\ Max(S) \in S /\ \A x \in S : Max(S) >= x
           /\ Min(S) \in S /\ \A x \in S : Min(S) <= x
<1>1. PICK s : Ascending(s, S)
  BY SortedAscends
<1>2. s \in Seq(S) /\ \A x \in S : \E i \in 1..Len(s) : s[i] = x
  BY <1>1 DEF Ascending
<1>3. PICK N \in Nat : N = Len(s)
  BY <1>2
<1>4. N \in 1..N /\ 1 \in 1..N
  <2>1. PICK x \in S, i \in 1..N : s[i] = x
    BY <1>2, <1>3
  <2> QED
    BY <2>1
<1>5. \A i \in 1..N : s[i] \in S /\ s[i] \in Int
  BY <1>2, <1>3, ElementOfSeq
<1>6. \A i, j \in 1..N : i < j <=> s[i] < s[j]
  BY <1>1, <1>3 DEF Ascending
<1>7. ASSUME NEW x \in S PROVE s[N] >= x /\ s[1] <= x
  <2>1. PICK i \in 1..N : s[i] = x
    BY <1>2, <1>3
  <2>2. ~(N < i) /\ ~(i < 1)
    BY <2>1
  <2> QED
    BY <1>4, <1>5, <1>6, <2>1, <2>2
<1> QED
  BY <1>4, <1>5, <1>7 DEF Max, Min

----------------------------------------------------------------------------
(* Turns and distances *)

Turn == 2 * HalfTurn

LEMMA TurnType == Turn \in Nat \ {0} /\ Turn = 2 * HalfTurn
BY FrameAssumption DEF Turn

LEMMA Congruent ==
    ASSUME NEW m \in Nat \ {0}, NEW d \in Int
    PROVE  /\ d % m \in 0..(m - 1)
           /\ (d + m) % m = d % m /\ (d - m) % m = d % m
           /\ (-d) % m = IF d % m = 0 THEN 0 ELSE m - (d % m)
<1>1. PICK q \in Int, r \in 0..(m - 1) : d = m * q + r /\ d % m = r
  OBVIOUS
<1>2. d + m = m * (q + 1) + r /\ d - m = m * (q - 1) + r
  BY <1>1
<1>3. (d + m) % m = r
  BY <1>2
<1>4. (d - m) % m = r
  BY <1>2
<1>5. CASE r = 0
  <2>1. PICK e \in Int, k \in Int : e = -d /\ k = -q
    OBVIOUS
  <2>2. e = m * k + 0 /\ 0 \in 0..(m - 1)
    BY <1>1, <1>5, <2>1
  <2>3. e % m = 0
    BY <2>2
  <2> QED
    BY <1>1, <1>3, <1>4, <1>5, <2>1, <2>3
<1>6. CASE r # 0
  <2>1. PICK e \in Int, k \in Int, s \in Int : e = -d /\ k = -q - 1 /\ s = m - r
    OBVIOUS
  <2>2. e = m * k + s /\ s \in 0..(m - 1)
    BY <1>1, <1>6, <2>1
  <2>3. e % m = s
    BY <2>2
  <2> QED
    BY <1>1, <1>3, <1>4, <1>6, <2>1, <2>3
<1> QED
  BY <1>5, <1>6

\* Two longitudes for one meridian.
Alike(x, y) == y \in {x, x + Turn, x - Turn}

\* Differences of longitudes that are alike are congruent.
LEMMA AlikeApart ==
    ASSUME NEW a \in Int, NEW b \in Int, NEW c, NEW d, Alike(a, c), Alike(b, d)
    PROVE  (d - c) % Turn = (b - a) % Turn
<1>1. PICK e \in Int : e = b - a
  OBVIOUS
<1>2. /\ (e + Turn) % Turn = e % Turn /\ (e - Turn) % Turn = e % Turn
      /\ ((e + Turn) + Turn) % Turn = (e + Turn) % Turn
      /\ ((e - Turn) - Turn) % Turn = (e - Turn) % Turn
  <2>1. Turn \in Int
    BY TurnType
  <2>2. PICK f \in Int, h \in Int : f = e + Turn /\ h = e - Turn
    BY <2>1
  <2>3. (f + Turn) % Turn = f % Turn /\ (h - Turn) % Turn = h % Turn
    BY TurnType, Congruent
  <2>4. (e + Turn) % Turn = e % Turn /\ (e - Turn) % Turn = e % Turn
    BY TurnType, Congruent
  <2> QED
    BY <2>2, <2>3, <2>4
<1>3. d - c \in {e, e + Turn, e - Turn, (e + Turn) + Turn, (e - Turn) - Turn}
  BY <1>1, TurnType DEF Alike
<1> QED
  BY <1>1, <1>2, <1>3

\* A point of the map: whole coordinates.
Points == Int \X Int

LEMMA PointFacts ==
    ASSUME NEW p \in Points
    PROVE  R!Lat(p) \in Int /\ R!Lon(p) \in Int /\ p = <<R!Lat(p), R!Lon(p)>>
BY DEF Points, R!Lat, R!Lon

Across(east) == IF east > HalfTurn THEN 2 * HalfTurn - east ELSE east

LEMMA Distance2Is ==
    ASSUME NEW p, NEW q
    PROVE  R!Distance2(p, q) =
             (R!Lat(q) - R!Lat(p)) * (R!Lat(q) - R!Lat(p))
             + Across((R!Lon(q) - R!Lon(p)) % Turn) * Across((R!Lon(q) - R!Lon(p)) % Turn)
BY DEF R!Distance2, Across, Turn

LEMMA Square == ASSUME NEW x \in Int PROVE x * x \in Nat
<1>1. CASE x >= 0
  BY <1>1
<1>2. CASE x < 0
  <2>1. PICK y \in Nat : y = -x
    BY <1>2
  <2>2. y * y \in Nat /\ x * x = y * y
    BY <2>1
  <2> QED
    BY <2>2
<1> QED
  BY <1>1, <1>2

LEMMA Distance2Type ==
    ASSUME NEW p \in Points, NEW q \in Points
    PROVE  R!Distance2(p, q) \in Nat
<1>1. PICK u \in Int : u = R!Lat(q) - R!Lat(p)
  BY PointFacts
<1>2. PICK d \in Int : d = R!Lon(q) - R!Lon(p)
  BY PointFacts
<1>3. d % Turn \in Int
  BY TurnType, Congruent
<1>4. PICK c \in Int : c = Across(d % Turn)
  BY <1>3, FrameAssumption DEF Across
<1>5. R!Distance2(p, q) = u * u + c * c
  BY <1>1, <1>2, <1>4, Distance2Is
<1>6. u * u \in Nat /\ c * c \in Nat
  BY Square
<1> QED
  BY <1>5, <1>6

\* A distance does not depend on the direction, nor on the frame.
LEMMA DistanceBack ==
    ASSUME NEW p \in Points, NEW q \in Points
    PROVE  R!Distance(p, q) = R!Distance(q, p)
<1>1. PICK u \in Int, v \in Int : u = R!Lat(q) - R!Lat(p) /\ v = R!Lat(p) - R!Lat(q)
  BY PointFacts
<1>2. PICK d \in Int, e \in Int : d = R!Lon(q) - R!Lon(p) /\ e = R!Lon(p) - R!Lon(q)
  BY PointFacts
<1>3. v = -u /\ e = -d
  BY <1>1, <1>2, PointFacts
<1>4. e % Turn = (IF d % Turn = 0 THEN 0 ELSE Turn - (d % Turn)) /\ d % Turn \in 0..(Turn - 1)
  BY <1>3, TurnType, Congruent
<1>5. Across(e % Turn) = Across(d % Turn)
  BY <1>4, TurnType, FrameAssumption DEF Across
<1>6. v * v = u * u
  BY <1>3
<1> QED
  BY <1>1, <1>2, <1>5, <1>6, Distance2Is DEF R!Distance

LEMMA DistanceMoved ==
    ASSUME NEW p \in Points, NEW q \in Points, NEW r \in Points, NEW s \in Points,
           R!Lat(r) = R!Lat(p), R!Lat(s) = R!Lat(q),
           Alike(R!Lon(p), R!Lon(r)), Alike(R!Lon(q), R!Lon(s))
    PROVE  R!Distance(r, s) = R!Distance(p, q)
<1>1. (R!Lon(s) - R!Lon(r)) % Turn = (R!Lon(q) - R!Lon(p)) % Turn
  BY PointFacts, AlikeApart
<1> QED
  BY <1>1, Distance2Is DEF R!Distance

LEMMA RootExists ==
    ASSUME NEW x \in Nat
    PROVE  \E k \in 0..x : /\ 4 * x < (2 * k + 1) * (2 * k + 1)
                           /\ k > 0 => (2 * k - 1) * (2 * k - 1) <= 4 * x
<1> DEFINE Near(n, k) == /\ 4 * n < (2 * k + 1) * (2 * k + 1)
                         /\ k > 0 => (2 * k - 1) * (2 * k - 1) <= 4 * n
           Q == {n \in 0..x : \E k \in 0..n : Near(n, k)}
<1>1. 0 \in Q
  <2>1. 0 \in 0..0 /\ Near(0, 0)
    OBVIOUS
  <2> QED
    BY <2>1
<1>2. ASSUME NEW n \in Int, 0 <= n, n < x, n \in Q PROVE n + 1 \in Q
  <2>1. PICK k \in 0..n : Near(n, k)
    BY <1>2
  <2>2. CASE 4 * (n + 1) < (2 * k + 1) * (2 * k + 1)
    <3>1. Near(n + 1, k)
      BY <1>2, <2>1, <2>2
    <3> HIDE DEF Near
    <3> QED
      BY <1>2, <3>1
  <2>3. CASE ~(4 * (n + 1) < (2 * k + 1) * (2 * k + 1))
    <3>1. PICK j \in 0..(n + 1) : j = k + 1
      OBVIOUS
    <3>2. (2 * j - 1) * (2 * j - 1) = (2 * k + 1) * (2 * k + 1)
      BY <3>1
    <3>3. (2 * j + 1) * (2 * j + 1) = (2 * k + 1) * (2 * k + 1) + 8 * k + 8
      BY <3>1
    <3>4. PICK t \in Int : t = (2 * k + 1) * (2 * k + 1)
      OBVIOUS
    <3>5. 4 * n < t /\ ~(4 * (n + 1) < t)
      BY <2>1, <2>3, <3>4
    <3>6. Near(n + 1, j)
      <4>1. 4 * (n + 1) < t + 8 * k + 8 /\ t <= 4 * (n + 1)
        BY ONLY <1>2, <2>1, <3>4, <3>5
      <4> QED
        BY <3>2, <3>3, <3>4, <4>1
    <3> HIDE DEF Near
    <3> QED
      BY <1>2, <3>1, <3>6
  <2> QED
    BY <2>2, <2>3
<1> HIDE DEF Q
<1>3. \A n \in 0..x : n \in Q
  BY <1>1, <1>2, UpFrom
<1>4. x \in Q
  BY <1>3
<1> QED
  BY <1>4 DEF Q

LEMMA DistanceType ==
    ASSUME NEW p \in Points, NEW q \in Points
    PROVE  R!Distance(p, q) \in Nat
<1>1. PICK x \in Nat : x = R!Distance2(p, q)
  BY Distance2Type
<1>2. R!RoundedRoot(x) \in 0..x
  BY RootExists DEF R!RoundedRoot
<1> QED
  BY <1>1, <1>2 DEF R!Distance

\* A length is one that Collapse takes.
LEMMA LengthType ==
    ASSUME NEW p \in Points, NEW q \in Points
    PROVE  Clamped(R!Dm(R!Distance(p, q))) \in Nat \ {0}
<1>1. PICK d \in Nat : d = R!Distance(p, q)
  BY DistanceType
<1>2. PICK b \in Nat \ {0} : b = 2 * DmUnits
  BY FrameAssumption
<1>3. PICK u \in Nat : u = 2 * d + DmUnits
  BY FrameAssumption
<1>4. u \div b \in Nat
  OBVIOUS
<1>5. R!Dm(d) \in Nat
  BY <1>2, <1>3, <1>4 DEF R!Dm
<1> QED
  BY <1>1, <1>5, NetworkAssumption DEF Clamped

----------------------------------------------------------------------------
(* The reader *)

Profiles == {"car", "foot"}

LEMMA HighwayAccessType == \A v : HighwayAccess(v) \in SUBSET Profiles
BY DEF HighwayAccess, Profiles

\* What an extract says of its ways, for the profiles asked for.
Refs(i) == extract.ways[i].refs
Mask(i) == HighwayAccess(extract.ways[i].highway) \cap extract.keep
Segment(i, j) == [from |-> Refs(i)[j], to |-> Refs(i)[j + 1], access |-> Mask(i)]
Draws(i, j) ==
    /\ i \in DOMAIN extract.ways /\ j \in 1..(Len(Refs(i)) - 1)
    /\ Refs(i)[j] # Refs(i)[j + 1]
    /\ Records(Refs(i)[j]) # {} /\ Records(Refs(i)[j + 1]) # {}
    /\ Mask(i) # {}

LEMMA DrawnIs == \A p : p \in Drawn <=> \E i, j : Draws(i, j) /\ p = Segment(i, j)
<1>1. ASSUME NEW p, p \in Drawn PROVE \E i, j : Draws(i, j) /\ p = Segment(i, j)
  <2>1. PICK i \in DOMAIN extract.ways : p \in DrawnAt(extract.ways[i]) /\ p.access # {}
    BY <1>1 DEF Drawn, Range
  <2>2. PICK j \in 1..(Len(Refs(i)) - 1) :
           /\ Refs(i)[j] # Refs(i)[j + 1]
           /\ Records(Refs(i)[j]) # {} /\ Records(Refs(i)[j + 1]) # {}
           /\ p = Segment(i, j)
    BY <2>1 DEF DrawnAt, Refs, Segment, Mask
  <2>3. p.access = Mask(i)
    BY <2>2 DEF Segment
  <2> QED
    BY <2>1, <2>2, <2>3 DEF Draws
<1>2. ASSUME NEW p, NEW i, NEW j, Draws(i, j), p = Segment(i, j) PROVE p \in Drawn
  <2>1. p \in DrawnAt(extract.ways[i])
    BY <1>2 DEF Draws, DrawnAt, Refs, Segment, Mask
  <2>2. extract.ways[i] \in Range(extract.ways)
    BY <1>2 DEF Draws, Range
  <2>3. p.access # {}
    BY <1>2 DEF Segment, Draws
  <2> QED
    BY <2>1, <2>2, <2>3 DEF Drawn
<1> QED
  BY <1>1, <1>2

\* The ways the first pass takes, and the ids they refer to.
Taken == {i \in DOMAIN extract.ways :
            HighwayAccess(extract.ways[i].highway) # {} /\ Len(Refs(i)) >= 2}
Wanted == UNION {Range(Refs(i)) : i \in Taken}

FullWays ==
    [i \in Taken |-> [refs |-> Refs(i), access |-> HighwayAccess(extract.ways[i].highway)]]
MaskedWays == [i \in Taken |-> [refs |-> Refs(i), access |-> Mask(i)]]
Places == [n \in {w \in Wanted : Records(w) # {}} |-> PlaceOf(n)]

Early == {"ways", "nodes", "mask", "scan"}
Stages == Early \cup {"frame", "stitch", "connect", "merged", "collapse",
                      "AntimeridianSpanning", "AntimeridianWindow"}

ReadInv ==
    /\ IsExtract(extract) /\ stage \in Stages
    /\ stage \in {"nodes", "mask"} => ways = FullWays
    /\ stage \notin {"ways", "nodes", "mask"} => ways = MaskedWays
    /\ stage \notin {"ways", "nodes"} => place = Places

Record == [id : Int, at : Int \X (-HalfTurn..HalfTurn)]

LEMMA ExtractType ==
    ASSUME IsExtract(extract)
    PROVE  /\ \A i \in DOMAIN extract.nodes : extract.nodes[i] \in Record
           /\ \A i \in DOMAIN extract.ways : Refs(i) \in Seq(Int)
           /\ \E N \in Nat : DOMAIN extract.nodes = 1..N
<1>1. extract.nodes \in Seq(Record)
  BY DEF IsExtract, Record
<1>2. extract.ways \in Seq([refs : Seq(Int), highway : STRING])
  BY DEF IsExtract
<1>3. ASSUME NEW T, NEW s \in Seq(T)
      PROVE  (\A i \in DOMAIN s : s[i] \in T) /\ \E N \in Nat : DOMAIN s = 1..N
  <2>1. Len(s) \in Nat /\ DOMAIN s = 1..Len(s)
    OBVIOUS
  <2> QED
    BY <2>1, ElementOfSeq
<1>4. \A i \in DOMAIN extract.ways : extract.ways[i] \in [refs : Seq(Int), highway : STRING]
  BY <1>2, <1>3
<1>5. \A i \in DOMAIN extract.ways : Refs(i) \in Seq(Int)
  BY <1>4 DEF Refs
<1> QED
  BY <1>1, <1>3, <1>5

\* What the scan finds is what the extract draws.
LEMMA PairsAreDrawn ==
    ASSUME ReadInv, stage \notin {"ways", "nodes", "mask"}
    PROVE  Pairs = Drawn
<1>1. /\ ways = [i \in Taken |-> [refs |-> Refs(i), access |-> Mask(i)]]
      /\ DOMAIN place = {w \in Wanted : Records(w) # {}}
  BY DEF ReadInv, MaskedWays, Places
<1>2. /\ \A i \in Taken : ways[i].refs = Refs(i) /\ ways[i].access = Mask(i)
      /\ DOMAIN ways = Taken
  BY <1>1
<1>3. \A i \in DOMAIN extract.ways : Refs(i) \in Seq(Int)
  BY ExtractType DEF ReadInv
<1>4. ASSUME NEW p, p \in Pairs PROVE p \in Drawn
  <2>1. PICK i \in Taken : \E j \in 1..(Len(ways[i].refs) - 1) :
           /\ ways[i].access # {}
           /\ ways[i].refs[j] # ways[i].refs[j + 1]
           /\ {ways[i].refs[j], ways[i].refs[j + 1]} \subseteq DOMAIN place
           /\ p = [from |-> ways[i].refs[j], to |-> ways[i].refs[j + 1],
                   access |-> ways[i].access]
    BY <1>2, <1>4 DEF Pairs, Range
  <2>2. PICK j \in 1..(Len(Refs(i)) - 1) :
           /\ Mask(i) # {}
           /\ Refs(i)[j] # Refs(i)[j + 1]
           /\ {Refs(i)[j], Refs(i)[j + 1]} \subseteq DOMAIN place
           /\ p = Segment(i, j)
    BY <1>2, <2>1 DEF Segment
  <2>3. Draws(i, j)
    BY <1>1, <2>2 DEF Draws, Taken
  <2> QED
    BY <2>2, <2>3, DrawnIs
<1>5. ASSUME NEW p, p \in Drawn PROVE p \in Pairs
  <2>1. PICK i, j : Draws(i, j) /\ p = Segment(i, j)
    BY <1>5, DrawnIs
  <2>2. i \in DOMAIN extract.ways /\ j \in 1..(Len(Refs(i)) - 1) /\ Mask(i) # {}
    BY <2>1 DEF Draws
  <2>3. PICK N \in Nat : N = Len(Refs(i)) /\ DOMAIN Refs(i) = 1..N
    BY <1>3, <2>2
  <2>4. N >= 2 /\ j \in 1..N /\ j + 1 \in 1..N
    BY <2>2, <2>3
  <2>5. i \in Taken
    BY <2>2, <2>3, <2>4 DEF Taken, Mask
  <2>6. Refs(i)[j] \in Wanted /\ Refs(i)[j + 1] \in Wanted
    <3>1. Refs(i)[j] \in Range(Refs(i)) /\ Refs(i)[j + 1] \in Range(Refs(i))
      BY <2>3, <2>4 DEF Range
    <3> QED
      BY <2>5, <3>1 DEF Wanted
  <2>7. {Refs(i)[j], Refs(i)[j + 1]} \subseteq DOMAIN place
    BY <1>1, <2>1, <2>6 DEF Draws
  <2>8. ways[i] \in {v \in Range(ways) : v.access # {}}
    BY <1>2, <2>2, <2>5 DEF Range
  <2>9. p \in {[from |-> ways[i].refs[k], to |-> ways[i].refs[k + 1], access |-> ways[i].access] :
                 k \in {l \in 1..(Len(ways[i].refs) - 1) :
                          /\ ways[i].refs[l] # ways[i].refs[l + 1]
                          /\ {ways[i].refs[l], ways[i].refs[l + 1]} \subseteq DOMAIN place}}
    BY <1>2, <2>1, <2>2, <2>5, <2>7 DEF Segment, Draws
  <2> QED
    BY <2>8, <2>9 DEF Pairs
<1> QED
  BY <1>4, <1>5

RoadNodes == Ends(Drawn)

\* Where a node is that has a record.
LEMMA PlaceType ==
    ASSUME IsExtract(extract), NEW n, Records(n) # {}
    PROVE  PlaceOf(n) \in Int \X (-HalfTurn..HalfTurn) /\ n \in {r.id : r \in Range(extract.nodes)}
<1>1. \A i \in DOMAIN extract.nodes : extract.nodes[i] \in Record
  BY ExtractType
<1>2. PICK N \in Nat : DOMAIN extract.nodes = 1..N
  BY ExtractType
<1>3. Records(n) \in SUBSET (1..N) /\ IsFiniteSet(1..N)
  BY <1>2, FS_Interval DEF Records
<1>4. Records(n) \in SUBSET Int /\ IsFiniteSet(Records(n))
  BY <1>3, FS_Subset
<1>5. Max(Records(n)) \in Records(n)
  BY <1>4, Extremes
<1>6. PICK i \in DOMAIN extract.nodes : i = Max(Records(n)) /\ extract.nodes[i].id = n
  BY <1>5 DEF Records
<1>7. extract.nodes[i] \in Record
  BY <1>1, <1>6
<1> QED
  BY <1>6, <1>7 DEF PlaceOf, Range, Record

LEMMA DrawnType ==
    ASSUME IsExtract(extract), NEW p \in Drawn
    PROVE  /\ p.from \in RoadNodes /\ p.to \in RoadNodes /\ p.from # p.to
           /\ p.access \in (SUBSET Profiles) \ {{}}
           /\ p = [from |-> p.from, to |-> p.to, access |-> p.access]
<1>1. PICK i, j : Draws(i, j) /\ p = Segment(i, j)
  BY DrawnIs
<1>2. p.from # p.to /\ p.access = Mask(i) /\ Mask(i) # {}
  BY <1>1 DEF Draws, Segment
<1>3. Mask(i) \in SUBSET Profiles
  BY HighwayAccessType DEF Mask
<1> QED
  BY <1>1, <1>2, <1>3 DEF RoadNodes, Ends, Segment

LEMMA RoadNodeType ==
    ASSUME IsExtract(extract)
    PROVE  /\ RoadNodes \in SUBSET Int /\ IsFiniteSet(RoadNodes)
           /\ Cardinality(RoadNodes) <= Size
           /\ \A n \in RoadNodes : PlaceOf(n) \in Int \X (-HalfTurn..HalfTurn)
<1> DEFINE known == {r.id : r \in Range(extract.nodes)}
<1>1. Cardinality(known) <= Size /\ \A i \in DOMAIN extract.nodes : extract.nodes[i] \in Record
  BY ExtractType DEF IsExtract
<1>2. PICK N \in Nat : DOMAIN extract.nodes = 1..N
  BY ExtractType
<1>3. known = {extract.nodes[i].id : i \in 1..N}
  BY <1>2 DEF Range
<1>4. IsFiniteSet(known)
  <2> DEFINE f == [i \in 1..N |-> extract.nodes[i].id]
  <2>1. IsFiniteSet(1..N)
    BY FS_Interval
  <2>2. f \in [1..N -> known] /\ \A k \in known : \E i \in 1..N : f[i] = k
    BY <1>3
  <2> HIDE DEF f, known
  <2>3. f \in Surjection(1..N, known)
    BY <2>2 DEF Surjection
  <2> QED
    BY <2>1, <2>3, FS_Surjection
<1>5. known \in SUBSET Int
  <2>1. \A i \in 1..N : extract.nodes[i].id \in Int
    BY <1>1, <1>2 DEF Record
  <2> QED
    BY <1>3, <2>1
<1>6. ASSUME NEW n \in RoadNodes PROVE Records(n) # {}
  <2>1. PICK p \in Drawn : n = p.from \/ n = p.to
    BY DEF RoadNodes, Ends
  <2>2. PICK i, j : Draws(i, j) /\ p = Segment(i, j)
    BY DrawnIs
  <2> QED
    BY <2>1, <2>2 DEF Draws, Segment
<1>7. RoadNodes \in SUBSET known /\ \A n \in RoadNodes : PlaceOf(n) \in Int \X (-HalfTurn..HalfTurn)
  BY <1>6, PlaceType
<1>8. IsFiniteSet(RoadNodes) /\ Cardinality(RoadNodes) <= Cardinality(known)
  <2> HIDE DEF known
  <2> QED
    BY <1>4, <1>7, FS_Subset
<1>9. Cardinality(RoadNodes) \in Nat /\ Cardinality(known) \in Nat /\ Size \in Nat
  <2> HIDE DEF known
  <2> QED
    BY <1>4, <1>8, FS_CardinalityType, NetworkAssumption
<1> HIDE DEF known
<1>10. Cardinality(RoadNodes) <= Size
  BY <1>1, <1>8, <1>9
<1> QED
  BY <1>5, <1>7, <1>8, <1>10

LEMMA Masked ==
    \A r, q, a, b : r = [refs |-> q, access |-> a]
                      => [r EXCEPT !.access = b] = [refs |-> q, access |-> b]
OBVIOUS

LEMMA SameExtract ==
    ASSUME extract' = extract
    PROVE  /\ IsExtract(extract)' = IsExtract(extract)
           /\ FullWays' = FullWays /\ MaskedWays' = MaskedWays /\ Places' = Places
           /\ Drawn' = Drawn /\ RoadNodes' = RoadNodes
           /\ \A n : PlaceOf(n)' = PlaceOf(n)
<1>1. /\ \A i : Refs(i)' = Refs(i) /\ Mask(i)' = Mask(i)
      /\ \A n : Records(n)' = Records(n)
  BY DEF Refs, Mask, Records
<1>2. \A n : PlaceOf(n)' = PlaceOf(n)
  BY <1>1 DEF PlaceOf
<1>3. Taken' = Taken
  BY <1>1 DEF Taken
<1>4. Wanted' = Wanted
  BY <1>1, <1>3 DEF Wanted
<1>5. Drawn' = Drawn
  <2>1. ASSUME NEW w PROVE DrawnAt(w)' = DrawnAt(w)
    <3>1. \A j : /\ (Records(w.refs[j]) # {})' = (Records(w.refs[j]) # {})
                 /\ (Records(w.refs[j + 1]) # {})' = (Records(w.refs[j + 1]) # {})
      BY <1>1
    <3> QED
      BY <3>1 DEF DrawnAt
  <2> QED
    BY <2>1 DEF Drawn
<1>6. RoadNodes' = RoadNodes
  BY <1>5 DEF RoadNodes, Ends
<1>7. FullWays' = FullWays /\ MaskedWays' = MaskedWays /\ Places' = Places
  BY <1>1, <1>2, <1>3, <1>4 DEF FullWays, MaskedWays, Places
<1>8. IsExtract(extract)' = IsExtract(extract)
  BY DEF IsExtract
<1> QED
  BY <1>2, <1>5, <1>6, <1>7, <1>8

LEMMA InitRead == NInit => ReadInv
BY DEF NInit, ReadInv, Stages, Early

LEMMA StepRead == ReadInv /\ [NNext]_nvars => ReadInv'
<1> SUFFICES ASSUME ReadInv, [NNext]_nvars PROVE ReadInv'
  OBVIOUS
<1>0. extract' = extract
  BY DEF NNext, nvars, building, ReadWays, ReadNodes, MaskAccess, ScanWays, KeepFrame,
         RefuseSpanning, RefuseWindow, ShiftFrame, Stitch, Connect, CollapseStep, Refused
<1>00. /\ IsExtract(extract)' /\ FullWays' = FullWays /\ MaskedWays' = MaskedWays
       /\ Places' = Places
  BY <1>0, SameExtract DEF ReadInv
<1>1. CASE ReadWays
  <2>1. ways' = FullWays
    BY <1>1 DEF ReadWays, FullWays, Taken, Refs
  <2> QED
    BY <1>1, <1>00, <2>1 DEF ReadWays, ReadInv, Stages, Early
<1>2. CASE ReadNodes
  <2>1. ways = FullWays
    BY <1>2 DEF ReadNodes, ReadInv
  <2>2. Needed = Wanted
    <3>1. DOMAIN ways = Taken /\ \A i \in Taken : ways[i].refs = Refs(i)
      BY <2>1 DEF FullWays
    <3> QED
      BY <3>1 DEF Needed, Wanted, Range
  <2>3. place' = Places
    BY <1>2, <2>2 DEF ReadNodes, Places
  <2> QED
    BY <1>2, <1>00, <2>1, <2>3 DEF ReadNodes, ReadInv, Stages, Early
<1>3. CASE MaskAccess
  <2>1. ways = FullWays
    BY <1>3 DEF MaskAccess, ReadInv
  <2>2. ways' = MaskedWays
    <3>1. DOMAIN ways = Taken
          /\ \A i \in Taken : ways[i] = [refs |-> Refs(i),
                                         access |-> HighwayAccess(extract.ways[i].highway)]
      BY <2>1 DEF FullWays
    <3>2. \A i \in Taken : [ways[i] EXCEPT !.access = @ \cap extract.keep]
                             = [refs |-> Refs(i), access |-> Mask(i)]
      <4> SUFFICES ASSUME NEW i \in Taken
                   PROVE  [ways[i] EXCEPT !.access = @ \cap extract.keep]
                             = [refs |-> Refs(i), access |-> Mask(i)]
        OBVIOUS
      <4>1. PICK r : r = ways[i]
        OBVIOUS
      <4>2. r = [refs |-> Refs(i), access |-> HighwayAccess(extract.ways[i].highway)]
        BY <3>1, <4>1
      <4>3. r.access \cap extract.keep = Mask(i)
        BY <4>2 DEF Mask
      <4>4. [r EXCEPT !.access = Mask(i)] = [refs |-> Refs(i), access |-> Mask(i)]
        BY <4>2, Masked
      <4> QED
        BY <4>1, <4>3, <4>4
    <3> QED
      BY <1>3, <3>1, <3>2 DEF MaskAccess, MaskedWays
  <2> QED
    BY <1>3, <1>00, <2>2 DEF MaskAccess, ReadInv, Stages, Early
<1>4. CASE UNCHANGED network /\ stage' \in Stages \ {"ways", "nodes", "mask"}
           /\ stage \notin {"ways", "nodes", "mask"}
  BY <1>4, <1>00 DEF network, ReadInv
<1>5. CASE ScanWays \/ KeepFrame \/ RefuseSpanning \/ RefuseWindow \/ ShiftFrame \/ Stitch
           \/ Connect \/ CollapseStep
  <2>1. UNCHANGED network /\ stage' \in Stages \ {"ways", "nodes", "mask"}
           /\ stage \notin {"ways", "nodes", "mask"}
    BY <1>5 DEF ScanWays, KeepFrame, RefuseSpanning, RefuseWindow, ShiftFrame, Stitch, Connect,
                CollapseStep, Stages, Early
  <2> QED
    BY <1>4, <2>1
<1>6. CASE UNCHANGED nvars
  BY <1>6, <1>00 DEF nvars, building, network, ReadInv
<1>7. CASE Refused
  BY <1>6, <1>7 DEF Refused
<1> QED
  BY <1>1, <1>2, <1>3, <1>5, <1>6, <1>7 DEF NNext

\* A function on 1..N is a sequence, whatever is appended as nothing.
LEMMA TidySequence ==
    ASSUME NEW N \in Nat, NEW f, f = [i \in 1..N |-> f[i]]
    PROVE  f \o <<>> = f /\ Len(f) = N /\ DOMAIN f = 1..N
<1>1. f \in [1..N -> {f[i] : i \in 1..N}]
  OBVIOUS
<1>2. f \in Seq({f[i] : i \in 1..N}) /\ Len(f) = N
  BY <1>1
<1> QED
  BY <1>2

LEMMA RangeFinite ==
    ASSUME NEW N \in Nat, NEW f
    PROVE  IsFiniteSet({f[i] : i \in 1..N})
<1> DEFINE S == {f[i] : i \in 1..N}
           h == [i \in 1..N |-> f[i]]
<1>1. IsFiniteSet(1..N)
  BY FS_Interval
<1>2. h \in [1..N -> S] /\ \A k \in S : \E i \in 1..N : h[i] = k
  OBVIOUS
<1> HIDE DEF h, S
<1>3. h \in Surjection(1..N, S)
  BY <1>2 DEF Surjection
<1>4. IsFiniteSet(S)
  BY <1>1, <1>3, FS_Surjection
<1> QED
  BY <1>4 DEF S

----------------------------------------------------------------------------
(* The stitch *)

Parallel(i) == R!Lat(nodes[i])

\* c is the first of the seam's nodes that coincide with i.
IsFirst(c, i) ==
    /\ c \in SeamPositions /\ Parallel(c) = Parallel(i)
    /\ \A q \in SeamPositions : Parallel(q) = Parallel(i) => c <= q

\* Nodes of the seam are redirected to the first that coincides with them.
Joins(a) ==
    /\ \A p \in DOMAIN a : p \in SeamPositions
    /\ \A p \in SeamPositions :
          IsFirst(Canon(a, p), p) /\ (p \in DOMAIN a <=> ~IsFirst(p, p))

Flat(N) == N \in Nat /\ DOMAIN nodes = 1..N /\ \A i \in 1..N : Parallel(i) \in Int

SeamOrder == {x \in SeamPositions \X SeamPositions :
                \/ Parallel(x[1]) < Parallel(x[2])
                \/ Parallel(x[1]) = Parallel(x[2]) /\ x[1] < x[2]}

LEMMA SeamSet ==
    ASSUME NEW N, Flat(N)
    PROVE  /\ SeamPositions \in SUBSET (1..N) /\ IsFiniteSet(SeamPositions)
           /\ \A i \in SeamPositions : i \in Int /\ Parallel(i) \in Int
<1>1. SeamPositions \in SUBSET (1..N)
  BY DEF Flat, SeamPositions
<1>2. IsFiniteSet(1..N)
  BY FS_Interval DEF Flat
<1>3. IsFiniteSet(SeamPositions)
  BY <1>1, <1>2, FS_Subset
<1> QED
  BY <1>1, <1>3 DEF Flat

LEMMA SeamIsOrdered ==
    ASSUME NEW N, Flat(N)
    PROVE  IsOrder(SeamOrder, SeamPositions)
<1>1. \A i \in SeamPositions : i \in Int /\ Parallel(i) \in Int
  BY SeamSet
<1>2. \A x, y \in SeamPositions :
         <<x, y>> \in SeamOrder <=> \/ Parallel(x) < Parallel(y)
                                    \/ Parallel(x) = Parallel(y) /\ x < y
  BY DEF SeamOrder
<1> QED
  BY <1>1, <1>2 DEF IsOrder

LEMMA OnSeamListed ==
    ASSUME NEW N, Flat(N)
    PROVE  Lists(OnSeam, SeamOrder, SeamPositions)
<1> DEFINE S == SeamPositions
           t == <<>> \o [i \in 1..Cardinality(S) |->
                          CHOOSE x \in S : RankIn(SeamOrder, S, x) = i - 1]
           Before(x) == {y \in S : \/ Parallel(y) < Parallel(x)
                                   \/ Parallel(y) = Parallel(x) /\ y < x}
           u == <<>> \o [i \in 1..Cardinality(S) |->
                          CHOOSE x \in S : Cardinality(Before(x)) = i - 1]
<1>1. OnSeam = u
  BY DEF OnSeam, Sorted, Parallel
<1>2. ASSUME NEW i
      PROVE  (CHOOSE x \in S : RankIn(SeamOrder, S, x) = i - 1)
                = CHOOSE x \in S : Cardinality(Before(x)) = i - 1
  <2>1. \A x \in S : Below(SeamOrder, S, x) = Before(x)
    BY DEF Below, SeamOrder
  <2>2. \A x \in S : RankIn(SeamOrder, S, x) = Cardinality(Before(x))
    BY <2>1 DEF RankIn
  <2> QED
    BY <2>2
<1>3. t = u
  BY <1>2
<1>4. IsFiniteSet(S) /\ IsOrder(SeamOrder, S)
  BY SeamSet, SeamIsOrdered
<1>5. Lists(t, SeamOrder, S)
  BY <1>4, ListFacts
<1> QED
  BY <1>1, <1>3, <1>5

Redirects == UNION {[D -> SeamPositions] : D \in SUBSET SeamPositions}

LEMMA EmptyRedirect == <<>> \in Redirects /\ DOMAIN <<>> = {}
<1>1. <<>> \in [{} -> SeamPositions] /\ {} \in SUBSET SeamPositions
  OBVIOUS
<1> QED
  BY <1>1 DEF Redirects

LEMMA CanonType ==
    ASSUME NEW a \in Redirects, NEW i \in SeamPositions
    PROVE  Canon(a, i) \in SeamPositions
<1>1. PICK D \in SUBSET SeamPositions : a \in [D -> SeamPositions]
  BY DEF Redirects
<1> QED
  BY <1>1 DEF Canon

\* b is a after the pair i, j of the seam's list.
Joined1(b, a, i, j) ==
    /\ b \in Redirects
    /\ Parallel(i) # Parallel(j) => b = a
    /\ Parallel(i) = Parallel(j) =>
          /\ DOMAIN b = DOMAIN a \cup {j}
          /\ \A p \in SeamPositions : Canon(b, p) = IF p = j THEN Canon(a, i) ELSE Canon(a, p)

LEMMA JoinFacts ==
    ASSUME NEW N, Flat(N), NEW a \in Redirects,
           NEW k \in 1..Len(OnSeam), k + 1 \in 1..Len(OnSeam)
    PROVE  Joined1(Join(a, k + 1), a, OnSeam[k], OnSeam[k + 1])
<1>1. OnSeam \in Seq(SeamPositions)
  BY OnSeamListed DEF Lists
<1>2. OnSeam[k] \in SeamPositions /\ OnSeam[k + 1] \in SeamPositions /\ (k + 1) - 1 = k
  BY <1>1, ElementOfSeq
<1>3. PICK i \in SeamPositions, j \in SeamPositions : i = OnSeam[k] /\ j = OnSeam[k + 1]
  BY <1>2
<1>4. PICK c \in SeamPositions : c = Canon(a, i)
  BY CanonType
<1>5. Join(a, k + 1) = IF Parallel(i) = Parallel(j)
                       THEN [n \in DOMAIN a \cup {j} |-> IF n = j THEN c ELSE a[n]]
                       ELSE a
  BY <1>2, <1>3, <1>4 DEF Join, Parallel
<1>6. CASE Parallel(i) # Parallel(j)
  BY <1>3, <1>5, <1>6 DEF Joined1
<1>7. CASE Parallel(i) = Parallel(j)
  <2>1. PICK b : b = [n \in DOMAIN a \cup {j} |-> IF n = j THEN c ELSE a[n]]
    OBVIOUS
  <2>2. Join(a, k + 1) = b /\ DOMAIN b = DOMAIN a \cup {j}
    BY <1>5, <1>7, <2>1
  <2>3. PICK D \in SUBSET SeamPositions : a \in [D -> SeamPositions]
    BY DEF Redirects
  <2>4. b \in [D \cup {j} -> SeamPositions] /\ D \cup {j} \in SUBSET SeamPositions
    BY <2>1, <2>3
  <2>5. b \in Redirects
    BY <2>4 DEF Redirects
  <2>6. \A p \in SeamPositions : Canon(b, p) = IF p = j THEN c ELSE Canon(a, p)
    BY <2>1, <2>2 DEF Canon
  <2>7. Joined1(b, a, i, j)
    BY <1>4, <1>7, <2>2, <2>5, <2>6 DEF Joined1
  <2> QED
    BY <1>3, <2>2, <2>7
<1> QED
  BY <1>3, <1>6, <1>7

\* The redirect after the first k of the list.
UpTo(a, k) ==
    /\ a \in Redirects
    /\ \A p \in DOMAIN a : \E l \in 1..k : OnSeam[l] = p
    /\ \A l \in 1..k : /\ IsFirst(Canon(a, OnSeam[l]), OnSeam[l])
                       /\ OnSeam[l] \in DOMAIN a <=> ~IsFirst(OnSeam[l], OnSeam[l])

\* The list: by parallel, then by position, and each once.
LEMMA OnSeamOrder ==
    ASSUME NEW N, Flat(N)
    PROVE  /\ \A l \in 1..Len(OnSeam) : OnSeam[l] \in SeamPositions
           /\ \A p \in SeamPositions : \E l \in 1..Len(OnSeam) : OnSeam[l] = p
           /\ \A l, m \in 1..Len(OnSeam) :
                 l < m <=> \/ Parallel(OnSeam[l]) < Parallel(OnSeam[m])
                           \/ /\ Parallel(OnSeam[l]) = Parallel(OnSeam[m])
                              /\ OnSeam[l] < OnSeam[m]
<1>1. /\ OnSeam \in Seq(SeamPositions)
      /\ \A p \in SeamPositions : \E l \in 1..Len(OnSeam) : OnSeam[l] = p
      /\ \A l, m \in 1..Len(OnSeam) : l < m <=> <<OnSeam[l], OnSeam[m]>> \in SeamOrder
  <2>1. Lists(OnSeam, SeamOrder, SeamPositions)
    BY OnSeamListed
  <2> QED
    BY <2>1 DEF Lists
<1>2. \A l \in 1..Len(OnSeam) : OnSeam[l] \in SeamPositions
  BY <1>1, ElementOfSeq
<1>3. \A l, m \in 1..Len(OnSeam) :
         <<OnSeam[l], OnSeam[m]>> \in SeamOrder
            <=> \/ Parallel(OnSeam[l]) < Parallel(OnSeam[m])
                \/ Parallel(OnSeam[l]) = Parallel(OnSeam[m]) /\ OnSeam[l] < OnSeam[m]
  BY <1>2 DEF SeamOrder
<1> QED
  BY <1>1, <1>2, <1>3

LEMMA FirstOfOne ==
    ASSUME NEW N, Flat(N), 1 \in 1..Len(OnSeam)
    PROVE  UpTo(<<>>, 1)
<1>1. PICK L \in Nat : L = Len(OnSeam)
  BY OnSeamListed DEF Lists
<1>2. OnSeam[1] \in SeamPositions
  BY OnSeamOrder
<1>3. ASSUME NEW q \in SeamPositions, Parallel(q) = Parallel(OnSeam[1]) PROVE OnSeam[1] <= q
  <2>1. PICK m \in 1..L : OnSeam[m] = q
    BY <1>1, OnSeamOrder
  <2>2. CASE m = 1
    BY <1>2, <2>1, <2>2, SeamSet
  <2>3. CASE m # 1
    <3>1. 1 < m /\ 1 \in 1..L
      BY <2>3
    <3>2. \/ Parallel(OnSeam[1]) < Parallel(OnSeam[m])
          \/ Parallel(OnSeam[1]) = Parallel(OnSeam[m]) /\ OnSeam[1] < OnSeam[m]
      BY <1>1, <2>1, <3>1, OnSeamOrder
    <3> QED
      BY <1>2, <1>3, <2>1, <3>2, SeamSet
  <2> QED
    BY <2>2, <2>3
<1>4. IsFirst(OnSeam[1], OnSeam[1])
  BY <1>2, <1>3 DEF IsFirst
<1>5. Canon(<<>>, OnSeam[1]) = OnSeam[1] /\ <<>> \in Redirects /\ DOMAIN <<>> = {}
  BY EmptyRedirect DEF Canon
<1>6. \A l \in 1..1 : l = 1
  OBVIOUS
<1> QED
  BY <1>4, <1>5, <1>6 DEF UpTo

LEMMA NextOfMany ==
    ASSUME NEW N, Flat(N), NEW k \in 1..Len(OnSeam), k + 1 \in 1..Len(OnSeam),
           NEW a, UpTo(a, k)
    PROVE  UpTo(Join(a, k + 1), k + 1)
<1>1. PICK L \in Nat : L = Len(OnSeam)
  BY OnSeamListed DEF Lists
<1>2. PICK i \in SeamPositions, j \in SeamPositions : i = OnSeam[k] /\ j = OnSeam[k + 1]
  BY OnSeamOrder
<1>3. k + 1 \in 2..L /\ (k + 1) - 1 = k /\ k < k + 1
  BY <1>1
<1>4. i \in Int /\ j \in Int /\ Parallel(i) \in Int /\ Parallel(j) \in Int
  BY SeamSet
<1>5. \/ Parallel(i) < Parallel(j)
      \/ Parallel(i) = Parallel(j) /\ i < j
  BY <1>1, <1>2, <1>3, OnSeamOrder
<1>6. \A l \in 1..k : OnSeam[l] # j /\ OnSeam[l] \in SeamPositions
  <2> SUFFICES ASSUME NEW l \in 1..k PROVE OnSeam[l] # j /\ OnSeam[l] \in SeamPositions
    OBVIOUS
  <2>1. l \in 1..L /\ k + 1 \in 1..L /\ l < k + 1
    BY <1>1
  <2>2. OnSeam[l] \in SeamPositions
    BY <1>1, <2>1, OnSeamOrder
  <2>3. \/ Parallel(OnSeam[l]) < Parallel(j)
        \/ Parallel(OnSeam[l]) = Parallel(j) /\ OnSeam[l] < j
    BY <1>1, <1>2, <2>1, OnSeamOrder
  <2> QED
    BY <1>4, <2>2, <2>3
<1>7. \A l \in 1..(k + 1) : l = k + 1 \/ l \in 1..k
  OBVIOUS
<1>8. a \in Redirects /\ IsFirst(Canon(a, i), i) /\ \A p \in DOMAIN a : \E l \in 1..k : OnSeam[l] = p
  BY <1>2 DEF UpTo
<1>9. j \notin DOMAIN a
  BY <1>6, <1>8
<1>10. CASE Parallel(i) = Parallel(j)
  <2>1. PICK b : b = Join(a, k + 1)
    OBVIOUS
  <2>0. Joined1(b, a, i, j)
    BY <1>2, <1>8, <2>1, JoinFacts
  <2>2. /\ b \in Redirects /\ DOMAIN b = DOMAIN a \cup {j}
        /\ \A p \in SeamPositions : Canon(b, p) = IF p = j THEN Canon(a, i) ELSE Canon(a, p)
    BY <1>10, <2>0 DEF Joined1
  <2>3. IsFirst(Canon(b, j), j)
    BY <1>8, <1>10, <2>2 DEF IsFirst
  <2>4. ~IsFirst(j, j)
    BY <1>4, <1>5, <1>10 DEF IsFirst
  <2>5. \A l \in 1..k : /\ IsFirst(Canon(b, OnSeam[l]), OnSeam[l])
                        /\ OnSeam[l] \in DOMAIN b <=> ~IsFirst(OnSeam[l], OnSeam[l])
    BY <1>6, <2>2 DEF UpTo
  <2>6. \A p \in DOMAIN b : \E l \in 1..(k + 1) : OnSeam[l] = p
    <3> SUFFICES ASSUME NEW p \in DOMAIN b PROVE \E l \in 1..(k + 1) : OnSeam[l] = p
      OBVIOUS
    <3>1. CASE p = j
      BY <1>2, <3>1
    <3>2. CASE p \in DOMAIN a
      <4>1. PICK l \in 1..k : OnSeam[l] = p
        BY <1>8, <3>2
      <4>2. l \in 1..(k + 1)
        OBVIOUS
      <4> QED
        BY <4>1, <4>2
    <3> QED
      BY <2>2, <3>1, <3>2
  <2> QED
    BY <1>2, <1>7, <2>1, <2>2, <2>3, <2>4, <2>5, <2>6 DEF UpTo
<1>11. CASE Parallel(i) # Parallel(j)
  <2>0. Joined1(Join(a, k + 1), a, i, j)
    BY <1>2, <1>8, JoinFacts
  <2>1. Join(a, k + 1) = a
    BY <1>11, <2>0 DEF Joined1
  <2>2. ASSUME NEW q \in SeamPositions, Parallel(q) = Parallel(j) PROVE j <= q
    <3>1. PICK m \in 1..L : OnSeam[m] = q
      BY <1>1, OnSeamOrder
    <3>2. CASE m <= k
      <4>1. CASE m = k
        BY <1>2, <1>11, <2>2, <3>1, <4>1
      <4>2. CASE m < k
        <5>1. k \in 1..L
          BY <1>1
        <5>2. \/ Parallel(OnSeam[m]) < Parallel(OnSeam[k])
              \/ Parallel(OnSeam[m]) = Parallel(OnSeam[k]) /\ OnSeam[m] < OnSeam[k]
          BY <1>1, <3>1, <4>2, <5>1, OnSeamOrder
        <5> QED
          BY <1>2, <1>4, <1>5, <1>11, <2>2, <3>1, <5>2
      <4> QED
        BY <3>2, <4>1, <4>2
    <3>3. CASE m = k + 1
      BY <1>2, <1>4, <3>1, <3>3
    <3>4. CASE m > k + 1
      <4>1. \/ Parallel(OnSeam[k + 1]) < Parallel(OnSeam[m])
            \/ Parallel(OnSeam[k + 1]) = Parallel(OnSeam[m]) /\ OnSeam[k + 1] < OnSeam[m]
        BY <1>1, <3>1, <3>4, OnSeamOrder
      <4>2. q \in Int
        BY SeamSet
      <4> QED
        BY <1>2, <1>4, <2>2, <3>1, <4>1, <4>2
    <3> QED
      BY <3>2, <3>3, <3>4
  <2>3. IsFirst(j, j)
    BY <2>2 DEF IsFirst
  <2>4. Canon(a, j) = j
    BY <1>9 DEF Canon
  <2>5. \A p \in DOMAIN a : \E l \in 1..(k + 1) : OnSeam[l] = p
    <3> SUFFICES ASSUME NEW p \in DOMAIN a PROVE \E l \in 1..(k + 1) : OnSeam[l] = p
      OBVIOUS
    <3>1. PICK l \in 1..k : OnSeam[l] = p
      BY <1>8
    <3>2. l \in 1..(k + 1)
      OBVIOUS
    <3> QED
      BY <3>1, <3>2
  <2> QED
    BY <1>2, <1>7, <1>8, <1>9, <2>1, <2>3, <2>4, <2>5 DEF UpTo
<1> QED
  BY <1>10, <1>11

LEMMA JoinType ==
    ASSUME NEW N, Flat(N), NEW a \in Redirects, NEW k \in 2..Len(OnSeam)
    PROVE  Join(a, k) \in Redirects
<1>1. PICK L \in Nat : L = Len(OnSeam)
  BY OnSeamListed DEF Lists
<1>2. PICK j \in 1..L : k = j + 1 /\ j + 1 \in 1..L
  <2>1. k - 1 \in 1..L /\ k = (k - 1) + 1 /\ (k - 1) + 1 \in 1..L
    BY <1>1
  <2> QED
    BY <2>1
<1>3. Joined1(Join(a, j + 1), a, OnSeam[j], OnSeam[j + 1])
  BY <1>1, <1>2, JoinFacts
<1> QED
  BY <1>2, <1>3 DEF Joined1

\* The recursive definition of the redirect defines it.
LEMMA JoinedExists ==
    ASSUME NEW N, Flat(N)
    PROVE  \E r : /\ \A k \in 0..Len(OnSeam) :
                        r[k] = IF k <= 1 THEN <<>> ELSE Join(r[k - 1], k)
                  /\ Joined = r[Len(OnSeam)]
<1>1. PICK L \in Nat : L = Len(OnSeam)
  BY OnSeamListed DEF Lists
<1> DEFINE g == [x \in ((0 + 1)..L) \X Redirects |-> IF x[1] <= 1 THEN <<>> ELSE Join(x[2], x[1])]
           Rule(r) == r = [k \in 0..L |-> IF k <= 1 THEN <<>> ELSE Join(r[k - 1], k)]
           s == CHOOSE r : Rule(r)
<1>2. IsRule(g, 0, L, Redirects)
  <2>1. ASSUME NEW x \in ((0 + 1)..L) \X Redirects
        PROVE  (IF x[1] <= 1 THEN <<>> ELSE Join(x[2], x[1])) \in Redirects
    <3>1. CASE x[1] <= 1
      BY <3>1, EmptyRedirect
    <3>2. CASE ~(x[1] <= 1)
      <4>1. PICK k \in 2..L, a \in Redirects : k = x[1] /\ a = x[2]
        BY <3>2
      <4>2. Join(a, k) \in Redirects
        BY <1>1, JoinType
      <4> QED
        BY <3>2, <4>1, <4>2
    <3> QED
      BY <3>1, <3>2
  <2> QED
    BY <2>1 DEF IsRule
<1>3. PICK t \in [0..L -> Redirects] : t[0] = <<>> /\ Follows(t, g, 0, L)
  <2> HIDE DEF g
  <2> QED
    BY <1>2, EmptyRedirect, RecursionExists
<1>4. Rule(t)
  <2>1. ASSUME NEW k \in 0..L PROVE t[k] = IF k <= 1 THEN <<>> ELSE Join(t[k - 1], k)
    <3>1. CASE k = 0
      BY <1>3, <3>1
    <3>2. CASE k # 0
      <4>1. k \in (0 + 1)..L /\ k - 1 \in 0..L
        BY <3>2
      <4>2. t[k - 1] \in Redirects
        BY <1>3, <4>1
      <4>3. t[k] = g[<<k, t[k - 1]>>]
        BY <1>3, <4>1 DEF Follows
      <4> QED
        BY <4>1, <4>2, <4>3
    <3> QED
      BY <3>1, <3>2
  <2> QED
    BY <1>3, <2>1
<1>5. Rule(s)
  BY <1>4
<1>6. Joined = s[L]
  BY <1>1 DEF Joined
<1> HIDE DEF s
<1>7. \A k \in 0..L : s[k] = IF k <= 1 THEN <<>> ELSE Join(s[k - 1], k)
  BY <1>5
<1> QED
  BY <1>1, <1>6, <1>7

\* The stitch redirects every node of the seam to the first that coincides.
LEMMA JoinedJoins ==
    ASSUME NEW N, Flat(N)
    PROVE  Joins(Joined) /\ Joined \in Redirects
<1>1. PICK L \in Nat : L = Len(OnSeam)
  BY OnSeamListed DEF Lists
<1>2. PICK r : /\ \A k \in 0..L : r[k] = IF k <= 1 THEN <<>> ELSE Join(r[k - 1], k)
               /\ Joined = r[L]
  BY <1>1, JoinedExists
<1>3. CASE L = 0
  <2>1. Joined = <<>>
    BY <1>2, <1>3
  <2>2. SeamPositions = {}
    <3> SUFFICES ASSUME NEW p \in SeamPositions PROVE FALSE
      OBVIOUS
    <3>1. \E l \in 1..0 : OnSeam[l] = p
      BY <1>1, <1>3, OnSeamOrder
    <3> QED
      BY <3>1
  <2> QED
    BY <2>1, <2>2, EmptyRedirect DEF Joins
<1>4. CASE L # 0
  <2> DEFINE S == {k \in 1..L : UpTo(r[k], k)}
  <2>1. 1 \in S
    <3>1. 1 \in 1..L /\ r[1] = <<>>
      BY <1>2, <1>4
    <3>2. UpTo(<<>>, 1)
      BY <1>1, <3>1, FirstOfOne
    <3> QED
      BY <3>1, <3>2
  <2>2. ASSUME NEW n \in Int, 1 <= n, n < L, n \in S PROVE n + 1 \in S
    <3>1. n \in 1..L /\ n + 1 \in 1..L
      BY <2>2
    <3>2. UpTo(r[n], n)
      BY <2>2
    <3>3. r[n + 1] = Join(r[n], n + 1)
      <4>1. n + 1 \in 0..L /\ ~(n + 1 <= 1) /\ (n + 1) - 1 = n
        BY <2>2
      <4> QED
        BY <1>2, <4>1
    <3>4. UpTo(Join(r[n], n + 1), n + 1)
      BY <1>1, <3>1, <3>2, NextOfMany
    <3> QED
      BY <3>1, <3>3, <3>4
  <2> HIDE DEF S
  <2>3. \A n \in 1..L : n \in S
    BY <2>1, <2>2, UpFrom
  <2>4. UpTo(r[L], L)
    <3>1. L \in S
      BY <1>4, <2>3
    <3> QED
      BY <3>1 DEF S
  <2>5. UpTo(Joined, L)
    BY <1>2, <2>4
  <2>6. /\ Joined \in Redirects
        /\ \A p \in DOMAIN Joined : \E l \in 1..L : OnSeam[l] = p
        /\ \A l \in 1..L : /\ IsFirst(Canon(Joined, OnSeam[l]), OnSeam[l])
                           /\ OnSeam[l] \in DOMAIN Joined <=> ~IsFirst(OnSeam[l], OnSeam[l])
    BY <2>5 DEF UpTo
  <2>7. /\ \A l \in 1..L : OnSeam[l] \in SeamPositions
        /\ \A p \in SeamPositions : \E l \in 1..L : OnSeam[l] = p
    BY <1>1, OnSeamOrder
  <2> QED
    BY <2>6, <2>7 DEF Joins
<1> QED
  BY <1>3, <1>4

----------------------------------------------------------------------------
(* The frame *)

Spot(i) == PlaceOf(ids[i])

\* The longitudes of the road nodes, from -180 and from 0 degrees on.
PlainLons == {R!Lon(Spot(i)) : i \in DOMAIN ids}
TurnedLons == {Unwrapped(R!Lon(Spot(i))) : i \in DOMAIN ids}

\* Where the frame has node i of the list.
FramedAt(i) ==
    IF Shifted THEN <<R!Lat(Spot(i)), Unwrapped(R!Lon(Spot(i))) + (seam - HalfTurn)>>
    ELSE Spot(i)

\* The frame is the plain one, or one that holds the region as a whole.
HasFrame ==
    /\ ~Shifted => (PlainLons # {} => Width(PlainLons) <= HalfTurn)
    /\ Shifted =>
          /\ PlainLons # {} /\ Width(PlainLons) > HalfTurn
          /\ Width(TurnedLons) <= HalfTurn
          /\ seam = HalfTurn + (IF Max(TurnedLons) > Window THEN -(2 * HalfTurn) ELSE 0)
          /\ Min(TurnedLons) + (seam - HalfTurn) >= -Window

AllFramed == DOMAIN nodes = DOMAIN ids /\ \A i \in DOMAIN ids : nodes[i] = FramedAt(i)

SeamAt == {i \in DOMAIN ids : R!Lon(FramedAt(i)) = seam}

FirstAt(c, i) ==
    /\ c \in SeamAt /\ R!Lat(FramedAt(c)) = R!Lat(FramedAt(i))
    /\ \A q \in SeamAt : R!Lat(FramedAt(q)) = R!Lat(FramedAt(i)) => c <= q

Redirected(a) ==
    /\ ~Shifted => a = <<>>
    /\ \A p \in DOMAIN a : p \in SeamAt
    /\ Shifted => \A p \in SeamAt : FirstAt(Canon(a, p), p) /\ (p \in DOMAIN a <=> ~FirstAt(p, p))

\* The nodes that were not redirected, in their order.
LeftFramed(s, a) ==
    \E left : /\ Ascending(left, DOMAIN ids \ DOMAIN a)
              /\ DOMAIN s = 1..Len(left) /\ \A k \in 1..Len(left) : s[k] = FramedAt(left[k])

Late == {"frame", "stitch", "connect", "merged", "collapse",
         "AntimeridianSpanning", "AntimeridianWindow"}

FrameInv ==
    /\ stage \in Early => seam = 0 /\ away = <<>>
    /\ stage \in Late => Ascending(ids, RoadNodes)
    /\ stage \in {"frame", "AntimeridianSpanning", "AntimeridianWindow"} =>
          seam = 0 /\ away = <<>> /\ AllFramed
    /\ stage = "AntimeridianSpanning" =>
          PlainLons # {} /\ Width(PlainLons) > HalfTurn /\ Width(TurnedLons) > HalfTurn
    /\ stage = "stitch" => Shifted /\ HasFrame /\ AllFramed
    /\ stage \in {"connect", "merged", "collapse"} =>
          HasFrame /\ Redirected(away) /\ LeftFramed(nodes, away)

LEMMA SameFrame ==
    ASSUME UNCHANGED <<extract, ids, seam>>
    PROVE  /\ \A i : FramedAt(i)' = FramedAt(i)
           /\ PlainLons' = PlainLons /\ TurnedLons' = TurnedLons /\ SeamAt' = SeamAt
           /\ HasFrame' <=> HasFrame
           /\ \A c, i : FirstAt(c, i)' <=> FirstAt(c, i)
           /\ \A a : Redirected(a)' <=> Redirected(a)
           /\ \A s, a : LeftFramed(s, a)' <=> LeftFramed(s, a)
           /\ Ascending(ids, RoadNodes)' <=> Ascending(ids, RoadNodes)
<1>1. \A i : Spot(i)' = Spot(i)
  BY SameExtract DEF Spot
<1>2. Shifted' <=> Shifted
  BY DEF Shifted
<1>3. \A i : FramedAt(i)' = FramedAt(i)
  BY <1>1, <1>2 DEF FramedAt
<1>4. PlainLons' = PlainLons
  BY <1>1 DEF PlainLons
<1>5. TurnedLons' = TurnedLons
  BY <1>1 DEF TurnedLons
<1>6. SeamAt' = SeamAt
  BY <1>3 DEF SeamAt
<1>7. HasFrame' <=> HasFrame
  BY <1>2, <1>4, <1>5 DEF HasFrame
<1>8. \A c, i : FirstAt(c, i)' <=> FirstAt(c, i)
  BY <1>3, <1>6 DEF FirstAt
<1>9. ASSUME NEW a PROVE Redirected(a)' <=> Redirected(a)
  BY <1>2, <1>6, <1>8 DEF Redirected
<1>10. ASSUME NEW s, NEW a PROVE LeftFramed(s, a)' <=> LeftFramed(s, a)
  BY <1>3 DEF LeftFramed
<1>11. Ascending(ids, RoadNodes)' <=> Ascending(ids, RoadNodes)
  BY SameExtract
<1> QED
  BY <1>3, <1>4, <1>5, <1>6, <1>7, <1>8, <1>9, <1>10, <1>11

Place == Int \X (-HalfTurn..HalfTurn)

\* The list of the road nodes.
Listing(s, N) ==
    /\ N \in Nat /\ N <= Size /\ s \in Seq(RoadNodes) /\ Len(s) = N /\ DOMAIN s = 1..N
    /\ \A i \in 1..N : s[i] \in RoadNodes /\ s[i] \in Int /\ PlaceOf(s[i]) \in Place
    /\ \A n \in RoadNodes : \E i \in 1..N : s[i] = n
    /\ \A i, j \in 1..N : i < j <=> s[i] < s[j]

LEMMA ListingFacts ==
    ASSUME IsExtract(extract), NEW s, Ascending(s, RoadNodes)
    PROVE  \E N : Listing(s, N)
<1>1. /\ RoadNodes \in SUBSET Int /\ Cardinality(RoadNodes) <= Size /\ IsFiniteSet(RoadNodes)
      /\ \A n \in RoadNodes : PlaceOf(n) \in Place
  BY RoadNodeType DEF Place
<1>2. PICK N \in Nat : N = Cardinality(RoadNodes)
  BY <1>1, FS_CardinalityType
<1>3. s \in Seq(RoadNodes) /\ Len(s) = N /\ DOMAIN s = 1..N
  BY <1>2 DEF Ascending
<1>4. \A i \in 1..N : s[i] \in RoadNodes
  BY <1>3, ElementOfSeq
<1>5. \A n \in RoadNodes : \E i \in 1..N : s[i] = n
  BY <1>3 DEF Ascending
<1>6. \A i, j \in 1..N : i < j <=> s[i] < s[j]
  BY <1>3 DEF Ascending
<1>7. Listing(s, N)
  BY <1>1, <1>2, <1>3, <1>4, <1>5, <1>6 DEF Listing
<1> QED
  BY <1>7

LEMMA PairsHavePlaces ==
    ASSUME ReadInv, stage \notin {"ways", "nodes", "mask"}
    PROVE  /\ Ends(Pairs) = RoadNodes
           /\ \A n \in RoadNodes : n \in DOMAIN place /\ place[n] = PlaceOf(n)
<1>1. Ends(Pairs) = RoadNodes
  BY PairsAreDrawn DEF RoadNodes
<1>2. ASSUME NEW p \in Pairs PROVE p.from \in DOMAIN place /\ p.to \in DOMAIN place
  <2>1. PICK w, i :
           /\ {w.refs[i], w.refs[i + 1]} \subseteq DOMAIN place
           /\ p = [from |-> w.refs[i], to |-> w.refs[i + 1], access |-> w.access]
    BY DEF Pairs
  <2> QED
    BY <2>1
<1>3. \A n \in RoadNodes : n \in DOMAIN place
  BY <1>1, <1>2 DEF Ends
<1>4. place = [n \in {w \in Wanted : Records(w) # {}} |-> PlaceOf(n)]
  BY DEF ReadInv, Places
<1>5. \A n \in DOMAIN place : place[n] = PlaceOf(n)
  BY <1>4
<1> QED
  BY <1>1, <1>3, <1>5

LEMMA ScanFrame == ReadInv /\ FrameInv /\ ScanWays => FrameInv'
<1> SUFFICES ASSUME ReadInv, FrameInv, ScanWays PROVE FrameInv'
  OBVIOUS
<1>1. /\ stage = "scan" /\ stage' = "frame" /\ seam = 0 /\ away = <<>>
      /\ UNCHANGED <<extract, seam, away>> /\ IsExtract(extract)
  BY DEF ScanWays, FrameInv, ReadInv, Early
<1>2. /\ Ends(Pairs) = RoadNodes
      /\ \A n \in RoadNodes : n \in DOMAIN place /\ place[n] = PlaceOf(n)
  BY <1>1, PairsHavePlaces
<1>3. ids' = Sorted(RoadNodes, <)
  BY <1>2 DEF ScanWays
<1>4. Ascending(ids', RoadNodes)
  BY <1>1, <1>3, RoadNodeType, SortedAscends
<1>5. PICK N : Listing(ids', N)
  BY <1>1, <1>4, ListingFacts
<1>6. N \in Nat /\ DOMAIN ids' = 1..N /\ \A i \in 1..N : ids'[i] \in RoadNodes
  BY <1>5 DEF Listing
<1> DEFINE f == [i \in DOMAIN ids' |-> place[ids'[i]]]
<1>7. nodes' = f \o <<>>
  BY DEF ScanWays
<1>8. f = [i \in 1..N |-> f[i]] /\ \A i \in 1..N : f[i] = PlaceOf(ids'[i])
  BY <1>2, <1>6
<1> HIDE DEF f
<1>9. nodes' = f /\ DOMAIN nodes' = 1..N
  BY <1>6, <1>7, <1>8, TidySequence
<1>10. RoadNodes' = RoadNodes /\ \A n : PlaceOf(n)' = PlaceOf(n)
  BY <1>1, SameExtract
<1>11. Ascending(ids, RoadNodes)'
  BY <1>4, <1>10
<1>12. \A i \in 1..N : FramedAt(i)' = PlaceOf(ids'[i])
  BY <1>1, <1>10 DEF FramedAt, Spot, Shifted
<1>13. AllFramed'
  BY <1>6, <1>8, <1>9, <1>12 DEF AllFramed
<1> QED
  BY <1>1, <1>11, <1>13 DEF FrameInv, Early, Late

----------------------------------------------------------------------------
(* The choice of a frame *)

\* In the plain frame the code sees what the extract says.
LEMMA PlainSees ==
    ASSUME IsExtract(extract), Ascending(ids, RoadNodes), AllFramed, ~Shifted
    PROVE  Lons = PlainLons /\ UnwrappedLons = TurnedLons
<1>1. PICK N : Listing(ids, N)
  BY ListingFacts
<1>2. DOMAIN nodes = DOMAIN ids /\ \A i \in DOMAIN ids : nodes[i] = Spot(i)
  BY DEF AllFramed, FramedAt
<1>3. Lons = PlainLons
  BY <1>2 DEF Lons, PlainLons
<1>4. UnwrappedLons = TurnedLons
  BY <1>2 DEF Lons, UnwrappedLons, TurnedLons
<1> QED
  BY <1>3, <1>4

\* Nobody left out: the nodes are those of the frame.
LEMMA NoneAway ==
    ASSUME IsExtract(extract), Ascending(ids, RoadNodes), AllFramed
    PROVE  LeftFramed(nodes, <<>>)
<1>1. PICK N : Listing(ids, N)
  BY ListingFacts
<1>2. N \in Nat /\ DOMAIN ids = 1..N
  BY <1>1 DEF Listing
<1>3. DOMAIN ids \ DOMAIN <<>> = 1..N
  BY <1>2
<1>4. 1..N \in SUBSET Int /\ IsFiniteSet(1..N) /\ Cardinality(1..N) = N
  BY <1>2, FS_Interval
<1>5. PICK left : Ascending(left, 1..N)
  BY <1>4, SortedAscends
<1>6. /\ Len(left) = N
      /\ \A x \in 1..N : left[Cardinality({y \in 1..N : y < x}) + 1] = x
  BY <1>4, <1>5 DEF Ascending
<1>7. ASSUME NEW x \in 1..N PROVE left[x] = x
  <2>1. {y \in 1..N : y < x} = 1..(x - 1)
    BY <1>2
  <2>2. Cardinality(1..(x - 1)) = x - 1
    BY <1>2, FS_Interval
  <2>3. (x - 1) + 1 = x
    BY <1>2
  <2> QED
    BY <1>6, <2>1, <2>2, <2>3
<1>8. DOMAIN nodes = 1..N /\ \A k \in 1..N : nodes[k] = FramedAt(left[k])
  BY <1>2, <1>7 DEF AllFramed
<1> QED
  BY <1>3, <1>5, <1>6, <1>8 DEF LeftFramed

\* What holds when the frame is chosen.
LEMMA AtFrame ==
    ASSUME ReadInv, FrameInv, stage = "frame"
    PROVE  /\ IsExtract(extract) /\ Ascending(ids, RoadNodes) /\ AllFramed
           /\ seam = 0 /\ away = <<>> /\ ~Shifted
           /\ Lons = PlainLons /\ UnwrappedLons = TurnedLons
<1>1. IsExtract(extract) /\ Ascending(ids, RoadNodes) /\ AllFramed /\ seam = 0 /\ away = <<>>
  BY DEF ReadInv, FrameInv, Late
<1>2. ~Shifted
  BY <1>1 DEF Shifted
<1> QED
  BY <1>1, <1>2, PlainSees

LEMMA KeptFrame == ReadInv /\ FrameInv /\ KeepFrame => FrameInv'
<1> SUFFICES ASSUME ReadInv, FrameInv, KeepFrame PROVE FrameInv'
  OBVIOUS
<1>1. stage = "frame" /\ stage' = "connect" /\ ~Wide
      /\ UNCHANGED <<extract, ids, nodes, seam, away>>
  BY DEF KeepFrame
<1>2. /\ IsExtract(extract) /\ Ascending(ids, RoadNodes) /\ AllFramed
      /\ seam = 0 /\ away = <<>> /\ ~Shifted /\ Lons = PlainLons
  BY <1>1, AtFrame
<1>3. ASSUME PlainLons # {} PROVE Width(PlainLons) <= HalfTurn
  <2>1. PICK N : Listing(ids, N)
    BY <1>2, ListingFacts
  <2>2. N \in Nat /\ DOMAIN ids = 1..N /\ \A i \in 1..N : Spot(i) \in Place
    BY <2>1 DEF Listing, Spot
  <2>3. PlainLons \in SUBSET Int
    BY <2>2 DEF PlainLons, Place, R!Lon
  <2>4. IsFiniteSet(PlainLons)
    <3> DEFINE f == [i \in 1..N |-> R!Lon(Spot(i))]
    <3>1. PlainLons = {f[i] : i \in 1..N}
      BY <2>2 DEF PlainLons
    <3> HIDE DEF f
    <3> QED
      BY <2>2, <3>1, RangeFinite
  <2>5. PICK a \in Int, b \in Int : a = Max(PlainLons) /\ b = Min(PlainLons)
    BY <1>3, <2>3, <2>4, Extremes
  <2>6. ~(a - b > HalfTurn)
    BY <1>1, <1>2, <1>3, <2>5 DEF Wide, Width
  <2>7. a - b <= HalfTurn
    BY <2>6, FrameAssumption
  <2> QED
    BY <2>5, <2>7 DEF Width
<1>4. HasFrame
  BY <1>2, <1>3 DEF HasFrame
<1>5. Redirected(<<>>)
  BY <1>2, EmptyRedirect DEF Redirected
<1>6. LeftFramed(nodes, <<>>)
  BY <1>2, NoneAway
<1>7. HasFrame' /\ Ascending(ids, RoadNodes)' /\ Redirected(away)' /\ LeftFramed(nodes, away)'
  BY <1>1, <1>2, <1>4, <1>5, <1>6, SameFrame
<1> QED
  BY <1>1, <1>7 DEF FrameInv, Early, Late

LEMMA RefusedFrame == ReadInv /\ FrameInv /\ (RefuseSpanning \/ RefuseWindow) => FrameInv'
<1> SUFFICES ASSUME ReadInv, FrameInv, RefuseSpanning \/ RefuseWindow PROVE FrameInv'
  OBVIOUS
<1>1. /\ stage = "frame" /\ stage' \in {"AntimeridianSpanning", "AntimeridianWindow"}
      /\ UNCHANGED <<extract, ids, nodes, seam, away>>
      /\ Wide /\ (stage' = "AntimeridianSpanning" => Width(UnwrappedLons) > HalfTurn)
  BY DEF RefuseSpanning, RefuseWindow
<1>2. /\ Ascending(ids, RoadNodes) /\ AllFramed /\ seam = 0 /\ away = <<>>
      /\ Lons = PlainLons /\ UnwrappedLons = TurnedLons
  BY <1>1, AtFrame
<1>3. AllFramed'
  BY <1>1, <1>2, SameFrame DEF AllFramed
<1>4. Ascending(ids, RoadNodes)' /\ PlainLons' = PlainLons /\ TurnedLons' = TurnedLons
  BY <1>1, <1>2, SameFrame
<1>5. PlainLons # {} /\ Width(PlainLons) > HalfTurn
  BY <1>1, <1>2 DEF Wide
<1>6. stage' = "AntimeridianSpanning" =>
         (PlainLons # {})' /\ (Width(PlainLons) > HalfTurn)' /\ (Width(TurnedLons) > HalfTurn)'
  BY <1>1, <1>2, <1>4, <1>5
<1> QED
  BY <1>1, <1>2, <1>3, <1>4, <1>6 DEF FrameInv, Early, Late

LEMMA ShiftedFrame == ReadInv /\ FrameInv /\ ShiftFrame => FrameInv'
<1> SUFFICES ASSUME ReadInv, FrameInv, ShiftFrame PROVE FrameInv'
  OBVIOUS
<1>1. /\ stage = "frame" /\ stage' = "stitch" /\ UNCHANGED <<extract, ids, away>>
      /\ Wide /\ Width(UnwrappedLons) <= HalfTurn /\ Fits /\ seam' = HalfTurn + Offset
  BY DEF ShiftFrame
<1>2. /\ IsExtract(extract) /\ Ascending(ids, RoadNodes) /\ AllFramed /\ seam = 0 /\ away = <<>>
      /\ ~Shifted /\ Lons = PlainLons /\ UnwrappedLons = TurnedLons
  BY <1>1, AtFrame
<1>3. PICK N : Listing(ids, N)
  BY <1>2, ListingFacts
<1>4. N \in Nat /\ DOMAIN ids = 1..N
  BY <1>3 DEF Listing
<1>5. /\ Offset \in {-(2 * HalfTurn), 0} /\ seam' - HalfTurn = Offset /\ seam' # 0
      /\ seam' = HalfTurn + Offset
      /\ Offset = IF Max(TurnedLons) > Window THEN -(2 * HalfTurn) ELSE 0
  BY <1>1, <1>2, FrameAssumption DEF Offset
<1> DEFINE f == [i \in DOMAIN nodes |->
                   <<R!Lat(nodes[i]), Unwrapped(R!Lon(nodes[i])) + Offset>>]
<1>6. nodes' = f \o <<>>
  BY DEF ShiftFrame
<1>7. /\ f = [i \in 1..N |-> f[i]]
      /\ \A i \in 1..N : f[i] = <<R!Lat(Spot(i)), Unwrapped(R!Lon(Spot(i))) + Offset>>
  BY <1>2, <1>4 DEF AllFramed, FramedAt
<1> HIDE DEF f
<1>8. nodes' = f /\ DOMAIN nodes' = 1..N
  BY <1>4, <1>6, <1>7, TidySequence
<1>9. \A i : Spot(i)' = Spot(i)
  BY <1>1, SameExtract DEF Spot
<1>10. Shifted'
  BY <1>5 DEF Shifted
<1>11. \A i \in 1..N : FramedAt(i)' = <<R!Lat(Spot(i)), Unwrapped(R!Lon(Spot(i))) + Offset>>
  BY <1>5, <1>9, <1>10 DEF FramedAt
<1>12. AllFramed'
  BY <1>1, <1>4, <1>7, <1>8, <1>11 DEF AllFramed
<1>13. PlainLons' = PlainLons /\ TurnedLons' = TurnedLons
  BY <1>1, <1>9 DEF PlainLons, TurnedLons
<1>14. HasFrame'
  <2>1. PlainLons # {} /\ Width(PlainLons) > HalfTurn /\ Width(TurnedLons) <= HalfTurn
    BY <1>1, <1>2 DEF Wide
  <2>2. Min(TurnedLons) + Offset >= -Window
    BY <1>1, <1>2 DEF Fits
  <2> QED
    BY <1>5, <1>10, <1>13, <2>1, <2>2 DEF HasFrame
<1>15. Ascending(ids, RoadNodes)'
  BY <1>1, <1>2, SameExtract
<1> QED
  BY <1>1, <1>2, <1>10, <1>12, <1>14, <1>15 DEF FrameInv, Early, Late

LEMMA StitchedFrame == ReadInv /\ FrameInv /\ Stitch => FrameInv'
<1> SUFFICES ASSUME ReadInv, FrameInv, Stitch PROVE FrameInv'
  OBVIOUS
<1>1. /\ stage = "stitch" /\ stage' = "connect" /\ UNCHANGED <<extract, ids, seam>>
      /\ away' = Joined
  BY DEF Stitch
<1>2. /\ IsExtract(extract) /\ Ascending(ids, RoadNodes) /\ AllFramed
      /\ Shifted /\ HasFrame
  BY <1>1 DEF ReadInv, FrameInv, Late
<1>3. PICK N : Listing(ids, N)
  BY <1>2, ListingFacts
<1>4. /\ N \in Nat /\ DOMAIN ids = 1..N /\ DOMAIN nodes = 1..N
      /\ \A i \in 1..N : nodes[i] = FramedAt(i) /\ Spot(i) \in Place
  BY <1>2, <1>3 DEF Listing, AllFramed, Spot
<1>5. \A i \in 1..N : Parallel(i) = R!Lat(FramedAt(i)) /\ Parallel(i) \in Int
  BY <1>2, <1>4 DEF Parallel, FramedAt, Place, R!Lat
<1>6. Flat(N)
  BY <1>4, <1>5 DEF Flat
<1>7. SeamPositions = SeamAt /\ SeamAt \in SUBSET (1..N)
  BY <1>4 DEF SeamPositions, SeamAt
<1>8. ASSUME NEW c, NEW i \in SeamAt PROVE IsFirst(c, i) <=> FirstAt(c, i)
  <2>1. \A q \in SeamAt : Parallel(q) = R!Lat(FramedAt(q))
    BY <1>5, <1>7
  <2> QED
    BY <1>7, <2>1 DEF IsFirst, FirstAt
<1>9. Joins(Joined)
  BY <1>6, JoinedJoins
<1>10. Redirected(Joined)
  BY <1>2, <1>7, <1>8, <1>9 DEF Joins, Redirected
<1>11. DOMAIN Joined \in SUBSET (1..N)
  BY <1>7, <1>9 DEF Joins
<1> DEFINE S == DOMAIN nodes \ DOMAIN Joined
           left == Sorted(S, <)
<1>12. S \in SUBSET Int /\ IsFiniteSet(S) /\ S \in SUBSET (1..N)
  <2>1. IsFiniteSet(1..N)
    BY <1>4, FS_Interval
  <2> QED
    BY <1>4, <2>1, FS_Subset
<1> HIDE DEF S
<1>13. Ascending(left, S)
  BY <1>12, SortedAscends
<1> DEFINE f == [i \in DOMAIN left |-> nodes[left[i]]]
<1>14. nodes' = f \o <<>>
  BY <1>1 DEF Stitch, S
<1> HIDE DEF left
<1>15. left \in Seq(S)
  BY <1>13 DEF Ascending
<1>16. PICK L \in Nat : L = Len(left) /\ DOMAIN left = 1..L
  BY <1>15
<1>17. \A k \in 1..L : left[k] \in 1..N
  BY <1>12, <1>15, <1>16, ElementOfSeq
<1>18. f = [i \in 1..L |-> f[i]] /\ \A i \in 1..L : f[i] = FramedAt(left[i])
  BY <1>4, <1>16, <1>17
<1> HIDE DEF f
<1>19. nodes' = f /\ DOMAIN nodes' = 1..L
  BY <1>14, <1>16, <1>18, TidySequence
<1>20. LeftFramed(nodes', Joined)
  <2>1. S = DOMAIN ids \ DOMAIN Joined
    BY <1>4 DEF S
  <2> QED
    BY <1>13, <1>16, <1>18, <1>19, <2>1 DEF LeftFramed
<1>21. HasFrame' /\ Ascending(ids, RoadNodes)'
  BY <1>1, <1>2, SameFrame
<1>22. Redirected(away)' /\ LeftFramed(nodes, away)'
  BY <1>1, <1>10, <1>20, SameFrame
<1> QED
  BY <1>1, <1>21, <1>22 DEF FrameInv, Early, Late

LEMMA InitFrame == NInit => FrameInv
BY DEF NInit, FrameInv, Early, Late

LEMMA StepFrame == ReadInv /\ FrameInv /\ [NNext]_nvars => FrameInv'
<1> SUFFICES ASSUME ReadInv, FrameInv, [NNext]_nvars PROVE FrameInv'
  OBVIOUS
<1>1. CASE ReadWays \/ ReadNodes \/ MaskAccess
  BY <1>1 DEF ReadWays, ReadNodes, MaskAccess, FrameInv, Early, Late
<1>2. CASE ScanWays
  BY <1>2, ScanFrame
<1>3. CASE KeepFrame
  BY <1>3, KeptFrame
<1>4. CASE RefuseSpanning \/ RefuseWindow
  BY <1>4, RefusedFrame
<1>5. CASE ShiftFrame
  BY <1>5, ShiftedFrame
<1>6. CASE Stitch
  BY <1>6, StitchedFrame
<1>7. CASE /\ stage \in {"connect", "merged", "collapse"} /\ stage' \in {"merged", "collapse"}
           /\ UNCHANGED <<extract, ids, nodes, seam, away>>
  <2>1. Ascending(ids, RoadNodes) /\ HasFrame /\ Redirected(away) /\ LeftFramed(nodes, away)
    BY <1>7 DEF FrameInv, Late
  <2>2. Ascending(ids, RoadNodes)' /\ HasFrame' /\ Redirected(away)' /\ LeftFramed(nodes, away)'
    BY <1>7, <2>1, SameFrame
  <2> QED
    BY <1>7, <2>2 DEF FrameInv, Early, Late
<1>8. CASE Connect \/ CollapseStep
  BY <1>7, <1>8 DEF Connect, CollapseStep
<1>9. CASE UNCHANGED nvars
  <2>1. UNCHANGED <<stage, extract, ids, nodes, seam, away>>
    BY <1>9 DEF nvars, building
  <2>2. AllFramed' <=> AllFramed
    BY <2>1, SameFrame DEF AllFramed
  <2>3. Shifted' <=> Shifted
    BY <2>1 DEF Shifted
  <2>4. (Redirected(away)' <=> Redirected(away)) /\ (LeftFramed(nodes, away)' <=> LeftFramed(nodes, away))
    BY <2>1, SameFrame
  <2>5. PlainLons' = PlainLons /\ TurnedLons' = TurnedLons /\ (HasFrame' <=> HasFrame)
        /\ (Ascending(ids, RoadNodes)' <=> Ascending(ids, RoadNodes))
    BY <2>1, SameFrame
  <2> QED
    BY <2>1, <2>2, <2>3, <2>4, <2>5 DEF FrameInv
<1>10. CASE Refused
  BY <1>9, <1>10 DEF Refused
<1> QED
  BY <1>1, <1>2, <1>3, <1>4, <1>5, <1>6, <1>8, <1>9, <1>10 DEF NNext

----------------------------------------------------------------------------
(* Junctions *)

\* The state has a frame and its redirect, for N road nodes.
Framed(N) ==
    /\ IsExtract(extract) /\ Listing(ids, N) /\ Ascending(ids, RoadNodes)
    /\ HasFrame /\ Redirected(away)

LEMMA SeamSides ==
    ASSUME NEW N, Framed(N), Shifted
    PROVE  /\ seam - HalfTurn \in {-(2 * HalfTurn), 0} /\ seam \in Int
           /\ SeamAt \in SUBSET (1..N)
           /\ \A i \in 1..N : /\ R!Lat(FramedAt(i)) = R!Lat(Spot(i)) /\ R!Lat(Spot(i)) \in Int
                              /\ i \in SeamAt <=> R!Lon(Spot(i)) \in {HalfTurn, -HalfTurn}
<1>1. /\ DOMAIN ids = 1..N /\ N \in Nat /\ \A i \in 1..N : Spot(i) \in Place
  BY DEF Framed, Listing, Spot
<1>2. seam - HalfTurn \in {-(2 * HalfTurn), 0} /\ seam \in Int
  BY FrameAssumption DEF Framed, HasFrame
<1>3. PICK H \in Nat \ {0} : H = HalfTurn
  BY FrameAssumption
<1>4. PICK m \in Int : m = seam - HalfTurn /\ m \in {-(2 * H), 0} /\ seam = H + m
  BY <1>2, <1>3
<1>5. ASSUME NEW i \in 1..N
      PROVE  /\ R!Lat(FramedAt(i)) = R!Lat(Spot(i)) /\ R!Lat(Spot(i)) \in Int
             /\ i \in SeamAt <=> R!Lon(Spot(i)) \in {HalfTurn, -HalfTurn}
  <2>1. PICK x \in Int, y \in -H..H : x = R!Lat(Spot(i)) /\ y = R!Lon(Spot(i))
    BY <1>1, <1>3 DEF Place, R!Lat, R!Lon
  <2>2. FramedAt(i) = <<x, Unwrapped(y) + (seam - HalfTurn)>>
    BY <2>1 DEF FramedAt
  <2>3. R!Lat(FramedAt(i)) = x /\ R!Lon(FramedAt(i)) = Unwrapped(y) + (seam - HalfTurn)
    BY <2>2 DEF R!Lat, R!Lon
  <2>4. Unwrapped(y) + (seam - HalfTurn) = seam <=> y \in {H, -H}
    <3>1. Unwrapped(y) = IF y < 0 THEN y + 2 * H ELSE y
      BY <1>3 DEF Unwrapped
    <3>2. Unwrapped(y) + m = H + m <=> y \in {H, -H}
      BY <3>1
    <3> QED
      BY <1>4, <3>2
  <2> QED
    BY <1>1, <1>3, <2>1, <2>3, <2>4 DEF SeamAt
<1>6. SeamAt \in SUBSET (1..N)
  BY <1>1 DEF SeamAt
<1> QED
  BY <1>2, <1>5, <1>6

\* c is the one position left of the junction of i.
HeadAt(c, i, N) ==
    /\ c \in (1..N) \ DOMAIN away /\ c <= i /\ FramedAt(c) = FramedAt(i)
    /\ \A j \in 1..N : /\ OneJunction(ids[i], ids[j]) <=> Canon(away, j) = c
                       /\ OneJunction(ids[i], ids[j]) => c <= j

LEMMA SamePlace ==
    ASSUME NEW N, Framed(N), NEW i \in 1..N, NEW j \in 1..N
    PROVE  OneJunction(ids[i], ids[j]) <=>
              \/ i = j
              \/ /\ Shifted /\ R!Lat(Spot(i)) = R!Lat(Spot(j))
                 /\ R!Lon(Spot(i)) \in {HalfTurn, -HalfTurn}
                 /\ R!Lon(Spot(j)) \in {HalfTurn, -HalfTurn}
<1>1. ids[i] = ids[j] <=> i = j
  <2>1. /\ N \in Nat /\ ids[i] \in Int /\ ids[j] \in Int
        /\ i < j <=> ids[i] < ids[j]
        /\ j < i <=> ids[j] < ids[i]
    BY DEF Framed, Listing
  <2> QED
    BY <2>1
<1> QED
  BY <1>1 DEF OneJunction, Spot

LEMMA PlainHead ==
    ASSUME NEW N, Framed(N), ~Shifted, NEW i \in 1..N
    PROVE  HeadAt(Canon(away, i), i, N)
<1>1. away = <<>> /\ DOMAIN away = {} /\ N \in Nat
  BY EmptyRedirect DEF Framed, Redirected, Listing
<1>2. \A j \in 1..N : Canon(away, j) = j
  BY <1>1 DEF Canon
<1>3. \A j \in 1..N : OneJunction(ids[i], ids[j]) <=> i = j
  BY SamePlace
<1> QED
  BY <1>1, <1>2, <1>3 DEF HeadAt

LEMMA SeamHead ==
    ASSUME NEW N, Framed(N), Shifted, NEW i \in 1..N
    PROVE  HeadAt(Canon(away, i), i, N)
<1>1. /\ SeamAt \in SUBSET (1..N) /\ N \in Nat
      /\ \A p \in DOMAIN away : p \in SeamAt
      /\ \A p \in SeamAt : FirstAt(Canon(away, p), p) /\ (p \in DOMAIN away <=> ~FirstAt(p, p))
  BY SeamSides DEF Framed, Redirected, Listing
<1>2. \A j \in 1..N : /\ R!Lat(FramedAt(j)) = R!Lat(Spot(j))
                      /\ j \in SeamAt <=> R!Lon(Spot(j)) \in {HalfTurn, -HalfTurn}
  BY SeamSides
<1>3. \A j \in 1..N : OneJunction(ids[i], ids[j]) <=>
         i = j \/ (i \in SeamAt /\ j \in SeamAt /\ R!Lat(FramedAt(i)) = R!Lat(FramedAt(j)))
  BY <1>2, SamePlace
<1>4. \A j \in 1..N : j \notin SeamAt => j \notin DOMAIN away /\ Canon(away, j) = j
  BY <1>1 DEF Canon
<1>5. CASE i \notin SeamAt
  <2>1. Canon(away, i) = i /\ i \notin DOMAIN away
    BY <1>4, <1>5
  <2>2. \A j \in SeamAt : Canon(away, j) \in SeamAt
    BY <1>1 DEF FirstAt
  <2>3. \A j \in 1..N : /\ OneJunction(ids[i], ids[j]) <=> Canon(away, j) = i
                        /\ OneJunction(ids[i], ids[j]) => i <= j
    BY <1>3, <1>4, <1>5, <2>2
  <2> QED
    BY <1>1, <2>1, <2>3 DEF HeadAt
<1>6. CASE i \in SeamAt
  <2>1. PICK c : c = Canon(away, i)
    OBVIOUS
  <2>2. /\ c \in SeamAt /\ R!Lat(FramedAt(c)) = R!Lat(FramedAt(i))
        /\ \A q \in SeamAt : R!Lat(FramedAt(q)) = R!Lat(FramedAt(i)) => c <= q
    BY <1>1, <1>6, <2>1 DEF FirstAt
  <2>3. c \notin DOMAIN away
    BY <1>1, <2>2 DEF FirstAt
  <2>4. FramedAt(c) = FramedAt(i)
    <3>1. \A j \in SeamAt : FramedAt(j) = <<R!Lat(FramedAt(j)), R!Lon(FramedAt(j))>>
                            /\ R!Lon(FramedAt(j)) = seam
      BY DEF SeamAt, FramedAt, R!Lat, R!Lon
    <3> QED
      BY <1>6, <2>2, <3>1
  <2>5. ASSUME NEW j \in 1..N
        PROVE  /\ OneJunction(ids[i], ids[j]) <=> Canon(away, j) = c
               /\ OneJunction(ids[i], ids[j]) => c <= j
    <3>1. CASE j \notin SeamAt
      BY <1>3, <1>4, <1>6, <2>2, <3>1
    <3>2. CASE j \in SeamAt
      <4>1. PICK d : d = Canon(away, j)
        OBVIOUS
      <4>2. /\ d \in SeamAt /\ R!Lat(FramedAt(d)) = R!Lat(FramedAt(j))
            /\ \A q \in SeamAt : R!Lat(FramedAt(q)) = R!Lat(FramedAt(j)) => d <= q
        BY <1>1, <3>2, <4>1 DEF FirstAt
      <4>3. OneJunction(ids[i], ids[j]) <=> R!Lat(FramedAt(i)) = R!Lat(FramedAt(j))
        BY <1>3, <1>6, <3>2
      <4>4. c \in Int /\ d \in Int
        BY <1>1, <2>2, <4>2
      <4>5. R!Lat(FramedAt(i)) = R!Lat(FramedAt(j)) => c <= d /\ d <= c
        BY <2>2, <4>2
      <4>6. R!Lat(FramedAt(i)) = R!Lat(FramedAt(j)) <=> c = d
        BY <2>2, <4>2, <4>4, <4>5
      <4>7. OneJunction(ids[i], ids[j]) => c <= j
        BY <2>2, <3>2, <4>3
      <4> QED
        BY <4>1, <4>3, <4>6, <4>7
    <3> QED
      BY <3>1, <3>2
  <2>6. c \in 1..N /\ c <= i
    BY <1>1, <1>6, <2>2
  <2> QED
    BY <2>1, <2>3, <2>4, <2>5, <2>6 DEF HeadAt
<1> QED
  BY <1>5, <1>6

LEMMA Heads ==
    ASSUME NEW N, Framed(N)
    PROVE  \A i \in 1..N : HeadAt(Canon(away, i), i, N)
BY PlainHead, SeamHead

\* The positions that were not redirected, and how many come before one.
Left(N) == (1..N) \ DOMAIN away
Before(N, p) == {y \in Left(N) : y < p}

LEMMA RankShift ==
    ASSUME NEW N, Framed(N), NEW p \in 1..N
    PROVE  p - 1 - Cardinality({i \in DOMAIN away : i < p}) = Cardinality(Before(N, p))
<1> DEFINE D == {i \in DOMAIN away : i < p}
<1>1. N \in Nat /\ DOMAIN ids = 1..N
  BY DEF Framed, Listing
<1>2. DOMAIN away \in SUBSET (1..N)
  BY <1>1 DEF Framed, Redirected, SeamAt
<1>3. Before(N, p) = (1..(p - 1)) \ D
  <2>1. ASSUME NEW y PROVE y \in Before(N, p) <=> y \in (1..(p - 1)) \ D
    BY <1>1, <1>2 DEF Before, Left
  <2> QED
    BY <2>1
<1>4. (1..(p - 1)) \cap D = D
  BY <1>1, <1>2
<1> HIDE DEF D
<1>5. IsFiniteSet(1..(p - 1)) /\ Cardinality(1..(p - 1)) = p - 1
  BY <1>1, FS_Interval
<1>6. Cardinality(Before(N, p)) = Cardinality(1..(p - 1)) - Cardinality((1..(p - 1)) \cap D)
  BY <1>3, <1>5, FS_Difference
<1>7. p - 1 - Cardinality(D) = Cardinality(Before(N, p))
  BY <1>4, <1>5, <1>6
<1> QED
  BY <1>7 DEF D

\* lookup gives a node the rank of its junction's position.
LEMMA LookupRank ==
    ASSUME NEW N, Framed(N), NEW i \in 1..N
    PROVE  Lookup(ids[i]) = Cardinality(Before(N, Canon(away, i)))
<1>1. N \in Nat /\ DOMAIN ids = 1..N
  BY DEF Framed, Listing
<1>2. \A j, k \in 1..N : ids[j] = ids[k] => j = k
  <2> SUFFICES ASSUME NEW j \in 1..N, NEW k \in 1..N, ids[j] = ids[k] PROVE j = k
    OBVIOUS
  <2>1. /\ ids[j] \in Int /\ ids[k] \in Int
        /\ j < k <=> ids[j] < ids[k]
        /\ k < j <=> ids[k] < ids[j]
    BY DEF Framed, Listing
  <2> QED
    BY <1>1, <2>1
<1>3. (CHOOSE j \in DOMAIN ids : ids[j] = ids[i]) = i
  BY <1>1, <1>2
<1>4. PICK c \in 1..N : c = Canon(away, i)
  <2>1. HeadAt(Canon(away, i), i, N)
    BY Heads
  <2> QED
    BY <2>1 DEF HeadAt
<1>5. Lookup(ids[i]) = c - 1 - Cardinality({j \in DOMAIN away : j < c})
  BY <1>3, <1>4 DEF Lookup
<1> QED
  BY <1>4, <1>5, RankShift

\* Numbering: i is where the frame has it, and two positions have one number
\* exactly if they are one junction.
Numbered(N, i) ==
    /\ Lookup(ids[i]) \in Nodes
    /\ Lookup(ids[i]) + 1 \in DOMAIN nodes /\ nodes[Lookup(ids[i]) + 1] = FramedAt(i)
    /\ \A j \in 1..N : Lookup(ids[i]) = Lookup(ids[j]) <=> OneJunction(ids[i], ids[j])

LEMMA LeftFacts ==
    ASSUME NEW N, Framed(N)
    PROVE  /\ Left(N) = DOMAIN ids \ DOMAIN away /\ Left(N) \in SUBSET (1..N)
           /\ IsFiniteSet(Left(N)) /\ Cardinality(Left(N)) \in Nat /\ Cardinality(Left(N)) <= N
           /\ N \in Nat /\ N <= Size /\ Size \in Nat
<1>1. N \in Nat /\ DOMAIN ids = 1..N /\ N <= Size
  BY DEF Framed, Listing
<1>2. Left(N) = DOMAIN ids \ DOMAIN away /\ Left(N) \in SUBSET (1..N)
  BY <1>1 DEF Left
<1>3. IsFiniteSet(1..N) /\ Cardinality(1..N) = N
  BY <1>1, FS_Interval
<1>4. IsFiniteSet(Left(N)) /\ Cardinality(Left(N)) <= N
  BY <1>2, <1>3, FS_Subset
<1> QED
  BY <1>1, <1>2, <1>4, FS_CardinalityType, NetworkAssumption

LEMMA Numbering ==
    ASSUME NEW N, Framed(N), LeftFramed(nodes, away)
    PROVE  /\ \A i \in 1..N : Numbered(N, i)
           /\ DOMAIN nodes = 1..Cardinality(Left(N))
<1>1. PICK left : /\ Ascending(left, Left(N))
                  /\ DOMAIN nodes = 1..Len(left)
                  /\ \A k \in 1..Len(left) : nodes[k] = FramedAt(left[k])
  BY LeftFacts DEF LeftFramed
<1>2. PICK L \in Nat : L = Len(left) /\ L = Cardinality(Left(N)) /\ L <= Size /\ Size \in Nat
  BY <1>1, LeftFacts DEF Ascending
<1>3. ASSUME NEW p \in Left(N)
      PROVE  /\ Cardinality(Before(N, p)) + 1 \in 1..L
             /\ left[Cardinality(Before(N, p)) + 1] = p
  BY <1>1, <1>2 DEF Ascending, Before
<1>4. ASSUME NEW i \in 1..N PROVE Numbered(N, i)
  <2>1. PICK c : c = Canon(away, i) /\ HeadAt(c, i, N)
    BY Heads
  <2>2. c \in Left(N) /\ FramedAt(c) = FramedAt(i)
    BY <2>1 DEF HeadAt, Left
  <2>3. PICK n : n = Lookup(ids[i]) /\ n = Cardinality(Before(N, c))
    BY <2>1, LookupRank
  <2>4. n + 1 \in 1..L /\ left[n + 1] = c
    BY <1>3, <2>2, <2>3
  <2>5. Before(N, c) \in SUBSET Left(N) /\ IsFiniteSet(Left(N))
    BY LeftFacts DEF Before
  <2>6. n \in Nat
    BY <2>3, <2>5, FS_Subset, FS_CardinalityType
  <2>7. n \in Nodes
    BY <1>2, <2>4, <2>6 DEF Nodes
  <2>8. n + 1 \in DOMAIN nodes /\ nodes[n + 1] = FramedAt(i)
    BY <1>1, <1>2, <2>2, <2>4
  <2>9. ASSUME NEW j \in 1..N PROVE n = Lookup(ids[j]) <=> OneJunction(ids[i], ids[j])
    <3>1. PICK d : d = Canon(away, j) /\ HeadAt(d, j, N)
      BY Heads
    <3>2. d \in Left(N)
      BY <3>1 DEF HeadAt, Left
    <3>3. PICK m : m = Lookup(ids[j]) /\ m = Cardinality(Before(N, d))
      BY <3>1, LookupRank
    <3>4. left[m + 1] = d
      BY <1>3, <3>2, <3>3
    <3>5. n = m <=> c = d
      BY <2>3, <2>4, <3>3, <3>4
    <3>6. OneJunction(ids[i], ids[j]) <=> d = c
      BY <2>1, <3>1 DEF HeadAt
    <3> QED
      BY <3>3, <3>5, <3>6
  <2> QED
    BY <2>3, <2>7, <2>8, <2>9 DEF Numbered
<1> QED
  BY <1>1, <1>2, <1>4

----------------------------------------------------------------------------
(* A sound frame *)

LEMMA WidthWithin ==
    ASSUME NEW S \in SUBSET Int, IsFiniteSet(S), S # {}, NEW lo \in Int, NEW hi \in Int,
           \A x \in S : lo <= x /\ x <= hi
    PROVE  Width(S) \in Int /\ Width(S) <= hi - lo
<1>1. PICK a \in Int, b \in Int : a = Max(S) /\ b = Min(S) /\ a \in S /\ b \in S
  BY Extremes
<1>2. a <= hi /\ lo <= b
  BY <1>1
<1>3. a - b <= hi - lo /\ a - b \in Int
  BY <1>2
<1> QED
  BY <1>1, <1>3 DEF Width

LEMMA Remainder ==
    ASSUME NEW t \in Nat \ {0}, NEW d \in Int, -t <= d, d <= t
    PROVE  d % t = IF d < 0 THEN d + t ELSE IF d = t THEN 0 ELSE d
<1>1. \A e \in 0..(t - 1) : e % t = e
  OBVIOUS
<1>2. (d + t) % t = d % t /\ (d - t) % t = d % t
  BY Congruent
<1>3. CASE d < 0
  <2>1. PICK e \in 0..(t - 1) : e = d + t
    BY <1>3
  <2> QED
    BY <1>1, <1>2, <1>3, <2>1
<1>4. CASE d = t
  <2>1. PICK e \in 0..(t - 1) : e = d - t /\ e = 0
    BY <1>4
  <2> QED
    BY <1>1, <1>2, <1>4, <2>1
<1>5. CASE d >= 0 /\ d # t
  BY <1>1, <1>5
<1> QED
  BY <1>3, <1>4, <1>5

LEMMA LonSets ==
    ASSUME NEW N, Listing(ids, N)
    PROVE  /\ PlainLons \in SUBSET (-HalfTurn..HalfTurn) /\ IsFiniteSet(PlainLons)
           /\ TurnedLons = {Unwrapped(x) : x \in PlainLons}
           /\ TurnedLons \in SUBSET (0..(2 * HalfTurn - 1)) /\ IsFiniteSet(TurnedLons)
<1>1. /\ N \in Nat /\ DOMAIN ids = 1..N /\ \A i \in 1..N : Spot(i) \in Place
  BY DEF Listing, Spot
<1>2. \A i \in 1..N : R!Lon(Spot(i)) \in -HalfTurn..HalfTurn
  BY <1>1 DEF Place, R!Lon
<1>3. PlainLons \in SUBSET (-HalfTurn..HalfTurn)
  BY <1>1, <1>2 DEF PlainLons
<1>4. TurnedLons = {Unwrapped(x) : x \in PlainLons}
  BY DEF TurnedLons, PlainLons
<1>5. \A x \in -HalfTurn..HalfTurn : Unwrapped(x) \in 0..(2 * HalfTurn - 1)
  BY FrameAssumption DEF Unwrapped
<1>6. TurnedLons \in SUBSET (0..(2 * HalfTurn - 1))
  BY <1>3, <1>4, <1>5
<1>7. IsFiniteSet(PlainLons)
  <2> DEFINE f == [i \in 1..N |-> R!Lon(Spot(i))]
  <2>1. PlainLons = {f[i] : i \in 1..N}
    BY <1>1 DEF PlainLons
  <2> HIDE DEF f
  <2> QED
    BY <1>1, <2>1, RangeFinite
<1>8. IsFiniteSet(TurnedLons)
  <2>1. IsFiniteSet(0..(2 * HalfTurn - 1))
    BY FrameAssumption, FS_Interval
  <2> QED
    BY <1>6, <2>1, FS_Subset
<1> QED
  BY <1>3, <1>4, <1>6, <1>7, <1>8

\* A region too wide in both frames fits no arc of less than half a turn.
LEMMA NoArc ==
    ASSUME NEW N, Listing(ids, N), PlainLons # {},
           Width(PlainLons) > HalfTurn, Width(TurnedLons) > HalfTurn,
           NEW west \in PlainLons
    PROVE  \E lon \in PlainLons : (lon - west) % (2 * HalfTurn) >= HalfTurn
<1> SUFFICES ASSUME \A lon \in PlainLons : ~((lon - west) % (2 * HalfTurn) >= HalfTurn)
             PROVE  FALSE
  OBVIOUS
<1>1. /\ PlainLons \in SUBSET (-HalfTurn..HalfTurn) /\ IsFiniteSet(PlainLons)
      /\ TurnedLons = {Unwrapped(x) : x \in PlainLons}
      /\ TurnedLons \in SUBSET (0..(2 * HalfTurn - 1)) /\ IsFiniteSet(TurnedLons)
  BY LonSets
<1>2. PICK H \in Nat \ {0} : H = HalfTurn
  BY FrameAssumption
<1>3. west \in -H..H
  BY <1>1, <1>2
<1>4. ASSUME NEW lon \in PlainLons
      PROVE  /\ lon \in -H..H
             /\ LET d == lon - west
                IN  (IF d < 0 THEN d + 2 * H ELSE IF d = 2 * H THEN 0 ELSE d) < H
  <2>1. lon \in -H..H
    BY <1>1, <1>2
  <2>2. PICK d \in Int, t \in Nat \ {0} : d = lon - west /\ t = 2 * H /\ -t <= d /\ d <= t
    BY <1>3, <2>1
  <2>3. d % t = IF d < 0 THEN d + t ELSE IF d = t THEN 0 ELSE d
    BY <2>2, Remainder
  <2>4. ~(d % t >= H)
    BY <1>2, <2>2
  <2> QED
    BY <2>1, <2>2, <2>3, <2>4
<1>5. TurnedLons # {} /\ TurnedLons \in SUBSET Int /\ PlainLons \in SUBSET Int
  BY <1>1
<1>6. CASE west >= 0 \/ west = -H
  <2>1. PICK w \in Int : w = IF west = -H THEN H ELSE west
    BY <1>3
  <2>2. ASSUME NEW lon \in PlainLons
        PROVE  w <= Unwrapped(lon) /\ Unwrapped(lon) <= w + H - 1
    BY <1>2, <1>3, <1>4, <1>6, <2>1 DEF Unwrapped
  <2>3. \A x \in TurnedLons : w <= x /\ x <= w + H - 1
    BY <1>1, <2>2
  <2>4. PICK u \in Int : u = w + H - 1
    OBVIOUS
  <2>5. Width(TurnedLons) \in Int /\ Width(TurnedLons) <= u - w
    BY <1>1, <1>5, <2>3, <2>4, WidthWithin
  <2>6. PICK k \in Int : k = Width(TurnedLons)
    BY <2>5
  <2> QED
    BY <1>2, <2>4, <2>5, <2>6
<1>7. CASE west < 0 /\ west # -H
  <2>1. PICK u \in Int : u = west + H - 1
    BY <1>3
  <2>2. \A x \in PlainLons : west <= x /\ x <= u
    BY <1>2, <1>3, <1>4, <1>7, <2>1
  <2>3. west \in Int
    BY <1>3
  <2>4. Width(PlainLons) \in Int /\ Width(PlainLons) <= u - west
    BY <1>1, <1>5, <2>2, <2>3, WidthWithin
  <2>5. PICK k \in Int : k = Width(PlainLons)
    BY <2>4
  <2> QED
    BY <1>2, <2>1, <2>3, <2>4, <2>5
<1> QED
  BY <1>3, <1>6, <1>7

LEMMA FramedLons ==
    ASSUME NEW N, Framed(N), LeftFramed(nodes, away)
    PROVE  Lons = {R!Lon(FramedAt(i)) : i \in 1..N}
<1>1. PICK left : /\ Ascending(left, Left(N))
                  /\ DOMAIN nodes = 1..Len(left)
                  /\ \A k \in 1..Len(left) : nodes[k] = FramedAt(left[k])
  BY LeftFacts DEF LeftFramed
<1>2. \A k \in DOMAIN nodes : left[k] \in 1..N
  <2>1. left \in Seq(Left(N)) /\ Left(N) \in SUBSET (1..N)
    BY <1>1, LeftFacts DEF Ascending
  <2> QED
    BY <1>1, <2>1, ElementOfSeq
<1>3. \A i \in 1..N : \E k \in DOMAIN nodes : nodes[k] = FramedAt(i)
  <2>1. \A i \in 1..N : Numbered(N, i)
    BY Numbering
  <2> QED
    BY <2>1 DEF Numbered
<1>4. \A x \in Lons : x \in {R!Lon(FramedAt(i)) : i \in 1..N}
  BY <1>1, <1>2 DEF Lons
<1>5. \A i \in 1..N : R!Lon(FramedAt(i)) \in Lons
  BY <1>3 DEF Lons
<1> QED
  BY <1>4, <1>5

\* The frame has node i on the parallel and the meridian that the extract has.
LEMMA FramedAlike ==
    ASSUME NEW N, Framed(N), NEW i \in 1..N
    PROVE  /\ Spot(i) \in Points /\ FramedAt(i) \in Points
           /\ R!Lat(FramedAt(i)) = R!Lat(Spot(i))
           /\ Alike(R!Lon(Spot(i)), R!Lon(FramedAt(i)))
           /\ R!Lon(Spot(i)) \in -HalfTurn..HalfTurn
<1>1. Spot(i) \in Place
  BY DEF Framed, Listing, Spot
<1>2. Spot(i) \in Points /\ R!Lon(Spot(i)) \in -HalfTurn..HalfTurn
  BY <1>1 DEF Place, Points, R!Lon
<1>3. CASE ~Shifted
  <2>1. FramedAt(i) = Spot(i)
    BY <1>3 DEF FramedAt
  <2> QED
    BY <1>2, <2>1 DEF Alike
<1>4. CASE Shifted
  <2>1. PICK x \in Int, y \in Int, m \in Int, H \in Int :
          /\ x = R!Lat(Spot(i)) /\ y = R!Lon(Spot(i)) /\ H = HalfTurn
          /\ m = seam - HalfTurn /\ m \in {-(2 * H), 0}
    BY <1>2, <1>4, SeamSides, PointFacts, FrameAssumption
  <2>2. FramedAt(i) = <<x, Unwrapped(y) + m>>
    BY <1>4, <2>1 DEF FramedAt
  <2>3. PICK z \in Int : z = Unwrapped(y) + m
    BY <2>1 DEF Unwrapped
  <2>4. R!Lat(FramedAt(i)) = x /\ R!Lon(FramedAt(i)) = z /\ FramedAt(i) \in Points
    BY <2>2, <2>3 DEF R!Lat, R!Lon, Points
  <2>5. z \in {y, y + 2 * H, y - 2 * H}
    BY <2>1, <2>3 DEF Unwrapped
  <2>6. Alike(y, z)
    BY <2>1, <2>5 DEF Alike, Turn
  <2> QED
    BY <1>2, <2>1, <2>4, <2>6
<1> QED
  BY <1>3, <1>4

LEMMA AlikeModulo ==
    ASSUME NEW x \in Int, NEW y \in Int, Alike(x, y)
    PROVE  (y - x) % (2 * HalfTurn) = 0
<1>1. PICK t \in Nat \ {0} : t = 2 * HalfTurn /\ t = Turn
  BY TurnType
<1>2. y - x \in {0, t, -t}
  BY <1>1 DEF Alike
<1>3. PICK d \in Int : d = y - x
  OBVIOUS
<1>4. d % t = 0
  BY <1>1, <1>2, <1>3, Remainder
<1> QED
  BY <1>1, <1>3, <1>4

\* The shifted frame is as wide as the unwrapped one, and fits the window.
LEMMA ShiftedWidth ==
    ASSUME NEW N, Framed(N), LeftFramed(nodes, away), Shifted
    PROVE  Width(Lons) <= HalfTurn /\ Lons \subseteq -Window..Window /\ Lons # {}
<1>1. /\ TurnedLons \in SUBSET (0..(2 * HalfTurn - 1)) /\ IsFiniteSet(TurnedLons)
      /\ IsFiniteSet(PlainLons) /\ TurnedLons = {Unwrapped(x) : x \in PlainLons}
  BY LonSets DEF Framed
<1>2. /\ PlainLons # {} /\ Width(TurnedLons) <= HalfTurn
      /\ seam = HalfTurn + (IF Max(TurnedLons) > Window THEN -(2 * HalfTurn) ELSE 0)
      /\ Min(TurnedLons) + (seam - HalfTurn) >= -Window
  BY DEF Framed, HasFrame
<1>3. TurnedLons # {} /\ TurnedLons \in SUBSET Int
  BY <1>1, <1>2
<1>4. PICK H \in Nat \ {0}, W \in Nat : H = HalfTurn /\ W = Window /\ H < W /\ W < 2 * H
  BY FrameAssumption
<1>5. PICK a \in 0..(2 * H - 1), b \in 0..(2 * H - 1) :
        /\ a = Max(TurnedLons) /\ b = Min(TurnedLons)
        /\ \A t \in TurnedLons : t <= a /\ b <= t
  <2>1. /\ Max(TurnedLons) \in TurnedLons /\ \A x \in TurnedLons : Max(TurnedLons) >= x
        /\ Min(TurnedLons) \in TurnedLons /\ \A x \in TurnedLons : Min(TurnedLons) <= x
    BY <1>1, <1>3, Extremes
  <2>2. \A t \in TurnedLons : t \in 0..(2 * H - 1)
    BY <1>1, <1>4
  <2> QED
    BY <2>1, <2>2
<1>6. PICK m \in Int : m = seam - HalfTurn /\ m = IF a > W THEN -(2 * H) ELSE 0
  BY <1>2, <1>4, <1>5
<1>7. b + m >= -W /\ a - b <= H /\ a + m <= W
  BY <1>2, <1>4, <1>5, <1>6 DEF Width
<1>8. DOMAIN ids = 1..N
  BY DEF Framed, Listing
<1>9. ASSUME NEW x \in Lons PROVE x \in Int /\ b + m <= x /\ x <= a + m
  <2>1. PICK i \in 1..N : x = R!Lon(FramedAt(i))
    BY FramedLons
  <2>2. PICK t \in TurnedLons : t = Unwrapped(R!Lon(Spot(i)))
    BY <1>8 DEF TurnedLons
  <2>3. x = t + m
    BY <1>6, <2>1, <2>2 DEF FramedAt, R!Lon
  <2>4. t \in Int
    BY <1>3
  <2> QED
    BY <1>5, <2>3, <2>4
<1>10. Lons # {}
  <2>1. PICK i \in 1..N : TRUE
    BY <1>2, <1>8 DEF PlainLons
  <2> QED
    BY <2>1, FramedLons
<1>11. \A x \in Lons : x \in -W..W
  BY <1>7, <1>9
<1>12. IsFiniteSet(Lons) /\ Lons \in SUBSET Int
  <2>1. IsFiniteSet(-W..W)
    BY FS_Interval
  <2> QED
    BY <1>11, <2>1, FS_Subset
<1>13. PICK lo \in Int, hi \in Int : lo = b + m /\ hi = a + m /\ hi - lo <= H
  BY <1>7
<1>14. Width(Lons) \in Int /\ Width(Lons) <= hi - lo
  BY <1>9, <1>10, <1>12, <1>13, WidthWithin
<1>15. Width(Lons) <= H
  BY <1>13, <1>14
<1> QED
  BY <1>4, <1>10, <1>11, <1>15

\* A frame of a region with roads on both sides sticks out.
LEMMA SticksOut ==
    ASSUME NEW N, Framed(N), LeftFramed(nodes, away), Shifted,
           NEW i \in 1..N, R!Lon(Spot(i)) \in 0..(HalfTurn - 1),
           NEW j \in 1..N, R!Lon(Spot(j)) \in (1 - HalfTurn)..(-1)
    PROVE  ~(Lons \subseteq -HalfTurn..HalfTurn)
<1>1. PICK H \in Nat \ {0}, m \in Int :
        H = HalfTurn /\ m = seam - HalfTurn /\ m \in {-(2 * H), 0}
  BY SeamSides, FrameAssumption
<1>2. PICK x \in 0..(H - 1), y \in (1 - H)..(-1) : x = R!Lon(Spot(i)) /\ y = R!Lon(Spot(j))
  BY <1>1
<1>3. Unwrapped(x) = x /\ Unwrapped(y) = y + 2 * H
  BY <1>1, <1>2 DEF Unwrapped
<1>4. R!Lon(FramedAt(i)) = x + m /\ R!Lon(FramedAt(j)) = y + 2 * H + m
  BY <1>1, <1>2, <1>3 DEF FramedAt, R!Lon
<1>5. x + m \in Lons /\ y + 2 * H + m \in Lons
  BY <1>4, FramedLons
<1>6. CASE m = 0
  <2>1. y + 2 * H + m > H /\ y + 2 * H + m \in Int
    BY <1>1, <1>2, <1>6
  <2> QED
    BY <1>1, <1>5, <2>1
<1>7. CASE m = -(2 * H)
  <2>1. x + m < -H /\ x + m \in Int
    BY <1>1, <1>2, <1>7
  <2> QED
    BY <1>1, <1>5, <2>1
<1> QED
  BY <1>1, <1>6, <1>7

LEMMA Sound == ReadInv /\ FrameInv => FrameIsSound
<1> SUFFICES ASSUME ReadInv, FrameInv PROVE FrameIsSound
  OBVIOUS
<1>1. IsExtract(extract)
  BY DEF ReadInv
<1>2. ASSUME stage = "AntimeridianSpanning"
      PROVE  \A west \in Lons : \E lon \in Lons : (lon - west) % (2 * HalfTurn) >= HalfTurn
  <2>1. /\ Ascending(ids, RoadNodes) /\ AllFramed /\ seam = 0
        /\ PlainLons # {} /\ Width(PlainLons) > HalfTurn /\ Width(TurnedLons) > HalfTurn
    BY <1>2 DEF FrameInv, Late
  <2>2. Lons = PlainLons
    BY <1>1, <2>1, PlainSees DEF Shifted
  <2>3. PICK N : Listing(ids, N)
    BY <1>1, <2>1, ListingFacts
  <2> QED
    BY <2>1, <2>2, <2>3, NoArc
<1>3. ASSUME stage = "merged"
      PROVE  \E N : Framed(N) /\ LeftFramed(nodes, away)
  <2>1. Ascending(ids, RoadNodes) /\ HasFrame /\ Redirected(away) /\ LeftFramed(nodes, away)
    BY <1>3 DEF FrameInv, Late
  <2>2. PICK N : Listing(ids, N)
    BY <1>1, <2>1, ListingFacts
  <2> QED
    BY <1>1, <2>1, <2>2 DEF Framed
<1>4. ASSUME NEW N, Framed(N), LeftFramed(nodes, away)
      PROVE  /\ \A a \in Range(ids) :
                  LET p == nodes[Lookup(a) + 1]
                      q == PlaceOf(a)
                  IN  R!Lat(p) = R!Lat(q) /\ (R!Lon(p) - R!Lon(q)) % (2 * HalfTurn) = 0
             /\ Lons # {} => Width(Lons) <= HalfTurn
             /\ Lons \subseteq IF Shifted THEN -Window..Window ELSE -HalfTurn..HalfTurn
             /\ (/\ Shifted
                 /\ \E a \in Range(ids) : R!Lon(PlaceOf(a)) \in 0..(HalfTurn - 1)
                 /\ \E a \in Range(ids) : R!Lon(PlaceOf(a)) \in (1 - HalfTurn)..(-1))
                   => ~(Lons \subseteq -HalfTurn..HalfTurn)
  <2>1. Listing(ids, N) /\ HasFrame /\ DOMAIN ids = 1..N
    BY <1>4 DEF Framed, Listing
  <2>2. \A a \in Range(ids) : \E i \in 1..N : a = ids[i]
    BY <2>1 DEF Range
  <2>3. ASSUME NEW i \in 1..N
        PROVE  /\ R!Lat(nodes[Lookup(ids[i]) + 1]) = R!Lat(Spot(i))
               /\ (R!Lon(nodes[Lookup(ids[i]) + 1]) - R!Lon(Spot(i))) % (2 * HalfTurn) = 0
    <3>1. nodes[Lookup(ids[i]) + 1] = FramedAt(i)
      BY <1>4, Numbering DEF Numbered
    <3>2. /\ R!Lat(FramedAt(i)) = R!Lat(Spot(i))
          /\ Alike(R!Lon(Spot(i)), R!Lon(FramedAt(i)))
          /\ R!Lon(Spot(i)) \in Int /\ R!Lon(FramedAt(i)) \in Int
      BY <1>4, FramedAlike, PointFacts
    <3> QED
      BY <3>1, <3>2, AlikeModulo
  <2>4. CASE ~Shifted
    <3>1. Lons = PlainLons
      BY <1>4, <2>1, <2>4, FramedLons DEF PlainLons, FramedAt
    <3> QED
      BY <2>1, <2>2, <2>3, <2>4, <3>1, LonSets DEF HasFrame, Spot
  <2>5. CASE Shifted
    <3>1. ASSUME NEW a \in Range(ids), R!Lon(PlaceOf(a)) \in 0..(HalfTurn - 1),
                 NEW b \in Range(ids), R!Lon(PlaceOf(b)) \in (1 - HalfTurn)..(-1)
          PROVE  ~(Lons \subseteq -HalfTurn..HalfTurn)
      <4>1. PICK i \in 1..N : a = ids[i]
        BY <2>2
      <4>2. PICK j \in 1..N : b = ids[j]
        BY <2>2
      <4> QED
        BY <1>4, <2>5, <3>1, <4>1, <4>2, SticksOut DEF Spot
    <3> QED
      BY <1>4, <2>2, <2>3, <2>5, <3>1, ShiftedWidth DEF Spot
  <2> QED
    BY <2>4, <2>5
<1> QED
  BY <1>2, <1>3, <1>4 DEF FrameIsSound

----------------------------------------------------------------------------
(* The numbers of the junctions *)

HeadId(a) == Min({b \in RoadNodes : OneJunction(a, b)})
HeadIds == {HeadId(a) : a \in RoadNodes}
Number(a) == Cardinality({h \in HeadIds : h < HeadId(a)})

LEMMA ListedIds ==
    ASSUME NEW N, Listing(ids, N)
    PROVE  /\ \A i \in 1..N : ids[i] \in RoadNodes /\ ids[i] \in Int
           /\ \A i, j \in 1..N : ids[i] = ids[j] => i = j
           /\ \A i, j \in 1..N : i <= j => ids[i] <= ids[j]
           /\ \A i, j \in 1..N : i < j <=> ids[i] < ids[j]
           /\ \A n \in RoadNodes : \E i \in 1..N : ids[i] = n
           /\ N \in Nat
<1>1. /\ N \in Nat /\ \A i \in 1..N : ids[i] \in RoadNodes /\ ids[i] \in Int
      /\ \A n \in RoadNodes : \E i \in 1..N : ids[i] = n
      /\ \A i, j \in 1..N : i < j <=> ids[i] < ids[j]
  BY DEF Listing
<1>2. ASSUME NEW i \in 1..N, NEW j \in 1..N
      PROVE  (ids[i] = ids[j] => i = j) /\ (i <= j => ids[i] <= ids[j])
  <2>1. /\ ids[i] \in Int /\ ids[j] \in Int
        /\ i < j <=> ids[i] < ids[j]
        /\ j < i <=> ids[j] < ids[i]
    BY <1>1
  <2> QED
    BY <1>1, <2>1
<1> QED
  BY <1>1, <1>2

\* The lowest id of a junction is the one at its position.
LEMMA HeadIdIs ==
    ASSUME NEW N, Framed(N), NEW i \in 1..N
    PROVE  Canon(away, i) \in Left(N) /\ HeadId(ids[i]) = ids[Canon(away, i)]
<1>1. Listing(ids, N) /\ IsExtract(extract)
  BY DEF Framed
<1>2. PICK c : c = Canon(away, i) /\ HeadAt(c, i, N)
  BY Heads
<1>3. c \in Left(N) /\ c \in 1..N /\ c \notin DOMAIN away
  BY <1>2 DEF HeadAt, Left
<1>4. Canon(away, c) = c
  BY <1>3 DEF Canon
<1> DEFINE S == {b \in RoadNodes : OneJunction(ids[i], b)}
<1>5. ids[c] \in S
  BY <1>1, <1>2, <1>3, <1>4, ListedIds DEF HeadAt
<1>6. \A b \in S : ids[c] <= b
  <2> SUFFICES ASSUME NEW b \in S PROVE ids[c] <= b
    OBVIOUS
  <2>1. PICK j \in 1..N : ids[j] = b
    BY <1>1, ListedIds
  <2>2. c <= j
    BY <1>2, <2>1 DEF HeadAt
  <2> QED
    BY <1>1, <1>3, <2>1, <2>2, ListedIds
<1>7. S \in SUBSET Int /\ IsFiniteSet(S)
  <2>1. S \in SUBSET RoadNodes
    OBVIOUS
  <2> QED
    BY <1>1, <2>1, RoadNodeType, FS_Subset
<1> HIDE DEF S
<1>8. PICK m \in Int : m = Min(S) /\ m \in S /\ \A b \in S : m <= b
  BY <1>5, <1>7, Extremes
<1>9. ids[c] \in Int
  BY <1>1, <1>3, ListedIds
<1>10. m <= ids[c] /\ ids[c] <= m
  BY <1>5, <1>6, <1>8
<1>11. m = ids[c]
  BY <1>9, <1>10
<1> QED
  BY <1>2, <1>3, <1>8, <1>11 DEF HeadId, S

\* There are as many ids as positions.
LEMMA IdsCount ==
    ASSUME NEW N, Listing(ids, N), NEW T \in SUBSET (1..N)
    PROVE  Cardinality({ids[y] : y \in T}) = Cardinality(T)
<1> DEFINE S == {ids[y] : y \in T}
           f == [y \in T |-> ids[y]]
<1>1. N \in Nat /\ \A i, j \in 1..N : ids[i] = ids[j] => i = j
  BY ListedIds
<1>2. IsFiniteSet(T)
  <2>1. IsFiniteSet(1..N)
    BY <1>1, FS_Interval
  <2> QED
    BY <2>1, FS_Subset
<1>3. f \in Bijection(T, S)
  <2>1. f \in [T -> S]
    OBVIOUS
  <2>2. \A x, y \in T : f[x] = f[y] => x = y
    BY <1>1
  <2>3. \A s \in S : \E x \in T : f[x] = s
    OBVIOUS
  <2> HIDE DEF f, S
  <2>4. f \in Injection(T, S)
    BY <2>1, <2>2 DEF Injection, IsInjective
  <2>5. f \in Surjection(T, S)
    BY <2>1, <2>3 DEF Surjection
  <2> QED
    BY <2>4, <2>5 DEF Bijection
<1>4. ExistsBijection(T, S)
  BY <1>3 DEF ExistsBijection
<1> HIDE DEF S
<1>5. Cardinality(T) = Cardinality(S)
  BY <1>2, <1>4, FS_Bijection
<1> QED
  BY <1>5 DEF S

LEMMA HeadIdsAre ==
    ASSUME NEW N, Framed(N)
    PROVE  HeadIds = {ids[p] : p \in Left(N)}
<1>1. Listing(ids, N)
  BY DEF Framed
<1>2. ASSUME NEW h \in HeadIds PROVE h \in {ids[p] : p \in Left(N)}
  <2>1. PICK a \in RoadNodes : h = HeadId(a)
    BY DEF HeadIds
  <2>2. PICK i \in 1..N : ids[i] = a
    BY <1>1, ListedIds
  <2> QED
    BY <2>1, <2>2, HeadIdIs
<1>3. ASSUME NEW p \in Left(N) PROVE ids[p] \in HeadIds
  <2>1. p \in 1..N /\ Canon(away, p) = p
    BY DEF Left, Canon
  <2>2. HeadId(ids[p]) = ids[p] /\ ids[p] \in RoadNodes
    BY <1>1, <2>1, HeadIdIs, ListedIds
  <2> QED
    BY <2>2 DEF HeadIds
<1> QED
  BY <1>2, <1>3

\* lookup numbers the junctions by their lowest id.
LEMMA NumberIs ==
    ASSUME NEW N, Framed(N)
    PROVE  /\ \A a \in RoadNodes : Number(a) = Lookup(a)
           /\ Cardinality(HeadIds) = Cardinality(Left(N))
<1>1. Listing(ids, N) /\ Left(N) \in SUBSET (1..N)
  BY DEF Framed, Left
<1>2. HeadIds = {ids[p] : p \in Left(N)}
  BY HeadIdsAre
<1>3. Cardinality(HeadIds) = Cardinality(Left(N))
  BY <1>1, <1>2, IdsCount
<1>4. ASSUME NEW i \in 1..N PROVE Number(ids[i]) = Lookup(ids[i])
  <2>1. PICK c \in Left(N) : c = Canon(away, i) /\ HeadId(ids[i]) = ids[c]
    BY HeadIdIs
  <2>2. \A y \in Left(N) : ids[y] < ids[c] <=> y < c
    BY <1>1, ListedIds
  <2>3. {h \in HeadIds : h < HeadId(ids[i])} = {ids[y] : y \in Before(N, c)}
    BY <1>2, <2>1, <2>2 DEF Before
  <2>4. Before(N, c) \in SUBSET (1..N)
    BY <1>1 DEF Before
  <2>5. Number(ids[i]) = Cardinality(Before(N, c))
    BY <1>1, <2>3, <2>4, IdsCount DEF Number
  <2> QED
    BY <2>1, <2>5, LookupRank
<1>5. \A a \in RoadNodes : Number(a) = Lookup(a)
  <2> SUFFICES ASSUME NEW a \in RoadNodes PROVE Number(a) = Lookup(a)
    OBVIOUS
  <2>1. PICK i \in 1..N : ids[i] = a
    BY <1>1, ListedIds
  <2> QED
    BY <1>4, <2>1
<1> QED
  BY <1>3, <1>5

LEMMA LenIs ==
    ASSUME NEW s, NEW n \in Nat, DOMAIN s = 1..n
    PROVE  Len(s) = n
OBVIOUS

----------------------------------------------------------------------------
(* The merged edges *)

\* The drawn segments between the junctions numbered e[1] and e[2], as the code
\* numbers them.
Touches(p, e) == e \in {<<Lookup(p.from), Lookup(p.to)>>, <<Lookup(p.to), Lookup(p.from)>>}
Touching(e) == {p \in Drawn : Touches(p, e)}
Opened(e) == UNION {p.access : p \in Touching(e)}
Measured(e) == Clamped(R!Dm(R!Distance(nodes[e[1] + 1], nodes[e[2] + 1])))

\* What Connect merges.
Joint ==
    [e \in {<<d[1], d[2]>> : d \in Directed} |->
        [length |-> Measured(e),
         access |-> UNION {d[3] : d \in {x \in Directed : <<x[1], x[2]>> = e}}]]

JointEnds == {e \in Nodes \X Nodes : e[1] # e[2] /\ Touching(e) # {}}

\* The state past the frame, for N road nodes.
Built(N) ==
    /\ ReadInv /\ stage \notin {"ways", "nodes", "mask"}
    /\ Framed(N) /\ LeftFramed(nodes, away)

LEMMA SegmentEnds ==
    ASSUME NEW N, Built(N), NEW p \in Drawn
    PROVE  \E i, j \in 1..N :
              /\ p.from = ids[i] /\ p.to = ids[j]
              /\ Lookup(p.from) \in Nodes /\ Lookup(p.to) \in Nodes
              /\ nodes[Lookup(p.from) + 1] = FramedAt(i) /\ nodes[Lookup(p.to) + 1] = FramedAt(j)
              /\ p.access \in (SUBSET Profiles) \ {{}}
<1>1. Listing(ids, N) /\ Framed(N) /\ LeftFramed(nodes, away) /\ IsExtract(extract)
  BY DEF Built, Framed
<1>2. p.from \in RoadNodes /\ p.to \in RoadNodes /\ p.access \in (SUBSET Profiles) \ {{}}
  BY <1>1, DrawnType
<1>3. PICK i \in 1..N : ids[i] = p.from
  BY <1>1, <1>2, ListedIds
<1>4. PICK j \in 1..N : ids[j] = p.to
  BY <1>1, <1>2, ListedIds
<1>5. Numbered(N, i) /\ Numbered(N, j)
  BY <1>1, Numbering
<1> QED
  BY <1>2, <1>3, <1>4, <1>5 DEF Numbered

LEMMA DirectedIs ==
    ASSUME NEW N, Built(N)
    PROVE  \A d : d \in Directed <=>
              \E p \in Drawn : /\ Lookup(p.from) # Lookup(p.to)
                               /\ \/ d = <<Lookup(p.from), Lookup(p.to), p.access>>
                                  \/ d = <<Lookup(p.to), Lookup(p.from), p.access>>
<1>1. Pairs = Drawn
  BY PairsAreDrawn DEF Built
<1> QED
  BY <1>1 DEF Directed

LEMMA DirectedBetween ==
    ASSUME NEW N, Built(N)
    PROVE  /\ {<<d[1], d[2]>> : d \in Directed} = JointEnds
           /\ \A e \in JointEnds :
                UNION {d[3] : d \in {x \in Directed : <<x[1], x[2]>> = e}} = Opened(e)
<1>1. ASSUME NEW p \in Drawn PROVE Lookup(p.from) \in Nodes /\ Lookup(p.to) \in Nodes
  BY SegmentEnds
<1>2. ASSUME NEW d \in Directed
      PROVE  \E p \in Drawn : /\ Lookup(p.from) # Lookup(p.to) /\ d[3] = p.access
                              /\ Touches(p, <<d[1], d[2]>>)
                              /\ d[1] # d[2] /\ <<d[1], d[2]>> \in Nodes \X Nodes
  <2>1. PICK p \in Drawn : /\ Lookup(p.from) # Lookup(p.to)
                           /\ \/ d = <<Lookup(p.from), Lookup(p.to), p.access>>
                              \/ d = <<Lookup(p.to), Lookup(p.from), p.access>>
    BY DirectedIs
  <2> QED
    BY <1>1, <2>1 DEF Touches
<1>3. ASSUME NEW e \in JointEnds, NEW p \in Touching(e)
      PROVE  \E d \in Directed : e = <<d[1], d[2]>> /\ d[3] = p.access
  <2>1. p \in Drawn /\ Touches(p, e) /\ e \in Nodes \X Nodes /\ e[1] # e[2]
    BY DEF Touching, JointEnds
  <2>2. PICK d : d = <<e[1], e[2], p.access>>
    OBVIOUS
  <2>3. e = <<e[1], e[2]>>
    BY <2>1
  <2>4. /\ Lookup(p.from) # Lookup(p.to)
        /\ \/ d = <<Lookup(p.from), Lookup(p.to), p.access>>
           \/ d = <<Lookup(p.to), Lookup(p.from), p.access>>
    BY <2>1, <2>2 DEF Touches
  <2>5. d \in Directed
    BY <2>1, <2>4, DirectedIs
  <2> QED
    BY <2>2, <2>3, <2>5
<1>4. ASSUME NEW d \in Directed PROVE <<d[1], d[2]>> \in JointEnds
  BY <1>2 DEF JointEnds, Touching
<1>5. ASSUME NEW e \in JointEnds PROVE \E d \in Directed : e = <<d[1], d[2]>>
  BY <1>3 DEF JointEnds
<1>6. {<<d[1], d[2]>> : d \in Directed} = JointEnds
  BY <1>4, <1>5
<1>7. ASSUME NEW e \in JointEnds
      PROVE  UNION {d[3] : d \in {x \in Directed : <<x[1], x[2]>> = e}} = Opened(e)
  <2>1. ASSUME NEW d \in Directed, <<d[1], d[2]>> = e PROVE \E p \in Touching(e) : d[3] = p.access
    BY <1>2, <2>1 DEF Touching
  <2>2. \A p \in Touching(e) : \E d \in Directed : <<d[1], d[2]>> = e /\ d[3] = p.access
    BY <1>3
  <2> QED
    BY <2>1, <2>2 DEF Opened
<1> QED
  BY <1>6, <1>7

\* A merged edge is as long as any segment it stands for.
LEMMA MeasuredIs ==
    ASSUME NEW N, Built(N), NEW e \in JointEnds, NEW p \in Touching(e)
    PROVE  /\ Measured(e) = Clamped(R!Dm(R!Distance(PlaceOf(p.from), PlaceOf(p.to))))
           /\ Measured(<<e[2], e[1]>>) = Measured(e)
           /\ Measured(e) \in Nat \ {0}
           /\ p.access \in (SUBSET Profiles) \ {{}}
<1>1. p \in Drawn /\ Touches(p, e) /\ Framed(N)
  BY DEF Touching, Built
<1>2. PICK i \in 1..N, j \in 1..N :
        /\ p.from = ids[i] /\ p.to = ids[j]
        /\ nodes[Lookup(p.from) + 1] = FramedAt(i) /\ nodes[Lookup(p.to) + 1] = FramedAt(j)
        /\ p.access \in (SUBSET Profiles) \ {{}}
  BY <1>1, SegmentEnds
<1>3. /\ Spot(i) \in Points /\ FramedAt(i) \in Points
      /\ Spot(j) \in Points /\ FramedAt(j) \in Points
      /\ R!Lat(FramedAt(i)) = R!Lat(Spot(i)) /\ R!Lat(FramedAt(j)) = R!Lat(Spot(j))
      /\ Alike(R!Lon(Spot(i)), R!Lon(FramedAt(i))) /\ Alike(R!Lon(Spot(j)), R!Lon(FramedAt(j)))
  BY <1>1, FramedAlike
<1>4. /\ R!Distance(FramedAt(i), FramedAt(j)) = R!Distance(Spot(i), Spot(j))
      /\ R!Distance(FramedAt(j), FramedAt(i)) = R!Distance(Spot(i), Spot(j))
  BY <1>3, DistanceMoved, DistanceBack
<1>5. PICK a, b : e = <<a, b>>
  BY DEF JointEnds
<1>6. \/ nodes[a + 1] = FramedAt(i) /\ nodes[b + 1] = FramedAt(j)
      \/ nodes[a + 1] = FramedAt(j) /\ nodes[b + 1] = FramedAt(i)
  BY <1>1, <1>2, <1>5 DEF Touches
<1>7. /\ R!Distance(nodes[a + 1], nodes[b + 1]) = R!Distance(Spot(i), Spot(j))
      /\ R!Distance(nodes[b + 1], nodes[a + 1]) = R!Distance(Spot(i), Spot(j))
  BY <1>4, <1>6
<1>8. Measured(e) = Clamped(R!Dm(R!Distance(Spot(i), Spot(j)))) /\ Measured(<<b, a>>) = Measured(e)
  BY <1>5, <1>7 DEF Measured
<1>9. Spot(i) = PlaceOf(p.from) /\ Spot(j) = PlaceOf(p.to)
  BY <1>2 DEF Spot
<1> QED
  BY <1>2, <1>3, <1>5, <1>8, <1>9, LengthType

LEMMA TouchedBack ==
    ASSUME NEW e \in JointEnds
    PROVE  /\ e = <<e[1], e[2]>> /\ e[1] \in Nodes /\ e[2] \in Nodes /\ e[1] # e[2]
           /\ <<e[2], e[1]>> \in JointEnds /\ Touching(<<e[2], e[1]>>) = Touching(e)
<1>1. e = <<e[1], e[2]>> /\ e[1] \in Nodes /\ e[2] \in Nodes /\ e[1] # e[2] /\ Touching(e) # {}
  BY DEF JointEnds
<1>2. PICK a, b : a = e[1] /\ b = e[2] /\ e = <<a, b>>
  BY <1>1
<1>3. \A p : Touches(p, <<b, a>>) <=> Touches(p, <<a, b>>)
  BY DEF Touches
<1>4. Touching(<<b, a>>) = Touching(<<a, b>>)
  BY <1>3 DEF Touching
<1>5. <<b, a>> \in JointEnds
  BY <1>1, <1>2, <1>4 DEF JointEnds
<1> QED
  BY <1>1, <1>2, <1>4, <1>5

LEMMA JointIs ==
    ASSUME NEW N, Built(N)
    PROVE  Joint = [e \in JointEnds |-> [length |-> Measured(e), access |-> Opened(e)]]
BY DirectedBetween DEF Joint

LEMMA JointNetwork ==
    ASSUME NEW N, Built(N)
    PROVE  IsNetwork(Joint)
<1>1. Joint = [e \in JointEnds |-> [length |-> Measured(e), access |-> Opened(e)]]
  BY JointIs
<1>2. DOMAIN Joint = JointEnds
  BY <1>1
<1>3. ASSUME NEW e \in JointEnds
      PROVE  /\ Measured(e) \in Nat \ {0} /\ Opened(e) \in Accesses
             /\ Measured(<<e[2], e[1]>>) = Measured(e) /\ Opened(<<e[2], e[1]>>) = Opened(e)
  <2>1. Touching(e) # {}
    BY DEF JointEnds
  <2>2. \A p \in Touching(e) : p.access \in (SUBSET Profiles) \ {{}}
    BY MeasuredIs
  <2>3. Opened(e) \in (SUBSET Profiles) \ {{}}
    BY <2>1, <2>2 DEF Opened
  <2>4. Opened(e) \in Accesses
    BY <2>3, AccessAssumption DEF Profiles
  <2>5. Opened(<<e[2], e[1]>>) = Opened(e)
    BY TouchedBack DEF Opened
  <2>6. Measured(e) \in Nat \ {0} /\ Measured(<<e[2], e[1]>>) = Measured(e)
    BY <2>1, MeasuredIs
  <2> QED
    BY <2>4, <2>5, <2>6
<1>4. \A e \in JointEnds : Joint[e] = [length |-> Measured(e), access |-> Opened(e)]
  BY <1>1
<1>5. Joint \in [JointEnds -> [length : Nat \ {0}, access : Accesses]]
  BY <1>1, <1>3
<1>6. ASSUME NEW e \in JointEnds
      PROVE  /\ e[1] # e[2] /\ <<e[2], e[1]>> \in JointEnds
             /\ Joint[<<e[2], e[1]>>] = Joint[e]
  BY <1>3, <1>4, TouchedBack
<1>7. JointEnds \subseteq Nodes \X Nodes
  BY DEF JointEnds
<1> QED
  BY <1>2, <1>5, <1>6, <1>7 DEF IsNetwork

\* What is collapsed is what Connect made.
MergeInv == stage \in {"merged", "collapse"} => merged = Joint

LEMMA JointDrawn ==
    ASSUME NEW N, Built(N), merged = Joint
    PROVE  IsRoadMap
<1> DEFINE head == [a \in Ends(Drawn) |-> Min({b \in Ends(Drawn) : OneJunction(a, b)})]
           heads == Range(head)
           number == [a \in Ends(Drawn) |-> Cardinality({h \in heads : h < head[a]})]
           Bonds(e) ==
               {p \in Drawn : e \in {<<number[p.from], number[p.to]>>,
                                     <<number[p.to], number[p.from]>>}}
<1>1. Framed(N) /\ LeftFramed(nodes, away) /\ IsExtract(extract)
  BY DEF Built, Framed
<1>2. head = [a \in RoadNodes |-> HeadId(a)]
  BY DEF RoadNodes, HeadId
<1>3. heads = HeadIds
  BY <1>2 DEF Range, HeadIds
<1>4. number = [a \in RoadNodes |-> Cardinality({h \in heads : h < head[a]})]
  BY DEF RoadNodes
<1> HIDE DEF head, heads
<1>5. ASSUME NEW a \in RoadNodes PROVE number[a] = Lookup(a)
  <2>1. number[a] = Cardinality({h \in HeadIds : h < HeadId(a)})
    BY <1>2, <1>3, <1>4
  <2> QED
    BY <1>1, <2>1, NumberIs DEF Number
<1> HIDE DEF number
<1>6. ASSUME NEW e PROVE Bonds(e) = Touching(e)
  <2>1. \A p \in Drawn : number[p.from] = Lookup(p.from) /\ number[p.to] = Lookup(p.to)
    BY <1>1, <1>5, DrawnType
  <2> QED
    BY <2>1 DEF Touching, Touches
<1> HIDE DEF Bonds
<1>7. Len(nodes) = Cardinality(heads)
  <2>1. PICK n \in Nat : n = Cardinality(Left(N))
    BY <1>1, LeftFacts
  <2>2. DOMAIN nodes = 1..n
    BY <1>1, <2>1, Numbering
  <2>3. Len(nodes) = n
    BY <2>2, LenIs
  <2> QED
    BY <1>1, <1>3, <2>1, <2>3, NumberIs
<1>8. Joint = [e \in JointEnds |-> [length |-> Measured(e), access |-> Opened(e)]]
  BY JointIs
<1>9. DOMAIN merged = {e \in Nodes \X Nodes : e[1] # e[2] /\ Bonds(e) # {}}
  BY <1>6, <1>8 DEF JointEnds
<1>10. ASSUME NEW e \in DOMAIN merged
       PROVE  /\ merged[e].access = UNION {p.access : p \in Bonds(e)}
              /\ \A p \in Bonds(e) :
                    merged[e].length = Clamped(R!Dm(
                        R!Distance(PlaceOf(p.from), PlaceOf(p.to))))
  <2>1. e \in JointEnds /\ merged[e].access = Opened(e) /\ merged[e].length = Measured(e)
    BY <1>8
  <2>2. \A p \in Touching(e) :
          Measured(e) = Clamped(R!Dm(R!Distance(PlaceOf(p.from), PlaceOf(p.to))))
    BY <2>1, MeasuredIs
  <2>3. Opened(e) = UNION {p.access : p \in Touching(e)}
    BY DEF Opened
  <2> QED
    BY <1>6, <2>1, <2>2, <2>3
<1>11. IsNetwork(merged)
  BY JointNetwork
<1> QED
  BY <1>7, <1>9, <1>10, <1>11 DEF head, heads, number, Bonds, IsRoadMap

LEMMA BuiltState ==
    ASSUME ReadInv, FrameInv, stage \in {"connect", "merged", "collapse"}
    PROVE  \E N : Built(N)
<1>1. IsExtract(extract)
  BY DEF ReadInv
<1>2. Ascending(ids, RoadNodes) /\ HasFrame /\ Redirected(away) /\ LeftFramed(nodes, away)
  BY DEF FrameInv, Late
<1>3. PICK N : Listing(ids, N)
  BY <1>1, <1>2, ListingFacts
<1>4. Built(N)
  BY <1>1, <1>2, <1>3 DEF Built, Framed
<1> QED
  BY <1>4

LEMMA AlwaysRoadMap ==
    ReadInv /\ FrameInv /\ MergeInv => (stage \in {"merged", "collapse"} => IsRoadMap)
<1> SUFFICES ASSUME ReadInv, FrameInv, MergeInv, stage \in {"merged", "collapse"}
             PROVE  IsRoadMap
  OBVIOUS
<1>1. PICK N : Built(N)
  BY BuiltState
<1>2. merged = Joint
  BY DEF MergeInv
<1> QED
  BY <1>1, <1>2, JointDrawn

LEMMA SameJoint ==
    ASSUME UNCHANGED <<extract, ways, place, ids, nodes, away>>
    PROVE  Joint' = Joint
<1>1. Pairs' = Pairs
  BY DEF Pairs
<1>2. \A a : Lookup(a)' = Lookup(a)
  BY DEF Lookup, Canon
<1>3. Directed' = Directed
  BY <1>1, <1>2 DEF Directed
<1>4. \A e : Measured(e)' = Measured(e)
  BY DEF Measured
<1> QED
  BY <1>3, <1>4 DEF Joint

LEMMA ConnectMerges == Connect => merged' = Joint /\ Joint' = Joint
<1> SUFFICES ASSUME Connect PROVE merged' = Joint /\ Joint' = Joint
  OBVIOUS
<1>1. merged' = Joint
  BY DEF Connect, Joint, Measured
<1>2. Joint' = Joint
  BY SameJoint DEF Connect, network
<1> QED
  BY <1>1, <1>2

LEMMA StepMerge == MergeInv /\ [NNext]_nvars => MergeInv'
<1> SUFFICES ASSUME MergeInv, [NNext]_nvars PROVE MergeInv'
  OBVIOUS
<1>1. CASE Connect
  BY <1>1, ConnectMerges DEF MergeInv
<1>2. CASE UNCHANGED nvars
  <2>1. UNCHANGED <<stage, merged>> /\ UNCHANGED <<extract, ways, place, ids, nodes, away>>
    BY <1>2 DEF nvars, vars, building, network
  <2> QED
    BY <2>1, SameJoint DEF MergeInv
<1>3. CASE Refused
  BY <1>2, <1>3 DEF Refused
<1>4. CASE CollapseStep
  <2>1. merged' = merged
    BY <1>4 DEF CollapseStep, Next, Anchor, AnchorsDone, Ring, WalkOn, WalkEnds, Emit, Done, vars
  <2>2. Joint' = Joint
    BY <1>4, SameJoint DEF CollapseStep, network
  <2> QED
    BY <1>4, <2>1, <2>2 DEF CollapseStep, MergeInv
<1>5. CASE stage' \notin {"merged", "collapse"}
  BY <1>5 DEF MergeInv
<1> QED
  BY <1>1, <1>2, <1>3, <1>4, <1>5 DEF NNext, ReadWays, ReadNodes, MaskAccess, ScanWays, KeepFrame,
     RefuseSpanning, RefuseWindow, ShiftFrame, Stitch

----------------------------------------------------------------------------
(* The collapse of what was merged *)

\* Before the collapse its variables are as it starts; from then on they are
\* what its own steps make of them.
CollapseInv == IF stage = "collapse" THEN AllInv ELSE Init

LEMMA InitCollapse == NInit => CollapseInv
<1> SUFFICES ASSUME NInit PROVE Init
  BY DEF NInit, CollapseInv
<1>1. merged = <<>> /\ kept = {}
  BY DEF NInit
<1>2. DOMAIN merged = {}
  BY <1>1, EmptyRedirect
<1>3. merged = [e \in {} |-> e]
  BY <1>1, EmptyRedirect
<1>4. IsNetwork(merged)
  BY <1>2, <1>3 DEF IsNetwork
<1>5. kept = {n \in Vertices : ~Interior(n)}
  BY <1>1, <1>2 DEF Vertices
<1> QED
  BY <1>4, <1>5 DEF NInit, Init

LEMMA SameInit == Init /\ UNCHANGED vars => Init'
<1> SUFFICES ASSUME Init, UNCHANGED vars PROVE Init'
  OBVIOUS
<1>1. UNCHANGED <<merged, kept, consumed, chains, dropped, phase, scan, walk, edges>>
  BY DEF vars
<1>2. Vertices' = Vertices /\ \A n : Interior(n)' <=> Interior(n)
  BY <1>1 DEF Vertices, Interior, Adj, Access
<1> QED
  BY <1>1, <1>2 DEF Init

LEMMA ConnectCollapse ==
    ReadInv /\ FrameInv /\ CollapseInv /\ Connect => CollapseInv'
<1> SUFFICES ASSUME ReadInv, FrameInv, CollapseInv, Connect PROVE CollapseInv'
  OBVIOUS
<1>1. /\ stage = "connect" /\ stage' = "merged" /\ Init
      /\ kept' = {n \in Vertices : ~Interior(n)}'
      /\ UNCHANGED <<consumed, chains, dropped, phase, scan, walk, edges>>
  BY DEF Connect, CollapseInv
<1>2. PICK N : Built(N)
  BY <1>1, BuiltState
<1>3. merged' = Joint
  BY ConnectMerges
<1>4. IsNetwork(Joint)
  BY <1>2, JointNetwork
<1>5. IsNetwork(merged')
  BY <1>3, <1>4
<1>6. Init'
  BY <1>1, <1>5 DEF Init
<1> QED
  BY <1>1, <1>6 DEF CollapseInv

LEMMA AlwaysAll == CollapseInv => AllInv
BY InitAll DEF CollapseInv

LEMMA StepCollapse ==
    ReadInv /\ FrameInv /\ CollapseInv /\ [NNext]_nvars => CollapseInv'
<1> SUFFICES ASSUME ReadInv, FrameInv, CollapseInv, [NNext]_nvars PROVE CollapseInv'
  OBVIOUS
<1>1. CASE Connect
  BY <1>1, ConnectCollapse
<1>2. CASE CollapseStep
  <2>1. AllInv'
    BY <1>2, AlwaysAll, StepAll DEF CollapseStep
  <2> QED
    BY <1>2, <2>1 DEF CollapseStep, CollapseInv
<1>3. CASE UNCHANGED vars /\ stage # "collapse" /\ stage' # "collapse"
  BY <1>3, SameInit DEF CollapseInv
<1>4. CASE UNCHANGED nvars
  <2>1. UNCHANGED vars /\ stage' = stage
    BY <1>4 DEF nvars, building
  <2>2. AllInv => AllInv'
    BY <2>1, StepAll
  <2> QED
    BY <2>1, <2>2, SameInit DEF CollapseInv
<1>5. CASE Refused
  BY <1>4, <1>5 DEF Refused
<1> QED
  BY <1>1, <1>2, <1>3, <1>4, <1>5 DEF NNext, ReadWays, ReadNodes, MaskAccess, ScanWays, KeepFrame,
     RefuseSpanning, RefuseWindow, ShiftFrame, Stitch

----------------------------------------------------------------------------
(* The results *)

LEMMA StepBuilder ==
    ReadInv /\ FrameInv /\ MergeInv /\ CollapseInv /\ [NNext]_nvars
      => (ReadInv /\ FrameInv /\ MergeInv /\ CollapseInv)'
BY StepRead, StepFrame, StepMerge, StepCollapse

LEMMA InitBuilder == NInit => ReadInv /\ FrameInv /\ MergeInv /\ CollapseInv
<1>1. NInit => MergeInv
  BY DEF NInit, MergeInv
<1> QED
  BY <1>1, InitRead, InitFrame, InitCollapse

LEMMA BuilderInvariance == NSpec => [](ReadInv /\ FrameInv /\ MergeInv /\ CollapseInv)
<1> QED BY InitBuilder, StepBuilder, PTL DEF NSpec

\* For every extract, half turn, window and size: each node is where the extract
\* has it up to whole turns, the frame is at most half a turn wide and in range,
\* it sticks out if roads lie on both sides, and a refused region fits no smaller
\* arc (network.rs 256 to 304, stitch and lookup included).
THEOREM FrameAlwaysSound == NSpec => []FrameIsSound
<1> QED BY BuilderInvariance, Sound, PTL

\* For every extract, limit and size: what the collapse is given is the road map
\* of the extract, junctions merged on the meridian and numbered by their lowest
\* id (pbf.rs, network.rs 305 to 370).
THEOREM MergedAlwaysAsDrawn == NSpec => []MergedAsDrawn
<1>1. ReadInv /\ FrameInv /\ MergeInv => MergedAsDrawn
  BY AlwaysRoadMap DEF MergedAsDrawn
<1> QED BY <1>1, BuilderInvariance, PTL

\* For every extract, limit and size: what Network hands to Collapse is a network
\* that Collapse takes, it stays the road map of the extract while it is
\* collapsed, and of it no segment is lost or doubled, no chain shares a node,
\* every finished edge follows the roads and no distance between the nodes that
\* stay changes (network.rs from the scan to the end).
THEOREM FinishedAsDrawn ==
    NSpec => [](stage = "collapse" =>
                  /\ IsRoadMap /\ ChainsDisjoint /\ SegmentsOnce /\ EdgesFollowRoads
                  /\ DistancesPreserved)
<1>1. ReadInv /\ FrameInv /\ MergeInv /\ CollapseInv
        => (stage = "collapse" =>
              /\ IsRoadMap /\ ChainsDisjoint /\ SegmentsOnce /\ EdgesFollowRoads
              /\ DistancesPreserved)
  <2>1. AllInv => /\ ChainsDisjoint /\ SegmentsOnce /\ EdgesFollowRoads
                  /\ DistancesPreserved
    BY ChainsApart, SegmentsCounted, EdgesFollow, DistancesKept DEF AllInv
  <2> QED
    BY <2>1, AlwaysAll, AlwaysRoadMap
<1> QED BY <1>1, BuilderInvariance, PTL
=============================================================================
