------------------------------ MODULE MCAStar ------------------------------
(* Every search of AStar between two roads of small maps: four junctions on *)
(* one meridian, so that a straight line is a difference of positions (in   *)
(* cm), and roads that go straight or overshoot and come back.              *)
EXTENDS AStar

CONSTANTS car, foot

Abs(x) == IF x < 0 THEN -x ELSE x

\* One shape segment of x cm in dm: of a snap's partial, and of an edge.
Round(x) == (x + 5) \div 10
SegmentDm(x) == IF Round(x) = 0 THEN 1 ELSE Round(x)

\* Where the four junctions lie.
At(layout, n) == layout[n + 1]
Layouts == {<<0, 14, 28, 42>>, <<0, 126, 14, 326>>}

\* A pair of junctions is joined by no road, a straight one of one segment,
\* a footway, a road that overshoots its end by 34 cm and comes back, or a
\* straight one whose shape has a point every 34 or every 14 cm.
Kinds(p) ==
    CASE p = <<0, 1>> -> {"none", "plain", "bent", "every34"}
      [] p = <<0, 2>> -> {"none", "plain", "foot"}
      [] p = <<0, 3>> -> {"none", "plain"}
      [] p = <<1, 2>> -> {"none", "every14"}
      [] p = <<1, 3>> -> {"none", "plain", "bent"}
      [] p = <<2, 3>> -> {"plain", "foot"}

Pairs == {<<0, 1>>, <<0, 2>>, <<0, 3>>, <<1, 2>>, <<1, 3>>, <<2, 3>>}
Maps == {m \in [Pairs -> UNION {Kinds(p) : p \in Pairs}] :
            \A p \in Pairs : m[p] \in Kinds(p)}

\* The point a bent road turns at.
Bend(l, p) == At(l, p[2]) + 34

Length(l, p, kind) ==
    LET far == Abs(At(l, p[2]) - At(l, p[1]))
        InPieces(x) == (far \div x) * SegmentDm(x)
                         + IF far % x = 0 THEN 0 ELSE SegmentDm(far % x)
    IN  CASE kind \in {"plain", "foot"} -> SegmentDm(far)
          [] kind = "bent" ->
               SegmentDm(Abs(Bend(l, p) - At(l, p[1]))) + SegmentDm(34)
          [] kind = "every14" -> InPieces(14)
          [] kind = "every34" -> InPieces(34)

Access(kind) == IF kind = "foot" THEN {foot} ELSE {car, foot}

Both(l, p, kind) ==
    LET e == [from |-> p[1], to |-> p[2], len |-> Length(l, p, kind),
              access |-> Access(kind)]
    IN  {e, [e EXCEPT !.from = p[2], !.to = p[1]]}

\* A road is snapped to at an end, or halfway: a bent one, at its bend.
SnapPoint(l, p, kind, place) ==
    CASE place = "start" -> At(l, p[1])
      [] place = "end" -> At(l, p[2])
      [] place = "halfway" -> IF kind = "bent" THEN Bend(l, p)
                              ELSE (At(l, p[1]) + At(l, p[2])) \div 2

SnapAt(l, p, kind, place) ==
    LET x == SnapPoint(l, p, kind, place)
        along == IF kind = "bent" /\ place = "end"
                 THEN Round(Abs(Bend(l, p) - At(l, p[1])) + 34)
                 ELSE Round(Abs(x - At(l, p[1])))
        len == Length(l, p, kind)
    IN  [src |-> p[1], dst |-> p[2], length |-> len,
         d_src |-> IF along > len THEN len ELSE along]

Search(l, m, profile, p, place, q, goal) ==
    LET y == SnapPoint(l, q, m[q], goal)
    IN  [edges |-> UNION {Both(l, r, m[r]) : r \in {o \in Pairs : m[o] # "none"}},
         profile |-> profile,
         away |-> [n \in Nodes |-> Abs(At(l, n) - y)],
         a |-> SnapAt(l, p, m[p], place),
         b |-> SnapAt(l, q, m[q], goal)]

\* From every road at junction 0 to every road that ends at junction 3.
Open(m, profile) ==
    {p \in Pairs : m[p] # "none" /\ profile \in Access(m[p])}
Cases ==
    {c \in Layouts \X Maps \X Profiles \X {p \in Pairs : p[1] = 0}
          \X {"start", "halfway"} \X {p \in Pairs : p[2] = 3}
          \X {"end", "halfway"} : {c[4], c[6]} \subseteq Open(c[2], c[3])}

AllSearches == {Search(c[1], c[2], c[3], c[4], c[5], c[6], c[7]) : c \in Cases}
=============================================================================
