--------------------------------- MODULE Grid ---------------------------------
(***************************************************************************)
(* The snapping grid (crates/core/src/grid.rs): how it is laid out over a  *)
(* graph, what each cell holds, and what a ring of cells offers to a       *)
(* query.  The loop over the rings is a step of Query.                     *)
(*                                                                         *)
(* Abstracted data: cells are kept as the sets their CSR rows hold;        *)
(* projections are whole numbers of the unit (the instances are drawn on a *)
(* lattice fine enough for that); MIN_CELL_METERS, a millimetre, is below  *)
(* the unit and so zero.                                                   *)
(***************************************************************************)
EXTENDS RoadGraph

CONSTANTS
    MaxCells,   \* MAX_CELLS
    MaxCols     \* the 4096 columns a grid may have

ASSUME GridAssumption == MaxCells \in Nat \ {0} /\ MaxCols \in Nat \ {0}

Least(x, y) == IF x < y THEN x ELSE y
Greatest(x, y) == IF x > y THEN x ELSE y
Clamp(x, lo, hi) == Greatest(lo, Least(x, hi))
Gap(x, y) == IF x < y THEN y - x ELSE x - y

----------------------------------------------------------------------------
(* Layout *)

Height(g) == g.bbox.max[1] - g.bbox.min[1]
Width(g) == g.bbox.max[2] - g.bbox.min[2]

TargetCells(g) == Clamp(NodeCount(g), 1, MaxCells)

\* As many columns as rows, in proportion to the box: the rounded root of
\* the target times the aspect ratio.
Cols(g) ==
    LET flat == Width(g) = 0 \/ Height(g) = 0
        w == IF flat THEN 1 ELSE Width(g)
        h == IF flat THEN 1 ELSE Height(g)
        Fits(c) == 4 * TargetCells(g) * w < (2 * c + 1) * (2 * c + 1) * h
    IN  Clamp(CHOOSE c \in 0..MaxCols :
                 /\ Fits(c) \/ c = MaxCols
                 /\ \A lower \in 0..(c - 1) : ~Fits(lower),
              1, MaxCols)

Rows(g) ==
    LET c == Cols(g)
    IN  Clamp((2 * TargetCells(g) + c) \div (2 * c), 1, MaxCells \div c)

\* One coordinate of col_row_of: the cell along an axis, clamped into the
\* grid.  A box without extent has cells of no width.
CellAlong(x, from, span, n) ==
    IF span = 0 THEN IF x <= from THEN 0 ELSE n - 1
    ELSE Clamp(((x - from) * n) \div span, 0, n - 1)

\* Column and row of a point, in a grid of so many columns and rows.
ColRowIn(g, p, cols, rows) ==
    <<CellAlong(Lon(p), g.bbox.min[2], Width(g), cols),
      CellAlong(Lat(p), g.bbox.min[1], Height(g), rows)>>

----------------------------------------------------------------------------
(* What the cells hold *)

\* The shape segments that are indexed: those of the direction whose
\* geometry the pool stores.
Canonical(g, e) == EdgeSource(g, e) < At(g.edges, e).target
Segments(g) ==
    UNION {{e} \X (0..At(g.edges, e).geo_len) :
              e \in {x \in EdgeIndices(g) : Canonical(g, x)}}

\* Cell lies in the rectangle between two cells.
Between(one, two, cell) ==
    \A axis \in 1..2 :
        /\ Least(one[axis], two[axis]) <= cell[axis]
        /\ cell[axis] <= Greatest(one[axis], two[axis])

\* Grid::build, as pairs of a cell and what is filed under it.  A node is in
\* its own cell, a segment in every cell of the rectangle between the cells
\* of its ends.
BuildGrid(g) ==
    LET cols == Cols(g)
        rows == Rows(g)
        cells == (0..(cols - 1)) \X (0..(rows - 1))
        Cell(p) == ColRowIn(g, p, cols, rows)
        Crosses(cell, s) == Between(Cell(ShapePoint(g, s[1], s[2])),
                                    Cell(ShapePoint(g, s[1], s[2] + 1)), cell)
    IN  [cols |-> cols, rows |-> rows,
         nodes |-> {<<Cell(At(g.nodes, n)), n>> : n \in NodeIndices(g)},
         segments |-> {x \in cells \X Segments(g) : Crosses(x[1], x[2])}]

\* A graph with its grid, as Graph::assemble leaves it.
Loaded(g) ==
    [shifted |-> g.shifted, bbox |-> g.bbox, nodes |-> g.nodes,
     offsets |-> g.offsets, edges |-> g.edges, geometry |-> g.geometry,
     grid |-> BuildGrid(g)]

ColRow(g, p) == ColRowIn(g, p, g.grid.cols, g.grid.rows)

----------------------------------------------------------------------------
(* Rings *)

MaxRing(g, center) ==
    Greatest(Greatest(center[1], g.grid.cols - 1 - center[1]),
             Greatest(center[2], g.grid.rows - 1 - center[2]))

Ring(g, center, r) ==
    {cell \in (0..(g.grid.cols - 1)) \X (0..(g.grid.rows - 1)) :
        Greatest(Gap(cell[1], center[1]), Gap(cell[2], center[2])) = r}

\* Faulty: the bound is a whole ring too far out.
BugBoundTooFar(g, r, d2) ==
    \/ r * r * Width(g) * Width(g) <= d2 * g.grid.cols * g.grid.cols
    \/ r * r * Height(g) * Height(g) <= d2 * g.grid.rows * g.grid.rows

\* (r - 1) times the smaller side of a cell is at most the root of d2.
BoundWithin(g, r, d2) ==
    LET m == Greatest(r - 1, 0)
    IN  \/ m * m * Width(g) * Width(g) <= d2 * g.grid.cols * g.grid.cols
        \/ m * m * Height(g) * Height(g) <= d2 * g.grid.rows * g.grid.rows

----------------------------------------------------------------------------
(* What a query finds in a cell *)

\* A node as a candidate: ties are settled by its index.
NodeAt(g, q, n) == [key |-> <<n, 0>>, t |-> 0, point |-> At(g.nodes, n),
                    d2 |-> Distance2(q, At(g.nodes, n))]

\* The point of segment s nearest to q, t in units of the squared length.
Projection(g, q, s) ==
    LET p1 == ShapePoint(g, s[1], s[2])
        p2 == ShapePoint(g, s[1], s[2] + 1)
        dx == Lon(p2) - Lon(p1)
        dy == Lat(p2) - Lat(p1)
        len2 == dx * dx + dy * dy
        t == IF len2 = 0 THEN 0
             ELSE Clamp((Lon(q) - Lon(p1)) * dx + (Lat(q) - Lat(p1)) * dy, 0, len2)
        point == IF len2 = 0 THEN p1
                 ELSE <<Lat(p1) + (t * dy) \div len2, Lon(p1) + (t * dx) \div len2>>
    IN  [key |-> s, t |-> t, point |-> point, d2 |-> Distance2(q, point)]

\* Nearer, and of equals the smaller key.
Better(x, y) ==
    \/ x.d2 < y.d2
    \/ /\ x.d2 = y.d2
       /\ x.key[1] < y.key[1] \/ (x.key[1] = y.key[1] /\ x.key[2] <= y.key[2])

BestOf(candidates) == CHOOSE x \in candidates : \A y \in candidates : Better(x, y)

Filed(index, cells) == {x[2] : x \in {y \in index : y[1] \in cells}}

NodesAt(g, q, cells) == {NodeAt(g, q, n) : n \in Filed(g.grid.nodes, cells)}

RoadsAt(g, q, mask, cells) ==
    {Projection(g, q, s) :
        s \in {x \in Filed(g.grid.segments, cells) : Usable(g, x[1], mask)}}
=============================================================================
