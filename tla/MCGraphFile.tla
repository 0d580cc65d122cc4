----------------------------- MODULE MCGraphFile -----------------------------
(* Parts small enough to be damaged in every cell, and pools of every shape. *)
EXTENDS GraphFile

Parts(flags, nodes, offsets, edges, geometry) ==
    [flags |-> flags, bbox |-> Empty.bbox, nodes |-> nodes, offsets |-> offsets,
     edges |-> edges, geometry |-> geometry]

Edge(target, off, len, reversed) ==
    [target |-> target, length_dm |-> 3, geo_off |-> off, geo_len |-> len,
     reversed |-> reversed, access |-> {0}]

\* Points at the edges of their ranges, and beyond.
Lats == {-7, -6, -1, 0, 6}
Lons == {-16, -14, -13, 0, 1, 13, 15}
Points == Lats \X Lons

\* Pools of two points; nothing refers to them.
Pools ==
    {Parts(flags, <<>>, <<0>>, <<>>, <<p, q>>) :
        flags \in {{}, {0}}, p \in Points, q \in Points}
\* Three nodes in a frame around the 180th meridian.
Frames ==
    {Parts(flags, <<<<0, x>>, <<1, y>>, <<2, z>>>>, <<0, 0, 0, 0>>, <<>>, <<>>) :
        flags \in {{}, {0}, {1}}, x \in Lons, y \in Lons, z \in Lons}

\* Two nodes and a road of one shape point, with rows and references that may
\* be wrong.
Roads ==
    {Parts({}, <<<<0, 0>>, <<2, 3>>>>, offsets,
           <<Edge(1, off, len, FALSE), Edge(target, off, len, TRUE)>>, <<<<1, 1>>, <<-2, 9>>>>) :
        offsets \in {<<0, 1, 2>>, <<0, 2, 2>>, <<0, 2, 1>>, <<1, 1, 2>>, <<0, 1, 1>>, <<0, 2>>},
        off \in 0..2, len \in 0..2, target \in {0, 2}}

\* A pool whose bytes are more than their count can hold.
Large == {Parts({}, <<>>, <<0>>, <<>>, [i \in 1..8 |-> IF i % 2 = 0 THEN <<-6, -13>> ELSE <<6, 13>>])}

GivenParts == Pools \cup Frames \cup Roads \cup Large

Town == Parts({}, <<<<0, 0>>, <<2, 3>>>>, <<0, 1, 2>>, <<Edge(1, 0, 2, FALSE), Edge(0, 0, 2, TRUE)>>,
              <<<<1, 1>>, <<-2, 9>>>>)
Crossing == Parts({0}, <<<<0, 12>>, <<2, 15>>>>, <<0, 1, 1>>, <<Edge(1, 0, 0, FALSE)>>, <<>>)
Bare == Parts({}, <<>>, <<0>>, <<>>, <<<<6, 13>>, <<-6, 13>>>>)

FragileParts == {Town, Crossing, Bare}
AllParts == GivenParts \cup FragileParts
Cells == 0..31
==============================================================================
