----------------------------- MODULE MCDemoPage -----------------------------
(* A small instance of DemoPage: one region for both profiles, one for     *)
(* walkers, graphs that are rebuilt, or that the wasm module is too old    *)
(* for, and sites whose index runs ahead of a graph.                       *)
EXTENDS DemoPage

CONSTANTS cyprus, walk, old, new, bad, road, trail, sea

BothOrFoot == [r \in {cyprus, walk} |->
                  IF r = walk THEN {"foot"} ELSE {"car", "foot"}]

Site(i, g, h) == [index |-> [r \in {cyprus, walk} |-> IF r = walk THEN h ELSE i],
                  graph |-> [r \in {cyprus, walk} |-> IF r = walk THEN h ELSE g]]

Releases == {Site(old, old, old), Site(new, new, bad), Site(new, old, old),
             [index |-> [r \in {walk} |-> old],
              graph |-> [r \in {cyprus, walk} |-> IF r = walk THEN old ELSE None]]}

RoadsAndTrails ==
    {<<r, pf, p>> \in {cyprus, walk} \X {"car", "foot"} \X {road, trail} :
        pf \in BothOrFoot[r] /\ (p = trail => pf = "foot")}
=============================================================================
