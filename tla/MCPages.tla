------------------------------ MODULE MCPages ------------------------------
(* A small instance of Pages: two regions, one of them in the demo, and a  *)
(* manifest that drops a region or lists it twice.                         *)
EXTENDS Pages

CONSTANTS a, b, u, car, here

Row1(r) == [id |-> r, url |-> u, keep |-> car]

SmallManifests == {<<Row1(a), Row1(b)>>, <<Row1(a)>>, <<Row1(a), Row1(a)>>}

\* The publisher's runner starts from an empty checkout.
NoOldIndex == {<<>>}
=============================================================================
