------------------------------ MODULE MCBatch ------------------------------
(* Small instances of Batch: two regions with two sources, or one region   *)
(* built again and again by changing binaries for changing URLs.           *)
EXTENDS Batch

CONSTANTS a, b, u, v, car, foot, here, there

Row1(r, s) == [id |-> r, url |-> s, keep |-> car]

Foot(r, s) == [id |-> r, url |-> s, keep |-> foot]

\* One region; both; both with b's source and profiles changed; and a
\* duplicate id.
SmallManifests ==
    {<<Row1(a, u)>>,
     <<Row1(a, u), Row1(b, u)>>,
     <<Row1(a, u), Foot(b, v)>>,
     <<Row1(a, u), Row1(a, v)>>}

\* One region that may move to another source.
JustOne == {<<Row1(a, u)>>, <<Row1(a, v)>>}

\* No index, or one from before format versions that lists a twice.
Legacy(r, k) == [id |-> r, link |-> here, sha |-> NoFile, source |-> u,
                 version |-> 0, profiles |-> k]

NoOldIndex == {<<>>}

SmallOldIndexes == {<<>>, <<Legacy(a, car), Legacy(a, foot)>>}
=============================================================================
