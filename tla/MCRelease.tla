----------------------------- MODULE MCRelease -----------------------------
(* A small instance of Release: two regions, one of whose sources moves.   *)
EXTENDS Release

CONSTANTS a, b, u, v, car, here

Row1(r, s) == [id |-> r, url |-> s, keep |-> car]

\* Both regions; a alone with its source moved; and a duplicate id.
SmallManifests ==
    {<<Row1(a, u), Row1(b, u)>>, <<Row1(a, v)>>, <<Row1(a, u), Row1(a, v)>>}

\* A runner starts from an empty checkout.
NoOldIndex == {<<>>}

\* Behaviours in which a job that dies has not uploaded its index.  Of these
\* the run asks whether the graphs it did upload can be held to an old entry:
\* three jobs, one that publishes, one that dies, and one that trusts.
GraphsFirst ==
    \/ FetchIndex \/ JobStep \/ RWorld
    \/ IndexFile \in todo /\ JobDies

GraphsFirstSpec == RInit /\ [][GraphsFirst]_rvars /\ WF_rvars(JobStep)
=============================================================================
