----------------------------- MODULE Catalogue -----------------------------
(***************************************************************************)
(* What `roughroute batch` promises the readers of index.json, without     *)
(* saying how: the list of regions changes only as a whole, and a new list *)
(* holds nothing but entries of the old one and entries whose file passed  *)
(* verification since.  Batch implements it (Batch!RefinesCatalogue).      *)
(***************************************************************************)
EXTENDS Naturals, Sequences

CONSTANTS
    Entry,       \* possible entries, records with fields id and sha
    Verified,    \* the entries that are true of a file that verifies
    FirstLists   \* what the list may be before the first run

VARIABLES
    listed,      \* the list the readers see
    fresh        \* entries verified since, not listed yet

vars == <<listed, fresh>>

\* Two entries that name the same file of the same region.
SameFile(e, f) == e.id = f.id /\ e.sha = f.sha

Init == listed \in FirstLists /\ fresh = {}

\* One region is built and verified.
Verify ==
    /\ \E e \in fresh' : e \in Verified /\ fresh' = fresh \cup {e}
    /\ UNCHANGED listed

\* A run completes: the list is replaced.
Publish(new) ==
    /\ \A i \in DOMAIN new :
        \/ new[i] \in fresh
        \/ \E j \in DOMAIN listed : SameFile(new[i], listed[j])
    /\ \A i, j \in DOMAIN new : new[i].id = new[j].id => i = j
    /\ listed' = new
    /\ fresh' = {}

\* A run starts, aborts or dies: what it verified is forgotten.
Discard == fresh' = {} /\ UNCHANGED listed

Next ==
    \/ Verify
    \/ listed' \in Seq(Entry) /\ Publish(listed')
    \/ Discard

Spec == Init /\ [][Next]_vars
=============================================================================
