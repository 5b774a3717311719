------------------------- MODULE IdentityClusters -------------------------
(***************************************************************************)
(* What entity resolution promises about identity, whatever it decides on: *)
(* a record is identified once, as someone new or as someone known, and    *)
(* from then on it stays with the records it was identified with.  A       *)
(* cluster is the set of records that stand for one real-world entity.     *)
(***************************************************************************)
CONSTANT Records

VARIABLE clusters

Init == clusters = {}

\* A record no cluster holds founds one ...
Found(r) ==
    /\ r \notin UNION clusters
    /\ clusters' = clusters \cup {{r}}

\* ... or joins one.
Join(r) ==
    /\ r \notin UNION clusters
    /\ \E c \in clusters : clusters' = (clusters \ {c}) \cup {c \cup {r}}

\* Several clusters turn out to be the same entity.
Merge ==
    \E same \in SUBSET clusters :
        /\ same # {}
        /\ clusters' = (clusters \ same) \cup {UNION same}

Next == Merge \/ \E r \in Records : Found(r) \/ Join(r)

Spec == Init /\ [][Next]_clusters

===========================================================================
