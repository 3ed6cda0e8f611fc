----------------------------- MODULE ClusterImport -----------------------------
(***************************************************************************)
(* What the import of Harvester into Rancher promises: the stack settles   *)
(* on one cluster, Harvester joins that cluster and no other, and only     *)
(* then is a cloud credential for it recorded.                             *)
(***************************************************************************)
EXTENDS Naturals

VARIABLES
    cluster,    \* the cluster the stack recorded, 0 for none
    joined,     \* the cluster Harvester is connected to
    credential  \* the cluster of the recorded cloud credential

vars == <<cluster, joined, credential>>

Init == cluster = 0 /\ joined = 0 /\ credential = 0

Choose ==
    /\ cluster = 0
    /\ cluster' \in Nat \ {0}
    /\ UNCHANGED <<joined, credential>>

Join ==
    /\ cluster # 0 /\ joined = 0
    /\ joined' = cluster
    /\ UNCHANGED <<cluster, credential>>

Record ==
    /\ joined # 0 /\ credential = 0
    /\ credential' = joined
    /\ UNCHANGED <<cluster, joined>>

Next == Choose \/ Join \/ Record

Spec == Init /\ [][Next]_vars
=============================================================================
