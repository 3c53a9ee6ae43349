-------------------------- MODULE MCClusterProvider --------------------------
(***************************************************************************)
(* Instances of ClusterProvider for TLC: one config, one Cluster, one or   *)
(* two locations, at most one foreign finalizer.                           *)
(***************************************************************************)
EXTENDS ClusterProvider, TLC

CONSTANTS n1, c1, l1, l2, f1

OneCluster == c1 :> n1
OneHome == n1 :> l1
=============================================================================
