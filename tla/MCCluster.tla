------------------------------ MODULE MCCluster ------------------------------
(***************************************************************************)
(* A small instance of Cluster.                                            *)
(***************************************************************************)
EXTENDS Cluster
=============================================================================
