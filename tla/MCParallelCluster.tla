-------------------------- MODULE MCParallelCluster --------------------------
(* A small instance of ParallelCluster: two calls of two pages each.        *)
EXTENDS ParallelCluster
=============================================================================
