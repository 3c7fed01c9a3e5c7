---------------------------- MODULE MCNodesProcessor ----------------------------
(* Three nodes, one of them of no managed cluster.                             *)
EXTENDS NodesProcessor
================================================================================
