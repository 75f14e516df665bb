-------------------------- MODULE MCTopolvmCluster --------------------------
(***************************************************************************)
(* Small instances of TopolvmCluster.                                      *)
(***************************************************************************)
EXTENDS TopolvmCluster

CONSTANTS n1, n2, k1, k2

=============================================================================
