---------------------------- MODULE MCRawDeviceNode ----------------------------
(***************************************************************************)
(* A small instance of RawDeviceNode.                                      *)
(***************************************************************************)
EXTENDS RawDeviceNode

CONSTANTS p1, p2, k1, k2, k3
=============================================================================
