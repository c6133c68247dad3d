---------------------------- MODULE MCCentralRefresh ----------------------------
(***************************************************************************)
(* Values of the constants of CentralRefresh for TLC.                      *)
(***************************************************************************)
EXTENDS CentralRefresh, TLC

AnyTopic == Permutations(Topics)
===============================================================================
