----------------------------- MODULE MCRemoteConfig -----------------------------
(***************************************************************************)
(* Values of the constants of RemoteConfig for TLC: one of the published   *)
(* configurations refuses the running version.                             *)
(***************************************************************************)
EXTENDS RemoteConfig

Second    == {2}
OneOfEach == [s \in Steps |-> 1]
===============================================================================
