------------------------------- MODULE MCKeySync -------------------------------
(***************************************************************************)
(* Values of the constants of KeySync for TLC.                             *)
(***************************************************************************)
EXTENDS KeySync

OneOfEach  == [s \in Steps |-> 1]
OneRegister == [s \in Steps |-> IF s = "register" THEN 1 ELSE 0]
===============================================================================
