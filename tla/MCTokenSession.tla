---------------------------- MODULE MCTokenSession ----------------------------
(***************************************************************************)
(* Values of the constants of TokenSession for TLC.                        *)
(***************************************************************************)
EXTENDS TokenSession

CONSTANTS main, t1, t2

MCOne == {t1}
MCTwo == {t1, t2}
===============================================================================
