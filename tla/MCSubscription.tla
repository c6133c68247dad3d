---------------------------- MODULE MCSubscription ----------------------------
(***************************************************************************)
(* Values of the constants of Subscription for TLC: five seconds are one   *)
(* unit of time.                                                           *)
(***************************************************************************)
EXTENDS Subscription

Each == [refused |-> 2, closed |-> 1, silent |-> 2, write |-> 1]
===============================================================================
