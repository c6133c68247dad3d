------------------------------ MODULE MCCommands ------------------------------
(***************************************************************************)
(* Values of the constants of Commands for TLC: an ordinary power action,  *)
(* one that the validation refuses after the claim, and one without        *)
(* expires_at.                                                             *)
(***************************************************************************)
EXTENDS Commands, TLC

CONSTANTS a1, a2, t1, t2, hostClock

PowerRequest == [kind |-> "start", decodes |-> TRUE, guestKind |-> "qemu",
                 located |-> TRUE, nameOk |-> FALSE, password |-> "none",
                 ttl |-> TRUE]

MCRequests   == {PowerRequest, [PowerRequest EXCEPT !.kind = "lxc.create",
                                                    !.password = "corrupt",
                                                    !.ttl = FALSE]}
MCOneRequest == {PowerRequest}

MCOneAgent   == {a1}
MCTwoAgents  == {a1, a2}
\* Each agent on a host of its own, or all on one.
MCOwnClock == [a \in Agents |-> a]
MCHostClock == [a \in Agents |-> hostClock]

MCTwoThreads == {t1, t2}
MCOneThread  == {t1}

OneOfEach    == [drop |-> 1, crash |-> 1, call |-> 1]
NoFaults     == [drop |-> 0, crash |-> 0, call |-> 0]

Symmetry == Permutations({a1, a2}) \cup Permutations({t1, t2})
===============================================================================
