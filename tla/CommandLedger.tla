---------------------------- MODULE CommandLedger -----------------------------
(***************************************************************************)
(* What the command channel promises to the app that inserts a command,    *)
(* whatever the number of agents, deliveries, reconnects and crashes: a    *)
(* command is taken once, started on Proxmox at most once and only after   *)
(* it was taken, and given at most one final status, which says what       *)
(* happened: "done" only for a command that was started, "expired" only    *)
(* for one that never was.                                                 *)
(***************************************************************************)
EXTENDS Naturals

CONSTANT Commands

VARIABLES
  status,  \* of the row of each command, "absent" before the INSERT
  runs     \* how many Proxmox tasks were started for it

lvars == <<status, runs>>

LInit == /\ status = [c \in Commands |-> "absent"]
         /\ runs = [c \in Commands |-> 0]

Submit(c) == /\ status[c] = "absent"
             /\ status' = [status EXCEPT ![c] = "pending"]
             /\ UNCHANGED runs

Take(c) == /\ status[c] = "pending"
           /\ status' = [status EXCEPT ![c] = "claimed"]
           /\ UNCHANGED runs

Run(c) == /\ status[c] = "claimed"
          /\ runs[c] = 0
          /\ runs' = [runs EXCEPT ![c] = 1]
          /\ UNCHANGED status

Settle(c, s) == /\ status[c] = "claimed"
                /\ s = "done" => runs[c] = 1
                /\ s = "expired" => runs[c] = 0
                /\ status' = [status EXCEPT ![c] = s]
                /\ UNCHANGED runs

LNext == \E c \in Commands :
           \/ Submit(c)
           \/ Take(c)
           \/ Run(c)
           \/ \E s \in {"done", "failed", "expired"} : Settle(c, s)

LSpec == LInit /\ [][LNext]_lvars
===============================================================================
