----------------------------- MODULE ReadCommands -----------------------------
(***************************************************************************)
(* The read-RPC channel of one agent process: a row of                     *)
(* public.read_commands asks for a GET on Proxmox, and every delivery of   *)
(* the row becomes a goroutine that runs ReadDispatcher.Handle.            *)
(*                                                                         *)
(* Deliveries reach the process as those of Commands do (the code is       *)
(* shared), so here a row may be delivered at any time after its INSERT    *)
(* and any number of times. `cut` remembers the claimed rows whose claimant*)
(* was cut off by a crash or a lost call.                                  *)
(***************************************************************************)
EXTENDS Naturals

CONSTANTS
  Reads,   \* rows the app may insert
  Readers  \* goroutines that run Handle at the same time

VARIABLES
  up,                    \* the process runs
  row, request,          \* the row's status; what it asks for
  overdue,               \* now() > expires_at
  gets,                  \* GETs sent for the row
  pc, job, verdict, cut  \* each goroutine in Handle

table  == <<row, request, overdue>>
reader == <<pc, job, verdict>>
vars   == <<up, table, gets, reader, cut>>

Finals  == {"done", "failed", "expired"}
Holding == {"check", "get", "complete"}  \* after a successful claim

\* A listed endpoint with usable parameters, another endpoint, or parameters that
\* are no flat object.
Kinds == {"get", "unlisted", "malformed"}

Init ==
  /\ up = FALSE
  /\ row = [c \in Reads |-> "absent"]
  /\ request \in [Reads -> Kinds]
  /\ overdue = [c \in Reads |-> FALSE]
  /\ gets = [c \in Reads |-> 0]
  /\ pc = [w \in Readers |-> "idle"]
  /\ job \in [Readers -> Reads]
  /\ verdict = [w \in Readers |-> "none"]
  /\ cut = {}

-------------------------------------------------------------------------------
(* The app and the clock.                                                  *)

Insert(c) ==
  /\ row[c] = "absent"
  /\ row' = [row EXCEPT ![c] = "pending"]
  /\ UNCHANGED <<up, request, overdue, gets, reader, cut>>

PassDeadline(c) ==
  /\ row[c] # "absent"
  /\ ~overdue[c]
  /\ overdue' = [overdue EXCEPT ![c] = TRUE]
  /\ UNCHANGED <<up, row, request, gets, reader, cut>>

-------------------------------------------------------------------------------
(* ReadDispatcher.Handle.                                                  *)

Goto(w, step) == pc' = [pc EXCEPT ![w] = step]
Leave(w)      == Goto(w, "idle") /\ verdict' = [verdict EXCEPT ![w] = "none"]
Settle(w, v)  == Goto(w, "complete") /\ verdict' = [verdict EXCEPT ![w] = v]

Deliver(w, c) ==
  /\ up
  /\ pc[w] = "idle"
  /\ row[c] # "absent"
  /\ Goto(w, "ttl")
  /\ job' = [job EXCEPT ![w] = c]
  /\ UNCHANGED <<up, table, gets, verdict, cut>>

CheckTTL(w) ==
  /\ pc[w] = "ttl"
  /\ Goto(w, IF overdue[job[w]] THEN "writeOff" ELSE "claim")
  /\ UNCHANGED <<up, table, gets, job, verdict, cut>>

Claiming(w) == pc[w] \in {"claim", "writeOff"}

\* What the late row is completed with: a status and a reason, both strings.
WrittenOffSwapped == "ttl"
WrittenOff == "expired"

\* The filter of the claiming PATCH.
ClaimMatchesUnfinished(c) == row[c] \in {"pending", "claimed"}
ClaimMatches(c) == row[c] = "pending"

ClaimWins(w) ==
  /\ Claiming(w)
  /\ ClaimMatches(job[w])
  /\ row' = [row EXCEPT ![job[w]] = "claimed"]
  /\ IF pc[w] = "claim" THEN Goto(w, "check") /\ UNCHANGED verdict
                        ELSE Settle(w, WrittenOff)
  /\ UNCHANGED <<up, request, overdue, gets, job, cut>>

\* The row was gone, or the PATCH did not reach the table.
ClaimMisses(w) ==
  /\ Claiming(w)
  /\ Leave(w)
  /\ UNCHANGED <<up, table, gets, job, cut>>

ClaimAnswerLost(w) ==
  /\ Claiming(w)
  /\ ClaimMatches(job[w])
  /\ row' = [row EXCEPT ![job[w]] = "claimed"]
  /\ cut' = cut \cup {job[w]}
  /\ Leave(w)
  /\ UNCHANGED <<up, request, overdue, gets, job>>

EndpointAllowed(c) == request[c] # "unlisted"
PathBuilt(c)       == request[c] # "malformed"

Refuse(w) ==
  /\ pc[w] = "check"
  /\ ~(EndpointAllowed(job[w]) /\ PathBuilt(job[w]))
  /\ Settle(w, "failed")
  /\ UNCHANGED <<up, table, gets, job, cut>>

SendGet(w) ==
  /\ pc[w] = "check"
  /\ EndpointAllowed(job[w]) /\ PathBuilt(job[w])
  /\ gets' = [gets EXCEPT ![job[w]] = @ + 1]
  /\ Goto(w, "get")
  /\ UNCHANGED <<up, table, job, verdict, cut>>

GetAnswered(w) ==
  /\ pc[w] = "get"
  /\ Settle(w, "done")
  /\ UNCHANGED <<up, table, gets, job, cut>>

\* An error, or no answer within Timeout.
GetUnlimited(w) == FALSE
GetFails(w) ==
  /\ pc[w] = "get"
  /\ Settle(w, "failed")
  /\ UNCHANGED <<up, table, gets, job, cut>>

\* The completing PATCH filters on the id alone.
Complete(w) ==
  /\ pc[w] = "complete"
  /\ row' = [row EXCEPT ![job[w]] = verdict[w]]
  /\ Leave(w)
  /\ UNCHANGED <<up, request, overdue, gets, job, cut>>

CompleteFails(w) ==
  /\ pc[w] = "complete"
  /\ cut' = cut \cup {job[w]}
  /\ Leave(w)
  /\ UNCHANGED <<up, table, gets, job>>

-------------------------------------------------------------------------------
(* The process.                                                            *)

Boot ==
  /\ ~up
  /\ up' = TRUE
  /\ UNCHANGED <<table, gets, reader, cut>>

Crash ==
  /\ up
  /\ up' = FALSE
  /\ cut' = cut \cup {job[w] : w \in {v \in Readers : pc[v] \in Holding}}
  /\ pc' = [w \in Readers |-> "idle"]
  /\ verdict' = [w \in Readers |-> "none"]
  /\ UNCHANGED <<table, gets, job>>

Handle(w) ==
  \/ CheckTTL(w) \/ ClaimWins(w) \/ ClaimMisses(w)
  \/ Refuse(w) \/ SendGet(w) \/ GetFails(w)
  \/ Complete(w)

Next ==
  \/ Boot \/ Crash
  \/ \E c \in Reads : Insert(c) \/ PassDeadline(c)
  \/ \E w \in Readers :
       \/ Handle(w) \/ GetAnswered(w) \/ ClaimAnswerLost(w) \/ CompleteFails(w)
       \/ \E c \in Reads : Deliver(w, c)

Spec == Init /\ [][Next]_vars

\* Every goroutine runs, each of its calls ends, the GET by its own time limit.
\* Nothing makes Proxmox answer.
FairSpec == Spec /\ \A w \in Readers : WF_vars(Handle(w))

-------------------------------------------------------------------------------
(* Properties.                                                             *)

TypeOK ==
  /\ up \in BOOLEAN
  /\ row \in [Reads -> {"absent", "pending", "claimed"} \cup Finals]
  /\ request \in [Reads -> Kinds]
  /\ overdue \in [Reads -> BOOLEAN]
  /\ gets \in [Reads -> Nat]
  /\ pc \in [Readers -> {"idle", "ttl", "claim", "writeOff"} \cup Holding]
  /\ job \in [Readers -> Reads]
  /\ verdict \in [Readers -> Finals \cup {"none"}]
  /\ cut \subseteq Reads

\* The read channel keeps what the command channel promises: a row is taken
\* once, sent to Proxmox at most once and only after that, gets one final status,
\* "done" only when the GET was sent and "expired" only when it was not
\* (read_dispatcher.go:80-83, read_commands.go:23-24).
Ledger == INSTANCE CommandLedger WITH Commands <- Reads, status <- row, runs <- gets
LedgerSpec == Ledger!LSpec

\* A claimed read gets its final status, whether Proxmox answers or not
\* (read_dispatcher.go:66-69), unless its claimant is cut off.
ReadIsSettled ==
  \A c \in Reads : row[c] = "claimed" ~> (row[c] \in Finals \/ c \in cut)
===============================================================================
