------------------------------- MODULE Commands -------------------------------
(***************************************************************************)
(* The command channel of the agent: rows the app inserts in               *)
(* public.commands reach the agents of the cluster over a Realtime         *)
(* WebSocket and through the catch-up query that follows every (re)join,   *)
(* and each delivery becomes a goroutine that runs Dispatcher.Handle.      *)
(* Several agents, their crashes and restarts, dropped and half-open       *)
(* connections, duplicate deliveries and lost HTTP calls are in the model; *)
(* tokens, the heartbeat watchdog and snapshot pushes are not.             *)
(*                                                                         *)
(* Time enters through `overdue` alone: by which clocks a row's expires_at *)
(* is in the past. Each agent compares it with the time.Now() of its host, *)
(* so for each clock it may become true at any moment.                     *)
(*                                                                         *)
(* A few definitions have faulty variants next to them (ClaimMatchesById   *)
(* beside ClaimMatches): no action uses them. Substituting one for its     *)
(* original must make TLC refute a property, which shows that the property *)
(* depends on that piece of code.                                          *)
(***************************************************************************)
EXTENDS Requests, Naturals, FiniteSets

CONSTANTS
  Commands,      \* row ids the app may insert: ids order the catch-up query
  AppRequests,   \* what the app may ask for
  Agents,        \* agent processes configured for the cluster
  Clocks,        \* of their hosts
  ClockOf,       \* the clock that an agent reads
  Threads,       \* goroutines of one agent that run Handle at the same time
  CatchUpLimit,  \* limit= of the catch-up query, 200 in the code
  Budget         \* how many faults of each kind a behaviour may contain

Faults == {"drop", "crash", "call"}

ASSUME CommandsAssumption == Commands \subseteq Nat \ {0}
ASSUME RequestsAssumption == AppRequests \subseteq Request
ASSUME ClockAssumption    == ClockOf \in [Agents -> Clocks]
ASSUME LimitAssumption    == CatchUpLimit \in Nat
ASSUME BudgetAssumption   == Budget \in [Faults -> Nat]

Workers   == Agents \X Threads
NoCommand == 0

VARIABLES
  \* The tables of Supabase, column by column.
  row,          \* status of the row, "absent" before the INSERT
  request,      \* kind, payload and presence of expires_at
  overdue,      \* the clocks that are past expires_at
  claimedLate,  \* claimed when the claimant's clock was past expires_at
  \* Proxmox.
  task,         \* the task of the last accepted call for the command
  starts,       \* how many calls Proxmox accepted for it
  \* Each agent process.
  up,           \* the process runs
  ws,           \* its Realtime connection
  wire,         \* INSERT events sent on that connection and not yet read
  catchUps,     \* catch-up goroutines waiting for the query's answer
  spawned,      \* deliveries whose goroutine has not run yet, a bag of rows
  \* Each goroutine in Handle.
  pc, job, verdict,
  \* Bookkeeping of the model.
  budget,       \* faults that may still happen
  cut           \* claimed rows whose claimant was cut off before completing

store  == <<row, request, overdue, claimedLate>>
pve    == <<task, starts>>
link   == <<up, ws, wire, catchUps, spawned>>
thread == <<pc, job, verdict>>
vars   == <<store, pve, link, thread, budget, cut>>

Statuses == {"absent", "pending", "claimed", "done", "failed", "expired"}
Finals   == {"done", "failed", "expired"}
Holding  == {"dispatch", "await", "complete"}  \* after a successful claim
Steps    == {"idle", "ttl", "claim", "writeOff"} \cup Holding

Init ==
  /\ row = [c \in Commands |-> "absent"]
  /\ request \in [Commands -> AppRequests]
  /\ overdue = [c \in Commands |-> {}]
  /\ claimedLate = [c \in Commands |-> FALSE]
  /\ task = [c \in Commands |-> "none"]
  /\ starts = [c \in Commands |-> 0]
  /\ up = [a \in Agents |-> FALSE]
  /\ ws = [a \in Agents |-> "down"]
  /\ wire = [a \in Agents |-> {}]
  /\ catchUps = [a \in Agents |-> 0]
  /\ spawned = [a \in Agents |-> [c \in Commands |-> 0]]
  /\ pc = [w \in Workers |-> "idle"]
  /\ job = [w \in Workers |-> NoCommand]
  /\ verdict = [w \in Workers |-> "none"]
  /\ budget = Budget
  /\ cut = {}

Spend(fault) == /\ budget[fault] > 0
                /\ budget' = [budget EXCEPT ![fault] = @ - 1]

-------------------------------------------------------------------------------
(* The app, Supabase's change feed and the clock.                          *)

\* The app inserts a row; the change feed sends it on every joined connection.
\* What the row asks for was chosen at the start.
Insert(c) ==
  /\ row[c] = "absent"
  /\ row' = [row EXCEPT ![c] = "pending"]
  /\ wire' = [a \in Agents |->
                IF ws[a] = "joined" THEN wire[a] \cup {c} ELSE wire[a]]
  /\ UNCHANGED <<request, overdue, claimedLate, pve, up, ws, catchUps, spawned,
                 thread, budget, cut>>

\* Clock k passes the deadline of a row.
PassDeadline(k, c) ==
  /\ row[c] # "absent"
  /\ request[c].ttl
  /\ k \notin overdue[c]
  /\ overdue' = [overdue EXCEPT ![c] = @ \cup {k}]
  /\ UNCHANGED <<row, request, claimedLate, pve, link, thread, budget, cut>>

-------------------------------------------------------------------------------
(* The agent process and its connection.                                   *)

Boot(a) ==
  /\ ~up[a]
  /\ up' = [up EXCEPT ![a] = TRUE]
  /\ UNCHANGED <<store, pve, ws, wire, catchUps, spawned, thread, budget, cut>>

\* The catch-up goroutine a join starts (`go onConnected(ctx)`).
CatchUpsUnchanged(a) == catchUps[a]
CatchUpsAfterJoin(a) == catchUps[a] + 1

Join(a) ==
  /\ up[a]
  /\ ws[a] = "down"
  /\ ws' = [ws EXCEPT ![a] = "joined"]
  /\ catchUps' = [catchUps EXCEPT ![a] = CatchUpsAfterJoin(a)]
  /\ UNCHANGED <<store, pve, up, wire, spawned, thread, budget, cut>>

\* The connection dies and takes the events on it along. The agent may see it
\* at once, or only when its watchdog closes the socket (Reconnect).
Drop(a) ==
  /\ ws[a] = "joined"
  /\ Spend("drop")
  /\ \E s \in {"down", "halfOpen"} : ws' = [ws EXCEPT ![a] = s]
  /\ wire' = [wire EXCEPT ![a] = {}]
  /\ UNCHANGED <<store, pve, up, catchUps, spawned, thread, cut>>

Reconnect(a) ==
  /\ ws[a] = "halfOpen"
  /\ ws' = [ws EXCEPT ![a] = "down"]
  /\ UNCHANGED <<store, pve, up, wire, catchUps, spawned, thread, budget, cut>>

\* The read loop hands an INSERT event to a new goroutine.
Deliver(a, c) ==
  /\ ws[a] = "joined"
  /\ c \in wire[a]
  /\ wire' = [wire EXCEPT ![a] = @ \ {c}]
  /\ spawned' = [spawned EXCEPT ![a][c] = @ + 1]
  /\ UNCHANGED <<store, pve, up, ws, catchUps, thread, budget, cut>>

\* The rows the catch-up query returns: the first CatchUpLimit pending ids.
PendingRowsInTime ==
  {c \in Commands : row[c] = "pending" /\ overdue[c] = {}}
PendingRows ==
  LET pending == {c \in Commands : row[c] = "pending"}
  IN  {c \in pending : Cardinality({d \in pending : d < c}) < CatchUpLimit}

\* The query is answered, and `go handleCommand` runs for each row of it.
CatchUp(a) ==
  /\ catchUps[a] > 0
  /\ catchUps' = [catchUps EXCEPT ![a] = @ - 1]
  /\ spawned' = [spawned EXCEPT ![a] =
                   [c \in Commands |-> IF c \in PendingRows THEN @[c] + 1 ELSE @[c]]]
  /\ UNCHANGED <<store, pve, up, ws, wire, thread, budget, cut>>

\* The query fails: a warning is logged and nothing is retried.
CatchUpFails(a) ==
  /\ catchUps[a] > 0
  /\ Spend("call")
  /\ catchUps' = [catchUps EXCEPT ![a] = @ - 1]
  /\ UNCHANGED <<store, pve, up, ws, wire, spawned, thread, cut>>

\* The process ends, by a crash, a signal or a revoked token: Start returns
\* without waiting for the goroutines that run Handle.
Crash(a) ==
  /\ up[a]
  /\ Spend("crash")
  /\ up' = [up EXCEPT ![a] = FALSE]
  /\ ws' = [ws EXCEPT ![a] = "down"]
  /\ wire' = [wire EXCEPT ![a] = {}]
  /\ catchUps' = [catchUps EXCEPT ![a] = 0]
  /\ spawned' = [spawned EXCEPT ![a] = [c \in Commands |-> 0]]
  /\ pc' = [w \in Workers |-> IF w[1] = a THEN "idle" ELSE pc[w]]
  /\ job' = [w \in Workers |-> IF w[1] = a THEN NoCommand ELSE job[w]]
  /\ verdict' = [w \in Workers |-> IF w[1] = a THEN "none" ELSE verdict[w]]
  /\ cut' = cut \cup {job[w] : w \in {v \in Workers : v[1] = a /\ pc[v] \in Holding}}
  /\ UNCHANGED <<store, pve>>

-------------------------------------------------------------------------------
(* Dispatcher.Handle, one action per call it makes and per outcome.        *)

Goto(w, step) == pc' = [pc EXCEPT ![w] = step]
Settle(w, v)  == /\ Goto(w, "complete")
                 /\ verdict' = [verdict EXCEPT ![w] = v]
                 /\ UNCHANGED job
Leave(w)      == /\ Goto(w, "idle")
                 /\ job' = [job EXCEPT ![w] = NoCommand]
                 /\ verdict' = [verdict EXCEPT ![w] = "none"]

\* A spawned goroutine starts to run.
Start(w, c) ==
  /\ pc[w] = "idle"
  /\ spawned[w[1]][c] > 0
  /\ spawned' = [spawned EXCEPT ![w[1]][c] = @ - 1]
  /\ Goto(w, "ttl")
  /\ job' = [job EXCEPT ![w] = c]
  /\ UNCHANGED <<store, pve, up, ws, wire, catchUps, verdict, budget, cut>>

Late(w) == ClockOf[w[1]] \in overdue[job[w]]

\* Where the TTL check sends the goroutine.
AfterTTLUnclaimed(w) == IF Late(w) THEN "complete" ELSE "claim"
AfterTTLIgnored(w) == "claim"
AfterTTL(w) == IF Late(w) THEN "writeOff" ELSE "claim"

CheckTTL(w) ==
  /\ pc[w] = "ttl"
  /\ Goto(w, AfterTTL(w))
  /\ verdict' = [verdict EXCEPT ![w] =
                   IF AfterTTL(w) = "claim" THEN "none" ELSE "expired"]
  /\ UNCHANGED <<store, pve, link, job, budget, cut>>

Claiming(w) == pc[w] \in {"claim", "writeOff"}

\* The filter of the claiming PATCH.
ClaimMatchesById(c) == row[c] # "absent"
ClaimMatchesUnfinished(c) == row[c] \in {"pending", "claimed"}
ClaimMatches(c) == row[c] = "pending"

MarkClaimed(w) ==
  /\ row' = [row EXCEPT ![job[w]] = "claimed"]
  /\ claimedLate' = [claimedLate EXCEPT ![job[w]] = Late(w)]
  /\ UNCHANGED <<request, overdue>>

ClaimWins(w) ==
  /\ Claiming(w)
  /\ ClaimMatches(job[w])
  /\ MarkClaimed(w)
  /\ Goto(w, IF pc[w] = "claim" THEN "dispatch" ELSE "complete")
  /\ UNCHANGED <<pve, link, job, verdict, budget, cut>>

\* Another goroutine, or another agent, was first.
ClaimMisses(w) ==
  /\ Claiming(w)
  /\ ~ClaimMatches(job[w])
  /\ Leave(w)
  /\ UNCHANGED <<store, pve, link, budget, cut>>

\* The PATCH fails before it reaches the table; on either branch Handle gives up.
ClaimFails(w) ==
  /\ Claiming(w)
  /\ Spend("call")
  /\ Leave(w)
  /\ UNCHANGED <<store, pve, link, cut>>

\* The PATCH is applied but its answer is lost: Handle gives up on a row it owns.
ClaimAnswerLost(w) ==
  /\ Claiming(w)
  /\ ClaimMatches(job[w])
  /\ Spend("call")
  /\ MarkClaimed(w)
  /\ cut' = cut \cup {job[w]}
  /\ Leave(w)
  /\ UNCHANGED <<pve, link>>

\* What the early returns of the validation do with a row already claimed.
RejectSilently(w) == Leave(w)
RejectRow(w) == Settle(w, "failed")

Reject(w) ==
  /\ pc[w] = "dispatch"
  /\ Rejected(request[job[w]])
  /\ RejectRow(w)
  /\ UNCHANGED <<store, pve, link, budget, cut>>

StartTask(c) == /\ task' = [task EXCEPT ![c] = "running"]
                /\ starts' = [starts EXCEPT ![c] = @ + 1]

Dispatch(w) ==
  /\ pc[w] = "dispatch"
  /\ ~Rejected(request[job[w]])
  /\ StartTask(job[w])
  /\ Goto(w, "await")
  /\ UNCHANGED <<store, link, job, verdict, budget, cut>>

\* Proxmox answers with an error, or the call never reached it.
DispatchRefused(w) ==
  /\ pc[w] = "dispatch"
  /\ ~Rejected(request[job[w]])
  /\ Settle(w, "failed")
  /\ UNCHANGED <<store, pve, link, budget, cut>>

\* The call starts a task but its answer does not come back within 15 s.
DispatchAnswerLost(w) ==
  /\ pc[w] = "dispatch"
  /\ ~Rejected(request[job[w]])
  /\ Spend("call")
  /\ StartTask(job[w])
  /\ Settle(w, "failed")
  /\ UNCHANGED <<store, link, cut>>

\* A Proxmox task ends, well or badly.
TaskEnds(c) ==
  /\ task[c] = "running"
  /\ \E s \in {"ok", "error"} : task' = [task EXCEPT ![c] = s]
  /\ UNCHANGED <<store, starts, link, thread, budget, cut>>

ExitVerdictUnread(c) == "done"
ExitVerdictVerbatim(c) == task[c]
ExitVerdict(c) == IF task[c] = "ok" THEN "done" ELSE "failed"

TaskSeen(w) ==
  /\ pc[w] = "await"
  /\ task[job[w]] \in {"ok", "error"}
  /\ Settle(w, ExitVerdict(job[w]))
  /\ UNCHANGED <<store, pve, link, budget, cut>>

AwaitUnlimited(w) == FALSE

\* The task still runs when ActionTimeout has passed.
AwaitTimesOut(w) ==
  /\ pc[w] = "await"
  /\ task[job[w]] = "running"
  /\ Settle(w, "failed")
  /\ UNCHANGED <<store, pve, link, budget, cut>>

AwaitFails(w) ==
  /\ pc[w] = "await"
  /\ Spend("call")
  /\ Settle(w, "failed")
  /\ UNCHANGED <<store, pve, link, cut>>

\* The completing PATCH filters on the id alone. Whether its answer arrives
\* changes nothing here.
Complete(w) ==
  /\ pc[w] = "complete"
  /\ row' = [row EXCEPT ![job[w]] = verdict[w]]
  /\ Leave(w)
  /\ UNCHANGED <<request, overdue, claimedLate, pve, link, budget, cut>>

CompleteFails(w) ==
  /\ pc[w] = "complete"
  /\ Spend("call")
  /\ cut' = cut \cup {job[w]}
  /\ Leave(w)
  /\ UNCHANGED <<store, pve, link>>

-------------------------------------------------------------------------------
Handle(w) ==
  \/ CheckTTL(w)
  \/ ClaimWins(w) \/ ClaimMisses(w)
  \/ Reject(w) \/ Dispatch(w) \/ DispatchRefused(w)
  \/ TaskSeen(w) \/ AwaitTimesOut(w)
  \/ Complete(w)

LostCall(w) ==
  \/ ClaimFails(w) \/ ClaimAnswerLost(w)
  \/ DispatchAnswerLost(w)
  \/ AwaitFails(w)
  \/ CompleteFails(w)

Agent(a) ==
  \/ Boot(a) \/ Join(a) \/ Drop(a) \/ Reconnect(a) \/ Crash(a)
  \/ CatchUp(a) \/ CatchUpFails(a)
  \/ \E c \in Commands : Deliver(a, c)

Next ==
  \/ \E c \in Commands : \/ Insert(c) \/ TaskEnds(c)
                         \/ \E k \in Clocks : PassDeadline(k, c)
  \/ \E a \in Agents : Agent(a)
  \/ \E w \in Workers : Handle(w) \/ LostCall(w) \/ \E c \in Commands : Start(w, c)

Spec == Init /\ [][Next]_vars

\* The supervisor restarts the process, the reconnect loop runs forever, the
\* watchdog closes a dead socket, and the Go scheduler runs every goroutine:
\* each HTTP call ends, at worst by its own timeout. Nothing is assumed of the
\* app, of Proxmox tasks or of the clock.
Fairness ==
  /\ \A a \in Agents :
       /\ WF_vars(Boot(a)) /\ WF_vars(Join(a)) /\ WF_vars(Reconnect(a))
       /\ WF_vars(CatchUp(a))
       /\ \A c \in Commands :
            /\ WF_vars(Deliver(a, c))
            /\ WF_vars(\E t \in Threads : Start(<<a, t>>, c))
  /\ \A w \in Workers : WF_vars(Handle(w))

FairSpec == Spec /\ Fairness
-------------------------------------------------------------------------------
(* Properties.                                                             *)

StoreTyped ==
  /\ row \in [Commands -> Statuses]
  /\ request \in [Commands -> AppRequests]
  /\ overdue \in [Commands -> SUBSET Clocks]
  /\ claimedLate \in [Commands -> BOOLEAN]
  /\ task \in [Commands -> {"none", "running", "ok", "error"}]
  /\ starts \in [Commands -> Nat]

LinkTyped ==
  /\ up \in [Agents -> BOOLEAN]
  /\ ws \in [Agents -> {"down", "joined", "halfOpen"}]
  /\ wire \in [Agents -> SUBSET Commands]
  /\ catchUps \in [Agents -> Nat]
  /\ spawned \in [Agents -> [Commands -> Nat]]

ThreadTyped ==
  /\ pc \in [Workers -> Steps]
  /\ job \in [Workers -> Commands \cup {NoCommand}]
  /\ verdict \in [Workers -> Finals \cup {"none"}]
  /\ \A w \in Workers : pc[w] # "idle" => job[w] \in Commands

\* Every column, connection and goroutine keeps its type: a row carries one of
\* the statuses the table allows, whichever branch of Handle completes it.
TypeOK ==
  /\ StoreTyped
  /\ LinkTyped
  /\ ThreadTyped
  /\ budget \in [Faults -> Nat]
  /\ cut \subseteq Commands

\* However often a command is delivered, by the change feed, by catch-ups, to
\* several agents and across restarts, Proxmox starts at most one task for it
\* (the claim of dispatcher.go:179-187).
StartedAtMostOnce == \A c \in Commands : starts[c] <= 1

\* What a final status tells the app is true: "done" only when the task the
\* agent started ended with exit status OK (dispatcher.go:276-281), "expired"
\* only when nothing was ever started (dispatcher.go:168-174).
FinalStatusIsTrue ==
  \A c \in Commands : /\ row[c] = "done" => task[c] = "ok"
                      /\ row[c] = "expired" => starts[c] = 0

\* A row that has its final status keeps it, although CompleteCommand filters
\* on the id alone (commands.go:79): only the claimant ever completes.
FinalIsFinal == [][\A c \in Commands : row[c] \in Finals => row'[c] = row[c]]_vars

Held(c) == \E w \in Workers : pc[w] \in Holding /\ job[w] = c

\* No row stays on "claimed" without a result while its claimant lives and its
\* calls get through (dispatcher.go:189-191): it is held by exactly one
\* goroutine, unless a crash or a lost call cut that goroutine off.
ClaimedIsHeld ==
  \A c \in Commands :
    /\ row[c] = "claimed" => Held(c) \/ c \in cut
    /\ \A v, w \in Workers :
         (pc[v] \in Holding /\ pc[w] \in Holding /\ job[v] = c /\ job[w] = c) => v = w

InHand(a, c) ==
  \/ c \in wire[a]
  \/ spawned[a][c] > 0
  \/ \E t \in Threads : /\ pc[<<a, t>>] \in {"ttl", "claim", "writeOff"}
                        /\ job[<<a, t>>] = c

NoCallLost == budget["call"] = Budget["call"]

\* Once an agent is joined and its catch-ups are answered, every pending row
\* is on its way to being claimed by it, wherever the INSERT fell between the
\* drop of the connection, the rejoin and the query (realtime.go:240-248,
\* runtime.go:110-128), unless a call was lost: a failed query or claim is not
\* retried.
NothingMissed ==
  NoCallLost =>
    \A a \in Agents : (ws[a] = "joined" /\ catchUps[a] = 0) =>
      \A c \in Commands : row[c] = "pending" => InHand(a, c)

\* The channel implements the ledger it promises to the app.
Ledger == INSTANCE CommandLedger WITH status <- row, runs <- starts
LedgerSpec == Ledger!LSpec

\* A pending row does not stay pending (the purpose of the catch-up,
\* runtime.go:110-114), unless a call was lost.
PendingIsTaken ==
  \A c \in Commands : row[c] = "pending" ~> (row[c] # "pending" \/ ~NoCallLost)

\* A claimed row gets its final status, even if the Proxmox task never ends
\* (ActionTimeout), unless its claimant is cut off.
ClaimIsSettled ==
  \A c \in Commands : row[c] = "claimed" ~> (row[c] \in Finals \/ c \in cut)

\* A pending row whose deadline has passed by every clock and that no
\* goroutine is claiming after an earlier TTL check.
OverdueUntaken(c) ==
  /\ row[c] = "pending"
  /\ overdue[c] = Clocks
  /\ \A w \in Workers : ~(pc[w] = "claim" /\ job[w] = c)

\* What the TTL is for (ARCHITECTURE.md:83-88): an agent that comes back after
\* a long interruption never runs an old command, however it learns of it.
OldNeverRuns == \A c \in Commands : [](OverdueUntaken(c) => [](starts[c] = 0))

\* ARCHITECTURE.md:83-86: a command that is past its expiry at the moment of
\* the claim is written off as expired "zonder uitvoering" (without execution).
LateClaimNeverRuns == \A c \in Commands : claimedLate[c] => starts[c] = 0
===============================================================================
