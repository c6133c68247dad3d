------------------------------- MODULE Snapshots -------------------------------
(***************************************************************************)
(* How the app comes to see the cluster: Proxmox's own state of one guest, *)
(* its aggregate /cluster/resources, which lags behind, and the snapshots  *)
(* that one agent process inserts: the push loop at every tick, and each   *)
(* command handler after it has waited for the aggregate to show what its  *)
(* command was to bring about. The app shows the row inserted last.        *)
(*                                                                         *)
(* The guest's states are numbered and have a status each. A command may   *)
(* bring about the status there was: a reboot does. Fetching and inserting *)
(* are separate calls, so pushes overtake one another. Lost calls and      *)
(* crashes may happen at any time.                                         *)
(***************************************************************************)
EXTENDS Naturals

CONSTANTS
  MaxVersion,  \* bound: states of the guest
  Statuses,    \* running, stopped, paused
  Ticker,      \* the push loop of runtime.Start
  Handlers     \* command handlers that run at the same time

ASSUME VersionAssumption == MaxVersion \in Nat
ASSUME TickerAssumption  == Ticker \notin Handlers

Pushers == Handlers \cup {Ticker}
Versions == 0 .. MaxVersion
Nothing == MaxVersion + 1

VARIABLES
  up,             \* the process runs
  truth,          \* the guest's state
  seen,           \* that of the aggregate
  status,         \* of each state; of those before seen it is forgotten
  shown,          \* that of the newest snapshot, Nothing before the first
  pc, want, got,  \* each pusher, what it waits for, what it fetched
  \* Bookkeeping for each handler:
  due,            \* the state that it is to show, 0 for any
  alike           \* the aggregate had yet to show an earlier one of that status

pve    == <<truth, seen, status>>
pusher == <<pc, want, got, due, alike>>
vars   == <<up, pve, shown, pusher>>

Init ==
  /\ up = FALSE
  /\ truth = 0 /\ seen = 0 /\ shown = Nothing
  /\ \E s \in Statuses : status = [v \in Versions |-> s]
  /\ pc = [p \in Pushers |-> "idle"]
  /\ want = [p \in Pushers |-> "nothing"]
  /\ got = [p \in Pushers |-> Nothing]
  /\ due = [p \in Pushers |-> 0]
  /\ alike = [p \in Pushers |-> FALSE]

Goto(p, step) == pc' = [pc EXCEPT ![p] = step]

\* The pusher is through: the ticker waits for its next tick.
Leave(p) ==
  /\ Goto(p, "idle")
  /\ want' = [want EXCEPT ![p] = "nothing"]
  /\ got' = [got EXCEPT ![p] = Nothing]
  /\ due' = [due EXCEPT ![p] = 0]
  /\ alike' = [alike EXCEPT ![p] = FALSE]

-------------------------------------------------------------------------------
(* Proxmox.                                                                *)

AggregateMoves ==
  /\ seen < truth
  /\ seen' \in seen + 1 .. truth
  /\ status' = [v \in Versions |-> status[IF v < seen' THEN seen' ELSE v]]
  /\ UNCHANGED <<up, truth, shown, pusher>>

\* The guest enters a new state, of status s.
Becomes(s) ==
  /\ truth < MaxVersion
  /\ truth' = truth + 1
  /\ status' = [v \in Versions |-> IF v > truth THEN s ELSE status[v]]

\* Without a command: the guest stops by itself, or somebody else acts.
GuestMoves ==
  /\ \E s \in Statuses : Becomes(s)
  /\ UNCHANGED <<up, seen, shown, pusher>>

-------------------------------------------------------------------------------
(* The command handlers.                                                   *)

\* The task of a power command brings about the status its kind is for.
Acted(h) ==
  /\ up
  /\ pc[h] = "idle"
  /\ Goto(h, "await")
  /\ \E s \in Statuses : Becomes(s) /\ want' = [want EXCEPT ![h] = s]
  /\ due' = [due EXCEPT ![h] = truth']
  /\ UNCHANGED <<up, seen, shown, got, alike>>

\* AwaitTaskCompletion has seen the task end, and the row is completed.
Completed(h) ==
  /\ pc[h] = "await"
  /\ Goto(h, "wait")
  /\ alike' = [alike EXCEPT ![h] =
                 \E v \in Versions : seen <= v /\ v < due[h] /\ status[v] = want[h]]
  /\ UNCHANGED <<up, pve, shown, want, got, due>>

\* An error of the completing PATCH ends handleCommand.
NotCompleted(h) ==
  /\ pc[h] = "await"
  /\ Leave(h)
  /\ UNCHANGED <<up, pve, shown>>

\* The command has failed, its deadline had passed, or another claimed its row,
\* which is no error of Handle: the handler waits all the same.
ActedInVain(h) ==
  /\ up
  /\ pc[h] = "idle"
  /\ Goto(h, "wait")
  /\ \E s \in Statuses : want' = [want EXCEPT ![h] = s]
  /\ UNCHANGED <<up, pve, shown, got, due, alike>>

\* A kind of command without an expected state, or a malformed payload.
ActedOtherwise(h) ==
  /\ up
  /\ pc[h] = "idle"
  /\ Goto(h, "fetch")
  /\ UNCHANGED <<up, pve, shown, want, got, due, alike>>

WaitSkipped(h) == TRUE
WaitOver(h) == status[seen] = want[h]

Matches(h) ==
  /\ pc[h] = "wait"
  /\ WaitOver(h)
  /\ Goto(h, "fetch")
  /\ want' = [want EXCEPT ![h] = "nothing"]
  /\ UNCHANGED <<up, pve, shown, got, due, alike>>

\* After 10 s the handler pushes what there is.
TimesOut(h) ==
  /\ pc[h] = "wait"
  /\ Goto(h, "fetch")
  /\ want' = [want EXCEPT ![h] = "nothing"]
  /\ due' = [due EXCEPT ![h] = 0]
  /\ alike' = [alike EXCEPT ![h] = FALSE]
  /\ UNCHANGED <<up, pve, shown, got>>

-------------------------------------------------------------------------------
(* pushOnce.                                                               *)

\* The first push follows the start, the others the ticks, whatever became of
\* the pushes before.
PushDueAtStart == shown = Nothing
PushDue == TRUE

Tick ==
  /\ up
  /\ pc[Ticker] = "idle"
  /\ PushDue
  /\ Goto(Ticker, "fetch")
  /\ UNCHANGED <<up, pve, shown, want, got, due, alike>>

\* An error of the fetch taken for an empty answer.
FetchUnchecked(p) ==
  /\ pc[p] = "fetch"
  /\ \E v \in {seen, Nothing} : got' = [got EXCEPT ![p] = v]
  /\ Goto(p, "insert")
  /\ UNCHANGED <<up, pve, shown, want, due, alike>>

Fetch(p) ==
  /\ pc[p] = "fetch"
  /\ got' = [got EXCEPT ![p] = seen]
  /\ Goto(p, "insert")
  /\ UNCHANGED <<up, pve, shown, want, due, alike>>

PushSnapshot(p) ==
  /\ pc[p] = "insert"
  /\ shown' = got[p]
  /\ Leave(p)
  /\ UNCHANGED <<up, pve>>

\* Errors are logged; whether the insert happened does not matter to the agent.
PushFails(p) ==
  /\ pc[p] \in {"fetch", "insert"}
  /\ \/ UNCHANGED shown
     \/ pc[p] = "insert" /\ shown' = got[p]
  /\ Leave(p)
  /\ UNCHANGED <<up, pve>>

-------------------------------------------------------------------------------
(* The process.                                                            *)

\* The supervisor starts it again and again.
Boot ==
  /\ ~up
  /\ up' = TRUE
  /\ UNCHANGED <<pve, shown, pusher>>

Crash ==
  /\ up
  /\ up' = FALSE
  /\ pc' = [p \in Pushers |-> "idle"]
  /\ want' = [p \in Pushers |-> "nothing"]
  /\ got' = [p \in Pushers |-> Nothing]
  /\ due' = [p \in Pushers |-> 0]
  /\ alike' = [p \in Pushers |-> FALSE]
  /\ UNCHANGED <<pve, shown>>

Next ==
  \/ AggregateMoves \/ GuestMoves \/ Tick \/ Boot \/ Crash
  \/ \E h \in Handlers :
       \/ Acted(h) \/ Completed(h) \/ NotCompleted(h)
       \/ ActedInVain(h) \/ ActedOtherwise(h) \/ Matches(h) \/ TimesOut(h)
  \/ \E p \in Pushers : Fetch(p) \/ PushSnapshot(p) \/ PushFails(p)

Spec == Init /\ [][Next]_vars

\* The aggregate catches up and every call ends. The ticker tries again and again,
\* across crashes, and some of its pushes get through.
Fairness ==
  /\ WF_vars(Boot) /\ WF_vars(AggregateMoves)
  /\ SF_vars(Tick) /\ SF_vars(Fetch(Ticker)) /\ SF_vars(PushSnapshot(Ticker))
  /\ \A h \in Handlers :
       WF_vars(TimesOut(h)) /\ WF_vars(Fetch(h)) /\ WF_vars(PushSnapshot(h))

FairSpec == Spec /\ Fairness

-------------------------------------------------------------------------------
(* Properties.                                                             *)

TypeOK ==
  /\ up \in BOOLEAN
  /\ truth \in Versions /\ seen \in 0 .. truth
  /\ shown \in Versions \cup {Nothing}
  /\ pc \in [Pushers -> {"idle", "await", "wait", "fetch", "insert"}]
  /\ status \in [Versions -> Statuses]
  /\ want \in [Pushers -> Statuses \cup {"nothing"}]
  /\ got \in [Pushers -> Versions \cup {Nothing}]
  /\ due \in [Pushers -> Versions] /\ alike \in [Pushers -> BOOLEAN]
  /\ \A p \in Pushers : pc[p] = "insert" <=> got[p] # Nothing

\* A handler that waited without running into its time limit fetches the state
\* its command brought about or a later one (runtime.go:192-195), although the
\* poll and the fetch are two calls, and others act in between: unless the
\* aggregate, when the wait began, had yet to show an earlier state of the same
\* status, which is all that the wait knows of a state. Of a reboot it had.
PushShowsAction ==
  \A h \in Handlers : pc[h] = "insert" /\ ~alike[h] => got[h] >= due[h]

\* Once the guest stays as it is, the app comes to see it so and goes on seeing
\* it, whichever pushes overtook which (runtime.go:196-197: "no correctness
\* issue").
ViewSettles == <>[](shown = truth)
===============================================================================
