---------------------------- MODULE CommandsProofs ----------------------------
(***************************************************************************)
(* Theorems about Commands, for any commands, agents, goroutines, limit    *)
(* and fault budget.                                                       *)
(***************************************************************************)
EXTENDS Commands, FiniteSetTheorems, TLAPS

\* A goroutine about to complete a row has a verdict to write; the expired
\* branch fixes it before the claim.
VerdictFixed ==
  \A w \in Workers : /\ pc[w] = "complete" => verdict[w] \in Finals
                     /\ pc[w] = "writeOff" => verdict[w] = "expired"

TypeInv == TypeOK /\ VerdictFixed

USE DEF NoCommand

LEMMA WorkerAgent == \A w \in Workers : w[1] \in Agents
BY DEF Workers

\* A goroutine that leaves Handle, or goes on to complete its row, stays typed.
LEMMA LeaveTyped ==
  ASSUME ThreadTyped, VerdictFixed, NEW w \in Workers, Leave(w)
  PROVE  (ThreadTyped /\ VerdictFixed)'
BY DEF ThreadTyped, VerdictFixed, Leave, Goto, Steps, Holding, Finals

LEMMA SettleTyped ==
  ASSUME ThreadTyped, VerdictFixed, NEW w \in Workers, pc[w] # "idle",
         NEW v \in Finals, Settle(w, v)
  PROVE  (ThreadTyped /\ VerdictFixed)'
BY DEF ThreadTyped, VerdictFixed, Settle, Goto, Steps, Holding, Finals

LEMMA SpendTyped ==
  ASSUME budget \in [Faults -> Nat], NEW k \in Faults, Spend(k)
  PROVE  budget' \in [Faults -> Nat]
BY DEF Spend

LEMMA InitTypeInv == Init => TypeInv
BY CommandsAssumption, BudgetAssumption
   DEF Init, TypeInv, TypeOK, StoreTyped, LinkTyped, ThreadTyped, VerdictFixed,
       Statuses, Steps, Holding, Finals

\* The store and Proxmox: only the app, the clock and Handle write them.
LEMMA StoreStep == TypeInv /\ [Next]_vars => StoreTyped'
<1> SUFFICES ASSUME TypeInv, [Next]_vars PROVE StoreTyped'
  OBVIOUS
<1> USE DEF TypeInv, TypeOK, StoreTyped, Statuses
<1>1. CASE UNCHANGED <<store, pve>>
  BY <1>1 DEF store, pve
<1>2. ASSUME NEW c \in Commands, Insert(c) PROVE StoreTyped'
  BY <1>2 DEF Insert, pve
<1>3. ASSUME NEW k \in Clocks, NEW c \in Commands, PassDeadline(k, c)
      PROVE  StoreTyped'
  BY <1>3 DEF PassDeadline, pve
<1>4. ASSUME NEW c \in Commands, TaskEnds(c) PROVE StoreTyped'
  BY <1>4 DEF TaskEnds, store
<1>5. ASSUME NEW w \in Workers, ClaimWins(w) \/ ClaimAnswerLost(w)
      PROVE StoreTyped'
  <2>1. MarkClaimed(w) /\ UNCHANGED pve
    BY <1>5 DEF ClaimWins, ClaimAnswerLost
  <2>2. Late(w) \in BOOLEAN
    BY DEF Late
  <2> QED BY <2>1, <2>2 DEF MarkClaimed, pve
<1>6. ASSUME NEW w \in Workers, Dispatch(w) \/ DispatchAnswerLost(w)
      PROVE StoreTyped'
  <2>1. StartTask(job[w]) /\ UNCHANGED store /\ job[w] \in Commands
    BY <1>6 DEF Dispatch, DispatchAnswerLost, ThreadTyped
  <2>2. PICK c \in Commands : StartTask(c)
    BY <2>1
  <2> QED BY <2>1, <2>2 DEF StartTask, store
<1>7. ASSUME NEW w \in Workers, Complete(w) PROVE StoreTyped'
  BY <1>7 DEF Complete, VerdictFixed, ThreadTyped, Finals, pve
<1> QED
  BY <1>1, <1>2, <1>3, <1>4, <1>5, <1>6, <1>7
  DEF Next, Agent, Handle, LostCall, vars, Boot, Join, Drop, Reconnect, Crash,
      CatchUp, CatchUpFails, Deliver, Start, CheckTTL, ClaimMisses, Reject,
      DispatchRefused, TaskSeen, AwaitTimesOut, ClaimFails, AwaitFails,
      CompleteFails

\* The connections and the deliveries they make.
LEMMA LinkStep == TypeInv /\ [Next]_vars => LinkTyped'
<1> SUFFICES ASSUME TypeInv, [Next]_vars PROVE LinkTyped'
  OBVIOUS
<1> USE DEF TypeInv, TypeOK, LinkTyped
<1>1. CASE UNCHANGED link
  BY <1>1 DEF link
<1>2. ASSUME NEW c \in Commands, Insert(c) PROVE LinkTyped'
  BY <1>2 DEF Insert
<1>3. ASSUME NEW a \in Agents, Boot(a) \/ Reconnect(a) PROVE LinkTyped'
  BY <1>3 DEF Boot, Reconnect
<1>4. ASSUME NEW a \in Agents, Join(a) PROVE LinkTyped'
  BY <1>4 DEF Join, CatchUpsAfterJoin
<1>5. ASSUME NEW a \in Agents, Drop(a) PROVE LinkTyped'
  BY <1>5 DEF Drop
<1>6. ASSUME NEW a \in Agents, Crash(a) PROVE LinkTyped'
  BY <1>6 DEF Crash
<1>7. ASSUME NEW a \in Agents, CatchUp(a) PROVE LinkTyped'
  BY <1>7 DEF CatchUp
<1>8. ASSUME NEW a \in Agents, CatchUpFails(a) PROVE LinkTyped'
  BY <1>8 DEF CatchUpFails
<1>9. ASSUME NEW a \in Agents, NEW c \in Commands, Deliver(a, c)
      PROVE LinkTyped'
  BY <1>9 DEF Deliver
<1>10. ASSUME NEW w \in Workers, NEW c \in Commands, Start(w, c)
       PROVE LinkTyped'
  BY <1>10, WorkerAgent DEF Start
<1> QED
  BY <1>1, <1>2, <1>3, <1>4, <1>5, <1>6, <1>7, <1>8, <1>9, <1>10
  DEF Next, Agent, Handle, LostCall, vars, PassDeadline, TaskEnds, CheckTTL,
      ClaimWins, ClaimMisses, Reject, Dispatch, DispatchRefused, TaskSeen,
      AwaitTimesOut, Complete, ClaimFails, ClaimAnswerLost,
      DispatchAnswerLost, AwaitFails, CompleteFails

\* The goroutines that run Handle.
LEMMA ThreadStep == TypeInv /\ [Next]_vars => (ThreadTyped /\ VerdictFixed)'
<1> SUFFICES ASSUME TypeInv, [Next]_vars
             PROVE  (ThreadTyped /\ VerdictFixed)'
  OBVIOUS
<1> USE DEF TypeInv, TypeOK
<1>1. CASE UNCHANGED thread
  BY <1>1 DEF thread, ThreadTyped, VerdictFixed
<1>2. ASSUME NEW a \in Agents, Crash(a) PROVE (ThreadTyped /\ VerdictFixed)'
  BY <1>2 DEF Crash, ThreadTyped, VerdictFixed, Steps, Holding, Finals
<1>3. ASSUME NEW w \in Workers, NEW c \in Commands, Start(w, c)
      PROVE (ThreadTyped /\ VerdictFixed)'
  BY <1>3 DEF Start, Goto, ThreadTyped, VerdictFixed, Steps, Holding, Finals
<1>4. ASSUME NEW w \in Workers, CheckTTL(w)
      PROVE (ThreadTyped /\ VerdictFixed)'
  BY <1>4 DEF CheckTTL, AfterTTL, Goto, ThreadTyped, VerdictFixed, Steps,
              Holding, Finals
<1>5. ASSUME NEW w \in Workers, ClaimWins(w) PROVE (ThreadTyped /\ VerdictFixed)'
  BY <1>5 DEF ClaimWins, Claiming, Goto, ThreadTyped, VerdictFixed, Steps,
              Holding, Finals
<1>6. ASSUME NEW w \in Workers, Dispatch(w) PROVE (ThreadTyped /\ VerdictFixed)'
  BY <1>6 DEF Dispatch, Goto, ThreadTyped, VerdictFixed, Steps, Holding, Finals
<1>7. ASSUME NEW w \in Workers, Leave(w) PROVE (ThreadTyped /\ VerdictFixed)'
  BY <1>7, LeaveTyped
<1>8. ASSUME NEW w \in Workers, NEW v \in Finals, pc[w] # "idle", Settle(w, v)
      PROVE (ThreadTyped /\ VerdictFixed)'
  BY <1>8, SettleTyped
<1>9. ASSUME NEW w \in Workers,
             \/ Reject(w) \/ DispatchRefused(w) \/ DispatchAnswerLost(w)
             \/ AwaitTimesOut(w) \/ AwaitFails(w) \/ TaskSeen(w)
      PROVE (ThreadTyped /\ VerdictFixed)'
  <2>1. PICK v \in Finals : pc[w] # "idle" /\ Settle(w, v)
    BY <1>9 DEF Reject, RejectRow, DispatchRefused, DispatchAnswerLost,
                AwaitTimesOut, AwaitFails, TaskSeen, ExitVerdict, Finals
  <2> QED BY <2>1, <1>8
<1> QED
  BY <1>1, <1>2, <1>3, <1>4, <1>5, <1>6, <1>7, <1>9
  DEF Next, Agent, Handle, LostCall, vars, Insert, PassDeadline, TaskEnds,
      Boot, Join, Drop, Reconnect, CatchUp, CatchUpFails, Deliver,
      ClaimMisses, Complete, ClaimFails, ClaimAnswerLost, CompleteFails

\* The fault budget only shrinks, and only rows are ever cut off.
LEMMA BookStep ==
  TypeInv /\ [Next]_vars => (budget \in [Faults -> Nat] /\ cut \subseteq Commands)'
<1> SUFFICES ASSUME TypeInv, [Next]_vars
             PROVE  (budget \in [Faults -> Nat] /\ cut \subseteq Commands)'
  OBVIOUS
<1> USE DEF TypeInv, TypeOK
<1>1. budget' = budget \/ \E k \in Faults : Spend(k)
  BY DEF Next, Agent, Handle, LostCall, vars, Insert, PassDeadline, TaskEnds,
         Boot, Join, Drop, Reconnect, Crash, CatchUp, CatchUpFails, Deliver,
         Start, CheckTTL, ClaimWins, ClaimMisses, Reject, Dispatch,
         DispatchRefused, TaskSeen, AwaitTimesOut, Complete, ClaimFails,
         ClaimAnswerLost, DispatchAnswerLost, AwaitFails, CompleteFails, Faults
<1>2. \/ cut' = cut
      \/ \E a \in Agents : Crash(a)
      \/ \E w \in Workers : pc[w] # "idle" /\ cut' = cut \cup {job[w]}
  BY DEF Next, Agent, Handle, LostCall, vars, Insert, PassDeadline, TaskEnds,
         Boot, Join, Drop, Reconnect, CatchUp, CatchUpFails, Deliver,
         Start, CheckTTL, ClaimWins, ClaimMisses, Reject, Dispatch,
         DispatchRefused, TaskSeen, AwaitTimesOut, Complete, ClaimFails,
         ClaimAnswerLost, DispatchAnswerLost, AwaitFails, CompleteFails, Claiming
<1>3. budget' \in [Faults -> Nat]
  BY <1>1, SpendTyped
<1>4. ASSUME NEW a \in Agents, Crash(a) PROVE cut' \subseteq Commands
  BY <1>4 DEF Crash, ThreadTyped, Holding
<1>5. ASSUME NEW w \in Workers, pc[w] # "idle", cut' = cut \cup {job[w]}
      PROVE cut' \subseteq Commands
  BY <1>5 DEF ThreadTyped
<1> QED BY <1>2, <1>3, <1>4, <1>5

LEMMA NextTypeInv == TypeInv /\ [Next]_vars => TypeInv'
BY StoreStep, LinkStep, ThreadStep, BookStep DEF TypeInv, TypeOK

\* Every state of the channel is well typed.
THEOREM TypeCorrect == Spec => []TypeOK
<1>1. Spec => []TypeInv
  BY InitTypeInv, NextTypeInv, PTL DEF Spec
<1>2. TypeInv => TypeOK
  BY DEF TypeInv
<1> QED BY <1>1, <1>2, PTL
-------------------------------------------------------------------------------
(* Safety. Being the claimant is a matter of where a goroutine is in Handle,
   so the invariant says what is true of a row while some goroutine holds it. *)

OneHolder ==
  \A v, w \in Workers :
    (pc[v] \in Holding /\ pc[w] \in Holding /\ job[v] = job[w]) => v = w

\* What a goroutine past its claim knows about its row.
HolderKnows ==
  \A w \in Workers : pc[w] \in Holding =>
    /\ row[job[w]] = "claimed"
    /\ pc[w] = "dispatch" => starts[job[w]] = 0
    /\ pc[w] = "await" => starts[job[w]] = 1
    /\ pc[w] = "complete" /\ verdict[w] = "done" =>
         starts[job[w]] = 1 /\ task[job[w]] = "ok"
    /\ pc[w] = "complete" /\ verdict[w] = "expired" => starts[job[w]] = 0

\* What a row's status says about the calls made for it.
RowTells ==
  \A c \in Commands :
    /\ starts[c] \in {0, 1}
    /\ row[c] \in {"absent", "pending", "expired"} => starts[c] = 0
    /\ row[c] = "done" => starts[c] = 1 /\ task[c] = "ok"

Inv == TypeInv /\ OneHolder /\ HolderKnows /\ RowTells

LEMMA JobIsRow == TypeInv => \A w \in Workers : pc[w] # "idle" => job[w] \in Commands
BY DEF TypeInv, TypeOK, ThreadTyped

LEMMA InitInv == Init => Inv
<1> SUFFICES ASSUME Init PROVE Inv
  OBVIOUS
<1>1. TypeInv
  BY InitTypeInv
<1>2. OneHolder /\ HolderKnows /\ RowTells
  BY DEF Init, OneHolder, HolderKnows, RowTells, Holding
<1> QED BY <1>1, <1>2 DEF Inv

\* Goroutines may enter Handle, move before their claim or leave it, as long
\* as the tables stay what they are.
LEMMA NoNewHolder ==
  ASSUME Inv, UNCHANGED <<row, starts, task>>,
         \A w \in Workers : pc'[w] \in Holding =>
           pc'[w] = pc[w] /\ job'[w] = job[w] /\ verdict'[w] = verdict[w]
  PROVE  (OneHolder /\ HolderKnows /\ RowTells)'
BY DEF Inv, OneHolder, HolderKnows, RowTells

\* A goroutine that settles its row's verdict keeps holding it.
LEMMA SettleKeeps ==
  ASSUME Inv, NEW w \in Workers, pc[w] \in Holding, NEW v \in Finals, Settle(w, v),
         UNCHANGED <<row, starts, task>>,
         v = "done" => starts[job[w]] = 1 /\ task[job[w]] = "ok",
         v = "expired" => starts[job[w]] = 0
  PROVE  (OneHolder /\ HolderKnows /\ RowTells)'
<1> USE DEF Inv, TypeInv, TypeOK, ThreadTyped, Settle, Goto
<1>1. \A u \in Workers : /\ job'[u] = job[u]
                         /\ pc'[u] \in Holding <=> pc[u] \in Holding
                         /\ u # w => pc'[u] = pc[u] /\ verdict'[u] = verdict[u]
  BY DEF Holding
<1>2. pc'[w] = "complete" /\ verdict'[w] = v
  OBVIOUS
<1>3. OneHolder'
  BY <1>1 DEF OneHolder
<1>4. HolderKnows'
  BY <1>1, <1>2 DEF HolderKnows
<1>5. RowTells'
  BY DEF RowTells
<1> QED BY <1>3, <1>4, <1>5

LEMMA NextInv == Inv /\ [Next]_vars => Inv'
<1> SUFFICES ASSUME Inv, [Next]_vars PROVE Inv'
  OBVIOUS
<1> DEFINE Safe == OneHolder /\ HolderKnows /\ RowTells
<1>1. TypeInv'
  BY NextTypeInv DEF Inv
<1>2. \A w \in Workers : pc[w] # "idle" => job[w] \in Commands
  BY JobIsRow DEF Inv
<1> USE DEF Inv, TypeInv, TypeOK, StoreTyped, ThreadTyped
<1>3. ASSUME UNCHANGED <<row, pve, thread>> PROVE Safe'
  <2>1. UNCHANGED <<row, starts, task>>
    BY <1>3 DEF pve
  <2>2. \A w \in Workers : pc'[w] \in Holding =>
          pc'[w] = pc[w] /\ job'[w] = job[w] /\ verdict'[w] = verdict[w]
    BY <1>3 DEF thread
  <2> QED BY <2>1, <2>2, NoNewHolder
<1>4. ASSUME NEW c \in Commands, Insert(c) PROVE Safe'
  BY <1>4 DEF Insert, pve, thread, OneHolder, HolderKnows, RowTells
<1>5. ASSUME NEW c \in Commands, TaskEnds(c) PROVE Safe'
  BY <1>5 DEF TaskEnds, store, thread, OneHolder, HolderKnows, RowTells
<1>6. ASSUME NEW a \in Agents, Crash(a) PROVE Safe'
  <2>1. \A w \in Workers : pc'[w] \in Holding =>
          pc'[w] = pc[w] /\ job'[w] = job[w] /\ verdict'[w] = verdict[w]
    BY <1>6 DEF Crash, Holding
  <2> QED BY <1>6, <2>1, NoNewHolder DEF Crash, store, pve
<1>7. ASSUME NEW w \in Workers,
             \/ \E c \in Commands : Start(w, c)
             \/ CheckTTL(w)
             \/ Leave(w) /\ UNCHANGED <<row, pve>>
      PROVE Safe'
  <2>1. ASSUME NEW u \in Workers, pc'[u] \in Holding
        PROVE pc'[u] = pc[u] /\ job'[u] = job[u] /\ verdict'[u] = verdict[u]
    BY <1>7, <2>1 DEF Start, CheckTTL, AfterTTL, Leave, Goto, Holding
  <2>2. UNCHANGED <<row, starts, task>>
    BY <1>7 DEF Start, CheckTTL, store, pve
  <2> QED BY <2>1, <2>2, NoNewHolder
<1>8. ASSUME NEW w \in Workers, ClaimWins(w) PROVE Safe'
  <2>1. /\ job[w] \in Commands
        /\ row[job[w]] = "pending"
        /\ starts[job[w]] = 0
        /\ pc[w] \notin Holding
    BY <1>2, <1>8 DEF ClaimWins, Claiming, ClaimMatches, RowTells, Holding
  <2>2. row' = [row EXCEPT ![job[w]] = "claimed"] /\ UNCHANGED <<pve, job, verdict>>
    BY <1>8 DEF ClaimWins, MarkClaimed
  <2>3. /\ pc' = [pc EXCEPT ![w] = pc'[w]]
        /\ \/ pc'[w] = "dispatch"
           \/ pc'[w] = "complete" /\ verdict[w] = "expired"
    BY <1>8 DEF ClaimWins, Claiming, Goto, VerdictFixed
  <2>4. \A u \in Workers : pc[u] \in Holding => job[u] # job[w]
    BY <2>1 DEF HolderKnows
  <2>5. OneHolder'
    BY <2>2, <2>3, <2>4 DEF OneHolder
  <2>6. HolderKnows'
    BY <2>1, <2>2, <2>3, <2>4 DEF HolderKnows, pve
  <2>7. RowTells'
    BY <2>1, <2>2 DEF RowTells, pve
  <2> QED BY <2>5, <2>6, <2>7
<1>9. ASSUME NEW w \in Workers, ClaimAnswerLost(w) PROVE Safe'
  <2>1. /\ job[w] \in Commands
        /\ row[job[w]] = "pending"
        /\ starts[job[w]] = 0
    BY <1>2, <1>9 DEF ClaimAnswerLost, Claiming, ClaimMatches, RowTells
  <2>2. row' = [row EXCEPT ![job[w]] = "claimed"] /\ UNCHANGED pve /\ Leave(w)
    BY <1>9 DEF ClaimAnswerLost, MarkClaimed
  <2>3. \A u \in Workers : pc'[u] \in Holding =>
          /\ pc'[u] = pc[u] /\ job'[u] = job[u] /\ verdict'[u] = verdict[u]
          /\ job[u] # job[w]
    BY <2>1, <2>2 DEF Leave, Goto, Holding, HolderKnows
  <2> QED BY <2>1, <2>2, <2>3 DEF OneHolder, HolderKnows, RowTells, pve
<1>10. ASSUME NEW w \in Workers,
              Reject(w) \/ DispatchRefused(w) \/ AwaitTimesOut(w) \/ AwaitFails(w)
       PROVE Safe'
  <2>1. pc[w] \in Holding /\ Settle(w, "failed") /\ UNCHANGED <<row, starts, task>>
    BY <1>10 DEF Reject, RejectRow, DispatchRefused, AwaitTimesOut, AwaitFails,
                 Holding, store, pve
  <2> QED BY <2>1, SettleKeeps DEF Finals
<1>11. ASSUME NEW w \in Workers, TaskSeen(w) PROVE Safe'
  <2>1. PICK v \in Finals : Settle(w, v) /\ v = ExitVerdict(job[w])
    BY <1>11 DEF TaskSeen, ExitVerdict, Finals
  <2>2. /\ pc[w] \in Holding /\ UNCHANGED <<row, starts, task>>
        /\ starts[job[w]] = 1
        /\ v = "done" => task[job[w]] = "ok"
        /\ v # "expired"
    BY <1>11, <2>1 DEF TaskSeen, ExitVerdict, Holding, store, pve, HolderKnows
  <2> QED BY <2>1, <2>2, SettleKeeps
<1>12. ASSUME NEW w \in Workers, Dispatch(w) \/ DispatchAnswerLost(w) PROVE Safe'
  <2>1. /\ job[w] \in Commands
        /\ pc[w] = "dispatch"
        /\ row[job[w]] = "claimed"
        /\ starts[job[w]] = 0
    BY <1>2, <1>12 DEF Dispatch, DispatchAnswerLost, HolderKnows, Holding
  <2>2. StartTask(job[w]) /\ UNCHANGED <<row, job>>
    BY <1>12 DEF Dispatch, DispatchAnswerLost, Settle, store
  <2>3. /\ pc' = [pc EXCEPT ![w] = pc'[w]]
        /\ verdict' = [verdict EXCEPT ![w] = verdict'[w]]
        /\ \/ pc'[w] = "await"
           \/ pc'[w] = "complete" /\ verdict'[w] = "failed"
    BY <1>12 DEF Dispatch, DispatchAnswerLost, Settle, Goto
  <2>4. \A u \in Workers : u # w /\ pc[u] \in Holding => job[u] # job[w]
    BY <2>1 DEF OneHolder, Holding
  <2>5. starts'[job[w]] = 1 /\ \A c \in Commands : c # job[w] =>
          starts'[c] = starts[c] /\ task'[c] = task[c]
    BY <2>1, <2>2 DEF StartTask
  <2>6. OneHolder'
    BY <2>1, <2>2, <2>3 DEF OneHolder, Holding
  <2>7. HolderKnows'
    BY <1>2, <2>1, <2>2, <2>3, <2>4, <2>5 DEF HolderKnows, Holding
  <2>8. RowTells'
    BY <2>1, <2>2, <2>5 DEF RowTells
  <2> QED BY <2>6, <2>7, <2>8
<1>13. ASSUME NEW w \in Workers, Complete(w) PROVE Safe'
  <2>1. /\ job[w] \in Commands
        /\ verdict[w] \in Finals
        /\ verdict[w] = "done" => starts[job[w]] = 1 /\ task[job[w]] = "ok"
        /\ verdict[w] = "expired" => starts[job[w]] = 0
        /\ pc[w] \in Holding
    BY <1>2, <1>13 DEF Complete, HolderKnows, VerdictFixed, Holding
  <2>2. row' = [row EXCEPT ![job[w]] = verdict[w]] /\ UNCHANGED pve /\ Leave(w)
    BY <1>13 DEF Complete
  <2>3. \A u \in Workers : pc'[u] \in Holding =>
          /\ pc'[u] = pc[u] /\ job'[u] = job[u] /\ verdict'[u] = verdict[u]
          /\ job[u] # job[w]
    BY <2>1, <2>2 DEF Leave, Goto, Holding, OneHolder
  <2> QED BY <2>1, <2>2, <2>3 DEF OneHolder, HolderKnows, RowTells, pve, Finals
<1>14. Safe'
  BY <1>3, <1>4, <1>5, <1>6, <1>7, <1>8, <1>9, <1>10, <1>11, <1>12, <1>13
  DEF Next, Agent, Handle, LostCall, vars, store, PassDeadline, Boot, Join, Drop,
      Reconnect, CatchUp, CatchUpFails, Deliver, ClaimMisses, ClaimFails,
      CompleteFails
<1> QED BY <1>1, <1>14

\* Whatever is delivered how often, to whichever agents, with whatever crashes
\* and lost calls: Proxmox starts at most one task for a command.
THEOREM AtMostOnce == Spec => []StartedAtMostOnce
<1>1. Spec => []Inv
  BY InitInv, NextInv, PTL DEF Spec
<1>2. Inv => StartedAtMostOnce
  BY DEF Inv, RowTells, StartedAtMostOnce
<1> QED BY <1>1, <1>2, PTL

\* "done" and "expired" say what happened to the command.
THEOREM TrueStatus == Spec => []FinalStatusIsTrue
<1>1. Spec => []Inv
  BY InitInv, NextInv, PTL DEF Spec
<1>2. Inv => FinalStatusIsTrue
  BY DEF Inv, RowTells, FinalStatusIsTrue
<1> QED BY <1>1, <1>2, PTL

-------------------------------------------------------------------------------
(* Final statuses and the ledger. A step writes a row's status, or starts a
   task, only as the ledger allows.                                        *)

Submitted(c) == row[c] = "absent" /\ row' = [row EXCEPT ![c] = "pending"]
                /\ UNCHANGED starts
Taken(c)     == row[c] = "pending" /\ row' = [row EXCEPT ![c] = "claimed"]
                /\ UNCHANGED starts
Started(c)   == row[c] = "claimed" /\ starts[c] = 0
                /\ starts' = [starts EXCEPT ![c] = 1] /\ UNCHANGED row
Settled(c)   == /\ row[c] = "claimed"
                /\ \E s \in Finals : /\ s = "done" => starts[c] = 1
                                     /\ s = "expired" => starts[c] = 0
                                     /\ row' = [row EXCEPT ![c] = s]
                /\ UNCHANGED starts

LEMMA RowSteps ==
  ASSUME Inv, [Next]_vars
  PROVE  \/ UNCHANGED <<row, starts>>
         \/ \E c \in Commands : Submitted(c) \/ Taken(c) \/ Started(c) \/ Settled(c)
<1> DEFINE Goal == \/ UNCHANGED <<row, starts>>
                   \/ \E c \in Commands :
                        Submitted(c) \/ Taken(c) \/ Started(c) \/ Settled(c)
<1>1. \A w \in Workers : pc[w] # "idle" => job[w] \in Commands
  BY JobIsRow DEF Inv
<1>2. ASSUME NEW c \in Commands, Insert(c) PROVE Goal
  BY <1>2 DEF Insert, Submitted, pve
<1>3. ASSUME NEW w \in Workers, ClaimWins(w) \/ ClaimAnswerLost(w) PROVE Goal
  <2>1. Taken(job[w]) /\ job[w] \in Commands
    BY <1>1, <1>3 DEF ClaimWins, ClaimAnswerLost, Claiming, ClaimMatches,
                      MarkClaimed, Taken, pve
  <2> QED BY <2>1
<1>4. ASSUME NEW w \in Workers, Dispatch(w) \/ DispatchAnswerLost(w) PROVE Goal
  <2>1. pc[w] = "dispatch" /\ job[w] \in Commands
    BY <1>1, <1>4 DEF Dispatch, DispatchAnswerLost
  <2>2. row[job[w]] = "claimed" /\ starts[job[w]] = 0
    BY <2>1 DEF Inv, HolderKnows, Holding
  <2>3. Started(job[w])
    BY <1>4, <2>1, <2>2
    DEF Dispatch, DispatchAnswerLost, StartTask, Started, store
  <2> QED BY <2>1, <2>3
<1>5. ASSUME NEW w \in Workers, Complete(w) PROVE Goal
  <2>1. pc[w] = "complete" /\ job[w] \in Commands /\ verdict[w] \in Finals
    BY <1>1, <1>5 DEF Complete, Inv, TypeInv, VerdictFixed
  <2>2. /\ row[job[w]] = "claimed"
        /\ verdict[w] = "done" => starts[job[w]] = 1
        /\ verdict[w] = "expired" => starts[job[w]] = 0
    BY <2>1 DEF Inv, HolderKnows, Holding
  <2>3. Settled(job[w])
    BY <1>5, <2>1, <2>2 DEF Complete, Settled, pve
  <2> QED BY <2>1, <2>3
<1> QED
  BY <1>2, <1>3, <1>4, <1>5
  DEF Next, Agent, Handle, LostCall, vars, store, pve, PassDeadline, TaskEnds,
      Boot, Join, Drop, Reconnect, Crash, CatchUp, CatchUpFails, Deliver, Start,
      CheckTTL, ClaimMisses, Reject, DispatchRefused, TaskSeen, AwaitTimesOut,
      ClaimFails, AwaitFails, CompleteFails

\* A row that has its final status keeps it.
THEOREM Finality == Spec => FinalIsFinal
<1>1. Spec => []Inv
  BY InitInv, NextInv, PTL DEF Spec
<1>2. Inv /\ [Next]_vars
        => [\A c \in Commands : row[c] \in Finals => row'[c] = row[c]]_vars
  BY RowSteps
  DEF Inv, TypeInv, TypeOK, StoreTyped, Submitted, Taken, Started, Settled, Finals
<1> QED BY <1>1, <1>2, PTL DEF Spec, FinalIsFinal

\* The command channel implements the ledger: with a row's column as its
\* status and the calls Proxmox accepted as its runs, every step is a step of
\* the ledger or leaves it alone.
THEOREM Implementation == Spec => LedgerSpec
<1>1. Spec => []Inv
  BY InitInv, NextInv, PTL DEF Spec
<1>2. Init => Ledger!LInit
  BY DEF Init, Ledger!LInit
<1>3. Inv /\ [Next]_vars => [Ledger!LNext]_<<row, starts>>
  <2> SUFFICES ASSUME Inv, [Next]_vars
               PROVE  [Ledger!LNext]_<<row, starts>>
    OBVIOUS
  <2>1. ASSUME NEW c \in Commands,
               Submitted(c) \/ Taken(c) \/ Started(c) \/ Settled(c)
        PROVE  Ledger!LNext
    <3>1. \/ Ledger!Submit(c) \/ Ledger!Take(c) \/ Ledger!Run(c)
          \/ \E s \in {"done", "failed", "expired"} : Ledger!Settle(c, s)
      BY <2>1 DEF Submitted, Taken, Started, Settled, Ledger!Submit, Ledger!Take,
                  Ledger!Run, Ledger!Settle, Finals
    <3> QED BY <3>1 DEF Ledger!LNext
  <2> QED BY <2>1, RowSteps
<1> QED BY <1>1, <1>2, <1>3, PTL DEF Spec, LedgerSpec, Ledger!LSpec, Ledger!lvars

-------------------------------------------------------------------------------
(* Nobody but a crash or a lost call separates a claimed row from the
   goroutine that claimed it.                                              *)

HeldOrCut == \A c \in Commands : row[c] = "claimed" => Held(c) \/ c \in cut

LEMMA NextHeldOrCut == Inv /\ HeldOrCut /\ [Next]_vars => HeldOrCut'
<1> SUFFICES ASSUME Inv, HeldOrCut, [Next]_vars,
                    NEW c \in Commands, row'[c] = "claimed"
             PROVE  Held(c)' \/ c \in cut'
  BY DEF HeldOrCut
<1> USE DEF Inv, TypeInv, TypeOK, StoreTyped, ThreadTyped
<1>1. \A w \in Workers : pc[w] # "idle" => job[w] \in Commands
  BY JobIsRow
<1>2. CASE UNCHANGED row /\ UNCHANGED thread /\ UNCHANGED cut
  BY <1>2 DEF thread, HeldOrCut, Held
<1>3. ASSUME NEW d \in Commands, Insert(d) PROVE Held(c)' \/ c \in cut'
  BY <1>3 DEF Insert, thread, HeldOrCut, Held
<1>4. ASSUME NEW a \in Agents, Crash(a) PROVE Held(c)' \/ c \in cut'
  <2>1. CASE c \in cut
    BY <1>4, <2>1 DEF Crash
  <2>2. CASE Held(c)
    <3>1. PICK w \in Workers : pc[w] \in Holding /\ job[w] = c
      BY <2>2 DEF Held
    <3>2. CASE w[1] = a
      BY <1>4, <3>1, <3>2 DEF Crash
    <3>3. CASE w[1] # a
      BY <1>4, <3>1, <3>3 DEF Crash, Held
    <3> QED BY <3>2, <3>3
  <2> QED BY <1>4, <2>1, <2>2 DEF Crash, store, HeldOrCut
<1>5. ASSUME NEW w \in Workers, NEW d \in Commands, Start(w, d)
      PROVE Held(c)' \/ c \in cut'
  BY <1>5 DEF Start, Goto, store, Holding, HeldOrCut, Held
<1>6. ASSUME NEW w \in Workers, CheckTTL(w) PROVE Held(c)' \/ c \in cut'
  BY <1>6 DEF CheckTTL, Goto, store, Holding, HeldOrCut, Held
<1>7. ASSUME NEW w \in Workers, ClaimWins(w) PROVE Held(c)' \/ c \in cut'
  <2>1. pc'[w] \in Holding /\ job' = job /\ cut' = cut
    BY <1>7 DEF ClaimWins, Claiming, Goto, Holding
  <2>2. \A u \in Workers : u # w => pc'[u] = pc[u]
    BY <1>7 DEF ClaimWins, Goto
  <2>3. CASE job[w] = c
    BY <2>1, <2>3 DEF Held
  <2>4. CASE job[w] # c
    <3>1. row[c] = "claimed"
      BY <1>7, <2>4 DEF ClaimWins, MarkClaimed
    <3> QED BY <2>1, <2>2, <3>1 DEF HeldOrCut, Held
  <2> QED BY <2>3, <2>4
<1>8. ASSUME NEW w \in Workers, Claiming(w), Leave(w),
             \/ UNCHANGED <<row, cut>>
             \/ MarkClaimed(w) /\ cut' = cut \cup {job[w]}
      PROVE Held(c)' \/ c \in cut'
  <2>1. row[c] = "claimed" \/ (c = job[w] /\ c \in cut')
    BY <1>1, <1>8 DEF MarkClaimed, Claiming
  <2>2. cut \subseteq cut'
    BY <1>8
  <2>3. \A u \in Workers : pc[u] \in Holding => pc'[u] = pc[u] /\ job'[u] = job[u]
    BY <1>8 DEF Claiming, Leave, Goto, Holding
  <2> QED BY <2>1, <2>2, <2>3 DEF HeldOrCut, Held
<1>9. ASSUME NEW w \in Workers, pc[w] \in Holding, pc'[w] \in Holding,
             pc' = [pc EXCEPT ![w] = pc'[w]], UNCHANGED <<row, job, cut>>
      PROVE Held(c)' \/ c \in cut'
  BY <1>9 DEF HeldOrCut, Held
<1>10. ASSUME NEW w \in Workers,
              \/ Reject(w) \/ DispatchRefused(w) \/ Dispatch(w) \/ TaskSeen(w)
              \/ AwaitTimesOut(w) \/ DispatchAnswerLost(w) \/ AwaitFails(w)
       PROVE Held(c)' \/ c \in cut'
  BY <1>9, <1>10 DEF Reject, RejectRow, DispatchRefused, Dispatch, TaskSeen,
                     AwaitTimesOut, DispatchAnswerLost, AwaitFails, Settle, Goto,
                     Holding, store
<1>11. ASSUME NEW w \in Workers, Complete(w) PROVE Held(c)' \/ c \in cut'
  <2>1. /\ pc[w] = "complete" /\ job[w] \in Commands
        /\ row' = [row EXCEPT ![job[w]] = verdict[w]]
        /\ verdict[w] \in Finals /\ cut' = cut
        /\ Leave(w)
    BY <1>1, <1>11 DEF Complete, VerdictFixed
  <2>2. c # job[w] /\ row[c] = "claimed"
    BY <2>1 DEF Finals
  <2> QED BY <2>1, <2>2 DEF Leave, Goto, HeldOrCut, Held
<1>12. ASSUME NEW w \in Workers, CompleteFails(w) PROVE Held(c)' \/ c \in cut'
  <2>1. Leave(w) /\ row' = row /\ cut' = cut \cup {job[w]}
    BY <1>12 DEF CompleteFails, store
  <2> QED BY <2>1 DEF Leave, Goto, HeldOrCut, Held
<1> QED
  BY <1>2, <1>3, <1>4, <1>5, <1>6, <1>7, <1>8, <1>10, <1>11, <1>12
  DEF Next, Agent, Handle, LostCall, vars, store, PassDeadline, TaskEnds, Boot,
      Join, Drop, Reconnect, CatchUp, CatchUpFails, Deliver, ClaimMisses,
      ClaimFails, ClaimAnswerLost

\* A claimed row without a result is in the hands of exactly one goroutine, or
\* its goroutine was cut off by a crash or a lost call.
THEOREM ClaimsAreHeld == Spec => []ClaimedIsHeld
<1>1. Init => HeldOrCut
  BY DEF Init, HeldOrCut
<1>2. Spec => [](Inv /\ HeldOrCut)
  BY <1>1, InitInv, NextInv, NextHeldOrCut, PTL DEF Spec
<1>3. Inv /\ HeldOrCut => ClaimedIsHeld
  BY DEF Inv, OneHolder, HeldOrCut, ClaimedIsHeld
<1> QED BY <1>2, <1>3, PTL

-------------------------------------------------------------------------------
(* Old commands. Once a row's deadline passes with nobody about to claim it,
   every goroutine that meets it goes down the expired branch.             *)

WrittenOff(c) ==
  /\ row[c] # "absent" /\ overdue[c] = Clocks /\ starts[c] = 0
  /\ \A w \in Workers : job[w] = c => pc[w] \notin {"claim", "dispatch", "await"}

LEMMA StaysWrittenOff ==
  ASSUME NEW c \in Commands, Inv, WrittenOff(c), [Next]_vars
  PROVE  WrittenOff(c)'
<1> USE DEF Inv, TypeInv, TypeOK, StoreTyped, ThreadTyped
<1>1. row'[c] # "absent"
  <2>1. row' = row \/ \E d \in Commands : Submitted(d) \/ Taken(d) \/ Settled(d)
    BY RowSteps DEF Started
  <2> QED BY <2>1 DEF WrittenOff, Submitted, Taken, Settled, Finals
<1>2. overdue'[c] = Clocks
  <2>1. ASSUME NEW k \in Clocks, NEW d \in Commands, PassDeadline(k, d)
        PROVE  overdue'[c] = Clocks
    <3>1. overdue' = [overdue EXCEPT ![d] = @ \cup {k}]
      BY <2>1 DEF PassDeadline
    <3>2. overdue'[c] \in {overdue[c], overdue[c] \cup {k}}
      BY <3>1
    <3> QED BY <3>2 DEF WrittenOff
  <2>2. \/ overdue' = overdue
        \/ \E k \in Clocks, d \in Commands : PassDeadline(k, d)
    BY DEF Next, Agent, Handle, LostCall, vars, store, Insert,
           TaskEnds, Boot, Join, Drop, Reconnect, Crash, CatchUp, CatchUpFails,
           Deliver, Start, CheckTTL, ClaimWins, ClaimMisses, Reject, Dispatch,
           DispatchRefused, TaskSeen, AwaitTimesOut, Complete, ClaimFails,
           ClaimAnswerLost, DispatchAnswerLost, AwaitFails, CompleteFails,
           MarkClaimed
  <2> QED BY <2>1, <2>2 DEF WrittenOff
<1>3. starts'[c] = 0
  <2>1. starts' = starts
        \/ \E w \in Workers : pc[w] = "dispatch" /\ job[w] # c /\ StartTask(job[w])
    BY DEF WrittenOff, Next, Agent, Handle, LostCall, vars, pve, Insert,
           PassDeadline, TaskEnds, Boot, Join, Drop, Reconnect, Crash, CatchUp,
           CatchUpFails, Deliver, Start, CheckTTL, ClaimWins, ClaimMisses, Reject,
           Dispatch, DispatchRefused, TaskSeen, AwaitTimesOut, Complete,
           ClaimFails, ClaimAnswerLost, DispatchAnswerLost, AwaitFails,
           CompleteFails
  <2> QED BY <2>1 DEF WrittenOff, StartTask
<1>4. ASSUME NEW w \in Workers, job'[w] = c
      PROVE pc'[w] \notin {"claim", "dispatch", "await"}
  <2>1. CASE pc'[w] = pc[w] /\ job'[w] = job[w]
    BY <1>4, <2>1 DEF WrittenOff
  <2>2. CASE UNCHANGED thread
    BY <2>1, <2>2 DEF thread
  <2>3. ASSUME NEW a \in Agents, Crash(a)
        PROVE pc'[w] \notin {"claim", "dispatch", "await"}
    BY <1>4, <2>1, <2>3 DEF Crash
  <2>4. ASSUME NEW u \in Workers, NEW d \in Commands, Start(u, d)
        PROVE pc'[w] \notin {"claim", "dispatch", "await"}
    BY <2>1, <2>4 DEF Start, Goto
  <2>5. ASSUME NEW u \in Workers, CheckTTL(u)
        PROVE pc'[w] \notin {"claim", "dispatch", "await"}
    <3>1. ClockOf[u[1]] \in Clocks
      BY ClockAssumption DEF Workers
    <3>2. job[u] = c => Late(u)
      BY <3>1 DEF Late, WrittenOff
    <3> QED BY <1>4, <2>1, <2>5, <3>2 DEF CheckTTL, AfterTTL, Goto, WrittenOff
  <2>6. ASSUME NEW u \in Workers, ClaimWins(u)
        PROVE pc'[w] \notin {"claim", "dispatch", "await"}
    BY <1>4, <2>1, <2>6 DEF ClaimWins, Claiming, Goto, WrittenOff
  <2>7. ASSUME NEW u \in Workers, Dispatch(u)
        PROVE pc'[w] \notin {"claim", "dispatch", "await"}
    BY <1>4, <2>1, <2>7 DEF Dispatch, Goto, WrittenOff
  <2>8. ASSUME NEW u \in Workers, Leave(u)
        PROVE pc'[w] \notin {"claim", "dispatch", "await"}
    BY <2>1, <2>8 DEF Leave, Goto
  <2>9. ASSUME NEW u \in Workers, NEW v \in Finals, Settle(u, v)
        PROVE pc'[w] \notin {"claim", "dispatch", "await"}
    BY <2>1, <2>9 DEF Settle, Goto
  <2>10. ASSUME NEW u \in Workers,
                \/ Reject(u) \/ DispatchRefused(u) \/ DispatchAnswerLost(u)
                \/ AwaitTimesOut(u) \/ AwaitFails(u) \/ TaskSeen(u)
         PROVE pc'[w] \notin {"claim", "dispatch", "await"}
    <3>1. \E v \in Finals : Settle(u, v)
      BY <2>10 DEF Reject, RejectRow, DispatchRefused, DispatchAnswerLost,
                   AwaitTimesOut, AwaitFails, TaskSeen, ExitVerdict, Finals
    <3> QED BY <2>9, <3>1
  <2> QED
    BY <2>2, <2>3, <2>4, <2>5, <2>6, <2>7, <2>8, <2>10
    DEF Next, Agent, Handle, LostCall, vars, Insert, PassDeadline, TaskEnds,
        Boot, Join, Drop, Reconnect, CatchUp, CatchUpFails, Deliver,
        ClaimMisses, Complete, ClaimFails, ClaimAnswerLost, CompleteFails
<1> QED BY <1>1, <1>2, <1>3, <1>4 DEF WrittenOff

\* An old command is never run, however late an agent learns of it.
THEOREM OldIsWrittenOff == Spec => OldNeverRuns
<1> SUFFICES ASSUME NEW c \in Commands
             PROVE  Spec => [](OverdueUntaken(c) => [](starts[c] = 0))
  BY DEF OldNeverRuns
<1>1. Spec => []Inv
  BY InitInv, NextInv, PTL DEF Spec
<1>2. Inv /\ OverdueUntaken(c) => WrittenOff(c)
  BY DEF Inv, RowTells, HolderKnows, Holding, OverdueUntaken, WrittenOff
<1>3. Inv /\ WrittenOff(c) /\ [Next]_vars => WrittenOff(c)'
  BY StaysWrittenOff
<1>4. WrittenOff(c) => starts[c] = 0
  BY DEF WrittenOff
<1> QED BY <1>1, <1>2, <1>3, <1>4, PTL DEF Spec

-------------------------------------------------------------------------------
(* No pending row escapes a joined agent: the change feed and the catch-up *)
(* after a join hand over every row between them, provided the query may   *)
(* return as many rows as are pending and no call was lost.                *)

\* A catch-up query is only answered while it can return every pending row.
Pending     == {c \in Commands : row[c] = "pending"}
QueryFits   == IsFiniteSet(Pending) /\ Cardinality(Pending) <= CatchUpLimit
FitsOnQuery == (\E a \in Agents : CatchUp(a)) => QueryFits
QueriesFit  == [][FitsOnQuery]_vars

BudgetShrinks == budget["call"] <= Budget["call"]

\* Where a pending row is while an agent is joined: on its way, or to be found
\* by a catch-up whose query has not been answered.
Found(a, c) == catchUps[a] > 0 \/ InHand(a, c)

Accounted ==
  NoCallLost =>
    \A a \in Agents : ws[a] = "joined" =>
      \A c \in Commands : row[c] = "pending" => Found(a, c)

Claimable == {"ttl", "claim", "writeOff"}

\* A query that may return all pending rows returns every one.
LEMMA AllPendingFound ==
  ASSUME QueryFits, NEW c \in Commands, row[c] = "pending"
  PROVE  c \in PendingRows
<1> DEFINE before == {d \in Pending : d < c}
<1>1. c \in Pending /\ ~(c < c)
  BY CommandsAssumption DEF Pending
<1>2. before \subseteq Pending \ {c}
  BY <1>1
<1>3. /\ IsFiniteSet(Pending \ {c})
      /\ Cardinality(Pending \ {c}) = Cardinality(Pending) - 1
  BY <1>1, FS_RemoveElement DEF QueryFits
<1>4. IsFiniteSet(before) /\ Cardinality(before) <= Cardinality(Pending \ {c})
  BY <1>2, <1>3, FS_Subset
<1>5. /\ Cardinality(before) \in Nat /\ Cardinality(Pending) \in Nat
      /\ Cardinality(Pending) <= CatchUpLimit
  BY <1>4, FS_CardinalityType DEF QueryFits
<1>6. Cardinality(before) < CatchUpLimit
  BY <1>3, <1>4, <1>5, LimitAssumption
<1> QED BY <1>6 DEF PendingRows, Pending

\* What keeps a row found: its connection, its deliveries and its goroutines.
LEMMA StaysFound ==
  ASSUME NEW a \in Agents, NEW c \in Commands, Found(a, c),
         catchUps'[a] = catchUps[a], wire'[a] = wire[a],
         spawned'[a][c] = spawned[a][c],
         \A t \in Threads :
           pc[<<a, t>>] \in Claimable /\ job[<<a, t>>] = c =>
             pc'[<<a, t>>] \in Claimable /\ job'[<<a, t>>] = c
  PROVE  Found(a, c)'
BY DEF Found, InHand, Claimable

LEMMA NextAccounted ==
  Inv /\ BudgetShrinks /\ Accounted /\ [Next]_vars /\ [FitsOnQuery]_vars =>
    (BudgetShrinks /\ Accounted)'
<1> SUFFICES ASSUME Inv, BudgetShrinks, Accounted, [Next]_vars, [FitsOnQuery]_vars
             PROVE  (BudgetShrinks /\ Accounted)'
  OBVIOUS
<1> USE DEF Inv, TypeInv, TypeOK
<1>1. budget["call"] \in Nat /\ Budget["call"] \in Nat
  BY BudgetAssumption DEF Faults
<1>2. UNCHANGED budget \/ \E f \in Faults : Spend(f)
  BY DEF Next, Agent, Handle, LostCall, vars, Insert, PassDeadline, TaskEnds,
         Boot, Join, Drop, Reconnect, Crash, CatchUp, CatchUpFails, Deliver,
         Start, CheckTTL, ClaimWins, ClaimMisses, Reject, Dispatch,
         DispatchRefused, TaskSeen, AwaitTimesOut, Complete, ClaimFails,
         ClaimAnswerLost, DispatchAnswerLost, AwaitFails, CompleteFails, Faults
<1>3. budget'["call"] = budget["call"] \/ (Spend("call") /\ ~NoCallLost')
  <2>1. ASSUME NEW f \in Faults, Spend(f), f # "call"
        PROVE  budget'["call"] = budget["call"]
    BY <2>1 DEF Spend, Faults
  <2>2. ASSUME Spend("call") PROVE budget'["call"] = budget["call"] - 1
    BY <2>2 DEF Spend, Faults
  <2>3. ASSUME Spend("call") PROVE ~NoCallLost'
    BY <2>2, <2>3, <1>1 DEF NoCallLost, BudgetShrinks
  <2> QED BY <1>2, <2>1, <2>3
<1>4. BudgetShrinks'
  <2>1. ASSUME Spend("call") PROVE budget'["call"] = budget["call"] - 1
    BY <2>1 DEF Spend, Faults
  <2> QED BY <1>1, <1>3, <2>1 DEF BudgetShrinks
<1>5. ASSUME NoCallLost', NEW a \in Agents, ws'[a] = "joined",
             NEW c \in Commands, row'[c] = "pending"
      PROVE  Found(a, c)'
  <2>1. NoCallLost /\ ~Spend("call")
    BY <1>3, <1>5, <1>1 DEF NoCallLost, Spend, Faults
  <2>2. \/ row[c] = "pending"
        \/ row[c] = "absent" /\ Insert(c)
    <3>1. CASE row' = row
      BY <3>1, <1>5
    <3>2. ASSUME NEW d \in Commands, Insert(d)
          PROVE  row[c] = "pending" \/ (row[c] = "absent" /\ Insert(c))
      BY <3>2, <1>5 DEF Insert, StoreTyped
    <3>3. ASSUME NEW w \in Workers, MarkClaimed(w)
          PROVE  row[c] = "pending"
      BY <3>3, <1>5 DEF MarkClaimed, StoreTyped
    <3>4. ASSUME NEW w \in Workers, Complete(w) PROVE row[c] = "pending"
      BY <3>4, <1>5 DEF Complete, VerdictFixed, StoreTyped, Finals
    <3> QED
      BY <3>1, <3>2, <3>3, <3>4
      DEF Next, Agent, Handle, LostCall, vars, store, PassDeadline, TaskEnds,
          Boot, Join, Drop, Reconnect, Crash, CatchUp, CatchUpFails, Deliver,
          Start, CheckTTL, ClaimWins, ClaimMisses, Reject, Dispatch,
          DispatchRefused, TaskSeen, AwaitTimesOut, ClaimFails, ClaimAnswerLost,
          DispatchAnswerLost, AwaitFails, CompleteFails
  <2>3. CASE Insert(c)
    <3>1. c \in wire'[a]
      BY <1>5, <2>3 DEF Insert, LinkTyped
    <3> QED BY <3>1 DEF Found, InHand
  <2>4. ASSUME row[c] = "pending", ws[a] = "joined" PROVE Found(a, c)
    BY <2>1, <2>4 DEF Accounted
  <2>5. CASE row[c] = "pending" /\ Join(a)
    BY <2>5 DEF Join, CatchUpsAfterJoin, LinkTyped, Found
  <2>6. CASE row[c] = "pending" /\ CatchUp(a)
    <3>0. catchUps'[a] # catchUps[a]
      BY <2>6 DEF CatchUp, LinkTyped
    <3>1. QueryFits
      BY <2>6, <3>0 DEF FitsOnQuery, vars, link
    <3>2. spawned'[a][c] = spawned[a][c] + 1
      BY <2>6, <3>1, AllPendingFound DEF CatchUp, LinkTyped
    <3>3. spawned'[a][c] > 0
      BY <3>2 DEF LinkTyped
    <3> QED BY <3>3 DEF Found, InHand
  <2>7. CASE row[c] = "pending" /\ \E d \in Commands : Deliver(a, d)
    <3>1. PICK d \in Commands : Deliver(a, d)
      BY <2>7
    <3>2. Found(a, c)
      BY <3>1, <2>4, <2>7 DEF Deliver
    <3>3. CASE d # c
      BY <3>1, <3>2, <3>3 DEF Deliver, LinkTyped, Found, InHand, thread
    <3>4. CASE d = c
      <4>1. spawned'[a][c] > 0
        BY <3>1, <3>4 DEF Deliver, LinkTyped
      <4> QED BY <4>1 DEF Found, InHand
    <3> QED BY <3>3, <3>4
  <2>8. CASE row[c] = "pending" /\ \E t \in Threads, d \in Commands : Start(<<a, t>>, d)
    <3>1. PICK t \in Threads, d \in Commands : Start(<<a, t>>, d)
      BY <2>8
    <3>2. Found(a, c)
      BY <3>1, <2>4, <2>8, <1>5 DEF Start
    <3>3. <<a, t>> \in Workers
      BY DEF Workers
    <3>4. CASE d = c
      <4>1. pc'[<<a, t>>] = "ttl" /\ job'[<<a, t>>] = c
        BY <3>1, <3>3, <3>4 DEF Start, Goto, ThreadTyped
      <4> QED BY <4>1 DEF Found, InHand
    <3>5. CASE d # c
      <4>1. spawned'[a][c] = spawned[a][c] /\ UNCHANGED <<wire, catchUps>>
        BY <3>1, <3>3, <3>5 DEF Start, LinkTyped
      <4>2. \A u \in Threads : <<a, u>> # <<a, t>> =>
              pc'[<<a, u>>] = pc[<<a, u>>] /\ job'[<<a, u>>] = job[<<a, u>>]
        BY <3>1, <3>3 DEF Start, Goto, ThreadTyped, Workers
      <4>3. pc[<<a, t>>] = "idle"
        BY <3>1 DEF Start
      <4> QED BY <4>1, <4>2, <4>3, <3>2, StaysFound DEF Claimable
    <3> QED BY <3>4, <3>5
  <2> DEFINE Here(t) == pc[<<a, t>>] \in Claimable /\ job[<<a, t>>] = c
             Keeps   == \A t \in Threads :
                          Here(t) => /\ pc'[<<a, t>>] \in Claimable
                                     /\ job'[<<a, t>>] = c
             Linked  == /\ ws'[a] = ws[a] /\ wire'[a] = wire[a]
                        /\ catchUps'[a] = catchUps[a]
                        /\ spawned'[a][c] = spawned[a][c]
  <2>9. ASSUME row[c] = "pending", Linked, Keeps PROVE Found(a, c)'
    BY <2>9, <2>4, <1>5, StaysFound
  <2>10. CASE row[c] = "pending" /\ UNCHANGED link
    <3> SUFFICES Keeps
      BY <2>9, <2>10 DEF link
    <3>1. CASE UNCHANGED thread
      BY <3>1 DEF thread
    <3>2. ASSUME NEW w \in Workers, CheckTTL(w) PROVE Keeps
      BY <3>2 DEF CheckTTL, AfterTTL, Goto, ThreadTyped, Workers, Claimable
    <3>3. ASSUME NEW w \in Workers, UNCHANGED <<pc, job>> \/ ~(pc[w] \in Claimable /\ job[w] = c),
                 \A v \in Workers : v # w => pc'[v] = pc[v] /\ job'[v] = job[v]
          PROVE  Keeps
      BY <3>3 DEF Workers
    <3>4. ASSUME NEW w \in Workers, Handle(w) \/ LostCall(w)
          PROVE  \A v \in Workers : v # w => pc'[v] = pc[v] /\ job'[v] = job[v]
      BY <3>4 DEF Handle, LostCall, CheckTTL, ClaimWins, ClaimMisses, Reject,
                  RejectRow, Dispatch, DispatchRefused, TaskSeen, AwaitTimesOut,
                  Complete, ClaimFails, ClaimAnswerLost, DispatchAnswerLost,
                  AwaitFails, CompleteFails, Goto, Settle, Leave, ThreadTyped
    <3>5. ASSUME NEW w \in Workers, Handle(w) \/ LostCall(w), ~CheckTTL(w)
          PROVE  ~(pc[w] \in Claimable /\ job[w] = c)
      <4>1. CASE ClaimWins(w)
        <5>1. row'[job[w]] # "pending"
          BY <4>1 DEF ClaimWins, Claiming, MarkClaimed, StoreTyped, ThreadTyped
        <5> QED BY <5>1, <1>5
      <4>2. CASE ClaimMisses(w)
        BY <4>2, <2>10 DEF ClaimMisses, ClaimMatches
      <4>3. CASE LostCall(w)
        BY <4>3, <2>1 DEF LostCall, ClaimFails, ClaimAnswerLost,
                          DispatchAnswerLost, AwaitFails, CompleteFails
      <4> QED
        BY <3>5, <4>1, <4>2, <4>3
        DEF Handle, Reject, Dispatch, DispatchRefused, TaskSeen, AwaitTimesOut,
            Complete, Claimable
    <3>6. ASSUME NEW w \in Workers, Handle(w) \/ LostCall(w) PROVE Keeps
      BY <3>2, <3>3, <3>4, <3>5, <3>6
    <3>7. ASSUME NEW w \in Workers, NEW d \in Commands, Start(w, d)
          PROVE  Keeps
      BY <3>7 DEF Start, Goto, ThreadTyped, Workers, Claimable
    <3>8. ASSUME NEW b \in Agents, Agent(b) PROVE UNCHANGED thread
      <4>1. ~Crash(b)
        BY <2>10 DEF Crash, link, LinkTyped
      <4> QED
        BY <3>8, <4>1 DEF Agent, Boot, Join, Drop, Reconnect, CatchUp,
                          CatchUpFails, Deliver
    <3>9. ASSUME NEW d \in Commands, Insert(d) \/ TaskEnds(d) \/ \E k \in Clocks : PassDeadline(k, d)
          PROVE  UNCHANGED thread
      BY <3>9 DEF Insert, PassDeadline, TaskEnds
    <3> HIDE DEF Keeps
    <3> QED
      BY <3>1, <3>6, <3>7, <3>8, <3>9 DEF Next, vars
  <2>11. ASSUME row[c] = "pending", UNCHANGED thread, Linked PROVE Found(a, c)'
    BY <2>9, <2>11 DEF thread
  <2>12. ASSUME row[c] = "pending", NEW b \in Agents, b # a,
                Agent(b) \/ \E t \in Threads, d \in Commands : Start(<<b, t>>, d)
         PROVE  Found(a, c)'
    <3>1. Linked
      BY <2>12 DEF Agent, Boot, Join, Drop, Reconnect, Crash, CatchUp,
                   CatchUpFails, Deliver, Start, LinkTyped, Workers
    <3>2. Keeps
      BY <2>12 DEF Agent, Boot, Join, Drop, Reconnect, Crash, CatchUp,
                   CatchUpFails, Deliver, Start, Goto, thread, ThreadTyped,
                   Workers, Claimable
    <3> QED BY <2>9, <2>12, <3>1, <3>2
  <2>13. ASSUME row[c] = "pending", NEW d \in Commands, d # c, Insert(d)
         PROVE  Found(a, c)'
    <3>1. Found(a, c)
      BY <2>4, <2>13, <1>5 DEF Insert
    <3>2. wire[a] \subseteq wire'[a]
      BY <2>13 DEF Insert, LinkTyped
    <3> QED BY <3>1, <3>2, <2>13 DEF Insert, Found, InHand, thread
  <2>14. ASSUME row[c] = "pending", Agent(a) PROVE Found(a, c)'
    <3>1. CASE Boot(a)
      BY <3>1, <2>11, <2>14 DEF Boot
    <3>2. ~Drop(a) /\ ~Reconnect(a) /\ ~Crash(a) /\ ~CatchUpFails(a)
      BY <1>5, <2>1 DEF Drop, Reconnect, Crash, CatchUpFails, LinkTyped
    <3> QED BY <2>5, <2>6, <2>7, <2>14, <3>1, <3>2 DEF Agent
  <2>15. ASSUME row[c] = "pending",
                NEW w \in Workers, NEW d \in Commands, Start(w, d)
         PROVE  Found(a, c)'
    <3>1. PICK b \in Agents, t \in Threads : w = <<b, t>>
      BY DEF Workers
    <3> QED BY <3>1, <2>8, <2>12, <2>15
  <2> HIDE DEF Linked, Keeps
  <2> QED
    BY <2>2, <2>3, <2>10, <2>12, <2>13, <2>14, <2>15
    DEF Next, vars, Handle, LostCall, PassDeadline, TaskEnds, CheckTTL, ClaimWins,
        ClaimMisses, Reject, Dispatch, DispatchRefused, TaskSeen, AwaitTimesOut,
        Complete, ClaimFails, ClaimAnswerLost, DispatchAnswerLost, AwaitFails,
        CompleteFails
<1> QED BY <1>4, <1>5 DEF Accounted

\* Between the change feed and the catch-up nothing is missed, however many rows
\* there are, as long as every answered query could hold the pending ones.
THEOREM NothingEscapes == Spec /\ QueriesFit => []NothingMissed
<1>1. Init => Inv /\ BudgetShrinks /\ Accounted
  <2>1. Init => BudgetShrinks
    BY BudgetAssumption DEF Init, BudgetShrinks, Faults
  <2>2. Init => Accounted
    BY DEF Init, Accounted
  <2> QED BY <2>1, <2>2, InitInv
<1>2. Inv /\ BudgetShrinks /\ Accounted /\ [Next]_vars /\ [FitsOnQuery]_vars
        => (Inv /\ BudgetShrinks /\ Accounted)'
  BY NextInv, NextAccounted
<1>3. Accounted => NothingMissed
  BY DEF Accounted, NothingMissed, Found
<1> QED BY <1>1, <1>2, <1>3, PTL DEF Spec, QueriesFit
===============================================================================
