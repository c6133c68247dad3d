---------------------------- MODULE SnapshotsProofs ----------------------------
(***************************************************************************)
(* Theorems about Snapshots, for any states, statuses and handlers: it     *)
(* keeps its types, and a handler's snapshot shows its command.            *)
(***************************************************************************)
EXTENDS Snapshots, TLAPS

Steps == {"idle", "await", "wait", "fetch", "insert"}

\* What a handler, or the ticker, does.
Actions(p) ==
  \/ Acted(p) \/ Completed(p) \/ NotCompleted(p)
  \/ ActedInVain(p) \/ ActedOtherwise(p) \/ Matches(p) \/ TimesOut(p)
  \/ Fetch(p) \/ PushSnapshot(p) \/ PushFails(p)

LEMMA NextSteps ==
  Next => \/ AggregateMoves \/ GuestMoves \/ Tick \/ Boot \/ Crash
          \/ \E p \in Pushers : Actions(p)
BY DEF Next, Actions, Pushers

-------------------------------------------------------------------------------
(* Types.                                                                  *)

LEMMA InitTypeOK == Init => TypeOK
<1> SUFFICES ASSUME Init PROVE TypeOK
  OBVIOUS
<1> USE VersionAssumption DEF Init
<1>1. up \in BOOLEAN
  OBVIOUS
<1>2. truth \in Versions /\ seen \in 0 .. truth /\ 0 \in Versions
  BY DEF Versions
<1>3. status \in [Versions -> Statuses]
  OBVIOUS
<1>4. /\ pc \in [Pushers -> Steps] /\ want \in [Pushers -> Statuses \cup {"nothing"}]
      /\ got \in [Pushers -> Versions \cup {Nothing}]
      /\ \A p \in Pushers : pc[p] = "insert" <=> got[p] # Nothing
  BY DEF Steps
<1>5. due \in [Pushers -> Versions]
  BY <1>2
<1>6. alike \in [Pushers -> BOOLEAN]
  OBVIOUS
<1> QED BY <1>1, <1>2, <1>3, <1>4, <1>5, <1>6 DEF TypeOK, Steps

\* Proxmox and its aggregate, and what the app shows.
LEMMA CellsStep ==
  TypeOK /\ [Next]_vars =>
    /\ truth' \in Versions /\ seen' \in 0 .. truth' /\ status' \in [Versions -> Statuses]
    /\ shown' \in Versions \cup {Nothing}
<1> DEFINE Guest == truth' \in Versions /\ seen' \in 0 .. truth'
                    /\ status' \in [Versions -> Statuses]
<1> SUFFICES ASSUME TypeOK, [Next]_vars
             PROVE  Guest /\ shown' \in Versions \cup {Nothing}
  OBVIOUS
<1> USE VersionAssumption DEF TypeOK
<1>1. CASE UNCHANGED pve
  <2>1. Guest
    BY <1>1 DEF pve
  <2>2. shown' = shown \/ \E p \in Pushers : shown' = got[p]
    BY NextSteps
    DEF vars, AggregateMoves, GuestMoves, Tick, Boot, Crash, Actions, Acted,
        Completed, NotCompleted, ActedInVain, ActedOtherwise, Matches, TimesOut,
        Fetch, PushSnapshot, PushFails
  <2> QED BY <2>1, <2>2
<1>2. CASE AggregateMoves
  <2>1. /\ truth' = truth /\ shown' = shown /\ seen' \in seen + 1 .. truth
        /\ status' = [v \in Versions |-> status[IF v < seen' THEN seen' ELSE v]]
    BY <1>2 DEF AggregateMoves
  <2>2. seen' \in 0 .. truth' /\ seen' \in Versions
    BY <2>1 DEF Versions
  <2>3. \A v \in Versions : (IF v < seen' THEN seen' ELSE v) \in Versions
    BY <2>2
  <2>4. \A v \in Versions : status[IF v < seen' THEN seen' ELSE v] \in Statuses
    BY <2>3
  <2>5. status' \in [Versions -> Statuses]
    BY <2>1, <2>4
  <2> QED BY <2>1, <2>2, <2>5
<1>3. ASSUME NEW s \in Statuses, Becomes(s), UNCHANGED <<seen, shown>>
      PROVE  Guest /\ shown' \in Versions \cup {Nothing}
  <2>1. truth' = truth + 1 /\ truth < MaxVersion
    BY <1>3 DEF Becomes
  <2>2. truth' \in Versions /\ seen' \in 0 .. truth'
    BY <1>3, <2>1 DEF Versions
  <2>3. status' \in [Versions -> Statuses]
    BY <1>3 DEF Becomes
  <2> QED BY <1>3, <2>2, <2>3
<1>4. (\E s \in Statuses : Becomes(s) /\ UNCHANGED <<seen, shown>>)
      \/ AggregateMoves \/ UNCHANGED pve
  BY NextSteps
  DEF vars, pve, GuestMoves, Tick, Boot, Crash, Actions, Acted, Completed,
      NotCompleted, ActedInVain, ActedOtherwise, Matches, TimesOut, Fetch,
      PushSnapshot, PushFails
<1> QED BY <1>1, <1>2, <1>3, <1>4

\* The types of the pushers.
PushersTyped ==
  /\ pc \in [Pushers -> Steps]
  /\ want \in [Pushers -> Statuses \cup {"nothing"}]
  /\ got \in [Pushers -> Versions \cup {Nothing}]
  /\ due \in [Pushers -> Versions] /\ alike \in [Pushers -> BOOLEAN]
  /\ \A p \in Pushers : pc[p] = "insert" <=> got[p] # Nothing

LEMMA PushersStep == TypeOK /\ [Next]_vars => PushersTyped'
<1> SUFFICES ASSUME TypeOK, [Next]_vars PROVE PushersTyped'
  OBVIOUS
<1>0. /\ PushersTyped /\ truth \in Versions /\ seen \in Versions
      /\ 0 \in Versions /\ Nothing \notin Versions
  BY VersionAssumption DEF TypeOK, PushersTyped, Steps, Versions, Nothing
<1>1. CASE UNCHANGED pusher
  BY <1>0, <1>1 DEF pusher, PushersTyped
<1>2. ASSUME NEW p \in Pushers, NEW step \in {"await", "wait", "fetch"}, Goto(p, step),
             pc[p] # "insert", UNCHANGED got,
             want' \in [Pushers -> Statuses \cup {"nothing"}],
             due' \in [Pushers -> Versions], alike' \in [Pushers -> BOOLEAN]
      PROVE  PushersTyped'
  BY <1>0, <1>2 DEF PushersTyped, Goto, Steps
<1>3. ASSUME NEW p \in Pushers, Leave(p) PROVE PushersTyped'
  <2>1. alike' \in [Pushers -> BOOLEAN]
    BY <1>0, <1>3 DEF PushersTyped, Leave
  <2> QED BY <1>0, <1>3, <2>1 DEF PushersTyped, Leave, Goto, Steps
<1>4. CASE Tick
  BY <1>0, <1>2, <1>4 DEF Tick, Pushers, PushersTyped
<1>5. ASSUME NEW p \in Pushers, Acted(p) PROVE PushersTyped'
  <2>1. truth' \in Versions
    BY CellsStep
  <2>2. due' \in [Pushers -> Versions] /\ want' \in [Pushers -> Statuses \cup {"nothing"}]
    BY <1>0, <1>5, <2>1 DEF Acted, PushersTyped
  <2> QED BY <1>0, <1>2, <1>5, <2>2 DEF Acted, PushersTyped
<1>6. ASSUME NEW p \in Pushers, Completed(p) PROVE PushersTyped'
  <2>1. alike' \in [Pushers -> BOOLEAN]
    BY <1>0, <1>6 DEF Completed, PushersTyped
  <2> QED BY <1>0, <1>2, <1>6, <2>1 DEF Completed, PushersTyped
<1>7. ASSUME NEW p \in Pushers,
             ActedInVain(p) \/ ActedOtherwise(p) \/ Matches(p) \/ TimesOut(p)
      PROVE  PushersTyped'
  <2>1. want' \in [Pushers -> Statuses \cup {"nothing"}] /\ due' \in [Pushers -> Versions]
    BY <1>0, <1>7
    DEF ActedInVain, ActedOtherwise, Matches, TimesOut, PushersTyped
  <2>2. alike' \in [Pushers -> BOOLEAN]
    BY <1>0, <1>7
    DEF ActedInVain, ActedOtherwise, Matches, TimesOut, PushersTyped
  <2> QED
    BY <1>0, <1>2, <1>7, <2>1, <2>2
    DEF ActedInVain, ActedOtherwise, Matches, TimesOut
<1>8. ASSUME NEW p \in Pushers, Fetch(p) PROVE PushersTyped'
  BY <1>0, <1>8 DEF Fetch, Goto, PushersTyped, Steps
<1>9. CASE Crash
  <2>1. alike' \in [Pushers -> BOOLEAN]
    BY <1>9 DEF Crash
  <2> QED BY <1>0, <1>9, <2>1 DEF Crash, PushersTyped, Steps
<1> QED
  BY <1>1, <1>3, <1>4, <1>5, <1>6, <1>7, <1>8, <1>9, NextSteps
  DEF vars, AggregateMoves, GuestMoves, Boot, Actions, NotCompleted, PushSnapshot,
      PushFails

\* Snapshots keeps its types.
THEOREM TypeCorrect == Spec => []TypeOK
<1>1. TypeOK /\ [Next]_vars => TypeOK'
  <2> SUFFICES ASSUME TypeOK, [Next]_vars PROVE TypeOK'
    OBVIOUS
  <2>1. up' \in BOOLEAN
    BY NextSteps
    DEF TypeOK, vars, AggregateMoves, GuestMoves, Tick, Boot, Crash, Actions, Acted,
        Completed, NotCompleted, ActedInVain, ActedOtherwise, Matches, TimesOut,
        Fetch, PushSnapshot, PushFails
  <2> QED BY <2>1, CellsStep, PushersStep DEF TypeOK, PushersTyped, Steps
<1> QED BY <1>1, InitTypeOK, PTL DEF Spec

-------------------------------------------------------------------------------
(* The wait.                                                               *)

\* No state of the status waited for is between the one the aggregate shows and
\* the one that is due: so when it shows that status, it shows the one due.
NoneBefore(h) ==
  \A v \in Versions : seen <= v /\ v < due[h] => status[v] # want[h]

Waits(h) ==
  /\ due[h] <= truth
  /\ pc[h] = "idle" => due[h] = 0
  /\ pc[h] = "wait" /\ ~alike[h] => NoneBefore(h)
  /\ pc[h] = "fetch" /\ ~alike[h] => seen >= due[h]
  /\ pc[h] = "insert" /\ ~alike[h] => got[h] >= due[h]

WaitsForAction == \A h \in Handlers : Waits(h)

LEMMA Numbers ==
  ASSUME TypeOK, NEW h \in Handlers
  PROVE  /\ truth \in Nat /\ seen \in Versions /\ seen \in Nat /\ seen <= truth
         /\ due[h] \in Nat /\ got[h] \in Nat /\ h \in Pushers /\ h # Ticker
         /\ h \in DOMAIN pc /\ h \in DOMAIN want /\ h \in DOMAIN got
         /\ h \in DOMAIN due /\ h \in DOMAIN alike
BY VersionAssumption, TickerAssumption DEF TypeOK, Versions, Nothing, Pushers

\* The steps of the handler itself.
LEMMA OwnWait ==
  ASSUME TypeOK, NEW h \in Handlers, Waits(h), Actions(h)
  PROVE  Waits(h)'
<1> USE Numbers
<1>1. CASE Acted(h)
  <2>1. pc'[h] = "await" /\ due'[h] = truth'
    BY <1>1 DEF Acted, Goto
  <2>2. truth' \in Nat
    BY <1>1 DEF Acted, Becomes
  <2> QED BY <2>1, <2>2 DEF Waits
<1>2. CASE Completed(h)
  <2>1. /\ pc'[h] = "wait" /\ UNCHANGED <<truth, seen, status, want, due>>
        /\ alike'[h] = \E v \in Versions : seen <= v /\ v < due[h] /\ status[v] = want[h]
    BY <1>2 DEF Completed, Goto, pve
  <2> QED BY <2>1 DEF Waits, NoneBefore
<1>3. CASE ActedInVain(h) \/ ActedOtherwise(h) \/ TimesOut(h)
  <2>1. due'[h] = 0 /\ UNCHANGED <<truth, seen>> /\ pc'[h] \in {"wait", "fetch"}
    BY <1>3 DEF ActedInVain, ActedOtherwise, TimesOut, Goto, pve, Waits
  <2>2. NoneBefore(h)'
    BY <2>1, VersionAssumption DEF NoneBefore, Versions
  <2> QED BY <2>1, <2>2 DEF Waits
<1>4. CASE Matches(h)
  <2>1. /\ pc[h] = "wait" /\ status[seen] = want[h]
        /\ pc'[h] = "fetch" /\ UNCHANGED <<truth, seen, due, alike>>
    BY <1>4 DEF Matches, WaitOver, Goto, pve
  <2>2. ~alike[h] => seen >= due[h]
    BY <2>1 DEF Waits, NoneBefore
  <2> QED BY <2>1, <2>2 DEF Waits
<1>5. CASE Fetch(h)
  <2>1. /\ pc[h] = "fetch" /\ pc'[h] = "insert" /\ got'[h] = seen
        /\ UNCHANGED <<truth, due, alike>>
    BY <1>5 DEF Fetch, Goto, pve
  <2> QED BY <2>1 DEF Waits
<1>6. CASE NotCompleted(h) \/ PushSnapshot(h) \/ PushFails(h)
  <2>1. due'[h] = 0 /\ pc'[h] = "idle" /\ truth' = truth
    BY <1>6 DEF NotCompleted, PushSnapshot, PushFails, Leave, Goto, pve
  <2> QED BY <2>1 DEF Waits
<1> QED BY <1>1, <1>2, <1>3, <1>4, <1>5, <1>6 DEF Actions

\* The steps of the others and of Proxmox: the guest and its aggregate only move
\* forward, and no state once entered changes its status.
LEMMA OthersWait ==
  ASSUME TypeOK, NEW h \in Handlers, Waits(h),
         \/ UNCHANGED vars \/ AggregateMoves \/ GuestMoves \/ Tick \/ Boot
         \/ \E p \in Pushers \ {h} : Actions(p)
  PROVE  Waits(h)'
<1> USE Numbers
<1>1. /\ pc'[h] = pc[h] /\ want'[h] = want[h] /\ got'[h] = got[h]
      /\ due'[h] = due[h] /\ alike'[h] = alike[h]
  <2>1. ASSUME NEW p \in Pushers \ {h}, Actions(p)
        PROVE  /\ pc'[h] = pc[h] /\ want'[h] = want[h] /\ got'[h] = got[h]
               /\ due'[h] = due[h] /\ alike'[h] = alike[h]
    BY <2>1
    DEF Actions, Acted, Completed, NotCompleted, ActedInVain, ActedOtherwise, Matches,
        TimesOut, Fetch, PushSnapshot, PushFails, Goto, Leave, TypeOK
  <2>2. CASE Tick
    BY <2>2 DEF Tick, Goto, TypeOK
  <2> QED
    BY <2>1, <2>2 DEF vars, pusher, AggregateMoves, GuestMoves, Boot
<1>2. CASE UNCHANGED pve
  BY <1>1, <1>2 DEF pve, Waits, NoneBefore
<1>3. CASE AggregateMoves
  <2>1. /\ truth' = truth /\ seen' \in Versions /\ seen' \in Nat
        /\ seen < seen' /\ seen' <= truth
        /\ \A v \in Versions : seen' <= v => status'[v] = status[v]
    BY <1>3, VersionAssumption DEF AggregateMoves, TypeOK, Versions
  <2>2. \A v \in Versions : seen' <= v => seen <= v
    BY <2>1 DEF Versions
  <2> QED BY <1>1, <2>1, <2>2 DEF Waits, NoneBefore
<1>4. ASSUME NEW s \in Statuses, Becomes(s), seen' = seen PROVE Waits(h)'
  <2>1. truth' = truth + 1 /\ \A v \in Versions : v <= truth => status'[v] = status[v]
    BY <1>4, VersionAssumption DEF Becomes, TypeOK, Versions
  <2>2. \A v \in Versions : v < due[h] => v <= truth
    BY DEF Waits, Versions
  <2> QED BY <1>1, <1>4, <2>1, <2>2 DEF Waits, NoneBefore
<1>5. \/ UNCHANGED pve \/ AggregateMoves
      \/ \E s \in Statuses : Becomes(s) /\ seen' = seen
  BY DEF vars, pve, GuestMoves, Tick, Boot, Actions, Acted, Completed, NotCompleted,
         ActedInVain, ActedOtherwise, Matches, TimesOut, Fetch, PushSnapshot, PushFails
<1> QED BY <1>2, <1>3, <1>4, <1>5

LEMMA WaitsStep == TypeOK /\ WaitsForAction /\ [Next]_vars => WaitsForAction'
<1> SUFFICES ASSUME TypeOK, WaitsForAction, [Next]_vars, NEW h \in Handlers
             PROVE  Waits(h)'
  BY DEF WaitsForAction
<1>1. Waits(h)
  BY DEF WaitsForAction
<1>2. CASE Actions(h)
  BY <1>1, <1>2, OwnWait
<1>3. CASE \/ UNCHANGED vars \/ AggregateMoves \/ GuestMoves \/ Tick \/ Boot
           \/ \E p \in Pushers \ {h} : Actions(p)
  BY <1>1, <1>3, OthersWait
<1>4. CASE Crash
  <2>1. pc'[h] = "idle" /\ due'[h] = 0 /\ truth' = truth
    BY <1>4, Numbers DEF Crash, pve
  <2> QED BY <2>1, Numbers DEF Waits
<1> QED BY <1>2, <1>3, <1>4, NextSteps

\* A handler that waited without running into its time limit pushes the state
\* its command brought about or a later one, unless an earlier state that was
\* yet to be shown had the same status: however polls, fetches, changes of the
\* guest and other commands interleave.
THEOREM PushesShowActions == Spec => []PushShowsAction
<1>1. Init => WaitsForAction
  BY VersionAssumption DEF Init, WaitsForAction, Waits, Pushers, Versions
<1>2. WaitsForAction => PushShowsAction
  BY DEF WaitsForAction, Waits, PushShowsAction
<1>3. Spec => []TypeOK
  BY TypeCorrect
<1> QED BY <1>1, <1>2, <1>3, WaitsStep, PTL DEF Spec
===============================================================================
