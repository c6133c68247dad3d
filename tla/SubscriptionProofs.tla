-------------------------- MODULE SubscriptionProofs --------------------------
(***************************************************************************)
(* Theorems about Subscription, for every interval, threshold, deadline    *)
(* and fault budget.                                                       *)
(***************************************************************************)
EXTENDS Subscription, TLAPS

Assumptions == /\ HeartbeatInterval \in Nat \ {0}
               /\ AckLagThreshold \in Nat \ {0}
               /\ ReadDeadline \in Nat \ {0}
               /\ DialTimeout \in Nat
               /\ BackoffCap \in Nat \ {0}
               /\ AckDelay \in Nat
               /\ Budget \in [Faults -> Nat]

LEMMA ConstantsTyped == Assumptions
BY IntervalAssumption, LagAssumption, DeadlineAssumption, DialAssumption,
   DelayAssumption, BudgetAssumption DEF Assumptions

\* The clock of the reconnect loop never passes the limit of its phase.
WaitBounded ==
  /\ phase = "dial" => waited <= DialTimeout
  /\ phase = "backoff" => waited <= wait

\* Silence began after the last frame, and since then nothing was acknowledged.
SilenceIsSeen ==
  /\ peer = "alive" => silentFor = 0
  /\ peer = "silent" =>
       /\ phase = "joined"
       /\ silentFor <= sinceFrame
       /\ beating => silentFor <= sinceBeat + lag * HeartbeatInterval

Inv == TypeOK /\ WaitBounded /\ SilenceIsSeen

LEMMA SpendTyped ==
  ASSUME budget \in [Faults -> Nat], NEW fault \in Faults, Spend(fault)
  PROVE  budget' \in [Faults -> Nat]
BY DEF Spend

\* The back-off stays under twice its cap, and with the jitter the wait under
\* three times.
LEMMA BackOffInv ==
  ASSUME TypeOK, BackOff, budget' \in [Faults -> Nat]
  PROVE  Inv'
<1> USE ConstantsTyped DEF Assumptions, BackOff
<1>1. PICK j \in 0 .. 2 * (backoff \div 4) : wait' = backoff - backoff \div 4 + j
  OBVIOUS
<1>2. backoff \in 1 .. 2 * BackoffCap /\ backoff' = backoff
  BY DEF TypeOK
<1>3. backoff \div 4 \in Nat /\ 4 * (backoff \div 4) <= backoff
  BY <1>2
<1>4. wait' \in 0 .. 3 * BackoffCap
  BY <1>1, <1>2, <1>3
<1>5. phase' = "backoff" /\ peer' = "alive" /\ beating' = FALSE /\ waited' = 0
  OBVIOUS
<1>6. waited' \in 0 .. 3 * BackoffCap + DialTimeout
  BY <1>5
<1>7. lag' \in 0 .. AckLagThreshold - 1 /\ sinceBeat' \in 0 .. HeartbeatInterval
  OBVIOUS
<1>8. sinceFrame' \in 0 .. ReadDeadline /\ silentFor' \in 0 .. ReadDeadline + 1
  OBVIOUS
<1>9. TypeOK'
  BY <1>2, <1>4, <1>5, <1>6, <1>7, <1>8 DEF TypeOK
<1>10. WaitBounded' /\ SilenceIsSeen'
  BY <1>4, <1>5 DEF WaitBounded, SilenceIsSeen
<1> QED BY <1>9, <1>10 DEF Inv

LEMMA InitInv == Init => Inv
<1> SUFFICES ASSUME Init PROVE Inv
  OBVIOUS
<1> USE ConstantsTyped DEF Assumptions, Init, NoConnection
<1>1. phase = "dial" /\ backoff \in 1 .. 2 * BackoffCap /\ wait \in 0 .. 3 * BackoffCap
  OBVIOUS
<1>2. waited \in 0 .. 3 * BackoffCap + DialTimeout
  OBVIOUS
<1>3. lag \in 0 .. AckLagThreshold - 1 /\ sinceBeat \in 0 .. HeartbeatInterval
  OBVIOUS
<1>4. sinceFrame \in 0 .. ReadDeadline /\ silentFor \in 0 .. ReadDeadline + 1
  OBVIOUS
<1>5. TypeOK
  BY <1>1, <1>2, <1>3, <1>4 DEF TypeOK
<1>6. WaitBounded /\ SilenceIsSeen
  BY DEF WaitBounded, SilenceIsSeen
<1> QED BY <1>5, <1>6 DEF Inv

\* One more heartbeat without an answer is one more interval.
LEMMA OneMoreInterval ==
  ASSUME NEW n \in Nat, NEW h \in Nat
  PROVE  (n + 1) * h = n * h + h /\ n * h \in Nat
OBVIOUS

LEMMA StepInv == Inv /\ [Next]_vars => Inv'
<1> SUFFICES ASSUME Inv, [Next]_vars PROVE Inv'
  OBVIOUS
<1> USE ConstantsTyped DEF Assumptions, Inv, TypeOK
<1>1. CASE UNCHANGED vars
  BY <1>1 DEF vars, loop, conn, WaitBounded, SilenceIsSeen
<1>2. CASE Retry
  BY <1>2 DEF Retry, NextBackoff, conn, WaitBounded, SilenceIsSeen
<1>3. CASE Refused \/ PeerCloses
  <2>1. BackOff /\ \E fault \in Faults : Spend(fault)
    BY <1>3 DEF Refused, PeerCloses, Faults
  <2>2. budget' \in [Faults -> Nat]
    BY <2>1, SpendTyped
  <2> HIDE DEF Inv, TypeOK
  <2>3. TypeOK
    BY DEF Inv
  <2> QED BY <2>1, <2>2, <2>3, BackOffInv
<1>4. CASE Join
  BY <1>4 DEF Join, WaitBounded, SilenceIsSeen
<1>5. CASE GoesSilent
  <2>1. Spend("silent") /\ budget' \in [Faults -> Nat]
    BY <1>5, SpendTyped DEF GoesSilent, Faults
  <2>2. lag * HeartbeatInterval \in Nat
    BY OneMoreInterval
  <2> QED BY <1>5, <2>1, <2>2 DEF GoesSilent, loop, WaitBounded, SilenceIsSeen
<1>6. CASE Event
  BY <1>6 DEF Event, DeadlinePerRead, loop, WaitBounded, SilenceIsSeen
<1>7. CASE Acknowledge
  BY <1>7 DEF Acknowledge, DeadlinePerRead, loop, WaitBounded, SilenceIsSeen
<1>8. CASE Beat
  BY <1>8, OneMoreInterval
  DEF Beat, BeatDue, LagTooHigh, loop, WaitBounded, SilenceIsSeen
<1>9. CASE ForceClose \/ ReadTimesOut
  <2>1. BackOff /\ budget' \in [Faults -> Nat]
    BY <1>9 DEF ForceClose, ReadTimesOut
  <2> HIDE DEF Inv, TypeOK
  <2>2. TypeOK
    BY DEF Inv
  <2> QED BY <2>1, <2>2, BackOffInv
<1>10. CASE BeatFails
  <2>1. Spend("write") /\ budget' \in [Faults -> Nat]
    BY <1>10, SpendTyped DEF BeatFails, Faults
  <2>2. UNCHANGED <<phase, backoff, wait, waited, peer, lag, sinceFrame, silentFor>>
        /\ beating' = FALSE /\ sinceBeat' = 0
    BY <1>10 DEF BeatFails, loop
  <2>3. sinceBeat' \in 0 .. HeartbeatInterval
    BY <2>2
  <2>4. waited' \in 0 .. 3 * BackoffCap + DialTimeout
    BY <2>2
  <2>5. TypeOK'
    BY <2>1, <2>2, <2>3, <2>4
  <2>6. WaitBounded' /\ SilenceIsSeen'
    BY <2>2 DEF WaitBounded, SilenceIsSeen
  <2> QED BY <2>5, <2>6
<1>11. CASE Tick
  BY <1>11, OneMoreInterval
  DEF Tick, Due, BeatDue, ReadExpired, UpTo, WaitBounded, SilenceIsSeen
<1> HIDE DEF Inv, TypeOK, Assumptions
<1> QED
  BY <1>1, <1>2, <1>3, <1>4, <1>5, <1>6, <1>7, <1>8, <1>9, <1>10, <1>11 DEF Next

\* Every clock of the subscription stays within its limit and the back-off
\* under twice its cap (realtime.go:119-131, 289-334).
THEOREM TypeCorrect == Spec => []TypeOK
<1>1. Inv => TypeOK
  BY DEF Inv
<1> QED BY InitInv, StepInv, <1>1, PTL DEF Spec

LEMMA TimesMonotone ==
  ASSUME NEW m \in Nat, NEW n \in Nat, NEW h \in Nat, m <= n
  PROVE  m * h <= n * h
OBVIOUS

\* A half-open connection is closed within AckLagThreshold heartbeats, or
\* within the read deadline once the heartbeat goroutine has ended
\* (realtime.go:23-33, 273-279).
THEOREM SilenceNoticed == Spec => []SilenceIsNoticed
<1>1. Inv => SilenceIsNoticed
  <2> SUFFICES ASSUME Inv, phase = "joined", peer = "silent" PROVE SilenceIsNoticed
    BY DEF SilenceIsNoticed
  <2> USE ConstantsTyped DEF Assumptions, Inv
  <2>1. /\ lag \in 0 .. AckLagThreshold - 1
        /\ sinceBeat \in 0 .. HeartbeatInterval
        /\ sinceFrame \in 0 .. ReadDeadline
        /\ silentFor \in Nat
    BY DEF TypeOK
  <2>2. silentFor <= ReadDeadline
    BY <2>1 DEF SilenceIsSeen
  <2>3. lag * HeartbeatInterval + HeartbeatInterval <= AckLagThreshold * HeartbeatInterval
    <3>1. lag + 1 \in Nat /\ lag + 1 <= AckLagThreshold
      BY <2>1
    <3> QED BY <2>1, <3>1, TimesMonotone, OneMoreInterval
  <2>4. lag * HeartbeatInterval \in Nat /\ AckLagThreshold * HeartbeatInterval \in Nat
    BY <2>1, OneMoreInterval
  <2>5. beating => silentFor <= AckLagThreshold * HeartbeatInterval
    BY <2>1, <2>3, <2>4 DEF SilenceIsSeen
  <2> QED BY <2>2, <2>5 DEF SilenceIsNoticed
<1> QED BY InitInv, StepInv, <1>1, PTL DEF Spec

-------------------------------------------------------------------------------
(* A prompt server's connection is kept.                                   *)

\* With a live server the oldest heartbeat without an answer is at most AckDelay
\* old, and the last frame came after the heartbeat before it.
AnswersInTime ==
  /\ phase # "joined" => NoConnection
  /\ phase = "joined" /\ peer = "alive" =>
       /\ beating
       /\ lag = 0 => sinceFrame <= sinceBeat
       /\ lag > 0 => /\ OldestUnanswered <= AckDelay
                     /\ sinceFrame <= HeartbeatInterval + OldestUnanswered

\* What an answer, or one more heartbeat, does to the age of the oldest one.
LEMMA OldestUnansweredAge ==
  ASSUME NEW n \in Nat, n > 0, NEW h \in Nat
  PROVE  /\ (n - 1) * h \in Nat
         /\ n * h = (n - 1) * h + h
OBVIOUS

LEMMA InitAnswers == Init => AnswersInTime
BY DEF Init, AnswersInTime

LEMMA BackOffAnswers == BackOff => AnswersInTime'
BY DEF BackOff, AnswersInTime, NoConnection

LEMMA StepAnswers == Inv /\ AnswersInTime /\ [Next]_vars => AnswersInTime'
<1> SUFFICES ASSUME Inv, AnswersInTime, [Next]_vars PROVE AnswersInTime'
  OBVIOUS
<1> USE ConstantsTyped DEF Assumptions
<1>1. /\ phase \in {"dial", "joined", "backoff"}
      /\ peer \in {"alive", "silent"} /\ beating \in BOOLEAN
      /\ lag \in Nat /\ sinceBeat \in 0 .. HeartbeatInterval
      /\ sinceFrame \in 0 .. ReadDeadline
  BY DEF Inv, TypeOK
<1>2. CASE UNCHANGED <<phase, conn>>
  BY <1>2 DEF conn, AnswersInTime, NoConnection, OldestUnanswered
<1>3. CASE Retry
  BY <1>3 DEF Retry, conn, AnswersInTime, NoConnection
<1>4. CASE Refused \/ PeerCloses \/ ForceClose \/ ReadTimesOut
  BY <1>4, BackOffAnswers DEF Refused, PeerCloses, ForceClose, ReadTimesOut
<1>5. CASE Join
  BY <1>5 DEF Join, AnswersInTime, NoConnection
<1>6. CASE GoesSilent \/ BeatFails
  BY <1>6 DEF GoesSilent, BeatFails, BeatDue, loop, AnswersInTime
<1>7. CASE Event
  BY <1>1, <1>7, OldestUnansweredAge
  DEF Event, DeadlinePerRead, loop, AnswersInTime, OldestUnanswered
<1>8. CASE Acknowledge
  <2>1. lag = 1 \/ (lag > 1 /\ lag - 1 \in Nat /\ lag - 1 > 0)
    BY <1>1, <1>8 DEF Acknowledge
  <2> QED BY <1>1, <1>8, <2>1, OldestUnansweredAge
          DEF Acknowledge, DeadlinePerRead, loop, AnswersInTime, OldestUnanswered
<1>9. CASE Beat
  <2>1. lag = 0 \/ lag > 0
    BY <1>1
  <2> QED BY <1>1, <1>9, <2>1, OldestUnansweredAge
          DEF Beat, BeatDue, loop, AnswersInTime, OldestUnanswered
<1>10. CASE Tick
  <2>1. CASE phase = "joined"
    BY <1>1, <1>10, <2>1, OldestUnansweredAge
    DEF Tick, Due, UpTo, AnswersInTime, OldestUnanswered
  <2>2. CASE phase # "joined"
    BY <1>10, <2>2 DEF Tick, AnswersInTime, NoConnection
  <2> QED BY <2>1, <2>2
<1> QED
  BY <1>2, <1>3, <1>4, <1>5, <1>6, <1>7, <1>8, <1>9, <1>10
  DEF Next, vars, loop

\* While the server answers within AckDelay, and AckDelay fits the two
\* watchdogs, only the server ends a connection (realtime.go:280-334).
THEOREM HealthyKept ==
  ASSUME PromptServer
  PROVE  Spec => HealthyIsKept
<1>1. Inv /\ AnswersInTime /\ [Next]_vars =>
        [phase = "joined" /\ phase' # "joined" /\ peer = "alive" => PeerCloses]_vars
  <2> SUFFICES ASSUME Inv, AnswersInTime, [Next]_vars,
                      phase = "joined", phase' # "joined", peer = "alive"
               PROVE  PeerCloses
    OBVIOUS
  <2> USE ConstantsTyped DEF Assumptions
  <2>1. /\ lag \in 0 .. AckLagThreshold - 1
        /\ sinceBeat \in 0 .. HeartbeatInterval
        /\ sinceFrame \in 0 .. ReadDeadline
    BY DEF Inv, TypeOK
  <2>2. AckLagThreshold > 1
    <3>1. AckDelay >= 0 /\ (1 - 1) * HeartbeatInterval = 0
      OBVIOUS
    <3> QED BY <3>1 DEF PromptServer
  <2>3. ~ForceClose
    <3> SUFFICES ASSUME ForceClose PROVE FALSE
      OBVIOUS
    <3>1. lag = AckLagThreshold - 1 /\ lag > 0 /\ sinceBeat = HeartbeatInterval
      BY <2>1, <2>2 DEF ForceClose, BeatDue, LagTooHigh
    <3>2. sinceBeat + (lag - 1) * HeartbeatInterval <= AckDelay
      BY <3>1 DEF AnswersInTime, OldestUnanswered
    <3>3. lag * HeartbeatInterval = (lag - 1) * HeartbeatInterval + HeartbeatInterval
          /\ (lag - 1) * HeartbeatInterval \in Nat
      BY <2>1, <3>1, OldestUnansweredAge
    <3>4. AckDelay < lag * HeartbeatInterval
      BY <3>1 DEF PromptServer
    <3> QED BY <3>1, <3>2, <3>3, <3>4
  <2>4. ~ReadTimesOut
    <3>1. sinceFrame <= HeartbeatInterval + AckDelay
      <4>1. lag = 0 \/ lag > 0
        BY <2>1
      <4>2. lag > 0 => (lag - 1) * HeartbeatInterval \in Nat
        BY <2>1, OldestUnansweredAge
      <4> QED BY <2>1, <4>1, <4>2 DEF AnswersInTime, OldestUnanswered
    <3> QED BY <2>1, <3>1 DEF ReadTimesOut, ReadExpired, PromptServer
  <2> QED
    BY <2>3, <2>4
    DEF Next, vars, loop, Retry, Refused, Join, GoesSilent, Event, Acknowledge,
        Beat, BeatFails, Tick
<1> QED
  BY InitInv, StepInv, InitAnswers, StepAnswers, <1>1, PTL DEF Spec, HealthyIsKept
===============================================================================
