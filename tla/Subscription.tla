---------------------------- MODULE Subscription ----------------------------
(***************************************************************************)
(* One Realtime subscription in time: the reconnect loop with its back-off *)
(* and jitter, the dial and join under their time limit, and a joined      *)
(* connection watched by a heartbeat goroutine that counts missing         *)
(* acknowledgements and by a deadline on every read.  The server may close *)
(* the connection, or go silent while writes still succeed (half-open).    *)
(*                                                                         *)
(* Time is discrete; Tick is blocked while something is due.  Which rows   *)
(* the connection carries is the matter of module Commands.                *)
(***************************************************************************)
EXTENDS Naturals

CONSTANTS
  HeartbeatInterval,  \* 25 s
  AckLagThreshold,    \* 2
  ReadDeadline,       \* 60 s
  DialTimeout,        \* 10 s
  BackoffCap,         \* 30 s: from here on the back-off is not doubled
  AckDelay,           \* how long a live server takes at most for an answer
  Budget              \* how many faults of each kind a behaviour may contain

Faults == {"refused", "closed", "silent", "write"}

ASSUME IntervalAssumption == HeartbeatInterval \in Nat \ {0}
ASSUME LagAssumption      == AckLagThreshold \in Nat \ {0}
ASSUME DeadlineAssumption == ReadDeadline \in Nat \ {0}
ASSUME DialAssumption     == DialTimeout \in Nat /\ BackoffCap \in Nat \ {0}
ASSUME DelayAssumption    == AckDelay \in Nat
ASSUME BudgetAssumption   == Budget \in [Faults -> Nat]

VARIABLES
  phase,       \* "dial" until joined, "joined", "backoff"
  backoff,     \* the loop variable of runSubscription
  wait,        \* the time this round waits, jitter included
  waited,      \* time spent in "dial" or "backoff"
  peer,        \* the server end of the connection: "alive" or "silent"
  beating,     \* the heartbeat goroutine runs
  lag,         \* hbSent - hbAcked
  sinceBeat,   \* time since the ticker's last tick
  sinceFrame,  \* time since conn.Read last returned a frame
  silentFor,   \* time since the server went silent
  budget       \* faults that may still happen

loop  == <<phase, backoff, wait, waited>>
conn  == <<peer, beating, lag, sinceBeat, sinceFrame, silentFor>>
vars  == <<loop, conn, budget>>

NoConnection ==
  /\ peer = "alive" /\ beating = FALSE /\ lag = 0
  /\ sinceBeat = 0 /\ sinceFrame = 0 /\ silentFor = 0

Init ==
  /\ phase = "dial" /\ backoff = 1 /\ wait = 0 /\ waited = 0
  /\ NoConnection
  /\ budget = Budget

Spend(fault) == /\ budget[fault] > 0
                /\ budget' = [budget EXCEPT ![fault] = @ - 1]

-------------------------------------------------------------------------------
(* The reconnect loop.                                                     *)

\* subscribeOnce returns: the loop waits for the back-off, give or take a
\* quarter of it.
BackOff ==
  /\ phase' = "backoff"
  /\ \E jitter \in 0 .. 2 * (backoff \div 4) :
       wait' = backoff - backoff \div 4 + jitter
  /\ waited' = 0
  /\ UNCHANGED backoff
  /\ peer' = "alive" /\ beating' = FALSE /\ lag' = 0
  /\ sinceBeat' = 0 /\ sinceFrame' = 0 /\ silentFor' = 0

NextBackoffUncapped == 2 * backoff
NextBackoff == IF backoff < BackoffCap THEN 2 * backoff ELSE backoff

Retry ==
  /\ phase = "backoff"
  /\ waited = wait
  /\ phase' = "dial"
  /\ backoff' = NextBackoff
  /\ waited' = 0
  /\ UNCHANGED <<wait, conn, budget>>

\* No token, no connection, a rejected join, or no phx_reply in DialTimeout.
Refused ==
  /\ phase = "dial"
  /\ Spend("refused")
  /\ BackOff

Join ==
  /\ phase = "dial"
  /\ phase' = "joined"
  /\ waited' = 0
  /\ beating' = TRUE
  /\ UNCHANGED <<backoff, wait, peer, lag, sinceBeat, sinceFrame, silentFor, budget>>

-------------------------------------------------------------------------------
(* The server.                                                             *)

GoesSilent ==
  /\ phase = "joined"
  /\ peer = "alive"
  /\ Spend("silent")
  /\ peer' = "silent"
  /\ UNCHANGED <<loop, beating, lag, sinceBeat, sinceFrame, silentFor>>

\* conn.Read fails: EOF, a close frame or a reset.
PeerCloses ==
  /\ phase = "joined"
  /\ Spend("closed")
  /\ BackOff

\* Every conn.Read gets a deadline of its own.
DeadlineSetOnce == sinceFrame
DeadlinePerRead == 0

\* Any other frame than an acknowledgement.
Event ==
  /\ phase = "joined"
  /\ peer = "alive"
  /\ sinceFrame > 0
  /\ sinceFrame' = DeadlinePerRead
  /\ UNCHANGED <<loop, peer, beating, lag, sinceBeat, silentFor, budget>>

\* The phx_reply to the oldest heartbeat not yet answered.
Acknowledge ==
  /\ phase = "joined"
  /\ peer = "alive"
  /\ lag > 0
  /\ lag' = lag - 1
  /\ sinceFrame' = DeadlinePerRead
  /\ UNCHANGED <<loop, peer, beating, sinceBeat, silentFor, budget>>

-------------------------------------------------------------------------------
(* The two watchdogs.                                                      *)

BeatDue == phase = "joined" /\ beating /\ sinceBeat = HeartbeatInterval

LagTooHighByOne(n) == n > AckLagThreshold
LagTooHigh(n) == n >= AckLagThreshold

Beat ==
  /\ BeatDue
  /\ ~LagTooHigh(lag + 1)
  /\ lag' = lag + 1
  /\ sinceBeat' = 0
  /\ UNCHANGED <<loop, peer, beating, sinceFrame, silentFor, budget>>

\* The heartbeat just sent counts as missing; CloseNow makes conn.Read fail.
ForceClose ==
  /\ BeatDue
  /\ LagTooHigh(lag + 1)
  /\ BackOff
  /\ UNCHANGED budget

\* The write fails: the heartbeat goroutine ends and leaves the connection to
\* the read deadline.
BeatFails ==
  /\ BeatDue
  /\ peer = "silent"
  /\ Spend("write")
  /\ beating' = FALSE
  /\ sinceBeat' = 0
  /\ UNCHANGED <<loop, peer, lag, sinceFrame, silentFor>>

ReadExpiredNever == FALSE
ReadExpired == sinceFrame >= ReadDeadline

ReadTimesOut ==
  /\ phase = "joined"
  /\ ReadExpired
  /\ BackOff
  /\ UNCHANGED budget

-------------------------------------------------------------------------------
\* The age of the oldest heartbeat without an answer.
OldestUnanswered == sinceBeat + (lag - 1) * HeartbeatInterval

Due ==
  \/ phase = "dial" /\ waited = DialTimeout
  \/ phase = "backoff" /\ waited = wait
  \/ BeatDue
  \/ phase = "joined" /\ ReadExpired
  \/ phase = "joined" /\ peer = "alive" /\ lag > 0 /\ OldestUnanswered >= AckDelay

UpTo(t, bound) == IF t < bound THEN t + 1 ELSE t

Tick ==
  /\ ~Due
  /\ IF phase = "joined"
       THEN /\ sinceBeat' = IF beating THEN sinceBeat + 1 ELSE 0
            /\ sinceFrame' = UpTo(sinceFrame, ReadDeadline)
            /\ silentFor' = IF peer = "silent" THEN UpTo(silentFor, ReadDeadline + 1) ELSE 0
            /\ UNCHANGED waited
       ELSE /\ waited' = waited + 1
            /\ UNCHANGED <<sinceBeat, sinceFrame, silentFor>>
  /\ UNCHANGED <<phase, backoff, wait, peer, beating, lag, budget>>

Next ==
  \/ Retry \/ Refused \/ Join
  \/ GoesSilent \/ PeerCloses \/ Event \/ Acknowledge
  \/ Beat \/ ForceClose \/ BeatFails \/ ReadTimesOut
  \/ Tick

Spec == Init /\ [][Next]_vars

\* Time passes, timers fire, and a reachable server answers a join in time.
Fairness ==
  /\ WF_vars(Tick)
  /\ WF_vars(Retry) /\ WF_vars(Join)
  /\ WF_vars(Beat \/ ForceClose) /\ WF_vars(ReadTimesOut) /\ WF_vars(Acknowledge)

FairSpec == Spec /\ Fairness

-------------------------------------------------------------------------------
(* Properties.                                                             *)

\* Every clock stays within the limit that makes something happen; the back-off
\* stops growing once it has reached the cap (realtime.go:127-129).
TypeOK ==
  /\ phase \in {"dial", "joined", "backoff"}
  /\ backoff \in 1 .. 2 * BackoffCap
  /\ wait \in 0 .. 3 * BackoffCap
  /\ waited \in 0 .. 3 * BackoffCap + DialTimeout
  /\ peer \in {"alive", "silent"} /\ beating \in BOOLEAN
  /\ lag \in 0 .. AckLagThreshold - 1
  /\ sinceBeat \in 0 .. HeartbeatInterval
  /\ sinceFrame \in 0 .. ReadDeadline
  /\ silentFor \in 0 .. ReadDeadline + 1
  /\ budget \in [Faults -> Nat]

\* A half-open connection is given up within two heartbeat intervals of the
\* server's last sign of life, or within the read deadline when the heartbeat
\* goroutine has ended (realtime.go:23-33, 273-279).
SilenceIsNoticed ==
  phase = "joined" /\ peer = "silent" =>
    /\ silentFor <= ReadDeadline
    /\ beating => silentFor <= AckLagThreshold * HeartbeatInterval

\* A server that answers in time: for link_watch, and for the theorem that
\* needs it.
PromptServer ==
  /\ AckDelay < (AckLagThreshold - 1) * HeartbeatInterval
  /\ HeartbeatInterval + AckDelay < ReadDeadline

\* With a prompt server neither watchdog ends a connection before the server
\* does (realtime.go:280-334).
HealthyIsKept ==
  [][phase = "joined" /\ phase' # "joined" /\ peer = "alive" => PeerCloses]_vars

\* Whatever ends a connection, the subscription is joined to a live server
\* again, as long as the server's faults stop (realtime.go:101-131).
ComesBack ==
  (phase # "joined" \/ peer = "silent") ~> (phase = "joined" /\ peer = "alive")
===============================================================================
