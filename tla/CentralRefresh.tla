---------------------------- MODULE CentralRefresh ----------------------------
(***************************************************************************)
(* The life of access tokens: the one the client caches, and those the     *)
(* Realtime server holds for the joined channels. access() hands out the   *)
(* cached token while it has more than Skew left; a loop that the first    *)
(* registered channel starts refreshes it every Interval and sends it to   *)
(* every registered channel. A channel whose token expires is closed by    *)
(* the server.                                                             *)
(*                                                                         *)
(* Time is discrete. A refresh takes up to Timeout; the server issues the  *)
(* token at some moment in between, and the client reckons its life from   *)
(* the answer. Sending takes no time. Why a connection closes is the       *)
(* matter of Subscription, what a refresh does to the session and its      *)
(* refresh token that of TokenSession.                                     *)
(***************************************************************************)
EXTENDS Naturals

CONSTANTS
  Topics,    \* the channels: commands and read_commands
  Loop,      \* the central loop and the REST calls, beside the channels, as
  Rest,      \*   those who refresh
  TTL,       \* 60 min, decided by the server
  Interval,  \* 30 min
  Skew,      \* 30 s
  Timeout,   \* 30 s, of the HTTP client
  Failures   \* bound: refreshes that fail

ASSUME ActorAssumption    == Loop # Rest /\ {Loop, Rest} \cap Topics = {}
ASSUME TimeAssumption     == {TTL, Interval, Skew, Timeout, Failures} \subseteq Nat
ASSUME TTLAssumption      == TTL >= 2 * Interval
ASSUME SkewAssumption     == Skew >= Timeout
ASSUME IntervalAssumption == Interval > 2 * Timeout

Actors == Topics \cup {Loop, Rest}

VARIABLES
  left, life,  \* the cached token: time to expiresAt, time it is really good for
  asking,      \* who is in refresh
  age,         \* and for how long
  sub, hold,   \* each channel, and what the token it joined with is good for
  loop, tick,  \* the central loop, and the time to its next tick
  fresh,       \* what the token it sends is good for
  todo, gone,  \* channels it still has to send it to; those closed since
  \* Bookkeeping: the last tick failed or the first join came late; channels that
  \* took their token before the loop did and have not registered; channels that
  \* joined with such a token, and failures left.
  behind, crossing, weak, failures

token == <<left, life, asking, age>>
subs  == <<sub, hold>>
ticks == <<loop, tick, fresh, todo, gone>>
notes == <<behind, crossing, weak>>
vars  == <<token, subs, ticks, notes, failures>>

\* After Ping.
Init ==
  /\ left = TTL /\ life \in TTL - Timeout .. TTL
  /\ asking = {} /\ age = [a \in Actors |-> 0]
  /\ sub = [t \in Topics |-> "away"] /\ hold = [t \in Topics |-> 0]
  /\ loop = "off" /\ tick = 0 /\ fresh = 0 /\ todo = {} /\ gone = {}
  /\ behind = FALSE /\ crossing = {} /\ weak = {}
  /\ failures = Failures

In(state) == { t \in Topics : sub[t] = state }
Registered == In("joined") \cup In("silent")

-------------------------------------------------------------------------------
(* access and refresh.                                                     *)

UsableToTheEnd == left > 0
Usable == left > Skew

Ask(a) == /\ asking' = asking \cup {a}
          /\ age' = [age EXCEPT ![a] = 0]

\* subscribeOnce starts by asking for an access token.
JoinWithCached(t) ==
  /\ sub[t] = "away"
  /\ Usable
  /\ sub' = [sub EXCEPT ![t] = "joining"]
  /\ hold' = [hold EXCEPT ![t] = life]
  /\ UNCHANGED <<token, ticks, notes, failures>>

JoinAsks(t) ==
  /\ sub[t] = "away"
  /\ ~Usable
  /\ sub' = [sub EXCEPT ![t] = "asking"]
  /\ Ask(t)
  /\ UNCHANGED <<left, life, hold, ticks, notes, failures>>

\* Any call through PostgREST.
RestAsks ==
  /\ Rest \notin asking
  /\ ~Usable
  /\ Ask(Rest)
  /\ UNCHANGED <<left, life, subs, ticks, notes, failures>>

\* The answer is reckoned to be good for all of expires_in from now on.
Adopts(a, new) ==
  /\ new \in TTL - age[a] .. TTL
  /\ life' = new
  /\ left' = TTL
  /\ asking' = asking \ {a}
  /\ UNCHANGED age

RestAnswered ==
  /\ Rest \in asking
  /\ \E new \in TTL - Timeout .. TTL : Adopts(Rest, new)
  /\ UNCHANGED <<subs, ticks, notes, failures>>

JoinAnswered(t) ==
  /\ t \in asking
  /\ \E new \in TTL - Timeout .. TTL :
       /\ Adopts(t, new)
       /\ hold' = [hold EXCEPT ![t] = new]
  /\ sub' = [sub EXCEPT ![t] = "joining"]
  /\ UNCHANGED <<ticks, notes, failures>>

Fails(a) ==
  /\ a \in asking
  /\ failures > 0
  /\ failures' = failures - 1
  /\ asking' = asking \ {a}
  /\ UNCHANGED <<left, life, age>>

RestFails ==
  /\ Fails(Rest)
  /\ UNCHANGED <<subs, ticks, notes>>

JoinUnanswered(t) ==
  /\ Fails(t)
  /\ sub' = [sub EXCEPT ![t] = "away"]
  /\ UNCHANGED <<hold, ticks, notes>>

-------------------------------------------------------------------------------
(* The channels.                                                           *)

PeriodOfToken == TTL
Period == Interval

\* The first channel is late when a token that another goroutine got at the same
\* time as its own might not last to the first broadcast.
Late(t) == hold[t] <= Interval + 2 * Timeout

Register(t) ==
  /\ sub[t] = "joining"
  /\ hold[t] > 0
  /\ sub' = [sub EXCEPT ![t] = "joined"]
  /\ IF loop = "off"
       THEN /\ loop' = "waiting"
            /\ tick' = Period
            /\ behind' = Late(t)
            /\ crossing' = In("joining") \ {t}
            /\ weak' = IF Late(t) THEN weak \cup {t} ELSE weak
       ELSE /\ UNCHANGED <<loop, tick, behind>>
            /\ crossing' = crossing \ {t}
            /\ weak' = IF behind \/ t \in crossing THEN weak \cup {t} ELSE weak
  /\ UNCHANGED <<token, hold, fresh, todo, gone, failures>>

\* No connection, or a refused join.
JoinFails(t) ==
  /\ sub[t] = "joining"
  /\ sub' = [sub EXCEPT ![t] = "away"]
  /\ hold' = [hold EXCEPT ![t] = 0]
  /\ crossing' = crossing \ {t}
  /\ UNCHANGED <<token, ticks, behind, weak, failures>>

GoesSilent(t) ==
  /\ sub[t] = "joined"
  /\ sub' = [sub EXCEPT ![t] = "silent"]
  /\ UNCHANGED <<token, hold, ticks, notes, failures>>

\* For whatever reason, the deferred unregister included.
Closes(t) ==
  /\ t \in Registered
  /\ sub' = [sub EXCEPT ![t] = "away"]
  /\ hold' = [hold EXCEPT ![t] = 0]
  /\ gone' = gone \cup (todo \cap {t})
  /\ weak' = weak \ {t}
  /\ UNCHANGED <<token, loop, tick, fresh, todo, behind, crossing, failures>>

-------------------------------------------------------------------------------
(* The central loop.                                                       *)

TickFires ==
  /\ loop = "waiting"
  /\ tick = 0
  /\ loop' = "asking"
  /\ tick' = Period
  /\ Ask(Loop)
  /\ UNCHANGED <<left, life, subs, fresh, todo, gone, notes, failures>>

LoopAnswered ==
  /\ Loop \in asking
  /\ \E new \in TTL - Timeout .. TTL :
       /\ Adopts(Loop, new)
       /\ fresh' = new
  /\ loop' = "fresh"
  /\ behind' = FALSE
  /\ crossing' = In("joining")
  /\ UNCHANGED <<subs, tick, todo, gone, weak, failures>>

LoopFails ==
  /\ Fails(Loop)
  /\ loop' = "waiting"
  /\ behind' = TRUE
  /\ weak' = weak \cup Registered
  /\ UNCHANGED <<subs, tick, fresh, todo, gone, crossing>>

Snapshot ==
  /\ loop = "fresh"
  /\ loop' = "pushing"
  /\ todo' = Registered
  /\ gone' = {}
  /\ UNCHANGED <<token, subs, tick, fresh, notes, failures>>

\* The write reaches a server that listens.
Push(t) ==
  /\ t \in todo \ gone
  /\ todo' = todo \ {t}
  /\ IF sub[t] = "joined"
       THEN hold' = [hold EXCEPT ![t] = fresh] /\ weak' = weak \ {t}
       ELSE UNCHANGED <<hold, weak>>
  /\ UNCHANGED <<token, sub, loop, tick, fresh, gone, behind, crossing, failures>>

\* An error on one connection leaves the others their turn.
AfterErrorStop(t) == {}
AfterError(t) == todo \ {t}

PushFails(t) ==
  /\ t \in todo
  /\ t \in gone \cup In("silent")
  /\ todo' = AfterError(t)
  /\ UNCHANGED <<token, subs, loop, tick, fresh, gone, notes, failures>>

BroadcastEnds ==
  /\ loop = "pushing"
  /\ todo = {}
  /\ loop' = "waiting"
  /\ gone' = {}
  /\ UNCHANGED <<token, subs, tick, fresh, todo, notes, failures>>

-------------------------------------------------------------------------------
Less(n) == IF n = 0 THEN 0 ELSE n - 1

Due ==
  \/ \E a \in asking : age[a] = Timeout
  \/ loop = "waiting" /\ tick = 0
  \/ loop \in {"fresh", "pushing"}

Time ==
  /\ ~Due
  /\ left' = Less(left) /\ life' = Less(life)
  /\ age' = [a \in Actors |-> IF a \in asking THEN age[a] + 1 ELSE age[a]]
  /\ hold' = [t \in Topics |-> Less(hold[t])]
  /\ tick' = Less(tick)
  /\ UNCHANGED <<asking, sub, loop, fresh, todo, gone, notes, failures>>

Channel(t) ==
  \/ JoinWithCached(t) \/ JoinAsks(t) \/ JoinAnswered(t) \/ JoinUnanswered(t)
  \/ Register(t) \/ JoinFails(t) \/ GoesSilent(t) \/ Closes(t)
  \/ Push(t) \/ PushFails(t)

Next ==
  \/ \E t \in Topics : Channel(t)
  \/ RestAsks \/ RestAnswered \/ RestFails
  \/ TickFires \/ LoopAnswered \/ LoopFails \/ Snapshot \/ BroadcastEnds
  \/ Time

Spec == Init /\ [][Next]_vars

-------------------------------------------------------------------------------
(* Properties.                                                             *)

TypeOK ==
  /\ left \in 0 .. TTL /\ life \in 0 .. TTL
  /\ asking \subseteq Actors /\ age \in [Actors -> 0 .. Timeout]
  /\ sub \in [Topics -> {"away", "asking", "joining", "joined", "silent"}]
  /\ hold \in [Topics -> 0 .. TTL]
  /\ loop \in {"off", "waiting", "asking", "fresh", "pushing"}
  /\ tick \in 0 .. Interval /\ fresh \in 0 .. TTL
  /\ todo \subseteq Topics /\ gone \subseteq Topics
  /\ behind \in BOOLEAN /\ crossing \subseteq Topics /\ weak \subseteq Topics
  /\ failures \in Nat

\* A token that access() hands out is good, although the client reckons its life
\* from the answer and the server from the moment it issued it (client.go:23-25).
HandedOutIsGood == Usable => life > 0

\* The token of a joined channel does not expire before the loop sends the next
\* (client.go:119-122): not even when another connection breaks during the
\* broadcast, or other goroutines refresh meanwhile. A failed refresh, a late
\* first join and a join that overtook the broadcast excuse it.
ChannelsOutlive ==
  \A t \in Topics : sub[t] = "joined" /\ t \notin weak => hold[t] > 0
===============================================================================
