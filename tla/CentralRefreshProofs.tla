------------------------- MODULE CentralRefreshProofs -------------------------
(***************************************************************************)
(* Theorems about CentralRefresh, for any channels and any lengths of time *)
(* that satisfy its assumptions: types, the cached token is good when it   *)
(* is handed out, and the token of a channel outlives the next broadcast.  *)
(***************************************************************************)
EXTENDS CentralRefresh, TLAPS

-------------------------------------------------------------------------------
(* The inductive invariant.                                                *)

\* The client takes the cached token to be good for at most a Timeout longer
\* than it is.
Reckoned == life + Timeout >= left

\* It is older by at most a Timeout than a token taken by a joining channel.
Recent == \A t \in Topics : sub[t] = "joining" => life + Timeout >= hold[t]

\* The loop asks while it says so, and sends only during its broadcast.
LoopStages == /\ loop = "asking" <=> Loop \in asking
              /\ loop # "pushing" => todo = {}

\* For how long the loop may still take to send the next token, once the
\* broadcast that may be under way has ended.
Needed == IF loop = "asking" THEN Timeout - age[Loop] ELSE tick + Timeout

\* The cached token lasts so long, the one being sent too, and that of a channel
\* which joins with the newest.
Lasting ==
  /\ loop # "off" /\ ~behind =>
       /\ life > Needed
       /\ \A t \in Topics : sub[t] = "joining" /\ t \notin crossing => hold[t] > Needed
  /\ loop \in {"fresh", "pushing"} => fresh > Needed

\* The broadcast still has to reach this channel.
Awaits(t) == loop = "fresh" \/ (loop = "pushing" /\ t \in todo \ gone)

\* So does that of a joined channel, which while it awaits the broadcast only has
\* to be good.
Outlasting ==
  \A t \in Topics : sub[t] = "joined" /\ t \notin weak =>
    /\ loop # "off"
    /\ hold[t] > IF Awaits(t) THEN 0 ELSE Needed

CInv == TypeOK /\ Reckoned /\ Recent /\ LoopStages /\ Lasting /\ Outlasting

-------------------------------------------------------------------------------
(* Types.                                                                  *)

LEMMA Times ==
  /\ TTL \in Nat /\ Interval \in Nat /\ Skew \in Nat /\ Timeout \in Nat
  /\ Failures \in Nat /\ TTL >= Timeout /\ TTL >= 1
  /\ TTL - Timeout > Interval + Timeout /\ Skew >= Timeout
BY TimeAssumption, TTLAssumption, SkewAssumption, IntervalAssumption

LEMMA ActorsApart ==
  /\ Loop \in Actors /\ Rest \in Actors /\ Topics \subseteq Actors
  /\ Loop # Rest /\ \A t \in Topics : t # Loop /\ t # Rest
BY ActorAssumption DEF Actors

LEMMA LessIsLess ==
  ASSUME NEW n \in Nat
  PROVE  /\ Less(n) \in Nat /\ Less(n) <= n /\ Less(n) + 1 >= n
         /\ n > 0 => Less(n) = n - 1
BY DEF Less

LEMMA LessAbove ==
  ASSUME NEW n \in Nat, NEW m \in Nat, n > m + 1 PROVE Less(n) > m
BY DEF Less

ClientTyped ==
  /\ left \in 0 .. TTL /\ life \in 0 .. TTL
  /\ asking \subseteq Actors /\ age \in [Actors -> 0 .. Timeout]

ChannelsTyped ==
  /\ sub \in [Topics -> {"away", "asking", "joining", "joined", "silent"}]
  /\ hold \in [Topics -> 0 .. TTL]

LoopTyped ==
  /\ loop \in {"off", "waiting", "asking", "fresh", "pushing"}
  /\ tick \in 0 .. Interval /\ fresh \in 0 .. TTL
  /\ todo \subseteq Topics /\ gone \subseteq Topics
  /\ behind \in BOOLEAN /\ crossing \subseteq Topics /\ weak \subseteq Topics
  /\ failures \in Nat

LEMMA TypeParts == TypeOK <=> ClientTyped /\ ChannelsTyped /\ LoopTyped
BY DEF TypeOK, ClientTyped, ChannelsTyped, LoopTyped

\* The answer of a refresh.
LEMMA AdoptsTyped ==
  ASSUME ClientTyped, NEW a \in Actors, NEW new, Adopts(a, new)
  PROVE  /\ ClientTyped' /\ new \in 0 .. TTL /\ new + Timeout >= TTL
         /\ new + age[a] >= TTL
         /\ left' = TTL /\ life' = new /\ age' = age
<1>1. /\ age[a] \in Nat /\ age[a] <= Timeout /\ new \in TTL - age[a] .. TTL
      /\ left' = TTL /\ life' = new /\ age' = age /\ asking' = asking \ {a}
  BY Times DEF ClientTyped, Adopts
<1>2. new \in 0 .. TTL /\ new + Timeout >= TTL /\ new + age[a] >= TTL
  BY <1>1, Times
<1>3. TTL \in 0 .. TTL
  BY Times
<1> QED BY <1>1, <1>2, <1>3 DEF ClientTyped

LEMMA ClientStep == TypeOK /\ [Next]_vars => ClientTyped'
<1> SUFFICES ASSUME TypeOK, [Next]_vars PROVE ClientTyped'
  OBVIOUS
<1>1. ClientTyped
  BY TypeParts
<1>2. CASE UNCHANGED token
  BY <1>1, <1>2 DEF token, ClientTyped
<1>3. ASSUME NEW a \in Actors, Ask(a), UNCHANGED <<left, life>> PROVE ClientTyped'
  BY <1>1, <1>3, Times DEF Ask, ClientTyped
<1>4. ASSUME NEW a \in Actors, Fails(a) PROVE ClientTyped'
  BY <1>1, <1>4 DEF Fails, ClientTyped
<1>5. CASE Time
  <2>1. Less(left) \in 0 .. TTL /\ Less(life) \in 0 .. TTL
    BY <1>1, LessIsLess, Times DEF ClientTyped
  <2>2. ASSUME NEW a \in asking PROVE age[a] + 1 \in 0 .. Timeout
    BY <1>1, <1>5, <2>2, Times DEF Time, Due, ClientTyped
  <2>3. age' \in [Actors -> 0 .. Timeout]
    BY <1>1, <1>5, <2>2 DEF Time, ClientTyped
  <2> QED BY <1>1, <1>5, <2>1, <2>3 DEF Time, ClientTyped
<1>6. CASE RestAsks \/ RestFails \/ TickFires \/ LoopFails
  BY <1>3, <1>4, <1>6, ActorsApart DEF RestAsks, RestFails, TickFires, LoopFails
<1>7. CASE RestAnswered \/ LoopAnswered
  BY <1>1, <1>7, AdoptsTyped, ActorsApart DEF RestAnswered, LoopAnswered
<1>8. ASSUME NEW t \in Topics, JoinAsks(t) \/ JoinUnanswered(t) PROVE ClientTyped'
  BY <1>3, <1>4, <1>8, ActorsApart DEF JoinAsks, JoinUnanswered
<1>9. ASSUME NEW t \in Topics, JoinAnswered(t) PROVE ClientTyped'
  BY <1>1, <1>9, AdoptsTyped, ActorsApart DEF JoinAnswered
<1>10. CASE Snapshot \/ BroadcastEnds \/ UNCHANGED vars
  BY <1>2, <1>10 DEF Snapshot, BroadcastEnds, vars
<1>11. ASSUME NEW t \in Topics,
              \/ JoinWithCached(t) \/ Register(t) \/ JoinFails(t) \/ GoesSilent(t)
              \/ Closes(t) \/ Push(t) \/ PushFails(t)
       PROVE  ClientTyped'
  BY <1>2, <1>11
  DEF JoinWithCached, Register, JoinFails, GoesSilent, Closes, Push, PushFails
<1> QED
  BY <1>5, <1>6, <1>7, <1>8, <1>9, <1>10, <1>11 DEF Next, Channel

LEMMA ChannelsStep == TypeOK /\ [Next]_vars => ChannelsTyped'
<1> SUFFICES ASSUME TypeOK, [Next]_vars PROVE ChannelsTyped'
  OBVIOUS
<1>1. ClientTyped /\ ChannelsTyped /\ LoopTyped
  BY TypeParts
<1>2. CASE UNCHANGED subs
  BY <1>1, <1>2 DEF subs, ChannelsTyped
<1>3. ASSUME NEW t \in Topics,
             \/ UNCHANGED sub
             \/ \E s \in {"away", "asking", "joining", "joined", "silent"} :
                  sub' = [sub EXCEPT ![t] = s],
             \/ UNCHANGED hold
             \/ \E h \in 0 .. TTL : hold' = [hold EXCEPT ![t] = h]
      PROVE  ChannelsTyped'
  BY <1>1, <1>3 DEF ChannelsTyped
<1>4. 0 \in 0 .. TTL /\ life \in 0 .. TTL /\ fresh \in 0 .. TTL
  BY <1>1, Times DEF ClientTyped, LoopTyped
<1>5. ASSUME NEW t \in Topics, Channel(t) PROVE ChannelsTyped'
  <2>1. CASE JoinWithCached(t) \/ JoinAsks(t) \/ JoinUnanswered(t)
    BY <1>3, <1>4, <2>1 DEF JoinWithCached, JoinAsks, JoinUnanswered
  <2>2. CASE JoinAnswered(t)
    BY <1>1, <1>3, <2>2, AdoptsTyped, ActorsApart DEF JoinAnswered
  <2>3. CASE Register(t) \/ JoinFails(t) \/ GoesSilent(t) \/ Closes(t)
    BY <1>3, <1>4, <2>3 DEF Register, JoinFails, GoesSilent, Closes
  <2>4. CASE Push(t) \/ PushFails(t)
    BY <1>2, <1>3, <1>4, <2>4 DEF Push, PushFails
  <2> QED BY <1>5, <2>1, <2>2, <2>3, <2>4 DEF Channel
<1>6. CASE Time
  <2>1. \A t \in Topics : Less(hold[t]) \in 0 .. TTL
    BY <1>1, LessIsLess, Times DEF ChannelsTyped
  <2> QED BY <1>1, <1>6, <2>1 DEF Time, ChannelsTyped
<1>7. CASE ~Time /\ ~\E t \in Topics : Channel(t)
  BY <1>2, <1>7
  DEF Next, vars, RestAsks, RestAnswered, RestFails, TickFires, LoopAnswered,
      LoopFails, Snapshot, BroadcastEnds
<1> QED BY <1>5, <1>6, <1>7

LEMMA LoopStep == TypeOK /\ [Next]_vars => LoopTyped'
<1> SUFFICES ASSUME TypeOK, [Next]_vars PROVE LoopTyped'
  OBVIOUS
<1>1. ClientTyped /\ ChannelsTyped /\ LoopTyped
  BY TypeParts
<1>2. CASE UNCHANGED <<ticks, notes, failures>>
  BY <1>1, <1>2 DEF ticks, notes, LoopTyped
<1>3. Interval \in 0 .. Interval /\ In("joining") \subseteq Topics
      /\ Registered \subseteq Topics
  BY Times DEF In, Registered
<1>4. ASSUME NEW a, Fails(a) PROVE failures' \in Nat
  BY <1>1, <1>4 DEF Fails, LoopTyped
<1>5. ASSUME NEW t \in Topics, Channel(t) PROVE LoopTyped'
  <2>1. CASE JoinWithCached(t) \/ JoinAsks(t) \/ JoinAnswered(t) \/ GoesSilent(t)
    BY <1>2, <2>1 DEF JoinWithCached, JoinAsks, JoinAnswered, GoesSilent
  <2>2. CASE JoinUnanswered(t)
    BY <1>1, <1>4, <2>2 DEF JoinUnanswered, ticks, notes, LoopTyped
  <2>3. CASE Register(t)
    <3>1. Late(t) \in BOOLEAN
      BY DEF Late
    <3>2. /\ loop' \in {loop, "waiting"} /\ tick' \in {tick, Interval}
          /\ fresh' = fresh /\ todo' = todo /\ gone' = gone /\ failures' = failures
          /\ behind' \in BOOLEAN /\ crossing' \subseteq Topics
          /\ weak' \subseteq Topics
      BY <1>1, <1>3, <2>3, <3>1 DEF Register, Period, LoopTyped
    <3> QED BY <1>1, <1>3, <3>2 DEF LoopTyped
  <2>4. CASE JoinFails(t) \/ Closes(t) \/ Push(t) \/ PushFails(t)
    BY <1>1, <2>4
    DEF JoinFails, Closes, Push, PushFails, AfterError, ticks, notes, LoopTyped
  <2> QED BY <1>5, <2>1, <2>2, <2>3, <2>4 DEF Channel
<1>6. CASE Time
  <2>1. Less(tick) \in 0 .. Interval
    BY <1>1, LessIsLess, Times DEF LoopTyped
  <2> QED BY <1>1, <1>6, <2>1 DEF Time, notes, LoopTyped
<1>7. CASE RestAsks \/ RestAnswered \/ UNCHANGED vars
  BY <1>2, <1>7 DEF RestAsks, RestAnswered, vars
<1>8. CASE RestFails
  BY <1>1, <1>4, <1>8 DEF RestFails, ticks, notes, LoopTyped
<1>9. CASE LoopFails
  BY <1>1, <1>3, <1>4, <1>9 DEF LoopFails, LoopTyped
<1>10. CASE TickFires \/ Snapshot \/ BroadcastEnds
  BY <1>1, <1>3, <1>10 DEF TickFires, Snapshot, BroadcastEnds, Period, notes, LoopTyped
<1>11. CASE LoopAnswered
  <2>1. fresh' \in 0 .. TTL
    BY <1>1, <1>11, AdoptsTyped, ActorsApart DEF LoopAnswered
  <2> QED BY <1>1, <1>3, <1>11, <2>1 DEF LoopAnswered, LoopTyped
<1> QED BY <1>5, <1>6, <1>7, <1>8, <1>9, <1>10, <1>11 DEF Next

LEMMA TypeStep == TypeOK /\ [Next]_vars => TypeOK'
<1>1. ClientTyped' /\ ChannelsTyped' /\ LoopTyped' => TypeOK'
  BY TypeParts, PTL
<1> QED BY <1>1, ClientStep, ChannelsStep, LoopStep

LEMMA TypeInit == Init => TypeOK
<1>1. Init => ClientTyped
  <2>1. TTL \in 0 .. TTL /\ TTL - Timeout .. TTL \subseteq 0 .. TTL /\ 0 \in 0 .. Timeout
    BY Times
  <2> QED BY <2>1 DEF Init, ClientTyped
<1>2. Init => ChannelsTyped /\ LoopTyped
  <2>1. 0 \in 0 .. TTL /\ 0 \in 0 .. Interval /\ Failures \in Nat
    BY Times
  <2> QED BY <2>1 DEF Init, ChannelsTyped, LoopTyped
<1> QED BY <1>1, <1>2, TypeParts

\* Times stay within their limits, goroutines and channels in their states.
THEOREM TypeCorrect == Spec => []TypeOK
BY TypeInit, TypeStep, PTL DEF Spec

-------------------------------------------------------------------------------
(* The cached token.                                                       *)

\* A new token takes the place of the cached one.
Renewed(a) == a \in asking /\ \E new \in TTL - Timeout .. TTL : Adopts(a, new)

LEMMA TokenSteps ==
  [Next]_vars => \/ UNCHANGED <<left, life>> \/ Time
                 \/ \E a \in Actors : Renewed(a)
<1> USE ActorsApart DEF Renewed
<1>1. ASSUME NEW t \in Topics, Channel(t)
      PROVE  UNCHANGED <<left, life>> \/ Renewed(t)
  BY <1>1
  DEF Channel, token, JoinWithCached, JoinAsks, JoinAnswered, JoinUnanswered, Fails,
      Register, JoinFails, GoesSilent, Closes, Push, PushFails
<1>2. RestAnswered => Renewed(Rest)
  BY DEF RestAnswered
<1>3. LoopAnswered => Renewed(Loop)
  BY DEF LoopAnswered
<1>4. RestAsks \/ RestFails \/ TickFires \/ LoopFails \/ Snapshot \/ BroadcastEnds
      \/ UNCHANGED vars => UNCHANGED <<left, life>>
  BY DEF RestAsks, RestFails, TickFires, LoopFails, Fails, Snapshot, BroadcastEnds,
         vars, token
<1> QED BY <1>1, <1>2, <1>3, <1>4 DEF Next

LEMMA RenewedToken ==
  ASSUME TypeOK, NEW a \in Actors, Renewed(a)
  PROVE  left' = TTL /\ life' \in Nat /\ life' + Timeout >= TTL
BY TypeParts, AdoptsTyped DEF Renewed

LEMMA ReckonedStep == TypeOK /\ Reckoned /\ [Next]_vars => Reckoned'
<1> SUFFICES ASSUME TypeOK, Reckoned, [Next]_vars PROVE Reckoned'
  OBVIOUS
<1>1. left \in Nat /\ life \in Nat
  BY TypeParts, Times DEF ClientTyped
<1>2. CASE UNCHANGED <<left, life>>
  BY <1>2 DEF Reckoned
<1>3. CASE Time
  <2>1. left' = Less(left) /\ life' = Less(life)
    BY <1>3 DEF Time
  <2> QED BY <1>1, <2>1, Times DEF Reckoned, Less
<1>4. ASSUME NEW a \in Actors, Renewed(a) PROVE Reckoned'
  BY <1>4, RenewedToken, Times DEF Reckoned
<1> QED BY <1>2, <1>3, <1>4, TokenSteps

\* A token that access hands out is good, although the client reckons its life
\* from the answer and the server from the moment it issued it.
THEOREM HandedOut == Spec => []HandedOutIsGood
<1>1. Init => Reckoned
  <2>1. ASSUME Init PROVE left = TTL /\ life \in Nat /\ life + Timeout >= TTL
    BY <2>1, Times DEF Init
  <2> QED BY <2>1 DEF Reckoned
<1>2. TypeOK /\ Reckoned => HandedOutIsGood
  <2>1. TypeOK => left \in Nat /\ life \in Nat
    BY TypeParts, Times DEF ClientTyped
  <2> QED BY <2>1, Times DEF Reckoned, HandedOutIsGood, Usable
<1> QED BY <1>1, <1>2, TypeInit, TypeStep, ReckonedStep, PTL DEF Spec

-------------------------------------------------------------------------------
(* The tokens of the channels.                                             *)

\* A channel is left alone by the others.
LEMMA OtherChannels ==
  ASSUME TypeOK, NEW t \in Topics, NEW u \in Topics, u # t, Channel(u)
  PROVE  /\ sub'[t] = sub[t] /\ hold'[t] = hold[t]
         /\ t \in weak' <=> t \in weak
         /\ t \in todo' \ gone' <=> t \in todo \ gone
<1>1. /\ sub \in [Topics -> {"away", "asking", "joining", "joined", "silent"}]
      /\ hold \in [Topics -> 0 .. TTL]
  BY TypeParts DEF ChannelsTyped
<1> QED
  BY <1>1
  DEF Channel, subs, ticks, notes, JoinWithCached, JoinAsks, JoinAnswered,
      JoinUnanswered, Register, JoinFails, GoesSilent, Closes, Push, PushFails,
      AfterError

\* What the channel itself does.
LEMMA OwnChannel ==
  ASSUME TypeOK, NEW t \in Topics, Channel(t)
  PROVE  \/ sub'[t] \notin {"joining", "joined"}
         \/ sub'[t] = "joining" /\ hold'[t] = life' /\ UNCHANGED <<ticks, notes>>
         \/ Register(t) /\ sub'[t] = "joined" /\ hold'[t] = hold[t]
         \/ /\ Push(t) /\ UNCHANGED <<sub, loop, tick>>
            /\ sub[t] = "joined" => hold'[t] = fresh
         \/ PushFails(t) /\ UNCHANGED <<sub, hold, loop, tick, notes>>
<1>1. /\ sub \in [Topics -> {"away", "asking", "joining", "joined", "silent"}]
      /\ hold \in [Topics -> 0 .. TTL]
  BY TypeParts DEF ChannelsTyped
<1>2. CASE JoinWithCached(t)
  BY <1>1, <1>2 DEF JoinWithCached, token
<1>3. CASE JoinAnswered(t)
  BY <1>1, <1>3 DEF JoinAnswered, Adopts
<1>4. CASE Register(t)
  BY <1>1, <1>4 DEF Register
<1>5. CASE Push(t) \/ PushFails(t)
  BY <1>1, <1>5 DEF Push, PushFails, subs
<1>6. CASE JoinAsks(t) \/ JoinUnanswered(t) \/ JoinFails(t) \/ GoesSilent(t)
           \/ Closes(t)
  BY <1>1, <1>6 DEF JoinAsks, JoinUnanswered, JoinFails, GoesSilent, Closes
<1> QED BY <1>2, <1>3, <1>4, <1>5, <1>6 DEF Channel

\* Everything else that happens.
LEMMA NoChannel ==
  [Next]_vars =>
    \/ \E t \in Topics : Channel(t)
    \/ Time
    \/ /\ UNCHANGED subs
       /\ \/ RestAsks \/ RestAnswered \/ RestFails \/ TickFires \/ LoopAnswered
          \/ LoopFails \/ Snapshot \/ BroadcastEnds \/ UNCHANGED vars
BY DEF Next, vars, RestAsks, RestAnswered, RestFails, TickFires, LoopAnswered,
       LoopFails, Snapshot, BroadcastEnds

\* A joining channel took its token before this step, or takes the cached one.
LEMMA JoiningToken ==
  ASSUME TypeOK, [Next]_vars, ~Time, NEW t \in Topics, sub'[t] = "joining"
  PROVE  \/ sub[t] = "joining" /\ hold'[t] = hold[t]
         \/ /\ hold'[t] = life' /\ UNCHANGED <<ticks, notes>>
            /\ Channel(t)
<1>1. ASSUME NEW u \in Topics, u # t, Channel(u)
      PROVE  sub'[t] = sub[t] /\ hold'[t] = hold[t]
  BY <1>1, OtherChannels
<1>2. CASE UNCHANGED subs
  BY <1>2 DEF subs
<1>3. CASE Channel(t)
  <2>1. CASE Push(t)
    BY <2>1 DEF Push
  <2>2. CASE ~Push(t)
    BY <1>3, <2>2, OwnChannel
  <2> QED BY <2>1, <2>2
<1> QED BY <1>1, <1>2, <1>3, NoChannel

LEMMA RecentStep == TypeOK /\ Recent /\ [Next]_vars => Recent'
<1> SUFFICES ASSUME TypeOK, Recent, [Next]_vars, NEW t \in Topics,
                    sub'[t] = "joining"
             PROVE  life' + Timeout >= hold'[t]
  BY DEF Recent
<1>1. life \in Nat /\ hold[t] \in Nat /\ life' \in Nat
      /\ hold'[t] \in Nat /\ hold'[t] <= TTL
  <2>1. ClientTyped /\ ChannelsTyped /\ ClientTyped' /\ ChannelsTyped'
    BY ClientStep, ChannelsStep, TypeParts
  <2> QED BY <2>1, Times DEF ClientTyped, ChannelsTyped
<1>3. ASSUME NEW a \in Actors, Renewed(a) PROVE life' + Timeout >= hold'[t]
  <2>1. life' + Timeout >= TTL
    BY <1>3, RenewedToken
  <2>2. \A l, h \in Nat : l + Timeout >= TTL /\ h <= TTL => l + Timeout >= h
    BY Times
  <2> QED BY <1>1, <2>1, <2>2
<1>4. CASE Time
  <2>1. sub' = sub /\ life' = Less(life) /\ hold'[t] = Less(hold[t])
    BY <1>4 DEF Time
  <2>2. life + Timeout >= hold[t]
    BY <2>1 DEF Recent
  <2> QED BY <1>1, <2>1, <2>2, Times DEF Less
<1>5. CASE UNCHANGED <<left, life>> /\ ~Time
  <2>1. CASE sub[t] = "joining" /\ hold'[t] = hold[t]
    BY <1>5, <2>1 DEF Recent
  <2>2. CASE hold'[t] = life'
    BY <1>1, <2>2, Times
  <2> QED BY <1>5, <2>1, <2>2, JoiningToken
<1> QED BY <1>3, <1>4, <1>5, TokenSteps

LEMMA LoopStagesStep == TypeOK /\ LoopStages /\ [Next]_vars => LoopStages'
<1> SUFFICES ASSUME TypeOK, LoopStages, [Next]_vars PROVE LoopStages'
  OBVIOUS
<1> USE ActorsApart DEF LoopStages
<1>1. ASSUME NEW t \in Topics, Channel(t) PROVE LoopStages'
  <2>1. Loop \in asking' <=> Loop \in asking
    BY <1>1
    DEF Channel, token, JoinWithCached, JoinAsks, JoinAnswered, JoinUnanswered,
        Register, JoinFails, GoesSilent, Closes, Push, PushFails, Ask, Adopts, Fails
  <2>2. CASE Register(t)
    BY <2>1, <2>2 DEF Register
  <2>3. CASE Push(t) \/ PushFails(t)
    BY <2>1, <2>3 DEF Push, PushFails, AfterError
  <2>4. CASE ~Register(t) /\ ~Push(t) /\ ~PushFails(t)
    BY <1>1, <2>1, <2>4
    DEF Channel, ticks, JoinWithCached, JoinAsks, JoinAnswered, JoinUnanswered,
        JoinFails, GoesSilent, Closes
  <2> QED BY <2>2, <2>3, <2>4
<1>2. CASE Time \/ UNCHANGED vars \/ RestAsks \/ RestAnswered \/ RestFails
  BY <1>2 DEF Time, vars, token, ticks, RestAsks, RestAnswered, RestFails, Ask,
              Adopts, Fails
<1>3. CASE TickFires \/ LoopAnswered \/ LoopFails
  BY <1>3 DEF TickFires, LoopAnswered, LoopFails, Ask, Adopts, Fails
<1>4. CASE Snapshot \/ BroadcastEnds
  BY <1>4 DEF Snapshot, BroadcastEnds, token
<1> QED BY <1>1, <1>2, <1>3, <1>4 DEF Next

NeededOK == Needed \in Nat /\ Needed <= Interval + Timeout

LEMMA NeededTyped == TypeOK => NeededOK
<1> SUFFICES ASSUME TypeOK PROVE NeededOK
  OBVIOUS
<1>1. age[Loop] \in 0 .. Timeout /\ tick \in 0 .. Interval
  BY TypeParts, ActorsApart DEF ClientTyped, LoopTyped
<1> QED BY <1>1, Times DEF Needed, NeededOK

LEMMA NeededAfter ==
  TypeOK /\ [Next]_vars => Needed' \in Nat /\ Needed' <= Interval + Timeout
<1>1. TypeOK' => NeededOK'
  BY NeededTyped, PTL
<1> QED BY <1>1, TypeStep DEF NeededOK

\* The time to the next token runs down.
LEMMA TimePasses ==
  ASSUME TypeOK, LoopStages, Time, loop # "off" PROVE Needed = Needed' + 1
<1>1. /\ age \in [Actors -> 0 .. Timeout] /\ Loop \in Actors
      /\ age[Loop] \in Nat /\ age[Loop] <= Timeout /\ tick \in Nat
      /\ loop \in {"off", "waiting", "asking", "fresh", "pushing"}
  BY TypeParts, Times, ActorsApart DEF ClientTyped, LoopTyped
<1>2. /\ loop' = loop /\ tick' = Less(tick) /\ loop \notin {"fresh", "pushing"}
      /\ ~(loop = "waiting" /\ tick = 0)
      /\ Loop \in asking => age'[Loop] = age[Loop] + 1 /\ age[Loop] # Timeout
  BY <1>1 DEF Time, Due
<1>3. CASE loop = "waiting"
  BY <1>1, <1>2, <1>3, Times DEF Needed, Less
<1>4. CASE loop = "asking"
  <2>1. Needed = Timeout - age[Loop] /\ Needed' = Timeout - (age[Loop] + 1)
    BY <1>2, <1>4 DEF Needed, LoopStages
  <2> QED BY <1>1, <2>1, Times
<1> QED BY <1>1, <1>2, <1>3, <1>4

\* Otherwise it only changes when the loop starts, when it has its token and when
\* it fails to get one.
LEMMA NeededSteps ==
  ASSUME TypeOK, LoopStages, [Next]_vars, ~Time
  PROVE  \/ Needed' = Needed
         \/ LoopAnswered \/ LoopFails
         \/ \E t \in Topics : Register(t) /\ loop = "off"
<1>1. /\ age \in [Actors -> 0 .. Timeout] /\ Loop \in Actors
  BY TypeParts, ActorsApart DEF ClientTyped
<1>3. ASSUME UNCHANGED <<loop, tick>>, age'[Loop] = age[Loop] PROVE Needed' = Needed
  BY <1>3 DEF Needed
<1>4. ASSUME NEW t \in Topics, Channel(t), ~(Register(t) /\ loop = "off")
      PROVE  Needed' = Needed
  <2>1. UNCHANGED <<loop, tick>>
    BY <1>4
    DEF Channel, ticks, JoinWithCached, JoinAsks, JoinAnswered, JoinUnanswered,
        Register, JoinFails, GoesSilent, Closes, Push, PushFails
  <2>2. age'[Loop] = age[Loop]
    BY <1>1, <1>4, ActorsApart
    DEF Channel, token, JoinWithCached, JoinAsks, JoinAnswered, JoinUnanswered,
        Register, JoinFails, GoesSilent, Closes, Push, PushFails, Ask, Adopts, Fails
  <2> QED BY <1>3, <2>1, <2>2
<1>5. CASE RestAsks \/ RestAnswered \/ RestFails \/ UNCHANGED vars
  <2>1. UNCHANGED <<loop, tick>> /\ age'[Loop] = age[Loop]
    BY <1>1, <1>5, ActorsApart
    DEF RestAsks, RestAnswered, RestFails, vars, token, ticks, Ask, Adopts, Fails
  <2> QED BY <1>3, <2>1
<1>6. CASE TickFires
  <2>1. loop = "waiting" /\ tick = 0 /\ loop' = "asking" /\ age'[Loop] = 0
    BY <1>1, <1>6 DEF TickFires, Ask
  <2>2. Needed = 0 + Timeout /\ Needed' = Timeout - 0
    BY <2>1 DEF Needed
  <2> QED BY <2>2, Times
<1>7. CASE Snapshot \/ BroadcastEnds
  BY <1>7 DEF Snapshot, BroadcastEnds, Needed
<1> QED BY <1>4, <1>5, <1>6, <1>7 DEF Next

\* The loop knows what it knew, but in the same three steps.
LEMMA NotesSteps ==
  ASSUME [Next]_vars, ~LoopAnswered, ~LoopFails,
         ~\E t \in Topics : Register(t) /\ loop = "off"
  PROVE  /\ behind' = behind
         /\ loop' = loop \/ (loop = "waiting" /\ loop' = "asking")
              \/ (loop = "fresh" /\ loop' = "pushing")
              \/ (loop = "pushing" /\ loop' = "waiting")
         /\ fresh' = fresh
BY DEF Next, vars, ticks, notes, Channel, JoinWithCached, JoinAsks, JoinAnswered,
       JoinUnanswered, Register, JoinFails, GoesSilent, Closes, Push, PushFails,
       RestAsks, RestAnswered, RestFails, TickFires, Snapshot, BroadcastEnds, Time

\* A channel that is still joining stays among those that overtook the loop.
LEMMA CrossingStep ==
  ASSUME TypeOK, [Next]_vars, NEW t \in Topics, sub[t] = "joining",
         sub'[t] = "joining", t \in crossing
  PROVE  t \in crossing'
<1>1. sub \in [Topics -> {"away", "asking", "joining", "joined", "silent"}]
  BY TypeParts DEF ChannelsTyped
<1> QED
  BY <1>1
  DEF Next, vars, subs, notes, Channel, JoinWithCached, JoinAsks, JoinAnswered,
      JoinUnanswered, Register, JoinFails, GoesSilent, Closes, Push, PushFails,
      RestAsks, RestAnswered, RestFails, TickFires, LoopAnswered, LoopFails,
      Snapshot, BroadcastEnds, Time, In

\* A lasting token still lasts at its next broadcast when time passes.
LEMMA LastingStep ==
  TypeOK /\ Recent /\ LoopStages /\ Lasting /\ [Next]_vars => Lasting'
<1> SUFFICES ASSUME TypeOK, Recent, LoopStages, Lasting, [Next]_vars PROVE Lasting'
  OBVIOUS
<1>1. /\ Needed \in Nat /\ Needed' \in Nat
      /\ Needed <= Interval + Timeout /\ Needed' <= Interval + Timeout
      /\ life \in Nat /\ life' \in Nat /\ \A t \in Topics : hold[t] \in Nat
  <2>1. ClientTyped /\ ChannelsTyped /\ ClientTyped'
    BY ClientStep, TypeParts
  <2>2. /\ life \in Nat /\ life' \in Nat /\ \A t \in Topics : hold[t] \in Nat
    BY <2>1, Times DEF ClientTyped, ChannelsTyped
  <2> QED BY <2>2, NeededTyped, NeededAfter DEF NeededOK
<1>2. ASSUME NEW a \in Actors, Renewed(a) PROVE life' > Needed'
  <2>1. life' + Timeout >= TTL
    BY <1>2, RenewedToken
  <2>2. \A l, n \in Nat : l + Timeout >= TTL /\ n <= Interval + Timeout => l > n
    BY Times
  <2> QED BY <1>1, <2>1, <2>2
<1>3. CASE Time
  <2>1. /\ UNCHANGED <<loop, behind, crossing, sub>> /\ life' = Less(life)
        /\ \A t \in Topics : hold'[t] = Less(hold[t])
        /\ loop \notin {"fresh", "pushing"}
    BY <1>3 DEF Time, Due, notes
  <2>2. ASSUME loop # "off" PROVE Needed = Needed' + 1
    BY <1>3, <2>2, TimePasses
  <2>3. ASSUME loop # "off", ~behind PROVE life' > Needed'
    <3>1. life > Needed
      BY <2>3 DEF Lasting
    <3>2. life' = Less(life) /\ Needed = Needed' + 1
      BY <2>1, <2>2, <2>3
    <3> QED BY <1>1, <3>1, <3>2, LessAbove
  <2>4. ASSUME loop # "off", ~behind, NEW t \in Topics, sub[t] = "joining",
               t \notin crossing
        PROVE  hold'[t] > Needed'
    <3>1. hold[t] > Needed
      BY <2>4 DEF Lasting
    <3>2. hold'[t] = Less(hold[t]) /\ Needed = Needed' + 1
      BY <2>1, <2>2, <2>4
    <3> QED BY <1>1, <3>1, <3>2, LessAbove
  <2> QED BY <2>1, <2>3, <2>4 DEF Lasting
<1>4. CASE LoopAnswered
  <2>1. life' > Needed'
    BY <1>2, <1>4, ActorsApart DEF LoopAnswered, Renewed
  <2>2. fresh' = life' /\ crossing' = In("joining") /\ sub' = sub
    BY <1>4 DEF LoopAnswered, Adopts, subs
  <2>3. \A t \in Topics : sub'[t] = "joining" => t \in crossing'
    BY <2>2 DEF In
  <2> QED BY <2>1, <2>2, <2>3 DEF Lasting
<1>5. CASE LoopFails
  BY <1>5 DEF LoopFails, Lasting
<1>6. ASSUME NEW t \in Topics, Register(t), loop = "off" PROVE Lasting'
  <2>1. /\ loop' = "waiting" /\ tick' = Interval /\ life' = life
        /\ behind' = Late(t) /\ crossing' = In("joining") \ {t}
        /\ sub[t] = "joining" /\ sub' = [sub EXCEPT ![t] = "joined"]
    BY <1>6 DEF Register, Period, token
  <2>2. sub \in [Topics -> {"away", "asking", "joining", "joined", "silent"}]
    BY TypeParts DEF ChannelsTyped
  <2>3. \A u \in Topics : sub'[u] = "joining" => u \in crossing'
    BY <2>1, <2>2 DEF In
  <2>4. ASSUME ~Late(t) PROVE life' > Needed'
    <3>1. hold[t] > Interval + 2 * Timeout /\ life + Timeout >= hold[t]
      BY <1>1, <2>1, <2>4, Times DEF Late, Recent
    <3>2. Needed' = Interval + Timeout
      BY <2>1 DEF Needed
    <3> QED BY <1>1, <2>1, <3>1, <3>2, Times
  <2> QED BY <2>1, <2>3, <2>4 DEF Lasting
<1>7. CASE /\ ~Time /\ ~LoopAnswered /\ ~LoopFails
           /\ ~\E t \in Topics : Register(t) /\ loop = "off"
  <2>1. Needed' = Needed /\ behind' = behind /\ fresh' = fresh
        /\ (loop' # "off" => loop # "off")
        /\ (loop' \in {"fresh", "pushing"} => loop \in {"fresh", "pushing"})
    BY <1>7, NeededSteps, NotesSteps
  <2>2. ASSUME loop' # "off", ~behind' PROVE life' > Needed'
    <3>1. life > Needed
      BY <2>1, <2>2 DEF Lasting
    <3>2. CASE UNCHANGED <<left, life>>
      BY <2>1, <3>1, <3>2
    <3> QED BY <1>2, <1>7, <3>2, TokenSteps
  <2>3. ASSUME loop' # "off", ~behind', NEW t \in Topics, sub'[t] = "joining",
               t \notin crossing'
        PROVE  hold'[t] > Needed'
    <3>1. CASE sub[t] = "joining" /\ hold'[t] = hold[t]
      <4>1. t \notin crossing
        BY <2>3, <3>1, CrossingStep
      <4> QED BY <2>1, <2>3, <3>1, <4>1 DEF Lasting
    <3>2. CASE hold'[t] = life'
      BY <2>2, <2>3, <3>2
    <3> QED BY <1>7, <2>3, <3>1, <3>2, JoiningToken
  <2> QED BY <2>1, <2>2, <2>3 DEF Lasting
<1> QED BY <1>3, <1>4, <1>5, <1>6, <1>7

LEMMA OutlastingStep == CInv /\ [Next]_vars => Outlasting'
<1> SUFFICES ASSUME CInv, [Next]_vars, NEW t \in Topics,
                    sub'[t] = "joined", t \notin weak'
             PROVE  /\ loop' # "off"
                    /\ hold'[t] > IF Awaits(t)' THEN 0 ELSE Needed'
  BY DEF Outlasting
<1> DEFINE Fine == /\ loop' # "off"
                   /\ hold'[t] > IF Awaits(t)' THEN 0 ELSE Needed'
<1>1. TypeOK /\ Recent /\ LoopStages /\ Lasting /\ Outlasting
  BY DEF CInv
<1>2. /\ Needed \in Nat /\ Needed' \in Nat
      /\ hold[t] \in Nat /\ hold'[t] \in Nat /\ fresh \in Nat
  <2>1. ChannelsTyped /\ LoopTyped /\ ChannelsTyped'
    BY <1>1, ChannelsStep, TypeParts
  <2>2. hold[t] \in Nat /\ hold'[t] \in Nat /\ fresh \in Nat
    BY <2>1, Times DEF ChannelsTyped, LoopTyped
  <2> QED BY <1>1, <2>2, NeededTyped, NeededAfter DEF NeededOK
<1>3. ASSUME loop' # "off", hold'[t] > Needed' PROVE Fine
  BY <1>2, <1>3
\* The channel was joined before and does not take part in this step.
<1>4. ASSUME sub[t] = "joined", hold'[t] = hold[t], t \notin weak,
             Needed' = Needed, loop' # "off", Awaits(t) => Awaits(t)'
      PROVE  Fine
  BY <1>1, <1>2, <1>4 DEF Outlasting
<1>5. CASE Channel(t)
  <2>1. CASE Register(t)
    <3>1. /\ sub[t] = "joining" /\ hold'[t] = hold[t]
      BY <2>1 DEF Register
    <3>2. CASE loop = "off"
      <4>1. loop' = "waiting" /\ tick' = Interval /\ ~Late(t)
        BY <2>1, <3>2 DEF Register, Period
      <4>2. Needed' = Interval + Timeout /\ hold[t] > Interval + 2 * Timeout
        BY <1>2, <4>1, Times DEF Needed, Late
      <4>3. hold'[t] > Needed'
        BY <1>2, <3>1, <4>2, Times
      <4> QED BY <1>3, <4>1, <4>3
    <3>3. CASE loop # "off"
      <4>1. ~behind /\ t \notin crossing /\ loop' = loop /\ tick' = tick /\ age' = age
        BY <2>1, <3>3 DEF Register, token
      <4>2. hold[t] > Needed /\ Needed' = Needed
        BY <1>1, <3>1, <3>3, <4>1 DEF Lasting, Needed
      <4> QED BY <1>3, <3>1, <3>3, <4>1, <4>2
    <3> QED BY <3>2, <3>3
  <2>2. CASE Push(t)
    <3>1. /\ t \in todo /\ sub[t] = "joined" /\ loop' = loop /\ tick' = tick
          /\ age' = age /\ hold'[t] = fresh
      <4>1. hold \in [Topics -> 0 .. TTL]
        BY <1>1, TypeParts DEF ChannelsTyped
      <4> QED BY <2>2, <4>1 DEF Push, token
    <3>2. loop = "pushing" /\ Needed' = Needed
      BY <1>1, <3>1 DEF LoopStages, Needed
    <3>3. fresh > Needed
      BY <1>1, <3>2 DEF Lasting
    <3> QED BY <1>3, <3>1, <3>2, <3>3
  <2>3. CASE PushFails(t)
    <3>1. /\ sub[t] = "joined" /\ t \in gone /\ UNCHANGED <<loop, tick, age, gone>>
          /\ hold' = hold /\ weak' = weak
      BY <2>3 DEF PushFails, token, subs, notes, In
    <3>2. Needed' = Needed /\ Awaits(t)' = Awaits(t)
      BY <3>1 DEF Needed, Awaits
    <3>3. loop' # "off"
      BY <1>1, <3>1 DEF Outlasting
    <3> QED BY <1>4, <3>1, <3>2, <3>3
  <2> QED BY <1>1, <1>5, <2>1, <2>2, <2>3, OwnChannel
<1>6. ASSUME NEW u \in Topics, u # t, Channel(u) PROVE Fine
  <2>1. /\ sub[t] = "joined" /\ hold'[t] = hold[t] /\ t \notin weak
        /\ t \in todo' \ gone' <=> t \in todo \ gone
    BY <1>1, <1>6, OtherChannels
  <2>2. loop # "off"
    BY <1>1, <2>1 DEF Outlasting
  <2>3. UNCHANGED <<loop, tick>> /\ age'[Loop] = age[Loop]
    <3>1. age \in [Actors -> 0 .. Timeout]
      BY <1>1, TypeParts DEF ClientTyped
    <3> QED
      BY <1>6, <2>2, <3>1, ActorsApart
      DEF Channel, ticks, token, JoinWithCached, JoinAsks, JoinAnswered,
          JoinUnanswered, Register, JoinFails, GoesSilent, Closes, Push, PushFails,
          Ask, Adopts, Fails
  <2>4. Needed' = Needed /\ (Awaits(t) => Awaits(t)')
    BY <2>1, <2>3 DEF Needed, Awaits
  <2> QED BY <1>4, <2>1, <2>2, <2>3, <2>4
<1>7. CASE Time
  <2>1. /\ sub' = sub /\ weak' = weak /\ loop' = loop /\ hold'[t] = Less(hold[t])
        /\ loop \notin {"fresh", "pushing"}
    BY <1>7 DEF Time, Due, notes
  <2>2. loop # "off" /\ hold[t] > Needed
    BY <1>1, <2>1 DEF Outlasting, Awaits
  <2>3. Less(hold[t]) > Needed'
    <3>1. Needed = Needed' + 1
      BY <1>1, <1>7, <2>2, TimePasses
    <3> QED BY <1>2, <2>2, <3>1 DEF Less
  <2> QED BY <1>3, <2>1, <2>2, <2>3
<1>8. CASE UNCHANGED subs /\ weak' = weak /\ ~Time /\ ~\E u \in Topics : Channel(u)
  <2>1. sub[t] = "joined" /\ hold'[t] = hold[t] /\ t \notin weak
    BY <1>8 DEF subs
  <2>2. loop # "off" /\ hold[t] > IF Awaits(t) THEN 0 ELSE Needed
    BY <1>1, <2>1 DEF Outlasting
  <2>3. CASE LoopAnswered
    <3>1. loop' = "fresh" /\ hold[t] > 0
      BY <1>2, <2>2, <2>3 DEF LoopAnswered
    <3> QED BY <2>1, <3>1 DEF Awaits
  <2>4. CASE Snapshot
    <3>1. loop' = "pushing" /\ t \in todo' /\ gone' = {} /\ hold[t] > 0
      BY <1>2, <2>1, <2>2, <2>4 DEF Snapshot, Registered, In
    <3> QED BY <2>1, <3>1 DEF Awaits
  <2>5. CASE BroadcastEnds
    <3>1. loop' = "waiting" /\ tick' = tick /\ loop = "pushing" /\ todo = {}
      BY <2>5 DEF BroadcastEnds
    <3>2. Needed' = Needed /\ ~Awaits(t)
      BY <3>1 DEF Needed, Awaits
    <3> QED BY <1>4, <2>1, <3>1, <3>2
  <2>6. CASE TickFires
    <3>1. loop' = "asking" /\ loop = "waiting" /\ ~LoopAnswered /\ ~LoopFails
      BY <2>6 DEF TickFires, LoopAnswered, LoopFails
    <3>2. Needed' = Needed
      BY <1>1, <1>8, <3>1, NeededSteps DEF Channel
    <3> QED BY <1>4, <2>1, <3>1, <3>2 DEF Awaits
  <2>7. CASE RestAsks \/ RestAnswered \/ RestFails \/ UNCHANGED vars
    <3>1. UNCHANGED <<loop, tick, todo, gone>> /\ age'[Loop] = age[Loop]
      <4>1. age \in [Actors -> 0 .. Timeout]
        BY <1>1, TypeParts DEF ClientTyped
      <4> QED
        BY <2>7, <4>1, ActorsApart
        DEF RestAsks, RestAnswered, RestFails, vars, token, ticks, Ask, Adopts, Fails
    <3>2. Needed' = Needed /\ (Awaits(t) => Awaits(t)')
      BY <3>1 DEF Needed, Awaits
    <3> QED BY <1>4, <2>1, <2>2, <3>1, <3>2
  <2>8. CASE LoopFails
    BY <1>8, <2>1, <2>8 DEF LoopFails, Registered, In
  <2> QED BY <1>8, <2>3, <2>4, <2>5, <2>6, <2>7, <2>8, NoChannel
<1>9. CASE LoopFails
  BY <1>9 DEF LoopFails, Registered, In, subs
<1>10. ASSUME ~Time, ~LoopFails, ~\E u \in Topics : Channel(u)
       PROVE  UNCHANGED subs /\ weak' = weak
  <2>1. UNCHANGED subs
    BY <1>10, NoChannel
  <2>2. weak' = weak
    BY <1>10 DEF Next, vars, notes, RestAsks, RestAnswered, RestFails, TickFires,
                 LoopAnswered, Snapshot, BroadcastEnds
  <2> QED BY <2>1, <2>2
<1> QED BY <1>5, <1>6, <1>7, <1>8, <1>9, <1>10

LEMMA Invariance == Spec => []CInv
<1>1. Init => CInv
  <2> SUFFICES ASSUME Init PROVE CInv
    OBVIOUS
  <2>1. left = TTL /\ life \in Nat /\ life + Timeout >= TTL
    BY Times DEF Init
  <2> QED
    BY <2>1, TypeInit
    DEF Init, CInv, Reckoned, Recent, LoopStages, Lasting, Outlasting
<1>2. CInv /\ [Next]_vars => CInv'
  BY TypeStep, ReckonedStep, RecentStep, LoopStagesStep, LastingStep, OutlastingStep
  DEF CInv
<1> QED BY <1>1, <1>2, PTL DEF Spec

\* The token of a joined channel lasts to the broadcast that brings the next one,
\* whatever other refreshes, joins, closed connections and failed pushes come in
\* between.
THEOREM ChannelsKept == Spec => []ChannelsOutlive
<1>1. CInv => ChannelsOutlive
  <2> SUFFICES ASSUME CInv, NEW t \in Topics, sub[t] = "joined", t \notin weak
               PROVE  hold[t] > 0
    BY DEF ChannelsOutlive
  <2>1. Needed \in Nat /\ hold[t] \in Nat
    BY NeededTyped, TypeParts, Times DEF CInv, NeededOK, ChannelsTyped
  <2>2. hold[t] > IF Awaits(t) THEN 0 ELSE Needed
    BY DEF CInv, Outlasting
  <2> QED BY <2>1, <2>2
<1> QED BY <1>1, Invariance, PTL
===============================================================================
