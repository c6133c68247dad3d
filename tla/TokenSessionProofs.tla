-------------------------- MODULE TokenSessionProofs --------------------------
(***************************************************************************)
(* Theorems about TokenSession, for any set of goroutines and any number of *)
(* faults: types and exits, who overtakes whom, and that the file keeps up  *)
(* with the server while nobody is overtaken and nothing is lost.           *)
(***************************************************************************)
EXTENDS TokenSession, TLAPS

Stages == {"down", "rewrite", "load", "ping", "heal", "saving", "serving", "gone"}
PCs    == {"idle", "read", "post", "persist", "store"}

LEMMA ThreadsAre == /\ Main \in Threads /\ Others \subseteq Threads
                    /\ Main \notin Others /\ Threads = Others \cup {Main}
BY MainAssumption DEF Threads

LEMMA FaultTyped == budget \in 0 .. MaxFaults /\ Fault => budget' \in 0 .. MaxFaults
BY FaultsAssumption DEF Fault

LEMMA InitTyped == Init => TypeOK
<1> SUFFICES ASSUME Init PROVE TypeOK
  OBVIOUS
<1> USE FaultsAssumption DEF Init, Blank, NoToken
<1>1. active \in Nat /\ cfg \in [token : 0 .. active, key : BOOLEAN]
  OBVIOUS
<1>3. disk \in [token : 0 .. active, key : BOOLEAN]
  OBVIOUS
<1>4. budget \in 0 .. MaxFaults
  OBVIOUS
<1>2. held \in [Threads -> 0 .. active] /\ got \in [Threads -> 0 .. active]
      /\ mem \in 0 .. active
  OBVIOUS
<1> QED BY <1>1, <1>2, <1>3, <1>4 DEF TypeOK

LEMMA EndsTyped ==
  ASSUME TypeOK, NEW s \in {"down", "gone"}, Ends(s)
  PROVE  /\ stage' \in Stages
         /\ cfg' \in [token : {0}, key : BOOLEAN] /\ mem' = 0
         /\ fresh' \in BOOLEAN /\ pveUp' \in BOOLEAN
         /\ pc' \in [Threads -> PCs]
         /\ held' \in [Threads -> {0}] /\ got' \in [Threads -> {0}]
BY DEF TypeOK, Ends, Blank, NoToken, Stages, PCs

LEMMA FailsTyped ==
  ASSUME TypeOK, NEW t \in Threads, Fails(t)
  PROVE  /\ stage' \in Stages
         /\ cfg' \in [token : 0 .. active, key : BOOLEAN] /\ mem' \in 0 .. active
         /\ fresh' \in BOOLEAN /\ pveUp' \in BOOLEAN
         /\ pc' \in [Threads -> PCs]
         /\ held' \in [Threads -> 0 .. active] /\ got' \in [Threads -> 0 .. active]
<1>1. CASE Ends("down")
  BY <1>1, EndsTyped DEF TypeOK
<1>2. CASE ~Ends("down")
  BY <1>2 DEF Fails, TypeOK, process, Stages, PCs
<1> QED BY <1>1, <1>2

\* The number of a token, once given, stays below the newest one.
LEMMA RotateTyped ==
  ASSUME TypeOK, NEW t \in Threads, Rotate(held[t])
  PROVE  /\ active' \in Nat /\ active <= active' /\ active' \in 0 .. active'
         /\ \A k \in 0 .. active : k \in 0 .. active'
         /\ window' = TRUE /\ revoked' = revoked
BY DEF Rotate, TypeOK

LEMMA StepTyped == TypeOK /\ [Next]_vars => TypeOK'
<1> SUFFICES ASSUME TypeOK, [Next]_vars PROVE TypeOK'
  OBVIOUS
<1> USE DEF excuses
<1>1. CASE UNCHANGED vars
  BY <1>1 DEF TypeOK, vars, server, process, thread
<1>2. CASE CloseWindow \/ ExpireAccess \/ PveComesBack
  <2>1. UNCHANGED <<active, revoked, disk, stage, cfg, mem, thread, budget, overtaken>>
    BY <1>2 DEF CloseWindow, ExpireAccess, PveComesBack, server, process
  <2>2. window' \in BOOLEAN
    BY <1>2 DEF CloseWindow, ExpireAccess, PveComesBack, TypeOK, server
  <2>3. fresh' \in BOOLEAN /\ pveUp' \in BOOLEAN
    BY <1>2 DEF CloseWindow, ExpireAccess, PveComesBack, TypeOK, process
  <2>4. lapse' \in BOOLEAN
    BY <1>2 DEF CloseWindow, ExpireAccess, PveComesBack, TypeOK
  <2> QED BY <2>1, <2>2, <2>3, <2>4 DEF TypeOK, thread
<1>3. CASE OwnerRevokes \/ PveGoesDown
  <2>1. budget' \in 0 .. MaxFaults
    BY <1>3, FaultTyped DEF OwnerRevokes, PveGoesDown, TypeOK
  <2>2. UNCHANGED <<active, window, disk, stage, cfg, mem, fresh, thread, excuses>>
        /\ revoked' \in BOOLEAN /\ pveUp' \in BOOLEAN
    BY <1>3 DEF OwnerRevokes, PveGoesDown, server, process, TypeOK
  <2> QED BY <2>1, <2>2 DEF TypeOK, thread
<1>4. CASE Launch \/ FinishRewrite \/ Heal \/ FinishHeal
  <2>1. UNCHANGED <<server, mem, fresh, pveUp, thread, budget, overtaken>>
    BY <1>4 DEF Launch, FinishRewrite, Heal, FinishHeal
  <2>2. Blank \in [token : 0 .. active, key : BOOLEAN]
        /\ [cfg EXCEPT !.key = TRUE] \in [token : 0 .. active, key : BOOLEAN]
    <3>1. 0 \in 0 .. active
      BY DEF TypeOK
    <3> QED BY <3>1 DEF TypeOK, Blank, NoToken
  <2>3. disk' \in [token : 0 .. active, key : BOOLEAN]
        /\ cfg' \in [token : 0 .. active, key : BOOLEAN]
    BY <1>4, <2>2 DEF Launch, FinishRewrite, Heal, FinishHeal, TypeOK
  <2>4. stage' \in Stages
    BY <1>4 DEF Launch, FinishRewrite, Heal, FinishHeal, Stages
  <2>5. lapse' \in BOOLEAN
    BY <1>4 DEF Launch, FinishRewrite, Heal, FinishHeal, TypeOK
  <2> QED BY <2>1, <2>3, <2>4, <2>5 DEF TypeOK, Stages, server, thread
<1>5. CASE Load
  <2>1. CASE Ends("down")
    BY <1>5, <2>1, EndsTyped DEF Load, TypeOK, server, Stages, PCs
  <2>2. CASE ~Ends("down")
    BY <1>5, <2>2, ThreadsAre DEF Load, TypeOK, server
  <2> QED BY <2>1, <2>2
<1>6. CASE Crash
  <2>1. budget' \in 0 .. MaxFaults /\ lapse' \in BOOLEAN
    BY <1>6, FaultTyped DEF Crash, TypeOK
  <2> QED BY <1>6, <2>1, EndsTyped DEF Crash, TypeOK, server, Stages, PCs
<1>7. ASSUME NEW t \in Threads,
             NeedToken(t) \/ ForceRefresh(t) \/ Read(t) \/ Store(t)
      PROVE  TypeOK'
  <2>1. UNCHANGED <<server, disk, cfg, pveUp, got, budget>>
    BY <1>7 DEF NeedToken, ForceRefresh, Read, Store, process
  <2>5. overtaken' \in BOOLEAN
    BY <1>7 DEF NeedToken, ForceRefresh, Read, Store, TypeOK
  <2>6. lapse' \in BOOLEAN
    BY <1>7 DEF NeedToken, ForceRefresh, Read, Store, TypeOK
  <2>2. pc' \in [Threads -> PCs] /\ held' \in [Threads -> 0 .. active]
    BY <1>7 DEF NeedToken, ForceRefresh, Read, Store, TokenToPost, TypeOK, PCs
  <2>3. mem' \in 0 .. active /\ fresh' \in BOOLEAN
    <3>1. got[t] \in 0 .. active /\ mem \in 0 .. active /\ fresh \in BOOLEAN
      BY DEF TypeOK
    <3>2. (mem' = mem /\ fresh' = fresh) \/ (mem' = got[t] /\ fresh' = TRUE)
      BY <1>7 DEF NeedToken, ForceRefresh, Read, Store, Dated, process
    <3> QED BY <3>1, <3>2
  <2>4. stage' = stage \/ stage' = "heal"
    BY <1>7 DEF NeedToken, ForceRefresh, Read, Store, process
  <2> QED BY <2>1, <2>2, <2>3, <2>4, <2>5, <2>6 DEF TypeOK, PCs, Stages, server
<1>8. ASSUME NEW t \in Threads, Persist(t) PROVE TypeOK'
  <2>1. disk' \in [token : 0 .. active, key : BOOLEAN]
    BY <1>8 DEF Persist, Persisted, TypeOK
  <2>2. pc' \in [Threads -> PCs]
    BY <1>8 DEF Persist, TypeOK, PCs
  <2> QED BY <1>8, <2>1, <2>2 DEF Persist, TypeOK, PCs, server, process
<1>9. ASSUME NEW t \in Threads, Granted(t) PROVE TypeOK'
  <2>1. Rotate(held[t])
    BY <1>9 DEF Granted
  <2>2. /\ active' \in Nat /\ \A k \in 0 .. active : k \in 0 .. active'
        /\ active' \in 0 .. active' /\ window' = TRUE /\ revoked' = revoked
    BY <2>1, RotateTyped
  <2>3. got' \in [Threads -> 0 .. active']
    BY <1>9, <2>2 DEF Granted, TypeOK
  <2> QED BY <1>9, <2>2, <2>3 DEF Granted, TypeOK, process
<1>10. ASSUME NEW t \in Threads, Denied(t) PROVE TypeOK'
  <2>1. CASE t = Main
    BY <1>10, <2>1, EndsTyped DEF Denied, Refused, TypeOK, Stages, PCs
  <2>2. CASE t # Main
    BY <1>10, <2>2 DEF Denied, Refused, RefusedUnseen, TypeOK, process
  <2> QED BY <2>1, <2>2
<1>11. ASSUME NEW t \in Threads, NotSent(t) \/ PersistFails(t) PROVE TypeOK'
  <2>1. budget' \in 0 .. MaxFaults /\ lapse' \in BOOLEAN /\ Fails(t)
    BY <1>11, FaultTyped DEF NotSent, NotSentEnds, PersistFails, TypeOK
  <2> QED BY <1>11, <2>1, FailsTyped
          DEF NotSent, PersistFails, TypeOK, server, Stages, PCs
<1>12. ASSUME NEW t \in Threads, AnswerLost(t) PROVE TypeOK'
  <2>1. budget' \in 0 .. MaxFaults /\ lapse' \in BOOLEAN /\ Fails(t)
        /\ disk' = disk /\ overtaken' = overtaken
    BY <1>12, FaultTyped DEF AnswerLost, TypeOK
  <2>2. Rotate(held[t])
    BY <1>12 DEF AnswerLost
  <2>3. /\ active' \in Nat /\ \A k \in 0 .. active : k \in 0 .. active'
        /\ window' = TRUE /\ revoked' = revoked
    BY <2>2, RotateTyped
  <2> QED BY <2>1, <2>3, FailsTyped DEF TypeOK, Stages, PCs
<1>14. ASSUME NEW t \in Threads, Refresh(t) \/ Lost(t) PROVE TypeOK'
  BY <1>14, <1>7, <1>8, <1>9, <1>10, <1>11, <1>12 DEF Refresh, Lost
<1> QED
  BY <1>1, <1>2, <1>3, <1>4, <1>5, <1>6, <1>7, <1>14 DEF Next, Boot

\* A token number is never invented and the file keeps its shape, for any
\* goroutines and faults (client.go:225-285, runtime.go:339-346).
THEOREM TypeCorrect == Spec => []TypeOK
BY InitTyped, StepTyped, PTL DEF Spec

-------------------------------------------------------------------------------
(* Which goroutines refresh at which stage, and the exit for good.         *)

\* Only a running process refreshes, and only Main before it serves; a process
\* that has ended for good had its session revoked.
Quiet ==
  /\ stage \in Stages \ {"ping", "serving"} => Idle
  /\ stage = "ping" => \A t \in Others : pc[t] = "idle"
  /\ GoneIsRevoked

LEMMA InitQuiet == Init => Quiet
BY DEF Init, Quiet, Idle, GoneIsRevoked

LEMMA EndsQuiet ==
  ASSUME TypeOK, NEW s \in {"down", "gone"}, Ends(s), s = "gone" => revoked'
  PROVE  Quiet'
BY DEF Ends, Quiet, Idle, GoneIsRevoked

LEMMA FailsQuiet ==
  ASSUME TypeOK, Quiet, NEW t \in Threads, pc[t] # "idle", Fails(t), revoked' = revoked
  PROVE  Quiet'
<1>1. CASE stage = "ping"
  BY <1>1, EndsQuiet DEF Fails
<1>2. CASE stage # "ping"
  <2>1. stage = "serving"
    BY <1>2 DEF Quiet, Idle, TypeOK, Stages
  <2> QED BY <1>2, <2>1 DEF Fails, process, Quiet, GoneIsRevoked
<1> QED BY <1>1, <1>2

LEMMA StepQuiet == TypeOK /\ Quiet /\ [Next]_vars => Quiet'
<1> SUFFICES ASSUME TypeOK, Quiet, [Next]_vars PROVE Quiet'
  OBVIOUS
<1>0. stage \in Stages
  BY DEF TypeOK, Stages
<1>1. CASE UNCHANGED <<stage, pc>> /\ (revoked' = revoked \/ revoked' = TRUE)
  BY <1>1 DEF Quiet, Idle, GoneIsRevoked
<1>2. CASE Launch \/ FinishRewrite \/ Heal \/ FinishHeal
  BY <1>2 DEF Launch, FinishRewrite, Heal, FinishHeal, thread, Quiet, Idle,
              GoneIsRevoked, Stages
<1>3. CASE Load
  <2>1. CASE Ends("down")
    BY <2>1, EndsQuiet
  <2>2. CASE ~Ends("down")
    <3>1. Idle /\ stage' = "ping" /\ pc' = [pc EXCEPT ![Main] = "read"]
      BY <1>3, <2>2 DEF Load, Quiet, Stages
    <3> QED BY <3>1, ThreadsAre DEF Quiet, Idle, GoneIsRevoked, TypeOK
  <2> QED BY <2>1, <2>2
<1>4. CASE Crash
  BY <1>4, EndsQuiet DEF Crash
<1>5. ASSUME NEW t \in Threads, NeedToken(t) \/ ForceRefresh(t) PROVE Quiet'
  BY <1>5 DEF NeedToken, ForceRefresh, process, Quiet, GoneIsRevoked
<1>6. ASSUME NEW t \in Threads, pc[t] # "idle", Refresh(t) \/ Lost(t) PROVE Quiet'
  <2>1. stage = "serving" \/ (stage = "ping" /\ t = Main)
    BY <1>0, <1>6, ThreadsAre DEF Quiet, Idle
  <2>2. CASE Read(t) \/ Granted(t) \/ Persist(t)
    <3>1. stage' = stage /\ \A u \in Threads : u # t => pc'[u] = pc[u]
      BY <2>2 DEF Read, Granted, Persist, process, TypeOK
    <3>2. \A u \in Others : stage = "ping" => u # t
      BY <2>1, ThreadsAre
    <3> QED BY <2>1, <3>1, <3>2, ThreadsAre DEF Quiet, GoneIsRevoked
  <2>3. CASE Denied(t)
    <3>1. CASE t = Main
      BY <2>3, <3>1, EndsQuiet DEF Denied, Refused
    <3>2. CASE t # Main
      BY <2>1, <2>3, <3>2 DEF Denied, Refused, RefusedUnseen, process, Quiet, GoneIsRevoked
    <3> QED BY <3>1, <3>2
  <2>4. CASE Store(t)
    <3>1. CASE stage = "ping"
      <4>1. \A u \in Threads : u # Main => pc[u] = "idle"
        BY <3>1, ThreadsAre DEF Quiet
      <4>2. stage' = "heal" /\ pc' = [pc EXCEPT ![Main] = "idle"]
        BY <2>1, <2>4, <3>1 DEF Store
      <4>3. Idle'
        BY <4>1, <4>2, ThreadsAre DEF Idle, TypeOK
      <4> QED BY <4>2, <4>3 DEF Quiet, GoneIsRevoked
    <3>2. CASE stage = "serving"
      BY <2>4, <3>2 DEF Store, Quiet, GoneIsRevoked
    <3> QED BY <2>1, <3>1, <3>2
  <2>5. CASE NotSent(t) \/ AnswerLost(t) \/ PersistFails(t)
    <3>1. Fails(t) /\ revoked' = revoked
      BY <2>5 DEF NotSent, NotSentEnds, AnswerLost, PersistFails, Rotate, server
    <3> QED BY <1>6, <3>1, FailsQuiet
  <2> QED BY <1>6, <2>2, <2>3, <2>4, <2>5 DEF Refresh, Lost
<1>7. ASSUME NEW t \in Threads, Refresh(t) \/ Lost(t) PROVE pc[t] # "idle"
  BY <1>7 DEF Refresh, Lost, Read, Granted, Denied, Persist, Store, NotSent,
              AnswerLost, PersistFails
<1>8. CASE \/ UNCHANGED vars
           \/ CloseWindow \/ ExpireAccess \/ OwnerRevokes \/ PveGoesDown \/ PveComesBack
  BY <1>1, <1>8
  DEF vars, CloseWindow, ExpireAccess, OwnerRevokes, PveGoesDown, PveComesBack,
      server, process, thread
<1> QED
  BY <1>2, <1>3, <1>4, <1>5, <1>6, <1>7, <1>8 DEF Next, Boot

\* The exit status that systemd does not restart is only used on a revoked
\* session (main.go:40-43, 152-156).
THEOREM GoneOnlyIfRevoked == Spec => []GoneIsRevoked
<1>1. Quiet => GoneIsRevoked
  BY DEF Quiet
<1> QED BY InitTyped, StepTyped, InitQuiet, StepQuiet, <1>1, PTL DEF Spec

-------------------------------------------------------------------------------
(* Who overtakes whom.                                                     *)

\* While one goroutine is behind another has stored its answer, and the access
\* token does not expire before the refreshes under way end, unless one is slow.
BehindIsFresh == ~lapse => \A t \in Threads : Behind(t) => fresh

\* No step but the memory's next Store puts a goroutine behind.
LEMMA StepBehind ==
  ASSUME TypeOK, Quiet, [Next]_vars, NEW t \in Threads, Behind(t)'
  PROVE  \/ Behind(t) /\ UNCHANGED fresh
         \/ \E u \in Threads : Store(u)
         \/ ExpireAccess
<1> USE DEF excuses
<1> SUFFICES ASSUME \A u \in Threads : ~Store(u), ~ExpireAccess
             PROVE  Behind(t) /\ UNCHANGED fresh
  OBVIOUS
<1>1. ~Idle'
  BY DEF Idle, Behind, Saving
<1>2. \A s : ~Ends(s)
  BY <1>1 DEF Ends, Idle
<1>3. ~Boot
  <2>1. ASSUME Boot PROVE FALSE
    <3>1. Idle
      BY <2>1 DEF Boot, Launch, FinishRewrite, Load, Heal, FinishHeal, Quiet, Stages
    <3>2. CASE Load
      <4>1. pc' = [pc EXCEPT ![Main] = "read"]
        BY <1>2, <3>2 DEF Load
      <4> QED BY <3>1, <4>1, ThreadsAre DEF Idle, Behind, Saving, TypeOK
    <3>3. CASE Launch \/ FinishRewrite \/ Heal \/ FinishHeal
      BY <1>1, <3>1, <3>3 DEF Launch, FinishRewrite, Heal, FinishHeal, thread, Idle
    <3> QED BY <2>1, <3>2, <3>3 DEF Boot
  <2> QED BY <2>1
<1>4. CASE \/ UNCHANGED vars
           \/ CloseWindow \/ OwnerRevokes \/ PveGoesDown \/ PveComesBack
  <2>1. UNCHANGED <<mem, fresh, pc, held, got>>
    BY <1>4 DEF vars, CloseWindow, OwnerRevokes, PveGoesDown, PveComesBack, process,
                thread
  <2> QED BY <2>1 DEF Behind, Saving
<1>5. ASSUME NEW u \in Threads, NeedToken(u) \/ ForceRefresh(u)
      PROVE  Behind(t) /\ UNCHANGED fresh
  BY <1>5 DEF NeedToken, ForceRefresh, process, Behind, Saving, TypeOK
<1>6. ASSUME NEW u \in Threads, Refresh(u) \/ Lost(u)
      PROVE  Behind(t) /\ UNCHANGED fresh
  <2>1. CASE Read(u)
    BY <2>1 DEF Read, TokenToPost, process, Behind, Saving, TypeOK
  <2>2. CASE Granted(u)
    <3>1. /\ pc[u] = "post" /\ UNCHANGED <<mem, fresh, held>>
          /\ pc' = [pc EXCEPT ![u] = "persist"] /\ got' = [got EXCEPT ![u] = active']
          /\ active' = IF held[u] = active THEN active + 1 ELSE active
          /\ mem \in 0 .. active /\ active \in Nat
      BY <2>2 DEF Granted, Rotate, process, TypeOK
    <3>2. CASE t = u
      BY <3>1, <3>2 DEF Behind, Saving, TypeOK
    <3>3. CASE t # u
      BY <3>1, <3>3 DEF Behind, Saving, TypeOK
    <3> QED BY <3>1, <3>2, <3>3 DEF TypeOK
  <2>3. CASE Persist(u)
    BY <2>3 DEF Persist, process, Behind, Saving, TypeOK
  <2>4. CASE Denied(u) \/ NotSent(u) \/ AnswerLost(u) \/ PersistFails(u)
    <3>1. pc' = [pc EXCEPT ![u] = "idle"] /\ UNCHANGED <<mem, fresh, held, got>>
      BY <1>2, <2>4 DEF Denied, Refused, RefusedUnseen, NotSent, NotSentEnds,
                        AnswerLost, PersistFails, Fails, process
    <3> QED BY <3>1 DEF Behind, Saving, TypeOK
  <2> QED BY <1>6, <2>1, <2>2, <2>3, <2>4 DEF Refresh, Lost
<1>7. ~Crash
  BY <1>2 DEF Crash
<1> QED BY <1>3, <1>4, <1>5, <1>6, <1>7 DEF Next

\* Only Store forgets that something was lost.
LEMMA LapseStays ==
  ASSUME [Next]_vars, lapse, ~lapse'
  PROVE  \E t \in Threads : Store(t)
BY DEF excuses, Next, Boot, Refresh, Lost, vars, CloseWindow, ExpireAccess, OwnerRevokes,
       PveGoesDown, PveComesBack, Launch, FinishRewrite, Load, Heal, FinishHeal, Crash,
       NeedToken, ForceRefresh, Read, Granted, Denied, NotSent, AnswerLost, Persist,
       PersistFails

LEMMA StepBehindIsFresh ==
  ASSUME TypeOK, Quiet, BehindIsFresh, [Next]_vars
  PROVE  BehindIsFresh'
<1> SUFFICES ASSUME ~lapse', NEW t \in Threads, Behind(t)' PROVE fresh'
  BY DEF BehindIsFresh
<1>1. CASE \E u \in Threads : Store(u)
  BY <1>1 DEF Store, Dated
<1>2. ~ExpireAccess
  BY DEF ExpireAccess, thread, Behind, Saving
<1>3. CASE ~\E u \in Threads : Store(u)
  <2>1. ~lapse
    BY <1>3, LapseStays
  <2> QED BY <1>2, <1>3, <2>1, StepBehind DEF BehindIsFresh
<1> QED BY <1>1, <1>3

\* Only Read begins a refresh, and only when one is behind does it overtake.
LEMMA StepOvertakes ==
  ASSUME [Next]_vars, overtaken'
  PROVE  overtaken \/ \E t, u \in Threads : Read(t) /\ Behind(u)
BY DEF excuses, Next, Boot, Refresh, Lost, vars, CloseWindow, ExpireAccess, OwnerRevokes,
       PveGoesDown, PveComesBack, Launch, FinishRewrite, Load, Heal, FinishHeal, Crash,
       NeedToken, ForceRefresh, Read, Granted, Denied, NotSent, AnswerLost, Persist,
       PersistFails, Store

\* Whatever the number of goroutines, one overtakes another only when the access
\* token it was to fetch is in memory already (client.go:205-214, 225-228).
THEOREM LateCheck == Spec => OvertakesInVain
<1>1. Init => BehindIsFresh
  BY DEF Init, BehindIsFresh, Behind, Saving
<1>2. TypeOK /\ Quiet /\ BehindIsFresh /\ [Next]_vars => BehindIsFresh'
  BY StepBehindIsFresh
<1>3. BehindIsFresh /\ [Next]_vars => [overtaken' => overtaken \/ fresh \/ lapse]_vars
  BY StepOvertakes DEF BehindIsFresh
<1> QED
  BY InitTyped, StepTyped, InitQuiet, StepQuiet, <1>1, <1>2, <1>3, PTL
  DEF Spec, OvertakesInVain

-------------------------------------------------------------------------------
(* While nobody is overtaken the file keeps up, however many refresh.      *)

\* The file and the copy of it the process read: one rotation behind at most,
\* and then a goroutine is about to write.
FileInStep ==
  /\ stage = "rewrite" => cfg.token = active
  /\ stage \notin {"rewrite", "saving"} =>
       \/ disk.token = active
       \/ disk.token + 1 = active /\ \E t \in Threads : pc[t] = "persist"

\* Memory is behind the server only while a goroutine has the answer in hand.
MemoryInStep ==
  stage \in {"ping", "heal", "saving", "serving"} =>
    mem = active \/ \E t \in Threads : Saving(t)

\* A goroutine on its way from the answer to Store carries the newest token.
AnswerInStep ==
  \A t \in Threads : Saving(t) =>
    /\ got[t] = active /\ window
    /\ mem = active \/ mem + 1 = active

\* A goroutine about to post has the newest token and nobody is ahead of it; or
\* it has the one before, and the newest is in memory or in a goroutine's hands.
PostInStep ==
  \A t \in Threads : pc[t] = "post" =>
    \/ held[t] = active /\ mem = active /\ \A u \in Threads : ~Saving(u)
    \/ /\ held[t] + 1 = active /\ window
       /\ mem = active \/ \E u \in Threads : Saving(u)

\* All that are about to post hold the same token.
PostTheSame == \A t, u \in Threads : pc[t] = "post" /\ pc[u] = "post" => held[t] = held[u]

InStep == FileInStep /\ MemoryInStep /\ AnswerInStep /\ PostInStep /\ PostTheSame

Spared == ~lapse /\ ~overtaken

KeepsUp == Spared /\ ~revoked => InStep

LEMMA InitInStep == Init => KeepsUp
BY DEF Init, KeepsUp, InStep, FileInStep, MemoryInStep, AnswerInStep, PostInStep,
       PostTheSame, Saving

\* With every goroutine at rest only the file and memory are left to say.
LEMMA RestInStep ==
  ASSUME Idle', FileInStep', MemoryInStep'
  PROVE  InStep'
BY DEF Idle, InStep, AnswerInStep, PostInStep, PostTheSame, Saving

\* A process that ends leaves the file as it is.
LEMMA EndsInStep ==
  ASSUME InStep, Ends("down"), disk' = disk, active' = active,
         stage \notin {"rewrite", "saving"}, \A t \in Threads : pc[t] # "persist"
  PROVE  InStep'
<1>1. Idle'
  BY DEF Ends, Idle
<1>2. FileInStep' /\ MemoryInStep'
  BY DEF InStep, FileInStep, MemoryInStep, Ends
<1> QED BY <1>1, <1>2, RestInStep

LEMMA BootInStep ==
  ASSUME TypeOK, Quiet, InStep, Boot, ~lapse'
  PROVE  InStep'
<1> USE DEF InStep
<1>1. Idle
  BY DEF Boot, Launch, FinishRewrite, Load, Heal, FinishHeal, Quiet, Stages
<1>2. CASE Launch
  <2>2. disk.token = active
    BY <1>1, <1>2 DEF Launch, FileInStep, Idle
  <2>3. FileInStep' /\ MemoryInStep' /\ Idle'
    BY <1>1, <1>2, <2>2 DEF Launch, FileInStep, MemoryInStep, server, thread, Idle
  <2> QED BY <2>3, RestInStep
<1>3. CASE FinishRewrite
  <2>1. FileInStep' /\ MemoryInStep' /\ Idle'
    BY <1>1, <1>3 DEF FinishRewrite, FileInStep, MemoryInStep, server, thread, Idle
  <2> QED BY <2>1, RestInStep
<1>4. CASE Load
  <2>1. CASE Ends("down")
    BY <1>1, <1>4, <2>1, EndsInStep DEF Load, Idle, server
  <2>2. CASE ~Ends("down")
    <3>1. /\ stage' = "ping" /\ cfg' = disk /\ mem' = disk.token
          /\ pc' = [pc EXCEPT ![Main] = "read"] /\ disk' = disk /\ active' = active
      BY <1>4, <2>2 DEF Load, server
    <3>2. disk.token = active
      BY <1>1, <1>4 DEF Load, FileInStep, Idle
    <3>3. \A t \in Threads : pc'[t] \in {"idle", "read"}
      BY <1>1, <3>1, ThreadsAre DEF Idle, TypeOK
    <3> QED BY <3>1, <3>2, <3>3
            DEF FileInStep, MemoryInStep, AnswerInStep, PostInStep, PostTheSame, Saving
  <2> QED BY <2>1, <2>2
<1>5. CASE Heal
  <2>1. FileInStep' /\ MemoryInStep' /\ Idle'
    BY <1>1, <1>5 DEF Heal, FileInStep, MemoryInStep, Saving, server, thread, Idle
  <2> QED BY <2>1, RestInStep
<1>6. CASE FinishHeal
  <2>1. cfg.token = active /\ disk' = [cfg EXCEPT !.key = TRUE] /\ stage' = "serving"
        /\ UNCHANGED <<server, mem, thread>> /\ stage = "saving"
    BY <1>6 DEF FinishHeal
  <2>2. disk'.token = active
    BY <2>1 DEF TypeOK
  <2>3. FileInStep' /\ Idle'
    BY <1>1, <2>1, <2>2 DEF FileInStep, server, thread, Idle
  <2>4. MemoryInStep'
    BY <1>1, <2>1, <2>2 DEF MemoryInStep, Saving, server, thread, Idle
  <2> QED BY <2>3, <2>4, RestInStep
<1> QED BY <1>2, <1>3, <1>4, <1>5, <1>6 DEF Boot

\* A reader in its turn takes the token that all others are posting, older than
\* any that is being saved.
LEMMA ReadInStep ==
  ASSUME TypeOK, Quiet, InStep, NEW t \in Threads, Read(t),
         \A u \in Threads : ~Behind(u)
  PROVE  InStep'
<1> USE DEF InStep
<1>1. /\ pc[t] = "read" /\ pc' = [pc EXCEPT ![t] = "post"]
      /\ held' = [held EXCEPT ![t] = mem]
      /\ UNCHANGED <<server, disk, process, got>>
  BY DEF Read, TokenToPost
<1>2. /\ pc'[t] = "post" /\ held'[t] = mem
      /\ \A u \in Threads : u # t => pc'[u] = pc[u] /\ held'[u] = held[u]
  BY <1>1 DEF TypeOK
<1>3. stage \in {"ping", "serving"}
  BY <1>1 DEF Quiet, Idle, TypeOK, Stages
<1>4. \A u \in Threads : Saving(u)' = Saving(u)
  BY <1>1, <1>2 DEF Saving
<1>5. FileInStep' /\ MemoryInStep' /\ AnswerInStep'
  BY <1>1, <1>2, <1>4 DEF FileInStep, MemoryInStep, AnswerInStep, server, process
<1>6. ASSUME NEW u \in Threads, Saving(u) PROVE mem + 1 = active /\ window
  BY <1>6 DEF AnswerInStep, Behind
<1>7. mem = active \/ \E u \in Threads : Saving(u)
  BY <1>3 DEF MemoryInStep
<1>8. PostInStep'
  <2>1. ASSUME NEW u \in Threads, pc'[u] = "post"
        PROVE  \/ held'[u] = active /\ mem = active /\ \A v \in Threads : ~Saving(v)
               \/ /\ held'[u] + 1 = active /\ window
                  /\ mem = active \/ \E v \in Threads : Saving(v)
    <3>1. CASE u = t
      BY <1>2, <1>6, <1>7, <3>1
    <3>2. CASE u # t
      BY <1>2, <2>1, <3>2 DEF PostInStep
    <3> QED BY <3>1, <3>2
  <2> QED BY <1>1, <1>4, <2>1 DEF PostInStep, server, process
<1>9. \A u \in Threads : pc'[u] = "post" => held'[u] = mem
  BY <1>2 DEF Behind
<1>10. PostTheSame'
  BY <1>9 DEF PostTheSame
<1> QED BY <1>5, <1>8, <1>10

\* The server accepts what a goroutine posts.
LEMMA PostAccepted ==
  ASSUME TypeOK, InStep, ~revoked, NEW t \in Threads, pc[t] = "post"
  PROVE  Accepted(held[t])
BY DEF InStep, PostInStep, Accepted

LEMMA GrantedInStep ==
  ASSUME TypeOK, Quiet, InStep, NEW t \in Threads, Granted(t)
  PROVE  InStep'
<1> USE DEF InStep
<1>1. /\ pc[t] = "post" /\ window' = TRUE /\ UNCHANGED <<disk, process, held>>
      /\ active' = IF held[t] = active THEN active + 1 ELSE active
      /\ active \in Nat
  BY DEF Granted, Rotate, TypeOK
<1>2. /\ pc'[t] = "persist" /\ got'[t] = active'
      /\ \A u \in Threads : u # t => pc'[u] = pc[u] /\ got'[u] = got[u]
  BY DEF Granted, TypeOK
<1>3. stage \in {"ping", "serving"}
  BY <1>1 DEF Quiet, Idle, TypeOK, Stages
<1>4. MemoryInStep' /\ Saving(t)'
  BY <1>1, <1>2, <1>3 DEF MemoryInStep, Saving, process
<1>5. \A u \in Threads : pc'[u] = "post" => pc[u] = "post" /\ held[u] = held[t]
  BY <1>1, <1>2 DEF PostTheSame
<1>6. PostTheSame'
  BY <1>1, <1>5 DEF PostTheSame
<1>7. CASE held[t] = active
  <2>1. (\A u \in Threads : ~Saving(u)) /\ mem = active /\ active' = active + 1
    BY <1>1, <1>7 DEF PostInStep
  <2>2. disk.token = active
    BY <1>3, <2>1 DEF FileInStep, Saving
  <2>3. FileInStep'
    BY <1>1, <1>2, <1>3, <2>1, <2>2 DEF FileInStep, process
  <2>4. AnswerInStep'
    BY <1>1, <1>2, <2>1 DEF AnswerInStep, Saving, process
  <2>5. PostInStep'
    BY <1>1, <1>4, <1>5, <1>7, <2>1 DEF PostInStep
  <2> QED BY <1>4, <1>6, <2>3, <2>4, <2>5
<1>8. CASE held[t] # active
  <2>1. active' = active /\ window /\ held[t] + 1 = active
    BY <1>1, <1>8 DEF PostInStep
  <2>2. mem = active \/ mem + 1 = active
    BY <1>1, <1>8 DEF PostInStep, AnswerInStep
  <2>3. FileInStep'
    BY <1>1, <1>2, <1>3, <2>1 DEF FileInStep, process
  <2>4. AnswerInStep'
    BY <1>1, <1>2, <2>1, <2>2 DEF AnswerInStep, Saving, process
  <2>5. PostInStep'
    BY <1>1, <1>4, <1>5, <2>1 DEF PostInStep
  <2> QED BY <1>4, <1>6, <2>3, <2>4, <2>5
<1> QED BY <1>7, <1>8

LEMMA PersistInStep ==
  ASSUME TypeOK, Quiet, InStep, NEW t \in Threads, Persist(t)
  PROVE  InStep'
<1> USE DEF InStep
<1>1. pc[t] = "persist" /\ got[t] = active /\ UNCHANGED <<server, process, held, got>>
  BY DEF Persist, AnswerInStep, Saving
<1>2. stage \in {"ping", "serving"}
  BY <1>1 DEF Quiet, Idle, TypeOK, Stages
<1>3. disk'.token = active
  BY <1>1 DEF Persist, Persisted, TypeOK
<1>4. pc'[t] = "store" /\ \A u \in Threads : u # t => pc'[u] = pc[u]
  BY DEF Persist, TypeOK
<1>5. \A u \in Threads : Saving(u)' = Saving(u) /\ (pc'[u] = "post") = (pc[u] = "post")
  BY <1>1, <1>4 DEF Saving
<1>6. FileInStep'
  BY <1>1, <1>2, <1>3 DEF FileInStep, server, process
<1>7. MemoryInStep'
  BY <1>1, <1>5 DEF MemoryInStep, server, process
<1>8. AnswerInStep'
  BY <1>1, <1>5 DEF AnswerInStep, server, process
<1>9. PostInStep' /\ PostTheSame'
  BY <1>1, <1>5 DEF PostInStep, PostTheSame, server, process
<1> QED BY <1>6, <1>7, <1>8, <1>9

LEMMA StoreInStep ==
  ASSUME TypeOK, Quiet, InStep, NEW t \in Threads, Store(t)
  PROVE  InStep'
<1> USE DEF InStep
<1>1. /\ pc[t] = "store" /\ got[t] = active
      /\ UNCHANGED <<server, disk, cfg, pveUp, held, got>>
      /\ mem' = active
      /\ stage' = IF stage = "ping" THEN "heal" ELSE stage
  BY DEF Store, AnswerInStep, Saving
<1>2. stage \in {"ping", "serving"}
  BY <1>1 DEF Quiet, Idle, TypeOK, Stages
<1>3. pc'[t] = "idle" /\ \A u \in Threads : u # t => pc'[u] = pc[u]
  BY DEF Store, TypeOK
<1>4. FileInStep'
  <2>1. \/ disk.token = active
        \/ disk.token + 1 = active /\ \E u \in Threads : pc'[u] = "persist"
    BY <1>1, <1>2, <1>3 DEF FileInStep
  <2> QED BY <1>1, <1>2, <2>1 DEF FileInStep, server
<1>5. MemoryInStep'
  BY <1>1 DEF MemoryInStep, server
<1>6. AnswerInStep'
  BY <1>1, <1>3 DEF AnswerInStep, Saving, server
<1>7. PostInStep'
  <2>1. ASSUME NEW u \in Threads, pc'[u] = "post"
        PROVE  held[u] + 1 = active /\ window
    <3>1. pc[u] = "post" /\ Saving(t)
      BY <1>1, <1>3, <2>1 DEF Saving
    <3> QED BY <3>1 DEF PostInStep
  <2> QED BY <1>1, <2>1 DEF PostInStep, server
<1>8. PostTheSame'
  BY <1>1, <1>3 DEF PostTheSame
<1> QED BY <1>4, <1>5, <1>6, <1>7, <1>8

LEMMA NotSentInStep ==
  ASSUME TypeOK, Quiet, InStep, NEW t \in Threads, NotSent(t)
  PROVE  InStep'
<1> USE DEF InStep
<1>1. pc[t] = "post" /\ Fails(t) /\ UNCHANGED <<server, disk>>
  BY DEF NotSent, NotSentEnds
<1>2. CASE stage = "ping"
  <2>1. \A u \in Threads : pc[u] # "persist"
    BY <1>1, <1>2, ThreadsAre DEF Quiet
  <2> QED BY <1>1, <1>2, <2>1, EndsInStep DEF Fails, server
<1>3. CASE stage # "ping"
  <2>1. pc' = [pc EXCEPT ![t] = "idle"] /\ UNCHANGED <<server, disk, process, held, got>>
    BY <1>1, <1>3 DEF Fails
  <2>2. pc'[t] = "idle" /\ \A u \in Threads : u # t => pc'[u] = pc[u]
    BY <2>1 DEF TypeOK
  <2>3. /\ \A u \in Threads : Saving(u)' = Saving(u)
        /\ \A u \in Threads : (pc'[u] = "persist") = (pc[u] = "persist")
        /\ \A u \in Threads : pc'[u] = "post" => pc[u] = "post"
    BY <1>1, <2>2 DEF Saving
  <2>4. FileInStep' /\ MemoryInStep'
    BY <2>1, <2>3 DEF FileInStep, MemoryInStep, server, process
  <2>5. AnswerInStep'
    BY <2>1, <2>3 DEF AnswerInStep, server, process
  <2>6. PostInStep' /\ PostTheSame'
    BY <2>1, <2>3 DEF PostInStep, PostTheSame, server, process
  <2> QED BY <2>4, <2>5, <2>6
<1> QED BY <1>2, <1>3

LEMMA SetOutInStep ==
  ASSUME TypeOK, InStep, NEW t \in Threads, NeedToken(t) \/ ForceRefresh(t)
  PROVE  InStep'
<1> USE DEF InStep
<1>1. pc[t] = "idle" /\ UNCHANGED <<server, disk, process, held, got>>
  BY DEF NeedToken, ForceRefresh
<1>2. pc'[t] = "read" /\ \A u \in Threads : u # t => pc'[u] = pc[u]
  BY DEF NeedToken, ForceRefresh, TypeOK
<1>3. \A u \in Threads : Saving(u)' = Saving(u) /\ (pc'[u] = "persist") = (pc[u] = "persist")
                         /\ (pc'[u] = "post") = (pc[u] = "post")
  BY <1>1, <1>2 DEF Saving
<1>4. FileInStep' /\ MemoryInStep'
  BY <1>1, <1>3 DEF FileInStep, MemoryInStep, server, process
<1>5. AnswerInStep'
  BY <1>1, <1>3 DEF AnswerInStep, server, process
<1>6. PostInStep' /\ PostTheSame'
  BY <1>1, <1>3 DEF PostInStep, PostTheSame, server, process
<1> QED BY <1>4, <1>5, <1>6

\* Whoever stores the newest token while nobody else has one in hand puts the
\* agent in step, however far out of it it was.
LEMMA BackAgain ==
  ASSUME TypeOK, Quiet, NEW t \in Threads, Store(t), BackInStep(t)
  PROVE  InStep'
<1>1. /\ mem' = active /\ active' = active /\ disk'.token = active /\ pc'[t] = "idle"
      /\ \A u \in Threads : u # t => pc'[u] = pc[u]
  BY DEF Store, BackInStep, server, TypeOK
<1>2. \A u \in Threads : pc'[u] \in {"idle", "read"}
  BY <1>1 DEF BackInStep
<1>3. stage \in {"ping", "serving"}
  BY DEF Store, Quiet, Idle, TypeOK, Stages
<1>4. FileInStep' /\ MemoryInStep'
  BY <1>1, <1>3 DEF Store, FileInStep, MemoryInStep
<1> QED
  BY <1>2, <1>4 DEF InStep, AnswerInStep, PostInStep, PostTheSame, Saving

\* What the environment does between refreshes, or to the process as a whole.
LEMMA AroundInStep ==
  ASSUME TypeOK, Quiet, InStep, ~lapse',
         \/ CloseWindow \/ ExpireAccess \/ OwnerRevokes \/ PveGoesDown
         \/ PveComesBack \/ Crash \/ UNCHANGED vars
  PROVE  InStep'
<1>1. CASE CloseWindow
  <2>1. /\ \A t \in Threads : ~Replaced(t)
        /\ UNCHANGED <<active, disk, stage, cfg, mem, thread>>
    BY <1>1 DEF CloseWindow, process
  <2> QED BY <2>1 DEF InStep, FileInStep, MemoryInStep, AnswerInStep, PostInStep,
                      PostTheSame, Saving, Replaced, thread
<1>2. CASE ExpireAccess \/ OwnerRevokes \/ PveGoesDown \/ PveComesBack \/ UNCHANGED vars
  <2>1. UNCHANGED <<active, window, disk, stage, cfg, mem, pc, held, got>>
    BY <1>2 DEF ExpireAccess, OwnerRevokes, PveGoesDown, PveComesBack, vars, server,
                process, thread
  <2> QED BY <2>1 DEF InStep, FileInStep, MemoryInStep, AnswerInStep, PostInStep,
                      PostTheSame, Saving
<1>3. CASE Crash
  BY <1>3, EndsInStep DEF Crash, server
<1> QED BY <1>1, <1>2, <1>3

\* Only a refresh that has put the agent back in step forgets what was lost or
\* overtaken; nothing makes a revoked session good again.
LEMMA StepBlames ==
  ASSUME TypeOK, [Next]_vars
  PROVE  /\ Spared' => \/ Spared
                       \/ \E t \in Threads : Store(t) /\ BackInStep(t)
         /\ Spared' => /\ \A t \in Threads : ~AnswerLost(t) /\ ~PersistFails(t)
                       /\ \A t, u \in Threads : Read(t) => ~Behind(u)
         /\ ~revoked' => ~revoked
         /\ revoked' => revoked \/ OwnerRevokes \/ \E t \in Threads : Denied(t)
<1>1. Spared' => /\ \A t \in Threads : ~AnswerLost(t) /\ ~PersistFails(t)
                 /\ \A t, u \in Threads : Read(t) => ~Behind(u)
  BY DEF Spared, AnswerLost, PersistFails, Read
<1>2. ASSUME NEW t \in Threads, Store(t)
      PROVE  Spared' => Spared \/ BackInStep(t)
  BY <1>2 DEF Store, Spared
<1>3. \/ (lapse => lapse') /\ (overtaken => overtaken')
      \/ \E t \in Threads : Store(t)
  BY DEF excuses, Next, Boot, Refresh, Lost, vars, CloseWindow, ExpireAccess,
         OwnerRevokes, PveGoesDown, PveComesBack, Launch, FinishRewrite, Load, Heal,
         FinishHeal, Crash, NeedToken, ForceRefresh, Read, Granted, Denied, NotSent,
         AnswerLost, Persist, PersistFails, TypeOK
<1>4. UNCHANGED revoked \/ OwnerRevokes \/ \E t \in Threads : Denied(t)
  BY DEF Next, Boot, Refresh, Lost, vars, server, CloseWindow, ExpireAccess,
         PveGoesDown, PveComesBack, Launch, FinishRewrite, Load, Heal, FinishHeal,
         Crash, NeedToken, ForceRefresh, Read, Granted, NotSent, AnswerLost, Persist,
         PersistFails, Store, Rotate
<1>5. (OwnerRevokes \/ \E t \in Threads : Denied(t)) => revoked'
  BY DEF OwnerRevokes, Denied
<1> QED BY <1>1, <1>2, <1>3, <1>4, <1>5 DEF Spared

\* While the agent is in step the server accepts whatever it posts.
LEMMA NoneDenied ==
  ASSUME TypeOK, KeepsUp, Spared, ~revoked, NEW t \in Threads
  PROVE  ~Denied(t)
BY PostAccepted DEF KeepsUp, Denied

LEMMA StepKeepsUp ==
  ASSUME TypeOK, Quiet, KeepsUp, [Next]_vars
  PROVE  KeepsUp'
<1> SUFFICES ASSUME Spared', ~revoked' PROVE InStep'
  BY DEF KeepsUp
<1>1. ~lapse' /\ ~revoked
  BY StepBlames DEF Spared
<1>2. CASE \E t \in Threads : Store(t) /\ BackInStep(t)
  BY <1>2, BackAgain
<1>3. CASE Spared
  <2>1. InStep
    BY <1>1, <1>3 DEF KeepsUp
  <2>2. \A t \in Threads : ~Denied(t)
    BY <1>1, <1>3, NoneDenied
  <2>3. ASSUME Boot PROVE InStep'
    BY <1>1, <2>1, <2>3, BootInStep
  <2>4. ASSUME NEW t \in Threads,
               NeedToken(t) \/ ForceRefresh(t) \/ Refresh(t) \/ Lost(t)
        PROVE  InStep'
    BY <2>1, <2>2, <2>4, StepBlames, SetOutInStep, ReadInStep, GrantedInStep,
       PersistInStep, StoreInStep, NotSentInStep DEF Refresh, Lost
  <2>5. ASSUME \/ CloseWindow \/ ExpireAccess \/ OwnerRevokes \/ PveGoesDown
               \/ PveComesBack \/ Crash \/ UNCHANGED vars
        PROVE  InStep'
    BY <1>1, <2>1, <2>5, AroundInStep
  <2> QED BY <2>3, <2>4, <2>5 DEF Next
<1> QED BY <1>2, <1>3, StepBlames

LEMMA SpecKeepsUp == Spec => [](TypeOK /\ Quiet /\ KeepsUp)
<1>1. TypeOK /\ Quiet /\ KeepsUp /\ [Next]_vars => KeepsUp'
  BY StepKeepsUp
<1> QED
  BY InitTyped, StepTyped, InitQuiet, StepQuiet, InitInStep, <1>1, PTL DEF Spec

\* Whenever no refresh is under way, the file and memory of a live session hold
\* the newest token, unless something was lost, slow or overtaken since the agent
\* was last in step (client.go:27-29).
THEOREM KeepsInStep == Spec => []DiskKeepsUp
<1>1. TypeOK /\ Quiet /\ KeepsUp => DiskKeepsUp
  <2> SUFFICES ASSUME TypeOK, Quiet, KeepsUp, Settled, ~lapse, ~overtaken, ~revoked
               PROVE  disk.token = active /\ (stage = "serving" => mem = active)
    BY DEF DiskKeepsUp
  <2>1. InStep /\ Idle
    BY DEF KeepsUp, Settled, Spared
  <2> QED BY <2>1 DEF InStep, FileInStep, MemoryInStep, Settled, Idle, Saving
<1> QED BY SpecKeepsUp, <1>1, PTL

\* Nor is there a moment at which a crash leaves a token in the file that the
\* server would not accept (client.go:27-29).
THEOREM CrashIsHarmless == Spec => []CanResume
<1>1. TypeOK /\ KeepsUp => CanResume
  BY DEF KeepsUp, CanResume, Spared, InStep, FileInStep, AnswerInStep, Saving, Accepted
<1> QED BY SpecKeepsUp, <1>1, PTL

\* Nor does the agent make the server take it for a thief: the chain is revoked
\* by its owner, while a rotation the agent never saw is not made good yet
\* (client.go:199-202), or after one goroutine overtook another.
THEOREM ChainSurvives == Spec => NotBurned
<1>1. TypeOK /\ KeepsUp /\ [Next]_vars
        => [revoked' => revoked \/ lapse \/ overtaken \/ OwnerRevokes]_vars
  BY StepBlames, NoneDenied DEF Spared
<1> QED BY SpecKeepsUp, <1>1, PTL DEF Spec, NotBurned
===============================================================================
