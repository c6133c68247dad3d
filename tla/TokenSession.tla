----------------------------- MODULE TokenSession -----------------------------
(***************************************************************************)
(* The Supabase session of one agent process: the rotating refresh token   *)
(* on the server, in the memory of supabase.Client and in config.yml,      *)
(* through the goroutines that refresh it at the same time, the start-up   *)
(* sequence that rewrites the file, crashes and restarts.                  *)
(*                                                                         *)
(* Tokens are numbered in the order of their rotation. The server accepts  *)
(* the newest one and, while its reuse window is open, the one before; any *)
(* other revokes the chain (ARCHITECTURE.md:149-157).                      *)
(***************************************************************************)
EXTENDS Naturals

CONSTANTS
  Main,       \* the goroutine of main and runtime.Start: Ping, then the ticker
  Others,     \* handlers, subscriptions and the central refresh loop
  MaxTokens,  \* bound: after so many rotations access tokens stop expiring
  MaxFaults   \* bound: crashes, failed calls and writes, outages of Proxmox

Threads == Others \cup {Main}

ASSUME MainAssumption   == Main \notin Others
ASSUME BoundAssumption  == MaxTokens \in Nat \ {0}
ASSUME FaultsAssumption == MaxFaults \in Nat

NoToken == 0
Blank   == [token |-> NoToken, key |-> FALSE]

VARIABLES
  \* The auth server.
  active,   \* number of the newest refresh token
  window,   \* its predecessor is still accepted
  revoked,  \* the chain is revoked
  \* config.yml.
  disk,
  \* The process: where it is in its life, the file as it was last read, the
  \* fields of supabase.Client under its mutex, and whether Proxmox answers.
  stage, cfg, mem, fresh, pveUp,
  \* Each goroutine in access() or refresh().
  pc, held, got,
  \* Bookkeeping of the model.
  budget,   \* faults left
  \* Since the agent was last in step with the server:
  lapse,    \* a rotation or the file was lost, or a refresh took too long
  overtaken \* a refresh began in the middle of one that has an older token

server  == <<active, window, revoked>>
process == <<stage, cfg, mem, fresh, pveUp>>
thread  == <<pc, held, got>>
excuses == <<lapse, overtaken>>
vars    == <<server, disk, process, thread, budget, excuses>>

Idle == \A t \in Threads : pc[t] = "idle"

Init ==
  /\ active = 1 /\ window = FALSE /\ revoked = FALSE
  /\ \E k \in BOOLEAN : disk = [token |-> 1, key |-> k]
  /\ stage = "down" /\ cfg = Blank /\ mem = NoToken /\ fresh = FALSE
  /\ pveUp = TRUE
  /\ pc = [t \in Threads |-> "idle"]
  /\ held = [t \in Threads |-> NoToken]
  /\ got = [t \in Threads |-> NoToken]
  /\ budget = MaxFaults
  /\ lapse = FALSE /\ overtaken = FALSE

Fault == budget > 0 /\ budget' = budget - 1

\* Room for one more rotation that nothing compels.
Room == active < MaxTokens \/ revoked

Saving(t) == pc[t] \in {"persist", "store"}

\* t works with a token the server has replaced already.
Replaced(t) == Saving(t) \/ (pc[t] = "post" /\ held[t] # active)

\* Between refresh() taking the token and Store, t works with a token that
\* memory no longer holds, or brings one that memory holds already.
Behind(t) == \/ pc[t] = "post" /\ held[t] # mem
             \/ Saving(t) /\ got[t] = mem

-------------------------------------------------------------------------------
(* Time, the owner and Proxmox.                                            *)

\* A refresh that outlives its reuse window is slow.
CloseWindow ==
  /\ window
  /\ window' = FALSE
  /\ lapse' = (lapse \/ \E t \in Threads : Replaced(t))
  /\ UNCHANGED <<active, revoked, disk, process, thread, budget, overtaken>>

\* So is one that outlives the access token another one brought meanwhile.
ExpireAccess ==
  /\ fresh
  /\ Room
  /\ fresh' = FALSE
  /\ lapse' = (lapse \/ \E t \in Threads : Behind(t))
  /\ UNCHANGED <<server, disk, stage, cfg, mem, pveUp, thread, budget, overtaken>>

OwnerRevokes ==
  /\ ~revoked
  /\ revoked' = TRUE
  /\ UNCHANGED <<active, window, disk, process, thread, budget, excuses>>

PveGoesDown ==
  /\ pveUp
  /\ Fault
  /\ pveUp' = FALSE
  /\ UNCHANGED <<server, disk, stage, cfg, mem, fresh, thread, excuses>>

PveComesBack ==
  /\ ~pveUp
  /\ pveUp' = TRUE
  /\ UNCHANGED <<server, disk, stage, cfg, mem, fresh, thread, budget, excuses>>

-------------------------------------------------------------------------------
(* The life of the process.                                                *)

\* Nothing of a process survives its end but the file.
Ends(next) ==
  /\ stage' = next
  /\ cfg' = Blank /\ mem' = NoToken /\ fresh' = FALSE
  /\ pc' = [t \in Threads |-> "idle"]
  /\ held' = [t \in Threads |-> NoToken]
  /\ got' = [t \in Threads |-> NoToken]
  /\ UNCHANGED pveUp

\* runAgent reads config.yml and writes it again: os.WriteFile truncates first.
Launch ==
  /\ stage = "down"
  /\ cfg' = disk
  /\ disk' = Blank
  /\ stage' = "rewrite"
  /\ UNCHANGED <<server, mem, fresh, pveUp, thread, budget, excuses>>

FinishRewrite ==
  /\ stage = "rewrite"
  /\ disk' = cfg
  /\ stage' = "load"
  /\ UNCHANGED <<server, cfg, mem, fresh, pveUp, thread, budget, excuses>>

\* Start loads and validates the file, builds the clients, asks Proxmox for its
\* version and turns to Ping.
Load ==
  /\ stage = "load"
  /\ IF disk.token = NoToken \/ ~pveUp
       THEN Ends("down")
       ELSE /\ stage' = "ping"
            /\ cfg' = disk
            /\ mem' = disk.token
            /\ pc' = [pc EXCEPT ![Main] = "read"]
            /\ UNCHANGED <<fresh, pveUp, held, got>>
  /\ UNCHANGED <<server, disk, budget, excuses>>

\* EnsurePrivateKey with a key in the file as Start read it, and without one.
Heal ==
  /\ stage = "heal"
  /\ IF cfg.key THEN stage' = "serving" /\ UNCHANGED disk
                ELSE stage' = "saving" /\ disk' = Blank
  /\ UNCHANGED <<server, cfg, mem, fresh, pveUp, thread, budget, excuses>>

FinishHeal ==
  /\ stage = "saving"
  /\ disk' = [cfg EXCEPT !.key = TRUE]
  /\ cfg' = [cfg EXCEPT !.key = TRUE]
  /\ stage' = "serving"
  /\ lapse' = (lapse \/ cfg.token # active)
  /\ UNCHANGED <<server, mem, fresh, pveUp, thread, budget, overtaken>>

Crash ==
  /\ stage \notin {"down", "gone"}
  /\ Fault
  /\ Ends("down")
  /\ lapse' = (lapse \/ stage \in {"rewrite", "saving"}
                     \/ \E t \in Threads : pc[t] = "persist")
  /\ UNCHANGED <<server, disk, overtaken>>

-------------------------------------------------------------------------------
(* access() and refresh(), one action per critical section or call.        *)

\* access() finds no usable access token. The ticker only gets there when
\* Proxmox has answered.
NeedToken(t) ==
  /\ stage = "serving"
  /\ pc[t] = "idle"
  /\ ~fresh
  /\ t = Main => pveUp
  /\ pc' = [pc EXCEPT ![t] = "read"]
  /\ UNCHANGED <<server, disk, process, held, got, budget, excuses>>

\* refresh() without a look at the clock: a 401, or the central loop's tick.
ForceRefresh(t) ==
  /\ stage = "serving"
  /\ pc[t] = "idle"
  /\ t = Main => pveUp
  /\ Room
  /\ pc' = [pc EXCEPT ![t] = "read"]
  /\ UNCHANGED <<server, disk, process, held, got, budget, excuses>>

TokenAtLoad == cfg.token
TokenToPost == mem

Read(t) ==
  /\ pc[t] = "read"
  /\ held' = [held EXCEPT ![t] = TokenToPost]
  /\ pc' = [pc EXCEPT ![t] = "post"]
  /\ overtaken' = (overtaken \/ \E u \in Threads : Behind(u))
  /\ UNCHANGED <<server, disk, process, got, budget, lapse>>

Accepted(n) == ~revoked /\ (n = active \/ (window /\ n + 1 = active))

Rotate(n) == /\ active' = IF n = active THEN active + 1 ELSE active
             /\ window' = TRUE
             /\ UNCHANGED revoked

Granted(t) ==
  /\ pc[t] = "post"
  /\ Accepted(held[t])
  /\ Rotate(held[t])
  /\ got' = [got EXCEPT ![t] = active']
  /\ pc' = [pc EXCEPT ![t] = "persist"]
  /\ UNCHANGED <<disk, process, held, budget, excuses>>

\* A refresh fails otherwise than by revocation: Ping ends the process, the
\* others log and carry on.
Fails(t) ==
  IF stage = "ping" THEN Ends("down")
  ELSE /\ pc' = [pc EXCEPT ![t] = "idle"]
       /\ UNCHANGED <<process, held, got>>

\* ErrRefreshRevoked ends the process only where Start sees it.
RefusedUnseen(t) ==
  /\ pc' = [pc EXCEPT ![t] = "idle"]
  /\ UNCHANGED <<process, held, got>>
Refused(t) == IF t = Main THEN Ends("gone") ELSE RefusedUnseen(t)

Denied(t) ==
  /\ pc[t] = "post"
  /\ ~Accepted(held[t])
  /\ revoked' = TRUE
  /\ Refused(t)
  /\ UNCHANGED <<active, window, disk, budget, excuses>>

NotSentFatal(t) == Ends(IF t = Main THEN "gone" ELSE "down")
NotSentEnds(t) == Fails(t)

NotSent(t) ==
  /\ pc[t] = "post"
  /\ Fault
  /\ NotSentEnds(t)
  /\ UNCHANGED <<server, disk, excuses>>

\* The server rotates, its answer does not arrive.
AnswerLost(t) ==
  /\ pc[t] = "post"
  /\ Accepted(held[t])
  /\ Fault
  /\ Rotate(held[t])
  /\ Fails(t)
  /\ lapse' = TRUE
  /\ UNCHANGED <<disk, overtaken>>

PersistNothing(t) == disk
PersistHeld(t) == [disk EXCEPT !.token = held[t]]
PersistTokenAlone(t) == [token |-> got[t]]
Persisted(t) == [disk EXCEPT !.token = got[t]]

\* persistRefreshTo: read, change, write beside, rename.
Persist(t) ==
  /\ pc[t] = "persist"
  /\ disk' = Persisted(t)
  /\ pc' = [pc EXCEPT ![t] = "store"]
  /\ UNCHANGED <<server, process, held, got, budget, excuses>>

\* Nothing is stored then: memory keeps the token the server just replaced.
PersistFails(t) ==
  /\ pc[t] = "persist"
  /\ Fault
  /\ Fails(t)
  /\ lapse' = TRUE
  /\ UNCHANGED <<server, disk, overtaken>>

\* Nobody else is on the way with a token, and the file holds the newest one.
BackInStep(t) ==
  /\ got[t] = active /\ disk.token = active
  /\ \A u \in Threads \ {t} : pc[u] \in {"idle", "read"}

\* Whether the access token counts as good: expires_in has just begun.
Undated == fresh
Dated   == TRUE

Store(t) ==
  /\ pc[t] = "store"
  /\ mem' = got[t]
  /\ fresh' = Dated
  /\ pc' = [pc EXCEPT ![t] = "idle"]
  /\ stage' = IF stage = "ping" THEN "heal" ELSE stage
  /\ lapse' = (lapse /\ ~BackInStep(t))
  /\ overtaken' = (overtaken /\ ~BackInStep(t))
  /\ UNCHANGED <<server, disk, cfg, pveUp, held, got, budget>>

-------------------------------------------------------------------------------
Refresh(t) == Read(t) \/ Granted(t) \/ Denied(t) \/ Persist(t) \/ Store(t)
Lost(t)    == NotSent(t) \/ AnswerLost(t) \/ PersistFails(t)
Boot       == Launch \/ FinishRewrite \/ Load \/ Heal \/ FinishHeal

Next ==
  \/ CloseWindow \/ ExpireAccess \/ OwnerRevokes \/ PveGoesDown \/ PveComesBack
  \/ Boot \/ Crash
  \/ \E t \in Threads : NeedToken(t) \/ ForceRefresh(t) \/ Refresh(t) \/ Lost(t)

Spec == Init /\ [][Next]_vars

\* The supervisor restarts the process, time passes, the ticker ticks and every
\* goroutine runs. Nothing makes Proxmox come back.
Fairness ==
  /\ WF_vars(Boot)
  /\ WF_vars(ExpireAccess)
  /\ \A t \in Threads : WF_vars(NeedToken(t)) /\ WF_vars(Refresh(t))

FairSpec == Spec /\ Fairness

-------------------------------------------------------------------------------
(* Properties.                                                             *)

\* A token number is never invented, and the file always holds a token field.
TypeOK ==
  /\ active \in Nat /\ window \in BOOLEAN /\ revoked \in BOOLEAN
  /\ disk \in [token : 0 .. active, key : BOOLEAN]
  /\ stage \in {"down", "rewrite", "load", "ping", "heal", "saving", "serving", "gone"}
  /\ cfg \in [token : 0 .. active, key : BOOLEAN]
  /\ mem \in 0 .. active /\ fresh \in BOOLEAN /\ pveUp \in BOOLEAN
  /\ pc \in [Threads -> {"idle", "read", "post", "persist", "store"}]
  /\ held \in [Threads -> 0 .. active]
  /\ got \in [Threads -> 0 .. active]
  /\ budget \in 0 .. MaxFaults
  /\ lapse \in BOOLEAN /\ overtaken \in BOOLEAN

Settled == Idle /\ stage \notin {"rewrite", "saving"}

\* Between refreshes the file of a live session holds the token the server
\* expects, whichever goroutines refreshed together (client.go:27-29), and so
\* does memory; an answer, a write or a file that was lost, a refresh slower than
\* its reuse window, or a goroutine that overtook another between the unlocks of
\* client.go:225-285 excuse it until the agent is in step again.
DiskKeepsUp ==
  Settled /\ ~lapse /\ ~overtaken /\ ~revoked =>
    /\ disk.token = active
    /\ stage = "serving" => mem = active

\* In the middle of the refreshes too the server would accept what the file
\* holds: a crash there does not strand the agent (client.go:27-29).
CanResume ==
  stage \notin {"rewrite", "saving"} /\ ~lapse /\ ~overtaken /\ ~revoked =>
    Accepted(disk.token)

\* Refreshing never looks like the replay of an old token: the chain is revoked
\* by its owner, while a rotation the agent never saw is not made good yet
\* (client.go:199-202), or after one goroutine overtook another.
NotBurned == [][revoked' => revoked \/ lapse \/ overtaken \/ OwnerRevokes]_vars

\* A goroutine only overtakes when the access token it set out for is there
\* already: refresh() does not look again once it has the mutex (client.go:205-214).
OvertakesInVain == [][overtaken' => overtaken \/ fresh \/ lapse]_vars

\* The exit status that keeps the supervisor from restarting the agent is only
\* used when the session is lost for good (main.go:40-43, 152-156).
GoneIsRevoked == stage = "gone" => revoked

\* A revoked session ends the process, if Proxmox answers its ticker again for
\* good (ARCHITECTURE.md:166-168: "The agent's next token-refresh attempt fails
\* with refresh_token_not_found and the service exits").
RevokedIsNoticed ==
  <>[]pveUp => ((revoked /\ stage = "serving") ~> stage # "serving")

\* Without any fault the file keeps up from the first start on (client.go:27-29:
\* "a crash between refreshes doesn't leave the agent with an invalidated token").
\* It does not when the start-up finds no private key.
FaultlessKeepsUp ==
  Settled /\ budget = MaxFaults /\ ~overtaken /\ ~revoked => disk.token = active
===============================================================================
