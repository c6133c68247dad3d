# The ProxmoxVue agent in TLA+

The agent is a Go daemon beside a Proxmox cluster. It keeps a Supabase session
alive, pushes snapshots of the cluster, and executes the commands that the app
inserts in `public.commands`. This directory holds TLA+ models of it, the TLC
configurations that check them on small instances, and TLAPS proofs for all
instances. Paths below are relative to `src/`; `file.go:10` is a line of the
commit that was modelled.

1. [The system](#1-the-system): components, state, operations, interactions
2. [Modules](#2-modules): what models what, and how to read an action as code
3. [Runs](#3-runs): what is checked, bounds, fairness
4. [Proofs](#4-proofs): what holds for every instance, and why
5. [Where code and documents disagree](#5-where-code-and-documents-disagree)
6. [What is not modelled](#6-what-is-not-modelled)
7. [Plan](#7-plan)

Run anything from this directory:

    tlc -workers 2 -config commands_core.cfg MCCommands
    tlapm CommandsProofs.tla

## 1. The system

### Components

| Component | Code | State | Operations | Must hold |
|---|---|---|---|---|
| Command channel | `internal/commands/dispatcher.go`, `internal/supabase/commands.go`, `internal/runtime/runtime.go:102-137`, `internal/proxmox/actions.go` | the row's `status`, `expires_at`; one goroutine per delivery; the Proxmox task | TTL check, claim, validate, dispatch, await, complete | a command runs at most once; its final status is true and final; no claimed row is forgotten; an old command is not run; no row is missed |
| Read-RPC channel | `internal/commands/read_dispatcher.go`, `internal/supabase/read_commands.go` | the row's `status`, `data` | TTL check, claim, whitelist, GET, complete | as the command channel |
| Realtime subscription | `internal/supabase/realtime.go`, `internal/supabase/client.go:89-223` | connection, `hbSent`/`hbAcked`, read deadline, `backoff`; the registry of channels and the loop that sends them new access tokens | dial and join, catch-up, heartbeat, read loop, reconnect; register, refresh, broadcast | a dead connection is noticed and replaced, a live one is kept; a channel's token does not expire |
| Supabase session | `internal/supabase/client.go`, `internal/runtime/runtime.go:336-369`, `cmd/proxmoxvue-agent/main.go:91-161` | access token, refresh token in memory and in `config.yml`; chain on the server | `access`, `refresh`, `Ping`, persist | the file keeps up with the server; the chain is not burned by the agent itself; a revoked session stops the agent, nothing else does for good |
| Key lifecycle, enrolment | `internal/keysync/keysync.go`, `internal/enroll/enroll.go`, `main.go:185-430` | `private_key` in `config.yml`, public key on the server | `--register`, `--rotate-key`, start-up repair, upload | the published key belongs to the private key on disk and in the agent |
| Snapshot pushes | `runtime.go:139-334`, `internal/supabase/rest.go` | last snapshot in the database | push at a tick, wait and push after a command | a command's push shows the command; the app's view settles on the cluster's state |
| Remote configuration | `internal/remoteconfig/fetcher.go`, `main.go:124-150` | cache file, baked-in default | fetch, validate, cache, refresh loop, version gate | every start gets a configuration, none older than the cache's |
| Configuration file | `internal/config/config.go` | `config.yml` | `Load`, `Save`, defaults | no write loses another writer's field |
| Proxmox client | `internal/proxmox/client.go` | none | HTTP calls | - |
| HPKE primitives | `internal/crypto/hpke.go` | none | generate, seal, open | - |
| Command line, logs, packaging | `main.go`, `scripts/` | exit status | usage, set-up | - |

### Interactions

- The app inserts a row. Supabase's change feed sends it on every joined
  WebSocket of the cluster; each INSERT event starts a goroutine
  (`go handleCommand`), and so does every row that the catch-up query returns
  after a (re)join. One row may thus reach `Handle` several times, in several
  agents. Only the claiming PATCH (`status=eq.pending`) orders them. The two
  channels, commands and read_commands, share this code but not a connection.
- All HTTP calls to Supabase go through `access()`, which refreshes the token
  when it has 30 s (`refreshSkew`) or less left; a 401 on a PATCH, and the
  central loop every 30 minutes, refresh without looking at the clock.
  `refresh()` reads the token under the mutex, posts it without the mutex,
  persists, and stores under the mutex again: refreshes of several goroutines
  overlap.
- A channel joins with a token it took from `access()` and registers only when
  the server has accepted the join. The first registration starts the central
  loop, which sends each new token to the channels registered at that moment.
- `persistRefreshTo` reads, changes and renames `config.yml`. Start-up
  (`runAgent`) truncates and rewrites the same file, and so do `--register`,
  `--rotate-key` and the start-up repair of a missing key. No lock is taken.
- The agent's `RefreshLoop`, its start and the operator's commands write the cache
  of the remote configuration, each through the same temporary name.
- A command handler that has completed its row waits until Proxmox's aggregate
  shows what the command was to bring about, then pushes a snapshot beside those
  of the ticker.
- The ticker and `Ping` are the only places whose failed refresh can end the
  process. Exit status 78 tells systemd (`RestartPreventExitStatus`) not to
  start it again, any other status is restarted.

### What is hard

Deliveries race each other and the clock; claim, task and completion are three
calls, each of which may fail before or after it took effect; a crash between
two of them; refresh tokens rotate under concurrent refreshes, lost answers,
failed writes and restarts, with a server that answers a replayed token by
revoking the session; half-open connections; access tokens that must be replaced
on channels that come and go; two files with several writers and no lock; pushes
of snapshots that overtake one another. The list with a line for each is in
`PROJECT.json` under "hazards".

## 2. Modules

| Module | What it is |
|---|---|
| `Requests` | what a row asks for, reduced to what decides its way through `Handle`; `Rejected` is the validation between claim and dispatch |
| `CommandLedger` | the abstract specification: what both channels promise the app |
| `Commands` | the detailed command channel: rows, change feed, connections, catch-ups, agents that crash, goroutines in `Handle`, Proxmox tasks |
| `CommandsProofs` | theorems about `Commands`: safety, the ledger, and that no row is missed |
| `ReadCommands` | the detailed read-RPC channel of one process, which crashes and is restarted |
| `Snapshots` | the push loop and the handlers' pushes of one process, likewise |
| `ReadCommandsProofs`, `SnapshotsProofs` | theorems about them |
| `TokenSession` | refresh tokens: server, memory, `config.yml`, goroutines, start-up, exits |
| `KeyStore` | the abstract specification: what a host promises about its key and its Proxmox credentials |
| `KeySync` | `config.yml` and the HPKE key between the agent and the operator's commands |
| `CentralRefresh` | the life of access tokens: the cached one and those of the joined channels, in discrete time |
| `Subscription` | one subscription in discrete time: back-off, dial, heartbeats, read deadline |
| `TokenSessionProofs`, `KeySyncProofs`, `CentralRefreshProofs`, `SubscriptionProofs` | theorems about them |
| `RemoteConfig`, `RemoteConfigProofs` | the cached remote configuration, down to inodes, and theorems about it |
| `MCCommands`, `MCTokenSession`, `MCSubscription`, `MCKeySync`, `MCRemoteConfig`, `MCCentralRefresh` | constants for TLC; `ReadCommands` and `Snapshots` take theirs from their cfg |

Some definitions have a faulty variant next to them (`ClaimMatchesById` beside
`ClaimMatches`). No action uses it. With the variant in place of the original,
TLC refutes the property that `PROJECT.json` names under "mutants": the property
depends on that piece of code.

### Commands

One action per call of `Handle` and outcome:

| Action | Code (`dispatcher.go` unless said otherwise) |
|---|---|
| `Insert`, `PassDeadline`, `TaskEnds` | the app, a host's clock, Proxmox (external) |
| `Boot`, `Join`, `Drop`, `Reconnect`, `Crash` | life of the process and of its connection (`realtime.go:101-131`, `runtime.go:172-185`) |
| `Deliver` | the read loop hands an INSERT to a goroutine (`realtime.go:380-410`) |
| `CatchUp`, `CatchUpFails` | the query after a join (`runtime.go:110-128`, `commands.go:47-65`) |
| `Start`, `CheckTTL` | a goroutine enters `Handle` and compares `expires_at` (159-174) |
| `ClaimWins`, `ClaimMisses`, `ClaimFails`, `ClaimAnswerLost` | the claiming PATCH, on the TTL branch (`writeOff`) and on the ordinary one (179-187) |
| `Reject` | every early "failed" between claim and dispatch (189-264) |
| `Dispatch`, `DispatchRefused`, `DispatchAnswerLost` | the call to Proxmox (209-268) |
| `TaskSeen`, `AwaitTimesOut`, `AwaitFails` | polling the task (270-281, `actions.go:264-314`) |
| `Complete`, `CompleteFails` | the completing PATCH, filtered by id alone (282, `commands.go:67-81`) |

Abstractions. Time is `overdue[c]`: the set of clocks that are past `expires_at`.
Each agent compares the deadline with the `time.Now()` of its own host
(`dispatcher.go:168`): `ClockOf[a]` is the clock that agent `a` reads, and each
clock passes the deadline at a moment of its own, so two agents may disagree about
one row for any length of time. A property that calls a row overdue means by every
clock. The
wait and the push that `handleCommand` does after `Handle` are in `Snapshots`:
they touch neither the row nor the task. The buffer of
16 events of the subscription's channel is part of `wire`: nothing is lost there,
a full buffer only delays. `cut` is a history variable of the model: claimed rows
whose claimant crashed or lost a call. A row in `cut` stays on "claimed" for ever
in the code (section 3, "What the properties excuse").

### ReadCommands, Snapshots

`ReadCommands` has the same shape with a GET in the place of a task. Deliveries
use the code `Commands` models, so here a row may be delivered at any time after
its INSERT and any number of times: an over-approximation of feed and catch-up.

| Action | Code |
|---|---|
| `Deliver`, `CheckTTL` | `read_dispatcher.go:80-93`, `runtime.go:139-163` |
| `ClaimWins`, `ClaimMisses`, `ClaimAnswerLost` | `read_commands.go:22-39`, `read_dispatcher.go:85-99` |
| `Refuse`, `SendGet` | whitelist and path parameters (`read_dispatcher.go:27-60, 100-109, 127-162`) |
| `GetAnswered`, `GetFails` | `read_dispatcher.go:106-119`, `proxmox/client.go:86-113` |
| `Complete`, `CompleteFails` | `read_commands.go:62-82`, again filtered by id alone |
| `Boot`, `Crash` | the process ends anywhere; the supervisor restarts it |

`Snapshots` has one guest. It goes through numbered states, each with a status of
`Statuses` (running, stopped, paused), which may be the status there was: a reboot
brings about "running". `truth` is the guest's state, `seen` that of the aggregate
`/cluster/resources`, which lags behind, `shown` that of the snapshot inserted last.

| Action | Code |
|---|---|
| `Becomes`, `GuestMoves`, `AggregateMoves` | Proxmox, with or without a command (external) |
| `Acted` | the task of a command brings about the status its kind expects (`dispatcher.go:126-157`) |
| `Completed`, `NotCompleted` | `Handle` returns, the latter with an error, which ends `handleCommand` (`runtime.go:187-191`) |
| `ActedInVain` | the command failed, was overdue or another's; the handler waits for its expected status all the same |
| `ActedOtherwise` | a kind without an expected status, which is pushed at once |
| `Matches`, `TimesOut` | `waitForClusterStateMatch` (`runtime.go:204-251`) |
| `Tick` | the push at start and at every tick (`runtime.go:165-183`) |
| `Fetch`, `PushSnapshot`, `PushFails` | `pushOnce` (`runtime.go:259-282`, `client.go:73-84`, `rest.go:13-29`) |
| `Boot`, `Crash` | the process ends anywhere; the supervisor restarts it |

A fetched snapshot and its insert are two steps, so pushes overtake one another.
Two bookkeeping variables say which push is owed to whom. `due` is the state a
handler must at least show; it is 0 (any state will do) for a command that brought
nothing about and after a wait that timed out. `alike` says that when the wait began
the aggregate had yet to show an earlier state with the status waited for. The
wait compares nothing but the status (`runtime.go:221`), so it may then end on that
earlier state. Such are every reboot that the aggregate does not show yet, since
"running" is shown already; a start that follows a stop the aggregate has not shown;
and a command after which somebody else's change has the same status first.

### TokenSession

Tokens are numbers in the order of rotation. The server accepts the newest and,
while its reuse window (10 s) is open, the one before it; anything else revokes
the chain (`docs/ARCHITECTURE.md:149-157`). A token accepted from the window
returns the newest one and does not rotate. This is the documented behaviour of
the service and external to the repository.

| Action | Code |
|---|---|
| `Launch`, `FinishRewrite` | `runAgent` loads and rewrites the file in place (`main.go:91-120`); the file is `Blank` between truncation and write |
| `Load` | `Start` reads the file, builds the clients, asks Proxmox for its version (`runtime.go:35-73`) |
| `Heal`, `FinishHeal` | `EnsurePrivateKey` (`runtime.go:80-100`, `keysync.go:41-55`) |
| `NeedToken`, `ForceRefresh` | `access()` without a usable token; `refresh()` after a 401 or by the central loop |
| `Read`, `Granted`, `Denied`, `NotSent`, `AnswerLost` | `refresh()` up to the server's answer (`client.go:225-272`) |
| `Persist`, `PersistFails` | `persistRefreshTo` (`runtime.go:336-369`), atomic by rename |
| `Store` | the second critical section (`client.go:278-285`) |
| `Crash`, and `Ends` in the failures | `stage` "down" is restarted, "gone" is exit 78 (`main.go:147-161`) |

Two history variables carry what the properties excuse, and `Store` resets both
when the agent is in step with the server again (`BackInStep`: memory and file hold
the newest token, nobody is on the way with another).

- `lapse`: an answer of the server was lost, a new token could not be written, or
  the file was (a crash in the in-place rewrite, or the repair of a missing key,
  which writes an older token back), so that the server is ahead of the file
  through no step of `refresh()`; or a refresh was slow, that is it outlived its
  reuse window (`CloseWindow`) or the access token that another one had brought
  meanwhile (`ExpireAccess`).
- `overtaken`: a goroutine began its refresh in the middle of one that had started
  from an older token, or while an answer was on its way into the file and not yet
  in memory. `access()` decides under the mutex, releases it, and `refresh()` reads
  the token under the mutex again without a second look at the clock
  (`client.go:205-228`). A 401 and the central loop do not look at all.

`MaxFaults` is one budget for crashes, failed calls and writes, and outages of
Proxmox. The owner's revocation, slow refreshes and unprompted ones
(`ForceRefresh`) are outside it; `MaxTokens` bounds the rotations.

### Subscription

`Tick` advances time and is blocked while anything is due, so every bound is
exact. `lag` is `hbSent - hbAcked`, the heartbeat goroutine and the read loop are
separate: a heartbeat write may fail and leave the connection to the read
deadline alone (`BeatFails`, `realtime.go:305`). A join is refused at most
`Budget["refused"]` times and silent or closing servers are budgeted likewise,
which keeps the state space finite; the proofs have no such bound on `Budget`.

### KeySync

Three writers of one file: the agent, `--register`, `--rotate-key` (the two
commands share `cmd`: one at a time). A write by `config.Save` is two steps,
truncate and write; `Renames` is the agent's atomic save of a token. A key is a
number and stands for its pair; the goroutines of the agent are one (several are
in `TokenSession`).

| Action | Code |
|---|---|
| `Launch`, `RewriteTruncates`, `RewriteWrites` | `main.go:91-120`, `config.go:265-280` |
| `Load` | `runtime.go:35-73, 324-334`; an unenrolled or unconfigured host ends the start |
| `Refresh`, `RefreshRefused`, `RefreshFails` | `Ping` and later refreshes (`client.go:225-274`) |
| `PersistReads`, `PersistRenames` | `persistRefreshTo` (`runtime.go:336-369`): read, then rename |
| `HasKey`, `HealTruncates`, `HealWrites`, `Upload`, `UploadFails` | `EnsurePrivateKey` and the upload (`runtime.go:80-100`, `keysync.go:41-96`) |
| `Enroll`, `Merge`, `SaveTruncates`, `SaveWrites` | `--register` (`enroll.go:36-81`, `main.go:185-301`); the same two save steps write what the prompt filled in (`main.go:325-357`) |
| `RotateLoads`, `NewKeyTruncates` | `--rotate-key` (`main.go:380-430`), `keysync.go:41-69` |
| `Panics`, `PostRefused`, `PostFails` | the upload of a command: its client has no persist function, so an accepted refresh is followed by a call of nil (`main.go:256, 399`, `client.go:274`) |
| `Restart`, `AgentCrashes`, `CliStops` | the operator, a crash, an interrupted command |

Two history variables carry what the properties excuse. `spoiled`: a process wrote
on the basis of a file that another had changed (other than the token) or was
writing, or was cut off between truncation and write. `rotated`: a `--rotate-key`
has begun, which means to replace the key before the new one is published.

### CentralRefresh

`left` is the life of the cached token as the client reckons it from the answer,
`life` what it is really good for (the server counts from the issue), `hold[t]`
what the token that channel `t` joined with is good for.

| Action | Code |
|---|---|
| `JoinWithCached`, `JoinAsks`, `JoinAnswered`, `JoinUnanswered` | a channel takes its token (`realtime.go:138-142`, `client.go:205-214`) |
| `RestAsks`, `RestAnswered`, `RestFails` | any REST call (`rest.go:31-126`) |
| `Register`, `JoinFails`, `GoesSilent`, `Closes` | `client.go:99-138`, `realtime.go:150-238` |
| `TickFires`, `LoopAnswered`, `LoopFails` | the ticker and `refreshAndPushAll` (`client.go:133-162`) |
| `Snapshot`, `Push`, `PushFails`, `BroadcastEnds` | the broadcast to the channels copied from the registry (`client.go:163-197`) |
| `Time` | blocked while the loop is due, a broadcast is under way or a refresh is at its limit |

`weak` is the set of joined channels the code makes no promise to: those that
joined first when their token was already old (`Late`), those that were registered
when a tick failed, those that joined after such an event and before the next
broadcast (`behind`), and those that took their token before the loop had a new one
and registered after it (`crossing`). The next broadcast that reaches a channel
takes it out of `weak`.

### RemoteConfig

Configurations are numbered as they are published, 0 is the one built into the
binary, `TooNew` holds those that refuse the running version. `writeCache` uses
one temporary name for all processes, so the file system is modelled by inodes:
`Open` truncates whatever inode has the name, `Write` goes into the inode that was
opened, `Rename` moves the inode that has the name by then. A write may fail at
each of its three calls, for once or for good: that is not budgeted. `mixed`
remembers that two processes were writing at once.

| Action | Code |
|---|---|
| `Publish`, `Outage`, `ComesBack` | the endpoint (external) |
| `Launch`, `RefreshTick`, `Command` | `main.go:124-131, 398`, `fetcher.go:158-176` |
| `FetchSucceeds`, `FetchFails` | `fetchLive`, `readCache`, the baked-in default (`fetcher.go:87-141`) |
| `Open`, `Write`, `Rename`, `WriteCacheFails` | `writeCache` (`fetcher.go:143-156`); its errors are dropped (88-91) |
| `Gate` | `min_agent_version` (`main.go:136-150`): run, or exit and be restarted |
| `Dies` | a crash anywhere |

## 3. Runs

"pass" runs hold in every reachable state, "violation" runs show a statement of a
document or comment that the code does not keep (section 5).

| Run | Checks | Instance |
|---|---|---|
| `commands_core` | types; at most one start; final statuses true and final; no orphaned claim; implements `CommandLedger` | 1 row, 2 agents on 2 hosts with a clock each x 2 goroutines, 2 requests (one valid with a TTL, one rejected after the claim and without TTL), one drop, one crash, one lost call |
| `commands_live` | `NothingMissed`, `OldNeverRuns`; `ClaimIsSettled`, `PendingIsTaken` under fairness | 1 row, 2 agents on one host x 1 goroutine, one drop, one crash, one lost call |
| `token_race` | types; `DiskKeepsUp`, `CanResume`, `NotBurned`, `GoneIsRevoked`, `OvertakesInVain`; `RevokedIsNoticed` under fairness | 3 goroutines, quick and slow refreshes on expiry and unprompted, a file with or without key, the owner's revocation, 2 faults of any kind, 3 rotations |
| `link_watch` | clocks; `SilenceIsNoticed`, `HealthyIsKept`; `ComesBack` under fairness | 5 s units: heartbeat 5, deadline 12, dial 2, back-off cap 6, answers within 4 |
| `keysync` | types; `PublishedIsHeld`, `SettingsSurvive`; implements `KeyStore` | one `--register`, one `--rotate-key`, one restart, one crash, one lost call, 3 rotations per session; from an old install, a skeleton or nothing |
| `central_refresh` | types; `HandedOutIsGood`, `ChannelsOutlive` | 2 channels, loop and REST calls; TTL 8, interval 4, skew 1, HTTP timeout 1; 2 failed refreshes |
| `remote_config` | types; `NeverStepsBack`; `AlwaysStarts`, `CacheCatchesUp` under fairness | 3 configurations, the second refuses; one outage, one crash, one command; writes that fail at any time and however often |
| `reads` | types; implements `CommandLedger`; `ReadIsSettled` under fairness | 2 rows, 2 goroutines; deliveries, crashes and lost calls at any time |
| `snapshots` | types; `PushShowsAction`; `ViewSettles` under fairness | ticker, 2 handlers, 3 statuses, 2 changes of the guest; crashes and failed calls at any time |
| `commands_late_claim`, `token_autoheal`, `key_unpublished` | one statement each, violated | section 5 |

### Why the bounds are enough

- Commands do not interact: no action reads another row, except the order and the
  limit of the catch-up query. One row shows the races on it. Two agents with two
  goroutines give the change feed against the catch-up in one process and agent
  against agent. `commands_core` has a clock for each agent,
  `commands_live` one for both. All safety properties of these runs are proved
  without bounds.
- One fault of each kind is enough to reach every failure branch of `Handle`, and
  every pair of different kinds.
- Three goroutines are the fewest of which one can be two rotations behind; three
  rotations bring the chain there and beyond (a rotation under way is not stopped
  by the bound). Two faults are a lost token and a crash, or any other pair; the
  second may hit the recovery from the first. `GoneOnlyIfRevoked`, `KeepsInStep`,
  `CrashIsHarmless`, `ChainSurvives` and `LateCheck` have no bound.
- In `link_watch` the back-off reaches its cap (1, 2, 4, 8) and stays there; the
  ratio of heartbeat, read deadline and threshold is that of the code. The dial
  limit and the cap are in the same units. Other ratios are covered by proof.
- In `keysync` every command and every start may be interleaved with every other and
  cut off once. Three rotations let the agent's, the command's and a later refresh
  of one session differ.
- `central_refresh` keeps what decides: TTL is twice the interval, the interval is
  more than two HTTP timeouts, the skew covers one. Two failures let one tick fail
  after another and a join and a tick fail together. All lengths are covered by proof.
- In `remote_config` three configurations are an old one, the kill switch and its
  successor. Three inodes are enough: the cache, the temporary file, and one a
  process still has open.
- In `reads` two goroutines may have one row or two. Faults are not bounded.
- In `snapshots` two changes are a command and another's, or two commands, of any
  statuses: a start and a stop, two reboots, a reboot and a change by hand. With two
  handlers the wait of one may end on the state of the other; each overtakes the
  ticker and the other.

`CHECK_DEADLOCK FALSE` is set in the runs `commands_*`, `token_*`, `keysync` and
`key_unpublished`: with all rows final or budgets spent and access tokens no longer
expiring, these systems do stop. In the others time, a ticker or the supervisor
always has a step, and deadlock is checked.

### Fairness, and why the code justifies it

- `Commands`: the supervisor restarts the process, the reconnect loop is an
  endless `for`, the watchdogs close a dead socket (this is what `link_watch`
  shows), every goroutine is scheduled, and each HTTP call has a timeout of its
  own. Nothing is assumed of the app, of Proxmox tasks (`ActionTimeout` ends the
  wait) or of the clock.
- `TokenSession`: the supervisor restarts and the start proceeds (`Boot`), access
  tokens expire, the ticker ticks, every goroutine runs. Nothing makes Proxmox come
  back, and lost calls are never forced.
- `Subscription`: time passes, due timers fire, and a server that is reachable
  answers a join and a heartbeat. Faults are not fair: they may or may not happen,
  finitely often.
- `RemoteConfig`: the supervisor restarts, the six-hour ticker ticks, a fetch and
  what follows it end. Nothing makes the endpoint come back or a write succeed:
  `CacheCatchesUp` has as its hypothesis (`WritesGetThrough`) that an agent which
  tries again and again sometimes gets a write through.
- `ReadCommands`: a reader's steps are weakly fair, the GET by its own time limit,
  never by an answer of Proxmox.
- `Snapshots`: the supervisor restarts; the aggregate catches up. A handler's wait
  ends by its own limit, its fetch and insert end. Crashes and failed calls may
  happen for ever, so the ticker's tick, fetch and insert are strongly fair:
  infinitely many tries mean that some get through. Without it the app's view could
  stay old for ever, and nothing in the code could help.

### What the properties excuse

The models contain every fault and race named here. After some of them the code
breaks a promise that it keeps otherwise, and the properties have an excuse for just
these, by a history variable. What happens then is not caught by any property; it
is what the code does.

| Excuse | In | What the code does then |
|---|---|---|
| `cut` | `ClaimedIsHeld`, `ClaimIsSettled`, `ReadIsSettled` | a row whose claimant crashed, or lost its claim's answer or its completing PATCH, stays on "claimed" for ever, its task may run on: no agent looks at claimed rows again (`dispatcher.go:179-191`, `commands.go:47-65`) |
| `NoCallLost` | `NothingMissed`, `PendingIsTaken` | a failed catch-up query is logged (`runtime.go:115-119`) and a failed claim given up; the row waits for the next join or start |
| `lapse` | `DiskKeepsUp`, `CanResume`, `NotBurned`, `OvertakesInVain` | the agent is behind the server; the reuse window, if still open, puts it in step again (`docs/ARCHITECTURE.md:149-157`), else its next refresh revokes the session (`client.go:199-202`) |
| `overtaken` | `DiskKeepsUp`, `CanResume`, `NotBurned` | of three overlapping refreshes one may post a token two rotations old, which revokes the session |
| `spoiled` | `PublishedIsHeld`, `SettingsSurvive`, `StoreSpec` (as `Spoil`) | a writer of `config.yml` undoes another's change, or leaves the file empty |
| `rotated` | `PublishedIsHeld`, `StoreSpec` (as `Rotate`) | the agent decrypts with the old key until it is restarted, as `--rotate-key` asks (`main.go:412-413`) |
| `weak` | `ChannelsOutlive` | a channel's token may expire once before the first broadcast that reaches it; the channel breaks and joins again |
| `mixed` | `NeverStepsBack` | two processes that write the cache at once may leave a mixture, which `readCache` refuses, or the older of two configurations |
| `alike` | `PushShowsAction` | a handler's push may still carry the state before its command; the next tick mends it (`ViewSettles`) |

### Limits that a reader should know

- `overtaken` stands for a gap of the code: `access()`'s check and `refresh()`'s read
  are separate critical sections and nothing joins concurrent refreshes. A serving
  agent has two subscriptions, the ticker, the central loop, which refreshes every 30
  minutes without looking at the clock, and any number of handlers, so the gap is
  open to it. TLC finds the three properties violated without the excuse. What is
  shown of the gap itself is that whoever overtakes does so for an access token that
  is in memory already (`OvertakesInVain`): a second look at the clock in
  `refresh()`, where it takes the mutex, would close it for refreshes on expiry. No
  comment claims that more than two refreshes at once are safe.
- A slow refresh (longer than the reuse window of 10 s, within the 30 s an HTTP call
  may take) may burn the chain even with two goroutines; it counts as a `lapse`.
- A crash between the server's rotation and the rename, or a torn in-place rewrite
  at start-up (`main.go:111-118`), loses the token (`lapse`, `spoiled`).
- `CacheCatchesUp` is about the Go code. Under the unit that `scripts/install.sh`
  writes (112-117: `ProtectSystem=strict`, and `ReadWritePaths` without `/var/lib`)
  every write of the cache fails and its error is dropped: the cache of an installed
  service is what the operator's last command wrote, if any, and `WritesGetThrough`
  is not met. `AlwaysStarts` and `NeverStepsBack` hold there too, but the latter
  speaks of configurations that reached the cache: an offline start may not know of
  a kill switch that an earlier online start obeyed.
- `NothingMissed` also needs queries
  that can hold the rows pending at their time (`QueriesFit` in the proof): the rest
  waits for the next join.
- `client.go:119-122` says that the loop "guarantees no JWT-driven EOF". That is
  true for channels outside `weak`. A first join with a token in the second half of
  its life, a failed tick, or a join whose token was taken before a broadcast and
  registered after it may cost a channel its connection, once: it reconnects.
- `PublishedIsHeld` and `SettingsSurvive` hold as long as no process writes over
  another's change. Nothing prevents that: a start of the agent in the midst of a
  `--register` reads a truncated file, or writes back the one from before.
- The token in the file is not part of those properties: an agent that still serves
  the old session while the host is re-enrolled writes its own next token over
  the new session's (`runtime.go:339-346`).

## 4. Proofs

All theorems hold for every value of the constants that satisfies the named
assumptions of the module: any set of commands, agents, goroutines, channels and
rows, any limit and any fault budget; any intervals and thresholds. Most
assumptions are types only. `CentralRefresh` assumes of its lengths what the code's
values satisfy: `TTLAssumption` (TTL at least two intervals: 60 and 30 min),
`IntervalAssumption` (an interval longer than two HTTP timeouts: 30 min and 30 s)
and `SkewAssumption` (the skew at least an HTTP timeout: 30 s and 30 s, which
leaves no margin).

### CommandsProofs

| Theorem | Statement |
|---|---|
| `TypeCorrect` | `Spec => []TypeOK` |
| `AtMostOnce` | `Spec => []StartedAtMostOnce` |
| `TrueStatus` | `Spec => []FinalStatusIsTrue` |
| `Finality` | `Spec => FinalIsFinal` |
| `ClaimsAreHeld` | `Spec => []ClaimedIsHeld` |
| `OldIsWrittenOff` | `Spec => OldNeverRuns` |
| `Implementation` | `Spec => LedgerSpec` |
| `NothingEscapes` | `Spec /\ QueriesFit => []NothingMissed` |

None of the safety properties is inductive. The invariant is
`Inv == TypeInv /\ OneHolder /\ HolderKnows /\ RowTells`:

- `OneHolder`: two goroutines past a successful claim never hold the same row.
  Without it a second dispatch of the same row could not be excluded.
- `HolderKnows`: while a goroutine holds a row, the row is "claimed", and its
  program counter says how many tasks were started (none before dispatch, one
  while it waits) and what its verdict may be. This is what makes the unguarded
  completing PATCH safe: it can only meet the row of its own claim.
- `RowTells`: what a status implies about the task, and that a row nobody claimed
  has no task.
- `TypeInv` adds that a goroutine about to complete has a verdict, and that the
  TTL branch fixed it to "expired" before its claim.

`ClaimsAreHeld` needs `HeldOrCut`: a claimed row is held or was cut off.
`OldIsWrittenOff` shows that `WrittenOff(c)` (past its deadline by every clock,
nothing started, and no goroutine between TTL check and claim) is preserved by every
step: any later goroutine, whichever its host, finds the row late and takes the
write-off branch. `Implementation`
maps initial states to initial states and every step to `Submit`, `Take`, `Run`,
`Settle` or a stutter; a claim is `Take`, an accepted call is `Run`, a completing
PATCH is `Settle`, everything else stutters.

`QueriesFit` says of a behaviour that whenever a catch-up query is answered, its
limit (200 in the code) is no smaller than the number of rows pending then; it
bounds neither the rows there are nor those that come and go between two joins.
`NothingMissed` speaks of agents whose catch-ups were answered, so it says nothing
about the moments in which a row could get lost. The invariant `Accounted` does:
as long as no call was lost and an agent is joined, each pending row is on its
wire, spawned, in a goroutine before its claim, or some catch-up of the agent has
not been answered (`Found`). A join raises `catchUps`, the answer hands over every
pending row (`AllPendingFound`, where the cardinality argument with `QueryFits`
is), an INSERT reaches the wire of each joined agent, and a goroutine only leaves
its row when that is no longer pending. `BudgetShrinks` says that a lost call stays
noticed.

### ReadCommandsProofs and SnapshotsProofs

| Theorem | Statement |
|---|---|
| `ReadCommandsProofs!TypeCorrect` | `Spec => []TypeOK` |
| `ReadCommandsProofs!Implementation` | `Spec => LedgerSpec` |
| `SnapshotsProofs!TypeCorrect` | `Spec => []TypeOK` |
| `SnapshotsProofs!PushesShowActions` | `Spec => []PushShowsAction` |

The invariant of the read channel is that of `Commands`: one holder per row, and
the holder's program counter tells the row's status, the GETs sent and the verdict.

The invariant for the pushes, `WaitsForAction`, follows a handler through its steps.
While it waits and is not `alike`, no state from the one the aggregate shows to the
one before `due` has the status waited for (`NoneBefore`): so when the wait matches,
the aggregate shows `due` or something later. `OwnWait` has the handler's own
steps. `OthersWait` has those of the guest, the aggregate and the other pushers:
states once entered keep their status and the aggregate only moves forward, so
`NoneBefore` is never lost, nor is what was fetched. The statuses are any set, and a
command may bring about any of them.

### KeySyncProofs

| Theorem | Statement |
|---|---|
| `TypeCorrect` | `Spec => []TypeOK` |
| `KeySafety` | `Spec => []PublishedIsHeld` |
| `SettingsSafety` | `Spec => []SettingsSurvive` |
| `Implementation` | `Spec => StoreSpec` |

Both safety properties only look at a file that is not being written. The invariant
looks at `Content`: what the file holds, or will hold once its writer is done.
`Kept` says that `Content` has the Proxmox credentials once there were some, and
the published key and the agent's, unless `spoiled` or `rotated`. It rests on
`Writers` (who may be between truncation and write, at which step), `Plans` (at
each step of a command, in what its plan may differ from the file it read) and
`KeyChosen` (an agent beyond the repair has a key). A process that reads, or
truncates an unchanged file, while `~spoiled`, has `Content` before it.

`Implementation` is the refinement of `KeyStore` with `key` and `pve` read off
`Content`. Truncating does not change `Content` except by what the writer means to
write (`TruncatesWhole`), the write that follows changes nothing (`WritesWhole`):
`NewKeyTruncates` and `HealTruncates` are `Generate` or `Rotate`, the agent's
`Upload` is `Publish`, the second save of `--register` is `Configure`, everything
else stutters or is `Spoil`. `AgentImplements` and `OperatorImplements` have a step
for each action. It says more than the two invariants: a key is never generated
beside another one, and no step but `--rotate-key` changes the key at all.

### RemoteConfigProofs

| Theorem | Statement |
|---|---|
| `TypeCorrect` | `Spec => []TypeOK` |
| `NeverLost` | `Spec => [](~mixed => known <= Cached)` |
| `NoStepBack` | `Spec => NeverStepsBack` |

`Position` ties an open file to the writer's program counter, `Published` says that
nobody has a configuration the endpoint has not published. The heart is `Alone`,
which holds until two processes wrote at once (`mixed`): at most one process is in
`writeCache`; an inode with the name of the cache is complete, at least as new as
`known`, and neither the temporary file nor open in any process, so that no write
goes into it; a writer has something at least as new as `known`, its inode has the
temporary name, and before the rename that inode is complete. `FreeInode` shows
that three inodes always leave one for a new file. That a start does not step back
then follows for both of its sources: a fetched configuration is the newest
published, and an offline start reads the cache.

### CentralRefreshProofs

| Theorem | Statement |
|---|---|
| `TypeCorrect` | `Spec => []TypeOK` |
| `HandedOut` | `Spec => []HandedOutIsGood` |
| `ChannelsKept` | `Spec => []ChannelsOutlive` |

`Reckoned` (`life + Timeout >= left`: the client is wrong by an HTTP timeout at
most) gives `HandedOut`. For the channels `Needed` is the longest time the loop may
still take to the next token: to its tick and an HTTP timeout more, or the rest of
the timeout. The invariant then says: the cached token, the one being sent and that
of a joining channel which did not overtake the loop last longer than `Needed`
(`Lasting`), and so does that of every joined channel outside `weak`, which merely
has to be good while it still awaits the broadcast (`Outlasting`). Time lowers
both sides by one (`TimePasses`); a refresh sets a token to at least
`TTL - Timeout > Interval + Timeout >= Needed` (`RenewedToken`). `Recent` and
`LoopStages` connect a joining channel's token with the cached one, and the loop's
stage with its refresh.

### SubscriptionProofs

| Theorem | Statement |
|---|---|
| `TypeCorrect` | `Spec => []TypeOK` |
| `SilenceNoticed` | `Spec => []SilenceIsNoticed` |
| `HealthyKept` | `PromptServer` implies `Spec => HealthyIsKept` |

`Inv` adds to the types `WaitBounded` (the loop's clock stays within the limit of
its phase; the back-off bound alone would not bound it) and `SilenceIsSeen`:
silence started after the last frame, and since then
`silentFor <= sinceBeat + lag * HeartbeatInterval`, because nothing was
acknowledged. `lag < AckLagThreshold` then gives the bound. `HealthyKept` uses
`AnswersInTime`: with a live server the oldest unanswered heartbeat is at most
`AckDelay` old, and the last frame came after the heartbeat before it. Its
hypothesis `PromptServer` states the arithmetic the code's constants rely on:
`AckDelay < (AckLagThreshold - 1) * HeartbeatInterval` and
`HeartbeatInterval + AckDelay < ReadDeadline`, for 25 s, 2 and 60 s an answer
within 25 s. The first factor is `AckLagThreshold - 1` because the heartbeat just
sent counts as unacknowledged.

### TokenSessionProofs

| Theorem | Statement |
|---|---|
| `TypeCorrect` | `Spec => []TypeOK` |
| `GoneOnlyIfRevoked` | `Spec => []GoneIsRevoked` |
| `LateCheck` | `Spec => OvertakesInVain` |
| `KeepsInStep` | `Spec => []DiskKeepsUp` |
| `CrashIsHarmless` | `Spec => []CanResume` |
| `ChainSurvives` | `Spec => NotBurned` |

All hold for any set of goroutines, any faults, quick and slow refreshes, on expiry
and unprompted, and a file with or without a key. `Quiet` says which goroutines can
be refreshing at which stage of the process, which is why only `Main` can be denied
before the process serves.

A goroutine is `Behind` when it posts a token that memory no longer holds, or when
it saves the token that memory already has: then another one has stored before it.
`LateCheck` rests on `BehindIsFresh`: whoever is behind was left behind by a
`Store`, which made the access token fresh, and it does not expire before all rest
unless a refresh is slow, which is a `lapse`.

`KeepsUp` is the invariant of the others. While neither excuse stands and the chain
lives, `InStep` holds, with five parts:

- `FileInStep`: the file has the newest token, or the one before while a goroutine
  is about to write the newest;
- `MemoryInStep`: memory has the newest, unless a goroutine has yet to store it;
- `AnswerInStep`: a goroutine on its way from the answer to `Store` carries the
  newest token, the window is open, and memory is one behind at most;
- `PostInStep`: a goroutine about to post has the newest token and nobody is ahead,
  or has the one before it, the window is open, and the newest is in memory or in
  a goroutine's hands;
- `PostTheSame`: all that are about to post hold the same token.

The last two exclude that a goroutine posts a token two rotations old, and with it
`Denied` of a live chain (`PostAccepted`, `NoneDenied`). They only survive a `Read`
in whose moment nobody is behind (`ReadInStep`): any other breaks `PostTheSame` at
once, or `AnswerInStep` at the next answer, and a chain of such reads is what burns
the session. An excuse that stands makes `KeepsUp` say nothing; `BackAgain` shows
that the `Store` which resets it leaves the agent `InStep`, so that the promise is
good again from there on.

### Model-checked only

Liveness (`ClaimIsSettled`, `PendingIsTaken`, `RevokedIsNoticed`, `ComesBack`,
`ReadIsSettled`, `ViewSettles`, `AlwaysStarts`, `CacheCatchesUp`) is out of the
prover's reach: it handles neither ENABLED nor fairness. Every invariant, action
property and refinement that a passing run checks is proved.

## 5. Where code and documents disagree

With a run that shows it:

- `commands_late_claim`: `docs/ARCHITECTURE.md:83-86` says that a command past its
  expiry at the moment of the claim is written off without execution. The code
  compares before the claim's round trip (`dispatcher.go:168`) and not again: a
  deadline that passes in between is not seen. `OldNeverRuns` states what does
  hold: a row that is overdue before a goroutine's check never runs.
- `token_autoheal`: without any fault, a start that finds no private key saves the configuration it
  read before `Ping` rotated the token (`runtime.go:36, 70, 86`, `keysync.go:51`),
  so the invalidated token is back in the file, against the purpose stated at
  `client.go:27-29`. A restart before the next rotation and after the reuse window
  replays it.
- `key_unpublished`: `--register` and `--rotate-key` build a `supabase.Client`
  without a persist function (`main.go:256`, `main.go:399`), and `refresh` calls it
  (`client.go:274`) as soon as the server has rotated the token: the command dies
  after it saved the key and before it published it. The agent's start finds a key
  and does not upload it either (`runtime.go:86-90`). `main.go:251-254` says that the
  upload is made there and its failure is not fatal, `runtime.go:94-95` that the next
  restart retries. The run has no fault in it: one enrolment and one start.

Seen while reading, without a run:

- `docs/ARCHITECTURE.md:166-168` says that the service exits when a refresh fails
  because the session was revoked. Only the ticker looks (`runtime.go:178`), and not
  while Proxmox is unreachable (`runtime.go:262-266`). `RevokedIsNoticed` states
  what holds: it exits in the end if Proxmox answers.
- `runtime.go:194-195` says that the handler waits "until Proxmox' aggregate cache
  reflects the new state". The wait compares the status alone (`runtime.go:221`). A
  reboot expects "running" (`dispatcher.go:142`), which the aggregate shows already,
  so its wait ends at the first poll and the push may carry the state from before;
  so may the push of a command whose status an earlier state had that the aggregate
  has not shown yet. `PushShowsAction` excuses these through `alike`; without that
  excuse `snapshots` refutes it. `ViewSettles` bounds the harm, as the comment claims
  ("no correctness issue").
- `dispatcher.go:189-191` says that validation failures are written to the row so that
  "no row ends up stuck on claimed forever". Of validation that is true; a
  crash or a lost completing PATCH still leaves such rows (`cut`).
- `client.go:119-122` says that the central loop guarantees that no channel ends on an
  expired token: see `weak` in section 3.
- `docs/ARCHITECTURE.md:128` says that the cache of the remote configuration is
  rewritten on every successful fetch. The unit of `scripts/install.sh:112-117` makes
  `/var/lib` read-only for the service (section 3).
- `realtime.go:127` doubles the back-off after every round and never resets it: after
  five disconnects in the life of a process each further one costs 24 to 40 s, however
  healthy the sessions between them were. No comment says otherwise.
- `realtime.go:29-31` says two missed acknowledgements and about 50 s. `lag` already
  counts the heartbeat just sent (`realtime.go:313`), so one missing answer closes
  the connection, after 25 to 50 s of silence.
- `docs/ARCHITECTURE.md:96-98` says that the agent does no scan at reconnect;
  `runtime.go:110-128` does, and the comment there says why. The model has the scan.
- The catch-up query has `limit=200` (`commands.go:53`); further pending rows wait
  for the next join. No document mentions it.

## 6. What is not modelled

- Formatting and parsing of requests, snapshots and configuration, `EnsureDefaults`'s
  levels and comments, request building and decoding of the Proxmox client
  (`proxmox/client.go`), TLS and URLs: no state of the agent depends on them; what the
  calls do, answer and lose is in the modules of their callers.
- HPKE (`internal/crypto`): pure functions of the standard library. Only whether a
  password opens matters (`Requests`), and which key is whose (`KeySync`).
- Usage texts, prompts, log files, installation scripts. What the commands do to the
  file is in `KeySync`, what exit codes mean to the supervisor in `TokenSession`.
- Presence frames, which nothing in the agent depends on.
- The data race on `expiresAt` in a log line (`client.go:177-184`), whose value goes
  nowhere else.

## 7. Plan

All components with state of their own are modelled. What would come next:

1. An abstract specification of the session, as the server and the next start of
   the agent see it (a chain that moves on, is revoked by its owner, or is lost),
   that `TokenSession` implements.
2. The same for the cache of `RemoteConfig`: one cell that only moves forward.
3. `KeySync` with the goroutines of `TokenSession` in place of its single one, to
   follow the tokens, not only keys and credentials, between processes.
