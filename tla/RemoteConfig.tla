------------------------------ MODULE RemoteConfig ------------------------------
(***************************************************************************)
(* The server-driven configuration: the endpoint that publishes it, the    *)
(* cache file on the host, and the two processes that fetch it and write   *)
(* that file: the agent (at its start, then every six hours) and an        *)
(* operator's --register or --rotate-key.                                  *)
(*                                                                         *)
(* Configurations are numbered as they are published; 0 is the one built   *)
(* into the binary. writeCache writes remote-config.json.tmp and renames   *)
(* it. Both processes use that one name, so the file system is modelled by *)
(* its inodes: a rename moves whatever inode has the name, and a process   *)
(* keeps writing into the inode it opened.                                 *)
(***************************************************************************)
EXTENDS Naturals

CONSTANTS
  MaxVersion,  \* bound: configurations published
  TooNew,      \* those whose min_agent_version is above the running version
  Budget       \* operator commands and faults

Steps   == {"command", "crash", "outage"}
BakedIn == 0

ASSUME VersionAssumption == MaxVersion \in Nat
ASSUME TooNewAssumption  == TooNew \subseteq 1 .. MaxVersion
ASSUME BudgetAssumption  == Budget \in [Steps -> Nat]

Processes == {"agent", "cli"}
Other(p)  == IF p = "agent" THEN "cli" ELSE "agent"
Inodes    == 1 .. 3
NoInode   == 0
Partial   == MaxVersion + 1  \* the contents of a truncated file

VARIABLES
  live, reachable,  \* the endpoint
  inode, name,      \* contents of the inodes; what the two names refer to
  stage, used,      \* the agent's life, and the configuration it runs with
  pc, got, fd,      \* each process in fetchLive and writeCache
  known,            \* newest configuration whose write has been completed
  mixed,            \* two processes were fetching and writing at the same time
  budget

endpoint == <<live, reachable>>
files    == <<inode, name>>
vars     == <<endpoint, files, stage, used, pc, got, fd, known, mixed, budget>>

Init ==
  /\ live = 0 /\ reachable = TRUE
  /\ inode = [i \in Inodes |-> Partial]
  /\ name = [cache |-> NoInode, tmp |-> NoInode]
  /\ stage = "down" /\ used = BakedIn
  /\ pc = [p \in Processes |-> "idle"]
  /\ got = [p \in Processes |-> BakedIn]
  /\ fd = [p \in Processes |-> NoInode]
  /\ known = BakedIn /\ mixed = FALSE
  /\ budget = Budget

Spend(step) == /\ budget[step] > 0
               /\ budget' = [budget EXCEPT ![step] = @ - 1]

Goto(p, label) == pc' = [pc EXCEPT ![p] = label]

-------------------------------------------------------------------------------
(* The endpoint.                                                           *)

Publish ==
  /\ live < MaxVersion
  /\ live' = live + 1
  /\ UNCHANGED <<reachable, files, stage, used, pc, got, fd, known, mixed, budget>>

Outage ==
  /\ reachable
  /\ Spend("outage")
  /\ reachable' = FALSE
  /\ UNCHANGED <<live, files, stage, used, pc, got, fd, known, mixed>>

ComesBack ==
  /\ ~reachable
  /\ reachable' = TRUE
  /\ UNCHANGED <<live, files, stage, used, pc, got, fd, known, mixed, budget>>

-------------------------------------------------------------------------------
(* Who fetches when.                                                       *)

Launch ==
  /\ stage = "down"
  /\ stage' = "loading"
  /\ Goto("agent", "fetch")
  /\ UNCHANGED <<endpoint, files, used, got, fd, known, mixed, budget>>

RefreshTick ==
  /\ stage = "running"
  /\ pc["agent"] = "idle"
  /\ Goto("agent", "fetch")
  /\ UNCHANGED <<endpoint, files, stage, used, got, fd, known, mixed, budget>>

Command ==
  /\ pc["cli"] = "idle"
  /\ Spend("command")
  /\ Goto("cli", "fetch")
  /\ UNCHANGED <<endpoint, files, stage, used, got, fd, known, mixed>>

-------------------------------------------------------------------------------
(* Load and the body of RefreshLoop.                                       *)

\* The agent goes on with configuration v where it was waiting for one.
Returns(p, v) ==
  /\ Goto(p, "idle")
  /\ got' = [got EXCEPT ![p] = BakedIn]
  /\ IF p = "agent" /\ stage = "loading"
       THEN stage' = "gate" /\ used' = v
       ELSE UNCHANGED <<stage, used>>

Writing == {"open", "write", "rename"}

\* RefreshLoop writes whatever it fetched, changed or not.
AfterFetchIfChanged(p, v) ==
  IF p = "agent" /\ stage = "running" /\ v = used THEN "idle" ELSE "open"
AfterFetch(p, v) == "open"

FetchSucceeds(p) ==
  /\ pc[p] = "fetch"
  /\ reachable
  /\ live > 0
  /\ got' = [got EXCEPT ![p] = live]
  /\ Goto(p, AfterFetch(p, live))
  /\ mixed' = (mixed \/ pc[Other(p)] \in Writing)
  /\ UNCHANGED <<endpoint, files, stage, used, fd, known, budget>>

\* readCache refuses a file that does not parse; there may be none.
CachedUnread ==
  IF name.cache = NoInode THEN BakedIn ELSE inode[name.cache]
Cached ==
  IF name.cache = NoInode \/ inode[name.cache] = Partial
    THEN BakedIn
    ELSE inode[name.cache]

\* No answer, or none that fetchLive takes.
FetchRetries(p) ==
  /\ pc[p] = "fetch"
  /\ ~reachable \/ live = 0
  /\ UNCHANGED vars
FetchFails(p) ==
  /\ pc[p] = "fetch"
  /\ ~reachable \/ live = 0
  /\ Returns(p, Cached)
  /\ UNCHANGED <<endpoint, files, fd, known, mixed, budget>>

\* os.WriteFile: O_CREATE and O_TRUNC, then the contents.
TmpInode ==
  IF name.tmp # NoInode THEN name.tmp
  ELSE CHOOSE i \in Inodes : \A p \in Processes : i # name.cache /\ i # fd[p]
CacheInode ==
  IF name.cache # NoInode THEN name.cache ELSE TmpInode

OpenInPlace(p) ==
  /\ inode' = [inode EXCEPT ![CacheInode] = Partial]
  /\ name' = [cache |-> CacheInode, tmp |-> CacheInode]
  /\ fd' = [fd EXCEPT ![p] = CacheInode]
OpenTmp(p) ==
  /\ inode' = [inode EXCEPT ![TmpInode] = Partial]
  /\ name' = [name EXCEPT !.tmp = TmpInode]
  /\ fd' = [fd EXCEPT ![p] = TmpInode]

Open(p) ==
  /\ pc[p] = "open"
  /\ OpenTmp(p)
  /\ Goto(p, "write")
  /\ UNCHANGED <<endpoint, stage, used, got, known, mixed, budget>>

Write(p) ==
  /\ pc[p] = "write"
  /\ inode' = [inode EXCEPT ![fd[p]] = got[p]]
  /\ Goto(p, "rename")
  /\ UNCHANGED <<endpoint, name, stage, used, got, fd, known, mixed, budget>>

\* An inode is gone with its last name and descriptor.
Referenced(p, names) == {names.cache, names.tmp, fd[Other(p)]}

\* Without a file of that name the rename fails, and nobody looks.
Rename(p) ==
  /\ pc[p] = "rename"
  /\ name' = IF name.tmp = NoInode THEN name ELSE [cache |-> name.tmp, tmp |-> NoInode]
  /\ inode' = [i \in Inodes |-> IF i \in Referenced(p, name') THEN inode[i] ELSE Partial]
  /\ known' = IF got[p] > known THEN got[p] ELSE known
  /\ fd' = [fd EXCEPT ![p] = NoInode]
  /\ Returns(p, got[p])
  /\ UNCHANGED <<endpoint, mixed, budget>>

\* The disk is full or read-only, for once or for good: the error is dropped.
WriteCacheFails(p) ==
  /\ pc[p] \in Writing
  /\ fd' = [fd EXCEPT ![p] = NoInode]
  /\ Returns(p, got[p])
  /\ UNCHANGED <<endpoint, files, known, mixed, budget>>

-------------------------------------------------------------------------------
(* The agent.                                                              *)

\* The min_agent_version check: the agent runs, or exits and is restarted.
Gate ==
  /\ stage = "gate"
  /\ IF used \in TooNew THEN stage' = "down" /\ used' = BakedIn
                       ELSE stage' = "running" /\ UNCHANGED used
  /\ UNCHANGED <<endpoint, files, pc, got, fd, known, mixed, budget>>

Dies(p) ==
  /\ \/ p = "agent" /\ stage # "down"
     \/ p = "cli" /\ pc[p] # "idle"
  /\ Spend("crash")
  /\ Goto(p, "idle")
  /\ got' = [got EXCEPT ![p] = BakedIn]
  /\ fd' = [fd EXCEPT ![p] = NoInode]
  /\ IF p = "agent" THEN stage' = "down" /\ used' = BakedIn ELSE UNCHANGED <<stage, used>>
  /\ UNCHANGED <<endpoint, files, known, mixed>>

-------------------------------------------------------------------------------
Fetch(p) == FetchSucceeds(p) \/ FetchFails(p) \/ Open(p) \/ Write(p) \/ Rename(p)

Next ==
  \/ Publish \/ Outage \/ ComesBack
  \/ Launch \/ RefreshTick \/ Gate \/ Command
  \/ \E p \in Processes : Fetch(p) \/ WriteCacheFails(p) \/ Dies(p)

Spec == Init /\ [][Next]_vars

\* The supervisor restarts the agent, its ticker ticks, and a fetch ends within
\* its timeout. Nothing makes the endpoint come back, or a write succeed.
Fairness ==
  /\ WF_vars(Launch) /\ WF_vars(RefreshTick) /\ WF_vars(Gate)
  /\ \A p \in Processes : WF_vars(Fetch(p))

FairSpec == Spec /\ Fairness

-------------------------------------------------------------------------------
(* Properties.                                                             *)

Versions == 0 .. MaxVersion

TypeOK ==
  /\ live \in Versions /\ reachable \in BOOLEAN
  /\ inode \in [Inodes -> Versions \cup {Partial}]
  /\ name \in [cache : Inodes \cup {NoInode}, tmp : Inodes \cup {NoInode}]
  /\ stage \in {"down", "loading", "gate", "running"}
  /\ used \in Versions
  /\ pc \in [Processes -> {"idle", "fetch"} \cup Writing]
  /\ got \in [Processes -> Versions]
  /\ fd \in [Processes -> Inodes \cup {NoInode}]
  /\ known \in Versions /\ mixed \in BOOLEAN
  /\ budget \in [Steps -> Nat]

\* A start, online or not, never goes back behind a configuration that reached
\* the cache, a kill switch among them (fetcher.go:4-7, 85; ARCHITECTURE.md:49,
\* 52-55), however the writes before it were cut off. Two processes that wrote
\* at the same time excuse it.
NeverStepsBack ==
  [][stage = "loading" /\ stage' = "gate" /\ ~mixed' => used' >= known']_vars

\* A start gets its configuration whether or not the endpoint answers
\* (ARCHITECTURE.md:54-55: "This guarantees that an offline restart still
\* works").
AlwaysStarts == stage = "loading" ~> stage \in {"gate", "down"}

\* An agent that keeps trying to write its cache sometimes succeeds.
WritesGetThrough ==
  /\ SF_vars(Open("agent")) /\ SF_vars(Write("agent")) /\ SF_vars(Rename("agent"))

\* While the agent runs and the endpoint answers, the cache comes to hold what
\* is published (fetcher.go:158-162), however many writes go wrong, if not all.
CacheCatchesUp ==
  WritesGetThrough =>
    (stage = "running" /\ reachable /\ live = MaxVersion
       ~> Cached = live \/ stage # "running" \/ ~reachable)
===============================================================================
