-------------------------------- MODULE KeySync --------------------------------
(***************************************************************************)
(* One host's config.yml and its HPKE key between the processes that write *)
(* it: the agent, which rewrites the file at every start, generates a      *)
(* missing key and saves each rotated token, and the operator's --register *)
(* and --rotate-key. The server holds a session for every enrolment and    *)
(* the public key of the cluster.                                          *)
(*                                                                         *)
(* config.Save truncates the file and then writes it; only the agent's     *)
(* persistRefreshTo replaces it by a rename. Nothing locks it, so a        *)
(* process may read a truncated file, or write back what another has       *)
(* changed since it read: `spoiled` remembers that this happened.          *)
(*                                                                         *)
(* A key stands for its pair and keys are numbered as they are generated.  *)
(* The goroutines of one agent are in TokenSession; here they are one.     *)
(***************************************************************************)
EXTENDS Naturals, FiniteSets

CONSTANTS
  MaxTokens,  \* bound: rotations of one session
  Budget      \* how many operator commands, restarts and faults may happen

Steps == {"register", "rotate", "restart", "crash", "lost"}

ASSUME BoundAssumption  == MaxTokens \in Nat \ {0}
ASSUME BudgetAssumption == Budget \in [Steps -> Nat]

NoKey    == 0
NoToken  == [chain |-> 0, n |-> 0]
Sessions == 1 .. Budget["register"] + 1
Token    == [chain : Nat, n : Nat]
File     == [token : Token, key : Nat, pve : BOOLEAN]
Blank    == [token |-> NoToken, key |-> NoKey, pve |-> FALSE]

VARIABLES
  \* The server: newest token of each session (0: none yet), sessions whose
  \* reuse window is open, revoked sessions, clusters.public_key.
  head, window, revoked, published,
  \* config.yml, who is between truncating and writing it, and whether it has
  \* ever held Proxmox credentials.
  disk, writing, configured,
  \* The agent: its life, the file as it was last loaded, the token in memory,
  \* and a refresh on its way to the file.
  stage, cfg, mem, got, copy,
  \* The operator's command, the file as it last read or wrote it, and the file
  \* as it means to write it.
  cmd, base, own,
  \* Bookkeeping: keys generated, a --rotate-key has begun to save, a write was
  \* based on a file that another process had changed or was writing.
  keys, rotated, spoiled, budget

server == <<head, window, revoked, published>>
file   == <<disk, writing, configured>>
agent  == <<stage, cfg, mem, got, copy>>
cli    == <<cmd, base, own>>
vars   == <<server, file, agent, cli, keys, rotated, spoiled, budget>>

\* An install from before the key existed, a container's skeleton before its
\* enrolment, or an empty file, which --register treats like a missing one.
Init ==
  /\ head = [c \in Sessions |-> IF c = 1 THEN 1 ELSE 0]
  /\ window = {} /\ revoked = {} /\ published = NoKey
  /\ disk \in { [Blank EXCEPT !.token = [chain |-> 1, n |-> 1], !.pve = TRUE],
                [Blank EXCEPT !.pve = TRUE],
                Blank }
  /\ writing = {} /\ configured = disk.pve
  /\ stage = "down" /\ cfg = Blank /\ mem = NoToken /\ got = NoToken /\ copy = Blank
  /\ cmd = "idle" /\ base = Blank /\ own = Blank
  /\ keys = 0 /\ rotated = FALSE /\ spoiled = FALSE
  /\ budget = Budget

Spend(step) == /\ budget[step] > 0
               /\ budget' = [budget EXCEPT ![step] = @ - 1]

-------------------------------------------------------------------------------
(* The file.                                                               *)

Torn == writing # {}

\* The parts of the file that are not the token: is `read` what is there now?
Same(read) == disk.key = read.key /\ disk.pve = read.pve

Reads == spoiled' = (spoiled \/ Torn)

\* os.WriteFile opens the file with O_TRUNC, then writes. The writer of a file
\* that was replaced by a rename in between writes into nothing.
Truncates(p, read) == /\ disk' = Blank
                      /\ writing' = writing \cup {p}
                      /\ UNCHANGED configured
                      /\ spoiled' = (spoiled \/ Torn \/ ~Same(read))

Writes(p, content) == /\ disk' = IF p \in writing THEN content ELSE disk
                      /\ writing' = writing \ {p}
                      /\ configured' = (configured \/ disk'.pve)
                      /\ spoiled' = (spoiled \/ writing # {p} \/ disk # Blank)

Renames(content, read) == /\ disk' = content
                          /\ writing' = {}
                          /\ configured' = (configured \/ disk'.pve)
                          /\ spoiled' = (spoiled \/ Torn \/ ~Same(read))

-------------------------------------------------------------------------------
(* The sessions.                                                           *)

Accepted(t) ==
  /\ t.chain \in Sessions \ revoked
  /\ \/ t.n = head[t.chain]
     \/ t.chain \in window /\ t.n + 1 = head[t.chain]

\* A token from the reuse window is answered with the newest one.
Rotates(t) ==
  /\ head' = IF t.n = head[t.chain] THEN [head EXCEPT ![t.chain] = @ + 1] ELSE head
  /\ window' = window \cup {t.chain}
  /\ UNCHANGED <<revoked, published>>

\* The reuse window of a session closes, 10 s after its last rotation.
CloseWindow ==
  /\ \E c \in window : window' = window \ {c}
  /\ UNCHANGED <<head, revoked, published, file, agent, cli, keys, rotated,
                 spoiled, budget>>

-------------------------------------------------------------------------------
(* The agent.                                                              *)

AgentEnds(next) == /\ stage' = next
                   /\ cfg' = Blank /\ mem' = NoToken /\ got' = NoToken /\ copy' = Blank

\* runAgent loads the file and writes it again with its defaults.
Launch ==
  /\ stage = "down"
  /\ stage' = "rewrite"
  /\ cfg' = disk
  /\ Reads
  /\ UNCHANGED <<server, file, mem, got, copy, cli, keys, rotated, budget>>

RewriteTruncates ==
  /\ stage = "rewrite"
  /\ Truncates("agent", cfg)
  /\ stage' = "rewriting"
  /\ UNCHANGED <<server, cfg, mem, got, copy, cli, keys, rotated, budget>>

RewriteWrites ==
  /\ stage = "rewriting"
  /\ Writes("agent", cfg)
  /\ stage' = "load"
  /\ UNCHANGED <<server, cfg, mem, got, copy, cli, keys, rotated, budget>>

\* Start reads the file again and validates it.
Load ==
  /\ stage = "load"
  /\ Reads
  /\ IF disk.token = NoToken \/ ~disk.pve
       THEN AgentEnds("down")
       ELSE /\ stage' = "ping"
            /\ cfg' = disk
            /\ mem' = disk.token
            /\ UNCHANGED <<got, copy>>
  /\ UNCHANGED <<server, file, cli, keys, rotated, budget>>

\* Ping, and any refresh of the serving agent.
Refresh ==
  /\ stage \in {"ping", "serving"}
  /\ got = NoToken
  /\ Accepted(mem)
  /\ head[mem.chain] < MaxTokens
  /\ Rotates(mem)
  /\ got' = [mem EXCEPT !.n = head'[mem.chain]]
  /\ copy' = Blank
  /\ stage' = IF stage = "ping" THEN "pingRead" ELSE "read"
  /\ UNCHANGED <<file, cfg, mem, cli, keys, rotated, spoiled, budget>>

RefreshRefused ==
  /\ stage \in {"ping", "serving"}
  /\ ~Accepted(mem)
  /\ revoked' = revoked \cup {mem.chain}
  /\ AgentEnds("gone")
  /\ UNCHANGED <<head, window, published, file, cli, keys, rotated, spoiled, budget>>

\* A failed Ping ends the agent; later failures are logged.
RefreshFails ==
  /\ stage \in {"ping", "serving"}
  /\ Spend("lost")
  /\ \/ UNCHANGED server
     \/ Accepted(mem) /\ head[mem.chain] < MaxTokens /\ Rotates(mem)
  /\ IF stage = "ping" THEN AgentEnds("down") ELSE UNCHANGED agent
  /\ UNCHANGED <<file, cli, keys, rotated, spoiled>>

\* persistRefreshTo reads the file, changes the token and renames.
PersistReads ==
  /\ stage \in {"pingRead", "read"}
  /\ copy' = disk
  /\ Reads
  /\ stage' = IF stage = "pingRead" THEN "pingSave" ELSE "save"
  /\ UNCHANGED <<server, file, cfg, mem, got, cli, keys, rotated, budget>>

PersistRenames ==
  /\ stage \in {"pingSave", "save"}
  /\ Renames([copy EXCEPT !.token = got], copy)
  /\ mem' = got
  /\ got' = NoToken /\ copy' = Blank
  /\ stage' = IF stage = "pingSave" THEN "heal" ELSE "serving"
  /\ UNCHANGED <<server, cfg, cli, keys, rotated, budget>>

\* EnsurePrivateKey saves the configuration read before Ping with a new key.
HasKey ==
  /\ stage = "heal"
  /\ cfg.key # NoKey
  /\ stage' = "serving"
  /\ UNCHANGED <<server, file, cfg, mem, got, copy, cli, keys, rotated, spoiled, budget>>

HealTruncates ==
  /\ stage = "heal"
  /\ cfg.key = NoKey
  /\ Truncates("agent", cfg)
  /\ keys' = keys + 1
  /\ cfg' = [cfg EXCEPT !.key = keys']
  /\ stage' = "healing"
  /\ UNCHANGED <<server, mem, got, copy, cli, rotated, budget>>

HealWrites ==
  /\ stage = "healing"
  /\ Writes("agent", cfg)
  /\ stage' = "upload"
  /\ UNCHANGED <<server, cfg, mem, got, copy, cli, keys, rotated, budget>>

Upload ==
  /\ stage = "upload"
  /\ published' = cfg.key
  /\ stage' = "serving"
  /\ UNCHANGED <<head, window, revoked, file, cfg, mem, got, copy, cli, keys,
                 rotated, spoiled, budget>>

\* The agent serves on with a key nobody can use.
UploadFails ==
  /\ stage = "upload"
  /\ Spend("lost")
  /\ stage' = "serving"
  /\ UNCHANGED <<server, file, cfg, mem, got, copy, cli, keys, rotated, spoiled>>

\* The operator restarts the agent, whether it serves or has given up.
Restart ==
  /\ stage \in {"serving", "gone"}
  /\ Spend("restart")
  /\ AgentEnds("down")
  /\ UNCHANGED <<server, file, cli, keys, rotated, spoiled>>

AgentCrashes ==
  /\ stage \notin {"down", "gone"}
  /\ Spend("crash")
  /\ AgentEnds("down")
  /\ writing' = writing \ {"agent"}
  /\ spoiled' = (spoiled \/ "agent" \in writing)
  /\ UNCHANGED <<server, disk, configured, cli, keys, rotated>>

-------------------------------------------------------------------------------
(* The operator's commands.                                                *)

CliEnds == cmd' = "idle" /\ base' = Blank /\ own' = Blank

\* enroll.Run exchanges the code for a session of its own.
Enroll ==
  /\ cmd = "idle"
  /\ Spend("register")
  /\ \E c \in Sessions :
       /\ head[c] = 0
       /\ \A d \in Sessions : head[d] = 0 => c <= d
       /\ head' = [head EXCEPT ![c] = 1]
       /\ own' = [Blank EXCEPT !.token = [chain |-> c, n |-> 1]]
  /\ cmd' = "merge"
  /\ UNCHANGED <<window, revoked, published, file, agent, base, keys, rotated, spoiled>>

\* The existing file with the new session in place of the old one.
MergedAfresh(existing) == [own EXCEPT !.pve = existing.pve]
MergedTokenAlone(existing) == [token |-> own.token]
MergedFromNothing(existing) == [own EXCEPT !.key = existing.key]
Merged(existing) == [existing EXCEPT !.token = own.token]

Merge ==
  /\ cmd = "merge"
  /\ base' = disk
  /\ own' = Merged(disk)
  /\ Reads
  /\ cmd' = "save"
  /\ UNCHANGED <<server, file, agent, keys, rotated, budget>>

\* --rotate-key loads the file; an unenrolled host is refused.
RotateLoads ==
  /\ cmd = "idle"
  /\ disk.token # NoToken
  /\ Spend("rotate")
  /\ base' = disk /\ own' = disk
  /\ Reads
  /\ cmd' = "rotateKey"
  /\ UNCHANGED <<server, file, agent, keys, rotated>>

\* EnsurePrivateKey fills in a missing key, RotateKey replaces it.
NewKeyTruncates ==
  /\ cmd \in {"newKey", "rotateKey"}
  /\ Truncates("cli", base)
  /\ keys' = keys + 1
  /\ own' = [own EXCEPT !.key = keys']
  /\ rotated' = (rotated \/ cmd = "rotateKey")
  /\ cmd' = IF cmd = "newKey" THEN "savingKey" ELSE "rotating"
  /\ UNCHANGED <<server, agent, base, budget>>

\* --register saves the merged file, and once more what the prompt filled in.
SaveTruncates ==
  /\ cmd \in {"save", "prompt"}
  /\ Truncates("cli", base)
  /\ cmd' = IF cmd = "save" THEN "saving" ELSE "prompting"
  /\ own' = IF cmd = "save" THEN own ELSE [own EXCEPT !.pve = TRUE]
  /\ UNCHANGED <<server, agent, base, keys, rotated, budget>>

AfterSaveAfresh == IF cmd = "saving" THEN "newKey"
                   ELSE IF cmd = "rotating" THEN "rotatePost" ELSE "post"
AfterSave == CASE cmd = "saving" -> IF own.key = NoKey THEN "newKey" ELSE "post"
               [] cmd = "savingKey" -> "post"
               [] cmd = "rotating" -> "rotatePost"

SaveWrites ==
  /\ Writes("cli", own)
  /\ \/ cmd \in {"saving", "savingKey", "rotating"}
        /\ cmd' = AfterSave
        /\ base' = own
        /\ UNCHANGED own
     \/ cmd = "prompting" /\ CliEnds
  /\ UNCHANGED <<server, agent, keys, rotated, budget>>

\* UploadPublicKey needs an access token: the server rotates the token of the
\* file, then refresh calls a persist function that is nil. The process dies.
Panics ==
  /\ cmd \in {"post", "rotatePost"}
  /\ Accepted(own.token)
  /\ head[own.token.chain] < MaxTokens
  /\ Rotates(own.token)
  /\ CliEnds
  /\ UNCHANGED <<file, agent, keys, rotated, spoiled, budget>>

\* A refused or failed refresh is a warning of --register, which then asks for
\* missing Proxmox credentials, and the end of --rotate-key.
AfterWarning ==
  IF cmd = "post" /\ ~own.pve THEN cmd' = "prompt" /\ UNCHANGED <<base, own>> ELSE CliEnds

PostRefused ==
  /\ cmd \in {"post", "rotatePost"}
  /\ ~Accepted(own.token)
  /\ revoked' = revoked \cup {own.token.chain}
  /\ AfterWarning
  /\ UNCHANGED <<head, window, published, file, agent, keys, rotated, spoiled, budget>>

PostFails ==
  /\ cmd \in {"post", "rotatePost"}
  /\ Spend("lost")
  /\ \/ UNCHANGED server
     \/ Accepted(own.token) /\ head[own.token.chain] < MaxTokens /\ Rotates(own.token)
  /\ AfterWarning
  /\ UNCHANGED <<file, agent, keys, rotated, spoiled>>

\* Nobody answers the prompt, or the operator interrupts the command.
CliStops ==
  /\ \/ cmd = "prompt" /\ UNCHANGED budget
     \/ cmd # "idle" /\ Spend("crash")
  /\ CliEnds
  /\ writing' = writing \ {"cli"}
  /\ spoiled' = (spoiled \/ "cli" \in writing)
  /\ UNCHANGED <<server, disk, configured, agent, keys, rotated>>

-------------------------------------------------------------------------------
Agent ==
  \/ Launch \/ RewriteTruncates \/ RewriteWrites \/ Load
  \/ Refresh \/ RefreshRefused \/ RefreshFails \/ PersistReads \/ PersistRenames
  \/ HasKey \/ HealTruncates \/ HealWrites \/ Upload \/ UploadFails
  \/ Restart \/ AgentCrashes

Operator ==
  \/ Enroll \/ Merge \/ RotateLoads \/ NewKeyTruncates \/ SaveTruncates
  \/ SaveWrites \/ Panics \/ PostRefused \/ PostFails \/ CliStops

Next == CloseWindow \/ Agent \/ Operator

Spec == Init /\ [][Next]_vars

-------------------------------------------------------------------------------
(* Properties.                                                             *)

TypeOK ==
  /\ head \in [Sessions -> Nat]
  /\ window \subseteq Sessions /\ revoked \subseteq Nat /\ published \in 0 .. keys
  /\ disk \in File /\ writing \subseteq {"agent", "cli"} /\ configured \in BOOLEAN
  /\ stage \in {"down", "rewrite", "rewriting", "load", "ping", "pingRead",
                "pingSave", "heal", "healing", "upload", "serving", "read",
                "save", "gone"}
  /\ cfg \in File /\ mem \in Token /\ got \in Token /\ copy \in File
  /\ cmd \in {"idle", "merge", "save", "saving", "newKey", "savingKey", "post",
              "prompt", "prompting", "rotateKey", "rotating", "rotatePost"}
  /\ base \in File /\ own \in File
  /\ {disk.key, cfg.key, copy.key, base.key, own.key} \subseteq 0 .. keys
  /\ keys \in Nat /\ rotated \in BOOLEAN /\ spoiled \in BOOLEAN
  /\ budget \in [Steps -> Nat]

\* What the app encrypts with the published key stays readable: neither a start
\* nor a re-enrolment replaces the private key, and no key is published before
\* it is saved (main.go:228-231, keysync.go:38-40). A --rotate-key, and a write
\* over another process's change, excuse it.
PublishedIsHeld ==
  published # NoKey /\ ~rotated /\ ~spoiled =>
    /\ ~Torn => disk.key = published
    /\ stage = "serving" => cfg.key = published

\* Proxmox credentials, once in the file, survive every command and every start
\* (main.go:210-213), unless a process wrote over what another was writing.
SettingsSurvive == configured /\ ~Torn /\ ~spoiled => disk.pve

\* What the file holds, or will hold once its writer is done.
Content == IF "agent" \in writing THEN cfg
           ELSE IF "cli" \in writing THEN own ELSE disk

\* Between them the processes keep one store of a key and credentials: a key is
\* generated once, only a held key is uploaded, only --rotate-key replaces it,
\* and no start, enrolment or crash loses it (keysync.go:38-67, main.go:210-231).
Store == INSTANCE KeyStore WITH key <- Content.key, pve <- Content.pve
StoreSpec == Store!KSpec

\* A public key whose upload failed is uploaded by the next start (runtime.go:
\* 92-94, CHANGELOG.md:38-39), so without a lost call an agent serves with a
\* published key.
ServingIsPublished ==
  stage = "serving" /\ cmd = "idle" /\ budget["lost"] = Budget["lost"] =>
    published = cfg.key
===============================================================================
