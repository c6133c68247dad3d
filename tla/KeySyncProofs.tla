----------------------------- MODULE KeySyncProofs -----------------------------
(***************************************************************************)
(* Theorems about KeySync, for any number of tokens, commands and faults:  *)
(* types, the published key stays the private key of the file and of the   *)
(* agent, the Proxmox credentials survive, and the processes together      *)
(* implement KeyStore.                                                     *)
(***************************************************************************)
EXTENDS KeySync, TLAPS

-------------------------------------------------------------------------------
(* The inductive invariant.                                                *)

\* Only the processes that have truncated the file are writing it.
Writers ==
  /\ "agent" \in writing => stage \in {"rewriting", "healing"}
  /\ "cli" \in writing => cmd \in {"saving", "savingKey", "rotating", "prompting"}

\* What a command means to write differs from what it read in the token, and
\* once it has written it not at all.
Plans ==
  /\ cmd = "save" => own.key = base.key /\ own.pve = base.pve
  /\ cmd \in {"newKey", "post", "prompt", "rotateKey"} => own = base
  /\ cmd = "newKey" => own.key = NoKey

KeyChosen == stage \in {"healing", "upload", "serving", "read", "save"} =>
               cfg.key # NoKey

Has(k) == k # NoKey => Content.key = k

\* The file keeps the credentials, the published key and the agent's.
Kept ==
  ~spoiled => /\ configured => Content.pve
              /\ ~rotated => Has(published) /\ Has(cfg.key)

KInv == TypeOK /\ Writers /\ Plans /\ KeyChosen /\ Kept

-------------------------------------------------------------------------------
(* Types.                                                                  *)

LEMMA NoTokenTyped == NoToken \in Token /\ NoKey \in Nat
BY DEF NoToken, NoKey, Token

LEMMA BlankTyped == Blank \in File /\ Blank.key = NoKey /\ Blank.pve = FALSE
BY NoTokenTyped DEF Blank, File

LEMMA TokenEdit ==
  ASSUME NEW t \in Token, NEW n \in Nat PROVE [t EXCEPT !.n = n] \in Token
BY DEF Token

LEMMA Fields ==
  ASSUME NEW f \in File
  PROVE  f.key \in Nat /\ f.pve \in BOOLEAN /\ f.token \in Token
BY DEF File

\* What an edit of one field leaves of a file.
LEMMA KeyEdit ==
  ASSUME NEW f \in File, NEW k \in Nat
  PROVE  /\ [f EXCEPT !.key = k] \in File /\ [f EXCEPT !.key = k].key = k
         /\ [f EXCEPT !.key = k].pve = f.pve
BY DEF File

LEMMA SessionEdit ==
  ASSUME NEW f \in File, NEW t \in Token
  PROVE  /\ [f EXCEPT !.token = t] \in File /\ [f EXCEPT !.token = t].key = f.key
         /\ [f EXCEPT !.token = t].pve = f.pve
BY DEF File

LEMMA PveEdit ==
  ASSUME NEW f \in File
  PROVE  /\ [f EXCEPT !.pve = TRUE] \in File /\ [f EXCEPT !.pve = TRUE].key = f.key
         /\ [f EXCEPT !.pve = TRUE].pve = TRUE
BY DEF File

LEMMA SessionsTyped == Sessions \subseteq Nat /\ 1 \in Sessions
BY BudgetAssumption DEF Sessions, Steps

\* TypeOK in three parts: the server, the files and keys, the rest.
ServerTyped == /\ head \in [Sessions -> Nat]
               /\ window \subseteq Sessions /\ revoked \subseteq Nat

FilesTyped ==
  /\ keys \in Nat /\ published \in 0 .. keys
  /\ \A f \in {disk, cfg, copy, base, own} : f \in File /\ f.key <= keys

StepsTyped ==
  /\ writing \subseteq {"agent", "cli"} /\ configured \in BOOLEAN
  /\ stage \in {"down", "rewrite", "rewriting", "load", "ping", "pingRead",
                "pingSave", "heal", "healing", "upload", "serving", "read",
                "save", "gone"}
  /\ mem \in Token /\ got \in Token
  /\ cmd \in {"idle", "merge", "save", "saving", "newKey", "savingKey", "post",
              "prompt", "prompting", "rotateKey", "rotating", "rotatePost"}
  /\ rotated \in BOOLEAN /\ spoiled \in BOOLEAN
  /\ budget \in [Steps -> Nat]

LEMMA TypeParts == TypeOK <=> ServerTyped /\ FilesTyped /\ StepsTyped
<1>1. TypeOK => ServerTyped /\ FilesTyped /\ StepsTyped
  BY DEF TypeOK, ServerTyped, FilesTyped, StepsTyped
<1>2. ASSUME FilesTyped
      PROVE  /\ published \in 0 .. keys
             /\ {disk.key, cfg.key, copy.key, base.key, own.key} \subseteq 0 .. keys
  BY <1>2 DEF FilesTyped, File
<1> QED BY <1>1, <1>2 DEF TypeOK, ServerTyped, FilesTyped, StepsTyped

LEMMA ServerStep == TypeOK /\ [Next]_vars => ServerTyped'
<1> SUFFICES ASSUME TypeOK, [Next]_vars PROVE ServerTyped'
  OBVIOUS
<1> USE SessionsTyped
<1>1. ServerTyped /\ StepsTyped /\ FilesTyped
  BY TypeParts
<1>2. CASE UNCHANGED <<head, window, revoked>>
  BY <1>1, <1>2 DEF ServerTyped
<1>3. CASE CloseWindow
  BY <1>1, <1>3 DEF ServerTyped, CloseWindow
<1>4. ASSUME NEW t \in Token, Accepted(t), Rotates(t) PROVE ServerTyped'
  <2>0. t.chain \in Sessions
    BY <1>4 DEF Accepted
  <2>1. \A c \in Sessions : head[c] + 1 \in Nat
    BY <1>1 DEF ServerTyped
  <2>2. head' \in [Sessions -> Nat]
    BY <1>1, <1>4, <2>0, <2>1 DEF Rotates, ServerTyped
  <2>3. window' \subseteq Sessions /\ revoked' \subseteq Nat
    BY <1>1, <1>4, <2>0, <2>1 DEF Rotates, ServerTyped
  <2> QED BY <2>2, <2>3 DEF ServerTyped
<1>5. ASSUME NEW t \in Token, head' = head, window' = window,
             revoked' = revoked \cup {t.chain}
      PROVE  ServerTyped'
  BY <1>1, <1>5 DEF Token, ServerTyped
<1>6. CASE Enroll
  BY <1>1, <1>6 DEF Enroll, ServerTyped
<1>7. mem \in Token /\ own.token \in Token
  BY <1>1 DEF StepsTyped, FilesTyped, File
<1>8. CASE Refresh
  BY <1>4, <1>7, <1>8 DEF Refresh
<1>9. CASE RefreshRefused
  BY <1>5, <1>7, <1>9 DEF RefreshRefused
<1>10. CASE RefreshFails
  BY <1>2, <1>4, <1>7, <1>10 DEF RefreshFails, server
<1>11. CASE Panics
  BY <1>4, <1>7, <1>11 DEF Panics
<1>12. CASE PostRefused
  BY <1>5, <1>7, <1>12 DEF PostRefused
<1>13. CASE PostFails
  BY <1>2, <1>4, <1>7, <1>13 DEF PostFails, server
<1> QED
  BY <1>2, <1>3, <1>6, <1>8, <1>9, <1>10, <1>11, <1>12, <1>13
  DEF Next, vars, server, Agent, Operator, Launch, RewriteTruncates, RewriteWrites,
      Load, PersistReads, PersistRenames, HasKey, HealTruncates, HealWrites,
      Upload, UploadFails, Restart, AgentCrashes, Merge, RotateLoads,
      NewKeyTruncates, SaveTruncates, SaveWrites, CliStops

\* Every file a step leaves is one it found, an empty one, or one it found with
\* one field changed.
LEMMA FilesStep == TypeOK /\ [Next]_vars => FilesTyped'
<1> SUFFICES ASSUME TypeOK, [Next]_vars PROVE FilesTyped'
  OBVIOUS
<1> DEFINE Good(f) == f \in File /\ f.key <= keys
           Fresh(f) == f \in File /\ f.key = keys + 1
<1>1. FilesTyped /\ StepsTyped /\ ServerTyped
  BY TypeParts
<1>2. /\ keys \in Nat /\ published \in 0 .. keys
      /\ Good(disk) /\ Good(cfg) /\ Good(copy) /\ Good(base) /\ Good(own)
      /\ Good(Blank)
  BY <1>1, BlankTyped DEF FilesTyped, NoKey
<1>3. ASSUME NEW f \in File
      PROVE  /\ \A t \in Token : Good(f) => Good([f EXCEPT !.token = t])
             /\ Good(f) => Good([f EXCEPT !.pve = TRUE])
             /\ Fresh([f EXCEPT !.key = keys + 1])
  <2>1. keys + 1 \in Nat
    BY <1>2
  <2> QED BY <2>1, KeyEdit, SessionEdit, PveEdit
<1>4. \A t \in Token : Good([Blank EXCEPT !.token = t])
  BY <1>2, <1>3, BlankTyped
<1>5. own.token \in Token /\ mem \in Token /\ got \in Token
  BY <1>1, <1>2, Fields DEF StepsTyped
<1>6. ASSUME keys' = keys, published' \in 0 .. keys,
             Good(disk'), Good(cfg'), Good(copy'), Good(base'), Good(own')
      PROVE  FilesTyped'
  BY <1>2, <1>6 DEF FilesTyped
<1>7. ASSUME keys' = keys + 1, published' = published,
             \A f \in {disk', cfg', copy', base', own'} : Good(f) \/ Fresh(f)
      PROVE  FilesTyped'
  <2>1. keys' \in Nat /\ published' \in 0 .. keys'
    BY <1>2, <1>7
  <2>2. \A f : Good(f) \/ Fresh(f) => f \in File /\ f.key <= keys'
    BY <1>2, <1>7 DEF File
  <2> QED BY <1>7, <2>1, <2>2 DEF FilesTyped
<1>8. CASE UNCHANGED vars \/ CloseWindow
  BY <1>2, <1>6, <1>8 DEF vars, CloseWindow, server, file, agent, cli
<1>9. CASE Agent
  <2>1. CASE HealTruncates
    <3>1. /\ keys' = keys + 1 /\ published' = published
          /\ disk' = Blank /\ cfg' = [cfg EXCEPT !.key = keys + 1]
          /\ copy' = copy /\ base' = base /\ own' = own
      BY <2>1 DEF HealTruncates, Truncates, server, cli
    <3>2. Fresh(cfg')
      BY <1>2, <1>3, <3>1
    <3> HIDE DEF Good, Fresh
    <3> QED BY <1>2, <1>7, <3>1, <3>2
  <2>2. CASE Upload
    <3>1. published' \in 0 .. keys
      BY <1>2, <2>2 DEF Upload, File
    <3> QED BY <1>2, <1>6, <2>2, <3>1 DEF Upload, file, cli
  <2>3. CASE PersistRenames
    <3>1. disk' = [copy EXCEPT !.token = got]
      BY <2>3 DEF PersistRenames, Renames
    <3>2. Good(disk')
      BY <1>2, <1>3, <1>5, <3>1
    <3> QED BY <1>2, <1>6, <2>3, <3>2 DEF PersistRenames, server, cli
  <2>4. CASE \/ Launch \/ RewriteTruncates \/ RewriteWrites \/ Load
    <3>1. /\ disk' \in {disk, cfg, Blank} /\ cfg' \in {cfg, disk, Blank}
          /\ copy' \in {copy, Blank} /\ base' = base /\ own' = own
          /\ keys' = keys /\ published' = published
      BY <2>4 DEF Launch, RewriteTruncates, RewriteWrites, Load, Truncates,
                  Writes, AgentEnds, server, file, cli
    <3> QED BY <1>2, <1>6, <3>1
  <2>5. CASE Refresh \/ RefreshRefused \/ RefreshFails \/ PersistReads
    <3>1. /\ disk' = disk /\ cfg' \in {cfg, Blank} /\ copy' \in {copy, disk, Blank}
          /\ base' = base /\ own' = own
          /\ keys' = keys /\ published' = published
      BY <2>5 DEF Refresh, RefreshRefused, RefreshFails, PersistReads,
                  Rotates, AgentEnds, server, file, agent, cli
    <3> QED BY <1>2, <1>6, <3>1
  <2>6. CASE HasKey \/ HealWrites \/ UploadFails \/ Restart \/ AgentCrashes
    <3>1. /\ disk' \in {disk, cfg} /\ cfg' \in {cfg, Blank} /\ copy' \in {copy, Blank}
          /\ base' = base /\ own' = own
          /\ keys' = keys /\ published' = published
      BY <2>6 DEF HasKey, HealWrites, UploadFails, Restart, AgentCrashes, Writes,
                  AgentEnds, server, file, cli
    <3> QED BY <1>2, <1>6, <3>1
  <2> QED BY <1>9, <2>1, <2>2, <2>3, <2>4, <2>5, <2>6 DEF Agent
<1>10. CASE Operator
  <2>0. Operator => copy' = copy /\ cfg' = cfg /\ published' = published
    BY DEF Operator, Enroll, Merge, RotateLoads, NewKeyTruncates, SaveTruncates,
           SaveWrites, Panics, PostRefused, PostFails, CliStops, Rotates,
           server, agent
  <2>1. CASE NewKeyTruncates
    <3>1. /\ keys' = keys + 1 /\ disk' = Blank /\ base' = base
          /\ own' = [own EXCEPT !.key = keys + 1]
      BY <2>1 DEF NewKeyTruncates, Truncates
    <3>2. own \in File
      BY <1>2
    <3>3. Fresh(own')
      BY <1>3, <3>1, <3>2
    <3>4. Good(disk') /\ Good(cfg') /\ Good(copy') /\ Good(base')
      BY <1>2, <1>10, <2>0, <3>1
    <3> HIDE DEF Good, Fresh
    <3> QED BY <1>7, <1>10, <2>0, <3>1, <3>3, <3>4
  <2>2. CASE Enroll
    <3>1. PICK c \in Sessions : own' = [Blank EXCEPT !.token = [chain |-> c, n |-> 1]]
      BY <2>2 DEF Enroll
    <3>2. [chain |-> c, n |-> 1] \in Token
      BY SessionsTyped DEF Token
    <3>3. Good(own')
      BY <1>4, <3>1, <3>2
    <3> QED BY <1>2, <1>6, <1>10, <2>0, <2>2, <3>3 DEF Enroll, file
  <2>3. CASE Merge
    <3>1. Good(own') /\ base' = disk
      BY <1>2, <1>3, <1>5, <2>3 DEF Merge, Merged
    <3> QED BY <1>2, <1>6, <1>10, <2>0, <2>3, <3>1 DEF Merge, file
  <2>4. CASE SaveTruncates
    <3>1. own' \in {own, [own EXCEPT !.pve = TRUE]} /\ base' = base
          /\ disk' = Blank /\ keys' = keys
      BY <2>4 DEF SaveTruncates, Truncates
    <3>2. Good(own')
      BY <1>2, <1>3, <3>1
    <3> QED BY <1>2, <1>6, <1>10, <2>0, <3>1, <3>2
  <2>5. CASE RotateLoads \/ SaveWrites \/ Panics \/ PostRefused \/ PostFails
             \/ CliStops
    <3>1. /\ disk' \in {disk, own} /\ base' \in {base, disk, own, Blank}
          /\ own' \in {own, disk, Blank} /\ keys' = keys
      BY <2>5 DEF RotateLoads, SaveWrites, Panics, PostRefused, PostFails, CliStops,
                  AfterWarning, CliEnds, Writes, file
    <3> QED BY <1>2, <1>6, <1>10, <2>0, <3>1
  <2> QED BY <1>10, <2>1, <2>2, <2>3, <2>4, <2>5 DEF Operator
<1> HIDE DEF Good, Fresh
<1> QED BY <1>8, <1>9, <1>10 DEF Next

LEMMA StepsStep == TypeOK /\ [Next]_vars => StepsTyped'
<1> SUFFICES ASSUME TypeOK, [Next]_vars PROVE StepsTyped'
  OBVIOUS
<1>1. FilesTyped /\ StepsTyped /\ ServerTyped
  BY TypeParts
<1>2. /\ \A f \in {disk, cfg, copy, base, own} : f.pve \in BOOLEAN /\ f.token \in Token
      /\ Blank.pve \in BOOLEAN /\ mem \in Token /\ got \in Token /\ NoToken \in Token
      /\ configured \in BOOLEAN
  BY <1>1, Fields, BlankTyped, NoTokenTyped DEF FilesTyped, StepsTyped
<1>3. /\ rotated' \in BOOLEAN /\ spoiled' \in BOOLEAN
      /\ writing' \subseteq {"agent", "cli"}
  BY <1>1
  DEF StepsTyped, vars, server, file, agent, cli, Next, Agent, Operator, CloseWindow,
      Launch, RewriteTruncates, RewriteWrites, Load, Refresh, RefreshRefused,
      RefreshFails, PersistReads, PersistRenames, HasKey, HealTruncates,
      HealWrites, Upload, UploadFails, Restart, AgentCrashes, Enroll, Merge,
      RotateLoads, NewKeyTruncates, SaveTruncates, SaveWrites, Panics, PostRefused,
      PostFails, CliStops, Reads, Truncates, Writes, Renames
<1>4. budget' \in [Steps -> Nat]
  <2>1. ASSUME NEW s \in Steps, Spend(s) PROVE budget' \in [Steps -> Nat]
    BY <1>1, <2>1 DEF Spend, StepsTyped
  <2>2. CASE UNCHANGED budget
    BY <1>1, <2>2 DEF StepsTyped
  <2> QED
    BY <2>1, <2>2
    DEF Steps, vars, Next, Agent, Operator, CloseWindow,
      Launch, RewriteTruncates, RewriteWrites, Load, Refresh, RefreshRefused,
      RefreshFails, PersistReads, PersistRenames, HasKey, HealTruncates,
      HealWrites, Upload, UploadFails, Restart, AgentCrashes, Enroll, Merge,
      RotateLoads, NewKeyTruncates, SaveTruncates, SaveWrites, Panics, PostRefused,
      PostFails, CliStops
<1>5. mem' \in Token /\ got' \in Token
  <2>1. CASE Refresh
    <3>1. mem' = mem /\ got' = [mem EXCEPT !.n = head'[mem.chain]]
      BY <2>1 DEF Refresh
    <3>2. mem.chain \in Sessions /\ head' \in [Sessions -> Nat]
      BY <2>1, ServerStep DEF Refresh, Accepted, ServerTyped
    <3> QED BY <1>2, <3>1, <3>2, TokenEdit
  <2>2. CASE ~Refresh
    <3>1. mem' \in {mem, got, NoToken, disk.token} /\ got' \in {got, NoToken}
      BY <2>2
      DEF vars, agent, Next, Agent, Operator, CloseWindow, AgentEnds,
      Launch, RewriteTruncates, RewriteWrites, Load, RefreshRefused,
      RefreshFails, PersistReads, PersistRenames, HasKey, HealTruncates,
      HealWrites, Upload, UploadFails, Restart, AgentCrashes, Enroll, Merge,
      RotateLoads, NewKeyTruncates, SaveTruncates, SaveWrites, Panics, PostRefused,
      PostFails, CliStops
    <3> QED BY <1>2, <3>1
  <2> QED BY <2>1, <2>2
<1>6. configured' \in BOOLEAN
  <2>1. configured' = configured \/ configured' = (configured \/ disk'.pve)
    BY DEF vars, file, Next, Agent, Operator, CloseWindow, Truncates, Writes, Renames,
      Launch, RewriteTruncates, RewriteWrites, Load, Refresh, RefreshRefused,
      RefreshFails, PersistReads, PersistRenames, HasKey, HealTruncates,
      HealWrites, Upload, UploadFails, Restart, AgentCrashes, Enroll, Merge,
      RotateLoads, NewKeyTruncates, SaveTruncates, SaveWrites, Panics, PostRefused,
      PostFails, CliStops
  <2>2. disk'.pve \in BOOLEAN
    BY FilesStep, Fields DEF FilesTyped
  <2> QED BY <1>2, <2>1
<1>7. /\ stage' \in {"down", "rewrite", "rewriting", "load", "ping", "pingRead",
                     "pingSave", "heal", "healing", "upload", "serving", "read",
                     "save", "gone"}
      /\ cmd' \in {"idle", "merge", "save", "saving", "newKey", "savingKey", "post",
                   "prompt", "prompting", "rotateKey", "rotating", "rotatePost"}
  BY <1>1
  DEF StepsTyped, vars, agent, cli, Next, Agent, Operator, CloseWindow, AgentEnds,
      Launch, RewriteTruncates, RewriteWrites, Load, Refresh, RefreshRefused,
      RefreshFails, PersistReads, PersistRenames, HasKey, HealTruncates,
      HealWrites, Upload, UploadFails, Restart, AgentCrashes, Enroll, Merge,
      RotateLoads, NewKeyTruncates, SaveTruncates, SaveWrites, Panics, PostRefused,
      PostFails, CliStops, CliEnds, AfterSave, AfterWarning
<1> QED BY <1>3, <1>4, <1>5, <1>6, <1>7 DEF StepsTyped

LEMMA TypeInit == Init => TypeOK
<1> SUFFICES ASSUME Init PROVE TypeOK
  OBVIOUS
<1>1. ServerTyped
  BY SessionsTyped DEF Init, ServerTyped
<1>2. [chain |-> 1, n |-> 1] \in Token
  BY DEF Token
<1>3. disk \in File /\ disk.key = 0
  BY <1>2, BlankTyped, NoTokenTyped DEF Init, Blank, File, NoKey
<1>4. FilesTyped
  BY <1>3, BlankTyped DEF Init, FilesTyped, NoKey
<1>5. StepsTyped
  BY <1>3, Fields, BudgetAssumption, NoTokenTyped DEF Init, StepsTyped
<1> QED BY <1>1, <1>4, <1>5, TypeParts

LEMMA TypeStep == TypeOK /\ [Next]_vars => TypeOK'
<1>1. ServerTyped' /\ FilesTyped' /\ StepsTyped' => TypeOK'
  BY TypeParts, PTL
<1> QED BY <1>1, ServerStep, FilesStep, StepsStep

\* Sessions, files, keys and stages stay what they are said to be.
THEOREM TypeCorrect == Spec => []TypeOK
BY TypeInit, TypeStep, PTL DEF Spec

-------------------------------------------------------------------------------
(* The invariant.                                                          *)

LEMMA WritersStep == TypeOK /\ Writers /\ Plans /\ [Next]_vars => (Writers /\ Plans)'
<1> SUFFICES ASSUME TypeOK, Writers, Plans, [Next]_vars PROVE (Writers /\ Plans)'
  OBVIOUS
<1>1. FilesTyped
  BY TypeParts
<1>2. CASE UNCHANGED vars \/ CloseWindow
  BY <1>2 DEF vars, CloseWindow, file, agent, cli, Writers, Plans
<1>3. CASE Agent
  <2>1. UNCHANGED cli
    BY <1>3
    DEF Agent, Launch, RewriteTruncates, RewriteWrites, Load, Refresh, RefreshRefused,
        RefreshFails, PersistReads, PersistRenames, HasKey, HealTruncates,
        HealWrites, Upload, UploadFails, Restart, AgentCrashes
  <2>2. Plans'
    BY <2>1 DEF Plans, cli
  <2>3. "cli" \in writing' => "cli" \in writing
    BY <1>3
    DEF Agent, Launch, RewriteTruncates, RewriteWrites, Load, Refresh, RefreshRefused,
        RefreshFails, PersistReads, PersistRenames, HasKey, HealTruncates,
        HealWrites, Upload, UploadFails, Restart, AgentCrashes, file, Truncates,
        Writes, Renames
  <2>4. "agent" \in writing' => stage' \in {"rewriting", "healing"}
    BY <1>3
    DEF Agent, Launch, RewriteTruncates, RewriteWrites, Load, Refresh, RefreshRefused,
        RefreshFails, PersistReads, PersistRenames, HasKey, HealTruncates,
        HealWrites, Upload, UploadFails, Restart, AgentCrashes, file, Truncates,
        Writes, Renames, Writers, AgentEnds, agent
  <2> QED BY <2>1, <2>2, <2>3, <2>4 DEF Writers, cli
<1>4. CASE Operator
  <2>1. UNCHANGED agent
    BY <1>4
    DEF Operator, Enroll, Merge, RotateLoads, NewKeyTruncates, SaveTruncates,
        SaveWrites, Panics, PostRefused, PostFails, CliStops
  <2>2. "agent" \in writing' => "agent" \in writing
    BY <1>4
    DEF Operator, Enroll, Merge, RotateLoads, NewKeyTruncates, SaveTruncates,
        SaveWrites, Panics, PostRefused, PostFails, CliStops, file, Truncates, Writes
  <2>3. "cli" \in writing' => cmd' \in {"saving", "savingKey", "rotating", "prompting"}
    BY <1>4
    DEF Operator, Enroll, Merge, RotateLoads, NewKeyTruncates, SaveTruncates,
        SaveWrites, Panics, PostRefused, PostFails, CliStops, file, Truncates, Writes,
        Writers, CliEnds, AfterWarning
  <2>4. Plans'
    <3>1. CASE Merge
      BY <1>1, <3>1, Fields, SessionEdit DEF Merge, Merged, Plans, FilesTyped
    <3>2. CASE SaveWrites
      BY <3>2 DEF SaveWrites, AfterSave, CliEnds, Plans
    <3>3. CASE PostRefused \/ PostFails
      BY <3>3 DEF PostRefused, PostFails, AfterWarning, CliEnds, Plans
    <3>4. CASE ~(Merge \/ SaveWrites \/ PostRefused \/ PostFails)
      BY <1>4, <3>4
      DEF Operator, Enroll, RotateLoads, NewKeyTruncates, SaveTruncates, Panics,
          CliStops, CliEnds, Plans
    <3> QED BY <3>1, <3>2, <3>3, <3>4
  <2> QED BY <2>1, <2>2, <2>3, <2>4 DEF Writers, agent
<1> QED BY <1>2, <1>3, <1>4 DEF Next

LEMMA KeyChosenStep == TypeOK /\ KeyChosen /\ [Next]_vars => KeyChosen'
<1> SUFFICES ASSUME TypeOK, KeyChosen, [Next]_vars PROVE KeyChosen'
  OBVIOUS
<1>1. CASE HealTruncates
  <2>1. keys \in Nat /\ cfg \in File
    BY TypeParts DEF FilesTyped
  <2>2. cfg'.key = keys + 1
    BY <1>1, <2>1, KeyEdit DEF HealTruncates
  <2> QED BY <2>1, <2>2 DEF KeyChosen, NoKey
<1>2. CASE ~HealTruncates
  <2>1. \/ stage' = stage /\ cfg' = cfg
        \/ stage' \notin {"healing", "upload", "serving", "read", "save"}
        \/ cfg' = cfg /\ cfg.key # NoKey
    BY <1>2
    DEF KeyChosen, vars, agent, Next, Agent, Operator, CloseWindow, AgentEnds,
        Launch, RewriteTruncates, RewriteWrites, Load, Refresh, RefreshRefused,
        RefreshFails, PersistReads, PersistRenames, HasKey, HealWrites, Upload,
        UploadFails, Restart, AgentCrashes, Enroll, Merge, RotateLoads,
        NewKeyTruncates, SaveTruncates, SaveWrites, Panics, PostRefused,
        PostFails, CliStops
  <2> QED BY <2>1 DEF KeyChosen
<1> QED BY <1>1, <1>2

\* Nothing unspoils the file.
LEMMA StaysSpoiled == [Next]_vars /\ spoiled => spoiled'
BY DEF vars, Next, Agent, Operator, CloseWindow, Reads, Truncates, Writes, Renames,
       Launch, RewriteTruncates, RewriteWrites, Load, Refresh, RefreshRefused,
       RefreshFails, PersistReads, PersistRenames, HasKey, HealTruncates,
       HealWrites, Upload, UploadFails, Restart, AgentCrashes, Enroll, Merge,
       RotateLoads, NewKeyTruncates, SaveTruncates, SaveWrites, Panics, PostRefused,
       PostFails, CliStops

LEMMA KeptStep == KInv /\ [Next]_vars => Kept'
<1> SUFFICES ASSUME KInv, [Next]_vars, ~spoiled' PROVE Kept'
  BY DEF Kept
<1>1. /\ TypeOK /\ Writers /\ Plans /\ ~spoiled
      /\ configured => Content.pve
      /\ ~rotated => Has(published) /\ Has(cfg.key)
  BY StaysSpoiled DEF KInv, Kept
<1>2. /\ writing \subseteq {"agent", "cli"} /\ keys \in Nat
      /\ disk \in File /\ cfg \in File /\ copy \in File /\ base \in File
      /\ own \in File /\ got \in Token
  BY <1>1, TypeParts DEF FilesTyped, StepsTyped
<1>3. ASSUME Content'.key = Content.key, Content.pve => Content'.pve,
             configured' => configured \/ Content'.pve, rotated' = rotated,
             published' \in {published, cfg.key},
             cfg'.key \in {NoKey, cfg.key, Content.key}
      PROVE  Kept'
  BY <1>1, <1>3 DEF Kept, Has
<1>4. ~Torn => Content = disk
  BY DEF Torn, Content
\* Nothing is written.
<1>5. ASSUME UNCHANGED <<writing, disk, configured, rotated>>,
             published' \in {published, cfg.key},
             cfg' = cfg \/ (cfg' = Blank /\ "agent" \notin writing)
                        \/ (cfg' = disk /\ ~Torn),
             own' = own \/ "cli" \notin writing
      PROVE  Kept'
  <2>1. Content' = Content
    BY <1>2, <1>5 DEF Content, Torn
  <2>2. cfg'.key \in {NoKey, cfg.key, Content.key}
    BY <1>4, <1>5, BlankTyped
  <2> QED BY <1>3, <1>5, <2>1, <2>2
<1>6. CASE UNCHANGED vars \/ CloseWindow
  BY <1>5, <1>6 DEF vars, CloseWindow, server, file, agent, cli
<1>7. CASE Launch \/ Load
  <2>1. ~Torn
    BY <1>7 DEF Launch, Load, Reads
  <2> QED
    BY <1>5, <1>7, <2>1 DEF Launch, Load, AgentEnds, server, file, cli, Torn
<1>8. CASE Refresh \/ RefreshRefused \/ RefreshFails \/ PersistReads \/ HasKey
           \/ Upload \/ UploadFails \/ Restart
  <2>1. "agent" \notin writing \/ cfg' = cfg
    BY <1>1, <1>8 DEF Writers, Refresh, RefreshRefused, RefreshFails, PersistReads,
       HasKey, Upload, UploadFails, Restart, AgentEnds, agent
  <2> QED
    BY <1>5, <1>8, <2>1
    DEF Refresh, RefreshRefused, RefreshFails, PersistReads, HasKey, Upload,
        UploadFails, Restart, AgentEnds, Rotates, server, file, agent, cli
<1>9. CASE AgentCrashes
  <2>1. "agent" \notin writing
    BY <1>9 DEF AgentCrashes
  <2> QED BY <1>5, <1>9, <2>1 DEF AgentCrashes, AgentEnds, server, cli
<1>10. CASE \/ Enroll \/ Merge \/ RotateLoads \/ Panics \/ PostRefused \/ PostFails
            \/ CliStops
  <2>1. "cli" \notin writing
    BY <1>1, <1>10 DEF Writers, Enroll, Merge, RotateLoads, Panics, PostRefused,
       PostFails, CliStops
  <2> QED
    BY <1>5, <1>10, <2>1
    DEF Enroll, Merge, RotateLoads, Panics, PostRefused, PostFails, CliStops,
        Rotates, server, file, agent
\* The file is truncated: what it held was what the writer had read.
<1>11. ASSUME NEW p \in {"agent", "cli"}, NEW f \in File, Truncates(p, f)
       PROVE  /\ ~Torn /\ Content = disk /\ disk.key = f.key /\ disk.pve = f.pve
              /\ configured' = configured /\ writing' = {p}
  BY <1>4, <1>11 DEF Truncates, Same, Torn
<1>12. CASE RewriteTruncates
  <2>1. Truncates("agent", cfg) /\ cfg' = cfg /\ rotated' = rotated
        /\ published' = published
    BY <1>12 DEF RewriteTruncates, server
  <2>2. Content' = cfg
    BY <1>2, <1>11, <2>1 DEF Content
  <2> QED BY <1>2, <1>3, <1>11, <2>1, <2>2
<1>13. CASE HealTruncates
  <2>1. Truncates("agent", cfg) /\ cfg.key = NoKey /\ rotated' = rotated
        /\ published' = published /\ cfg' = [cfg EXCEPT !.key = keys + 1]
    BY <1>13 DEF HealTruncates, server
  <2>2. Content' = cfg' /\ cfg'.pve = cfg.pve
    BY <1>2, <1>11, <2>1, KeyEdit DEF Content
  <2>3. Content.key = NoKey /\ Content.pve = cfg.pve /\ configured' = configured
    BY <1>2, <1>11, <2>1
  <2>4. ~rotated' => published' = NoKey
    BY <1>1, <2>1, <2>3 DEF Has
  <2> QED BY <1>1, <2>2, <2>3, <2>4 DEF Kept, Has
<1>14. CASE NewKeyTruncates
  <2>1. Truncates("cli", base) /\ cfg' = cfg /\ published' = published
        /\ own' = [own EXCEPT !.key = keys + 1] /\ own = base
        /\ (rotated' \/ own.key = NoKey) /\ (rotated => rotated')
    BY <1>1, <1>14 DEF NewKeyTruncates, Plans, server, agent
  <2>2. Content' = own' /\ own'.pve = own.pve
    BY <1>2, <1>11, <2>1, KeyEdit DEF Content
  <2>3. Content.key = own.key /\ Content.pve = own.pve /\ configured' = configured
    BY <1>2, <1>11, <2>1
  <2>4. ~rotated' => published' = NoKey /\ cfg'.key = NoKey
    BY <1>1, <2>1, <2>3 DEF Has
  <2> QED BY <1>1, <2>2, <2>3, <2>4 DEF Kept, Has
<1>15. CASE SaveTruncates
  <2>1. Truncates("cli", base) /\ cfg' = cfg /\ published' = published
        /\ rotated' = rotated
        /\ own.key = base.key /\ own.pve = base.pve
        /\ (own' = own \/ own' = [own EXCEPT !.pve = TRUE])
    BY <1>1, <1>15 DEF SaveTruncates, Plans, server, agent
  <2>2. Content' = own' /\ own'.key = own.key /\ (own.pve => own'.pve)
    BY <1>2, <1>11, <2>1, PveEdit DEF Content
  <2> QED BY <1>2, <1>3, <1>11, <2>1, <2>2
\* The file is written: it has only been waiting for that.
<1>16. ASSUME NEW p \in {"agent", "cli"}, NEW f \in File, Writes(p, f)
       PROVE  writing = {p} /\ writing' = {} /\ disk' = f
              /\ configured' = (configured \/ disk'.pve)
  BY <1>16 DEF Writes
<1>17. CASE RewriteWrites \/ HealWrites
  <2>1. Writes("agent", cfg) /\ cfg' = cfg /\ published' = published
        /\ rotated' = rotated
    BY <1>17 DEF RewriteWrites, HealWrites, server
  <2>2. Content = cfg /\ Content' = disk' /\ disk' = cfg
    BY <1>2, <1>16, <2>1 DEF Content
  <2> QED BY <1>2, <1>3, <1>16, <2>1, <2>2
<1>18. CASE SaveWrites
  <2>1. Writes("cli", own) /\ cfg' = cfg /\ published' = published
        /\ rotated' = rotated
    BY <1>18 DEF SaveWrites, server, agent
  <2>2. Content = own /\ Content' = disk' /\ disk' = own
    BY <1>2, <1>16, <2>1 DEF Content
  <2> QED BY <1>2, <1>3, <1>16, <2>1, <2>2
\* The file is replaced by one that differs in the token.
<1>19. CASE PersistRenames
  <2>1. ~Torn /\ Same(copy) /\ disk' = [copy EXCEPT !.token = got] /\ writing' = {}
        /\ configured' = (configured \/ disk'.pve) /\ cfg' = cfg
        /\ published' = published /\ rotated' = rotated
    BY <1>19 DEF PersistRenames, Renames, server
  <2>2. Content' = disk' /\ disk'.key = disk.key /\ disk'.pve = disk.pve
    BY <1>2, <2>1, SessionEdit DEF Content, Same
  <2> QED BY <1>3, <1>4, <2>1, <2>2
<1> QED
  BY <1>6, <1>7, <1>8, <1>9, <1>10, <1>12, <1>13, <1>14, <1>15, <1>17, <1>18, <1>19
  DEF Next, Agent, Operator

LEMMA Invariance == Spec => []KInv
<1>1. Init => KInv
  BY TypeInit, BlankTyped
  DEF Init, KInv, Writers, Plans, KeyChosen, Kept, Has, Content, NoKey
<1>2. KInv /\ [Next]_vars => KInv'
  BY WritersStep, KeyChosenStep, KeptStep, TypeStep DEF KInv
<1> QED BY <1>1, <1>2, PTL DEF Spec

\* The published key stays the private key of the file and of the serving agent,
\* through starts, re-enrolments, saves of a rotated token, lost calls and crashes.
THEOREM KeySafety == Spec => []PublishedIsHeld
<1>1. KInv => PublishedIsHeld
  BY DEF KInv, Kept, KeyChosen, Has, Content, Torn, PublishedIsHeld
<1> QED BY <1>1, Invariance, PTL

\* Proxmox credentials, once in the file, survive every command and every start.
THEOREM SettingsSafety == Spec => []SettingsSurvive
<1>1. KInv => SettingsSurvive
  BY DEF KInv, Kept, Content, Torn, SettingsSurvive
<1> QED BY <1>1, Invariance, PTL

-------------------------------------------------------------------------------
(* The processes implement the store.                                      *)

\* Every step that spoils nothing is one of the store, or leaves it alone.
Unmoved == /\ Content'.key = Content.key /\ Content'.pve = Content.pve
           /\ UNCHANGED <<keys, published, rotated, spoiled>>

\* A file that is truncated held what its writer had read of it, and will hold
\* what the writer has in mind.
LEMMA TruncatesWhole ==
  ASSUME TypeOK, ~spoiled', NEW p \in {"agent", "cli"}, NEW f \in File, Truncates(p, f)
  PROVE  /\ Content = disk /\ disk.key = f.key /\ disk.pve = f.pve
         /\ Content' = IF p = "agent" THEN cfg' ELSE own'
BY DEF TypeOK, Truncates, Same, Torn, Content

\* A file that is written has only been waiting for that.
LEMMA WritesWhole ==
  ASSUME ~spoiled', NEW p \in {"agent", "cli"}, NEW f, Writes(p, f),
         f = IF p = "agent" THEN cfg ELSE own
  PROVE  Content' = Content
<1>1. writing = {p} /\ writing' = {} /\ disk' = f
  BY DEF Writes
<1>2. Content = f
  BY <1>1 DEF Content
<1> QED BY <1>1, <1>2 DEF Content

LEMMA AgentImplements ==
  ASSUME KInv, ~spoiled', spoiled' = spoiled, Agent
  PROVE  Unmoved \/ Store!KNext
<1>1. /\ TypeOK /\ Writers /\ ~spoiled
      /\ cfg \in File /\ copy \in File /\ disk \in File /\ own \in File /\ got \in Token
      /\ published \in 0 .. keys /\ keys \in Nat
  BY TypeParts DEF KInv, FilesTyped, StepsTyped
<1>2. ASSUME UNCHANGED <<writing, disk, own>>, cfg' = cfg \/ "agent" \notin writing
      PROVE  Content' = Content
  BY <1>2 DEF Content
<1>3. CASE \/ Launch \/ Load \/ Refresh \/ RefreshRefused \/ RefreshFails
           \/ PersistReads \/ HasKey \/ UploadFails \/ Restart
  <2>1. cfg' = cfg \/ "agent" \notin writing
    BY <1>1, <1>3 DEF Writers, Launch, Load, Refresh, RefreshRefused, RefreshFails,
       PersistReads, HasKey, UploadFails, Restart, AgentEnds, agent
  <2>2. UNCHANGED <<writing, disk, own, keys, published, rotated>>
    BY <1>3 DEF Launch, Load, Refresh, RefreshRefused, RefreshFails, PersistReads,
       HasKey, UploadFails, Restart, Rotates, server, file, cli
  <2> QED BY <1>2, <2>1, <2>2 DEF Unmoved
<1>4. CASE AgentCrashes
  <2>1. "agent" \notin writing /\ writing' = writing
    BY <1>4 DEF AgentCrashes
  <2>2. UNCHANGED <<disk, own, keys, published, rotated>>
    BY <1>4 DEF AgentCrashes, server, cli
  <2> QED BY <1>2, <2>1, <2>2 DEF Unmoved
<1>5. CASE Upload
  <2>1. /\ published' = cfg.key /\ UNCHANGED <<writing, disk, own, cfg, keys, rotated>>
        /\ stage = "upload"
    BY <1>5 DEF Upload, file, cli
  <2>2. cfg.key # NoKey /\ cfg.key \in 0 .. keys
    BY <1>1, <2>1 DEF KInv, KeyChosen, TypeOK
  <2>3. rotated \/ published' = Content.key
    BY <1>1, <2>1, <2>2 DEF KInv, Kept, Has
  <2>4. Content' = Content /\ published' \in 1 .. keys
    BY <1>1, <1>2, <2>1, <2>2 DEF NoKey
  <2> QED BY <2>1, <2>3, <2>4 DEF Store!KNext, Store!Publish
<1>6. CASE RewriteTruncates
  <2>1. Truncates("agent", cfg) /\ cfg' = cfg /\ UNCHANGED <<keys, published, rotated>>
    BY <1>6 DEF RewriteTruncates, server
  <2> QED BY <1>1, <2>1, TruncatesWhole DEF Unmoved
<1>7. CASE HealTruncates
  <2>1. Truncates("agent", cfg) /\ cfg.key = NoKey /\ UNCHANGED <<published, rotated>>
        /\ keys' = keys + 1 /\ cfg' = [cfg EXCEPT !.key = keys']
    BY <1>7 DEF HealTruncates, server
  <2>2. Content' = cfg' /\ Content.key = NoKey /\ Content.pve = cfg.pve
    BY <1>1, <2>1, TruncatesWhole
  <2>3. cfg'.key = keys' /\ cfg'.pve = cfg.pve
    BY <1>1, <2>1, KeyEdit
  <2> QED BY <2>1, <2>2, <2>3 DEF Store!KNext, Store!Generate, NoKey
<1>8. CASE RewriteWrites \/ HealWrites
  <2>1. Writes("agent", cfg) /\ UNCHANGED <<keys, published, rotated>>
    BY <1>8 DEF RewriteWrites, HealWrites, server
  <2> QED BY <2>1, WritesWhole DEF Unmoved
<1>9. CASE PersistRenames
  <2>1. ~Torn /\ Same(copy) /\ disk' = [copy EXCEPT !.token = got] /\ writing' = {}
        /\ UNCHANGED <<keys, published, rotated>>
    BY <1>9 DEF PersistRenames, Renames, server
  <2>2. Content = disk /\ Content' = disk'
    BY <2>1 DEF Torn, Content
  <2>3. disk'.key = disk.key /\ disk'.pve = disk.pve
    BY <1>1, <2>1, SessionEdit DEF Same
  <2> QED BY <2>1, <2>2, <2>3 DEF Unmoved
<1> QED BY <1>3, <1>4, <1>5, <1>6, <1>7, <1>8, <1>9 DEF Agent

LEMMA OperatorImplements ==
  ASSUME KInv, ~spoiled', spoiled' = spoiled, Operator
  PROVE  Unmoved \/ Store!KNext
<1>1. TypeOK /\ Writers /\ Plans /\ own \in File /\ base \in File /\ keys \in Nat
  BY TypeParts DEF KInv, FilesTyped
<1>2. CASE \/ Enroll \/ Merge \/ RotateLoads \/ Panics \/ PostRefused \/ PostFails
           \/ CliStops
  <2>1. "cli" \notin writing
    BY <1>1, <1>2 DEF Writers, Enroll, Merge, RotateLoads, Panics, PostRefused,
       PostFails, CliStops
  <2>2. UNCHANGED <<writing, disk, cfg, keys, published, rotated>>
    BY <1>2, <2>1 DEF Enroll, Merge, RotateLoads, Panics, PostRefused, PostFails,
       CliStops, Rotates, server, file, agent
  <2> QED BY <2>1, <2>2 DEF Content, Unmoved
<1>3. CASE NewKeyTruncates
  <2>1. /\ Truncates("cli", base) /\ own = base /\ UNCHANGED published
        /\ keys' = keys + 1 /\ own' = [own EXCEPT !.key = keys']
        /\ rotated' = (rotated \/ cmd = "rotateKey")
        /\ cmd = "newKey" => own.key = NoKey
        /\ cmd \in {"newKey", "rotateKey"}
    BY <1>1, <1>3 DEF NewKeyTruncates, Plans, server
  <2>2. Content' = own' /\ Content.key = own.key /\ Content.pve = own.pve
    BY <1>1, <2>1, TruncatesWhole
  <2>3. own'.key = keys' /\ own'.pve = own.pve
    BY <1>1, <2>1, KeyEdit
  <2>4. CASE cmd = "newKey"
    <3>1. rotated' = rotated
      BY <1>1, <2>1, <2>4 DEF TypeOK
    <3> QED BY <2>1, <2>2, <2>3, <2>4, <3>1 DEF Store!KNext, Store!Generate, NoKey
  <2>5. CASE cmd = "rotateKey"
    BY <2>1, <2>2, <2>3, <2>5 DEF Store!KNext, Store!Rotate
  <2> QED BY <2>1, <2>4, <2>5
<1>4. CASE SaveTruncates
  <2>1. /\ Truncates("cli", base) /\ UNCHANGED <<keys, published, rotated>>
        /\ own.key = base.key /\ own.pve = base.pve
        /\ own' = own \/ own' = [own EXCEPT !.pve = TRUE]
    BY <1>1, <1>4 DEF SaveTruncates, Plans, server
  <2>2. Content' = own' /\ Content.key = own.key /\ Content.pve = own.pve
    BY <1>1, <2>1, TruncatesWhole
  <2>3. own'.key = own.key /\ (own'.pve = own.pve \/ own'.pve = TRUE)
    BY <1>1, <2>1, PveEdit
  <2> QED BY <2>1, <2>2, <2>3 DEF Unmoved, Store!KNext, Store!Configure
<1>5. CASE SaveWrites
  <2>1. Writes("cli", own) /\ UNCHANGED <<keys, published, rotated>>
    BY <1>5 DEF SaveWrites, server
  <2> QED BY <2>1, WritesWhole DEF Unmoved
<1> QED BY <1>2, <1>3, <1>4, <1>5 DEF Operator

LEMMA StepImplements == KInv /\ [Next]_vars => [Store!KNext]_(Store!kvars)
<1> SUFFICES ASSUME KInv, [Next]_vars PROVE Unmoved \/ Store!KNext
  BY DEF Unmoved, Store!kvars
<1>1. CASE spoiled'
  <2>1. spoiled' = TRUE
    BY <1>1, TypeStep DEF KInv, TypeOK
  <2> QED BY <2>1 DEF Store!KNext, Store!Spoil
<1>2. CASE ~spoiled'
  <2>1. spoiled' = spoiled
    BY <1>2, StaysSpoiled, TypeStep DEF KInv, TypeOK
  <2>2. CASE UNCHANGED vars \/ CloseWindow
    BY <2>2 DEF vars, CloseWindow, server, file, agent, cli, Content, Unmoved
  <2> QED BY <1>2, <2>1, <2>2, AgentImplements, OperatorImplements DEF Next
<1> QED BY <1>1, <1>2

\* However the agent and the operator's commands interleave and die, they keep
\* one store of a key and credentials between them.
THEOREM Implementation == Spec => StoreSpec
<1>1. Init => Store!KInit
  BY BlankTyped DEF Init, Store!KInit, Content, Blank, NoKey, NoToken
<1>2. KInv /\ [Next]_vars => [Store!KNext]_(Store!kvars)
  BY StepImplements
<1> QED BY <1>1, <1>2, Invariance, PTL DEF Spec, StoreSpec, Store!KSpec
===============================================================================
