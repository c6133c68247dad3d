-------------------------- MODULE RemoteConfigProofs --------------------------
(***************************************************************************)
(* Theorems about RemoteConfig, for any number of configurations, any kill *)
(* switches among them, any failed writes and any budget of other faults. *)
(***************************************************************************)
EXTENDS RemoteConfig, TLAPS

Stages == {"down", "loading", "gate", "running"}
PCs    == {"idle", "fetch"} \cup Writing

\* A process has a file open from Open to Rename, and the agent is in fetchLive
\* or writeCache as long as it loads.
Position ==
  /\ \A p \in Processes : fd[p] # NoInode <=> pc[p] \in {"write", "rename"}
  /\ stage = "loading" => pc["agent"] # "idle"
  /\ stage \in {"down", "gate"} => pc["agent"] = "idle"

\* Configurations come from the endpoint, in the order it published them.
Published == known <= live /\ \A p \in Processes : got[p] <= live

\* Until two processes have met, one writes at a time; the cache is a file of
\* its own, whole and no older than any that was completed; and what is written
\* beside it is at least as new.
Alone ==
  /\ \A p \in Processes : pc[p] \in Writing => pc[Other(p)] \notin Writing
  /\ known # BakedIn => name.cache # NoInode
  /\ name.cache # NoInode => /\ inode[name.cache] \in known .. MaxVersion
                             /\ name.tmp # name.cache
                             /\ \A p \in Processes : fd[p] # name.cache
  /\ \A p \in Processes :
       /\ pc[p] \in Writing => known <= got[p]
       /\ pc[p] \in {"write", "rename"} => name.tmp = fd[p]
       /\ pc[p] = "rename" => inode[fd[p]] = got[p]

Inv == Position /\ Published /\ (~mixed => Alone)

-------------------------------------------------------------------------------
(* Types.                                                                  *)

LEMMA Numbers ==
  /\ MaxVersion \in Nat /\ BakedIn \in Versions /\ Partial \notin Versions
  /\ Partial = MaxVersion + 1 /\ 1 .. MaxVersion \subseteq Versions
BY VersionAssumption DEF BakedIn, Versions, Partial

LEMMA OtherIs == \A p \in Processes : /\ Other(p) \in Processes /\ Other(p) # p
                                      /\ \A q \in Processes : q = p \/ q = Other(p)
BY DEF Processes, Other

LEMMA SpendTyped ==
  ASSUME budget \in [Steps -> Nat], NEW step \in Steps, Spend(step)
  PROVE  budget' \in [Steps -> Nat]
BY DEF Spend

LEMMA CachedTyped == TypeOK => Cached \in Versions
BY Numbers DEF TypeOK, Cached, NoInode, Inodes

LEMMA ReturnsTyped ==
  ASSUME TypeOK, NEW p \in Processes, NEW v \in Versions, Returns(p, v)
  PROVE  /\ pc' \in [Processes -> PCs] /\ got' \in [Processes -> Versions]
         /\ stage' \in Stages /\ used' \in Versions
BY Numbers DEF TypeOK, Returns, Goto, PCs, Stages

\* Of three inodes at most two are taken by the cache and the other process.
LEMMA FreeInode ==
  ASSUME TypeOK, NEW p \in Processes, fd[p] = NoInode
  PROVE  /\ TmpInode \in Inodes
         /\ name.tmp # NoInode => TmpInode = name.tmp
         /\ name.tmp = NoInode =>
              TmpInode # name.cache /\ \A q \in Processes : TmpInode # fd[q]
<1>1. CASE name.tmp # NoInode
  BY <1>1 DEF TmpInode, TypeOK
<1>2. CASE name.tmp = NoInode
  <2> DEFINE Free(i) == \A q \in Processes : i # name.cache /\ i # fd[q]
  <2>1. fd[Other(p)] \in Inodes \cup {NoInode} /\ name.cache \in Inodes \cup {NoInode}
    BY OtherIs DEF TypeOK
  <2>2. PICK i \in Inodes : i # name.cache /\ i # fd[Other(p)]
    <3>1. 1 \in Inodes /\ 2 \in Inodes /\ 3 \in Inodes
      BY DEF Inodes
    <3> QED BY <3>1
  <2>3. i # fd[p]
    BY DEF Inodes, NoInode
  <2>4. Free(i)
    BY <2>2, <2>3, OtherIs
  <2> QED BY <1>2, <2>4 DEF TmpInode
<1> QED BY <1>1, <1>2

LEMMA InitTyped == Init => TypeOK
<1> SUFFICES ASSUME Init PROVE TypeOK
  OBVIOUS
<1>1. 0 \in Versions /\ inode \in [Inodes -> Versions \cup {Partial}]
  BY Numbers DEF Init, BakedIn
<1>2. name \in [cache : Inodes \cup {NoInode}, tmp : Inodes \cup {NoInode}]
  BY DEF Init
<1>3. pc \in [Processes -> {"idle", "fetch"} \cup Writing]
  BY DEF Init
<1> QED BY <1>1, <1>2, <1>3, BudgetAssumption DEF Init, TypeOK, BakedIn

LEMMA StepTyped ==
  ASSUME TypeOK, Position, [Next]_vars
  PROVE  TypeOK'
<1> USE Numbers DEF endpoint, files
<1>1. CASE UNCHANGED vars
  BY <1>1 DEF TypeOK, vars
<1>2. CASE Publish
  BY <1>2 DEF Publish, TypeOK, Versions
<1>3. CASE Outage \/ ComesBack
  <2>1. budget' \in [Steps -> Nat]
    BY <1>3, SpendTyped DEF Outage, ComesBack, TypeOK, Steps
  <2> QED BY <1>3, <2>1 DEF Outage, ComesBack, TypeOK
<1>4. CASE Launch \/ RefreshTick \/ Gate
  BY <1>4 DEF Launch, RefreshTick, Gate, Goto, TypeOK
<1>5. CASE Command
  <2>1. budget' \in [Steps -> Nat]
    BY <1>5, SpendTyped DEF Command, TypeOK, Steps
  <2> QED BY <1>5, <2>1 DEF Command, Goto, TypeOK
<1>6. ASSUME NEW p \in Processes, FetchSucceeds(p) PROVE TypeOK'
  <2>1. pc' \in [Processes -> PCs] /\ got' \in [Processes -> Versions]
    BY <1>6 DEF FetchSucceeds, AfterFetch, Goto, TypeOK, PCs, Writing
  <2>2. mixed' \in BOOLEAN
    BY <1>6 DEF FetchSucceeds, TypeOK
  <2> QED BY <1>6, <2>1, <2>2 DEF FetchSucceeds, TypeOK, PCs
<1>7. ASSUME NEW p \in Processes, FetchFails(p) PROVE TypeOK'
  <2>1. Returns(p, Cached)
    BY <1>7 DEF FetchFails
  <2> QED BY <1>7, <2>1, CachedTyped, ReturnsTyped DEF FetchFails, TypeOK, PCs, Stages
<1>8. ASSUME NEW p \in Processes, Open(p) PROVE TypeOK'
  <2>1. TmpInode \in Inodes
    BY <1>8, FreeInode DEF Open, Position
  <2>2. pc' \in [Processes -> PCs] /\ fd' \in [Processes -> Inodes \cup {NoInode}]
        /\ name' \in [cache : Inodes \cup {NoInode}, tmp : Inodes \cup {NoInode}]
        /\ inode' \in [Inodes -> Versions \cup {Partial}]
    BY <1>8, <2>1 DEF Open, OpenTmp, Goto, TypeOK, PCs, Writing
  <2> QED BY <1>8, <2>2 DEF Open, TypeOK, PCs
<1>9. ASSUME NEW p \in Processes, Write(p) PROVE TypeOK'
  <2>1. pc' \in [Processes -> PCs] /\ inode' \in [Inodes -> Versions \cup {Partial}]
    BY <1>9 DEF Write, Goto, TypeOK, PCs, Writing
  <2> QED BY <1>9, <2>1 DEF Write, TypeOK, PCs
<1>10. ASSUME NEW p \in Processes, Rename(p) PROVE TypeOK'
  <2>1. Returns(p, got[p]) /\ got[p] \in Versions
    BY <1>10 DEF Rename, TypeOK
  <2>2. /\ name' \in [cache : Inodes \cup {NoInode}, tmp : Inodes \cup {NoInode}]
        /\ inode' \in [Inodes -> Versions \cup {Partial}]
        /\ fd' \in [Processes -> Inodes \cup {NoInode}] /\ known' \in Versions
    BY <1>10, <2>1 DEF Rename, TypeOK
  <2> QED BY <1>10, <2>1, <2>2, ReturnsTyped DEF Rename, TypeOK, PCs, Stages
<1>11. ASSUME NEW p \in Processes, WriteCacheFails(p) PROVE TypeOK'
  <2>1. Returns(p, got[p]) /\ got[p] \in Versions
    BY <1>11 DEF WriteCacheFails, TypeOK
  <2>2. budget' \in [Steps -> Nat] /\ fd' \in [Processes -> Inodes \cup {NoInode}]
    BY <1>11 DEF WriteCacheFails, TypeOK
  <2> QED BY <1>11, <2>1, <2>2, ReturnsTyped DEF WriteCacheFails, TypeOK, PCs, Stages
<1>12. ASSUME NEW p \in Processes, Dies(p) PROVE TypeOK'
  <2>1. budget' \in [Steps -> Nat] /\ fd' \in [Processes -> Inodes \cup {NoInode}]
    BY <1>12, SpendTyped DEF Dies, TypeOK, Steps
  <2> QED BY <1>12, <2>1 DEF Dies, Goto, TypeOK
<1> QED
  BY <1>1, <1>2, <1>3, <1>4, <1>5, <1>6, <1>7, <1>8, <1>9, <1>10, <1>11, <1>12
  DEF Next, Fetch

-------------------------------------------------------------------------------
(* Positions and numbers.                                                  *)

LEMMA InitPosition == Init => Position /\ Published
BY DEF Init, Position, Published, NoInode, BakedIn, Processes

LEMMA StepPosition ==
  ASSUME TypeOK, Position, [Next]_vars
  PROVE  Position'
<1> USE DEF endpoint, files
<1>1. CASE UNCHANGED <<stage, pc, fd>>
  BY <1>1 DEF Position
<1>2. CASE Launch \/ RefreshTick \/ Gate \/ Command
  BY <1>2 DEF Launch, RefreshTick, Gate, Command, Goto, Position, TypeOK, Processes
<1>3. ASSUME NEW p \in Processes, FetchSucceeds(p) \/ Write(p) PROVE Position'
  BY <1>3 DEF FetchSucceeds, Write, AfterFetch, Goto, Position, TypeOK, Processes
<1>4. ASSUME NEW p \in Processes, Open(p) PROVE Position'
  <2>1. TmpInode \in Inodes /\ TmpInode # NoInode
    BY <1>4, FreeInode DEF Open, Position, Inodes, NoInode
  <2> QED BY <1>4, <2>1 DEF Open, OpenTmp, Goto, Position, TypeOK
<1>5. ASSUME NEW p \in Processes, NEW v, Returns(p, v), pc[p] # "idle",
             fd' = [fd EXCEPT ![p] = NoInode] \/ (fd' = fd /\ fd[p] = NoInode)
      PROVE  Position'
  <2>1. pc' = [pc EXCEPT ![p] = "idle"] /\ \A q \in Processes : q # p => fd'[q] = fd[q]
    BY <1>5 DEF Returns, Goto, TypeOK
  <2>2. fd'[p] = NoInode /\ pc'[p] = "idle"
    BY <1>5, <2>1 DEF TypeOK
  <2>3. CASE p = "agent"
    BY <1>5, <2>1, <2>2, <2>3 DEF Returns, Position, TypeOK
  <2>4. CASE p # "agent"
    BY <1>5, <2>1, <2>2, <2>4 DEF Returns, Position, TypeOK, Processes
  <2> QED BY <2>3, <2>4
<1>6. ASSUME NEW p \in Processes, FetchFails(p) \/ Rename(p) \/ WriteCacheFails(p)
      PROVE  Position'
  <2>1. \E v : Returns(p, v)
    BY <1>6 DEF FetchFails, Rename, WriteCacheFails
  <2>2. pc[p] # "idle"
    BY <1>6 DEF FetchFails, Rename, WriteCacheFails, Writing
  <2>3. fd' = [fd EXCEPT ![p] = NoInode] \/ (fd' = fd /\ fd[p] = NoInode)
    BY <1>6 DEF FetchFails, Rename, WriteCacheFails, Position
  <2> QED BY <1>5, <2>1, <2>2, <2>3
<1>7. ASSUME NEW p \in Processes, Dies(p) PROVE Position'
  BY <1>7 DEF Dies, Goto, Position, TypeOK, Processes
<1>8. CASE UNCHANGED vars \/ Publish \/ Outage \/ ComesBack
  BY <1>1, <1>8 DEF vars, Publish, Outage, ComesBack
<1> QED BY <1>2, <1>3, <1>4, <1>6, <1>7, <1>8 DEF Next, Fetch

LEMMA StepPublished ==
  ASSUME TypeOK, Published, [Next]_vars
  PROVE  Published'
<1> USE DEF endpoint, files
<1>1. live \in Nat /\ known \in Nat /\ \A p \in Processes : got[p] \in Nat
  BY Numbers DEF TypeOK, Versions
<1>2. CASE Publish
  BY <1>1, <1>2 DEF Publish, Published
<1>3. live' = live \/ Publish
  BY DEF Next, Fetch, vars, Outage, ComesBack, Launch, RefreshTick, Gate, Command,
         FetchSucceeds, FetchFails, Open, Write, Rename, WriteCacheFails, Dies
<1>4. \A p \in Processes : got'[p] \in {got[p], live, BakedIn}
  BY DEF Next, Fetch, vars, Publish, Outage, ComesBack, Launch, RefreshTick, Gate,
         Command, FetchSucceeds, FetchFails, Open, Write, Rename, WriteCacheFails, Dies,
         Returns, TypeOK
<1>5. known' = known \/ \E p \in Processes : known' = got[p]
  BY DEF Next, Fetch, vars, Publish, Outage, ComesBack, Launch, RefreshTick, Gate,
         Command, FetchSucceeds, FetchFails, Open, Write, Rename, WriteCacheFails, Dies
<1> QED BY <1>1, <1>2, <1>3, <1>4, <1>5 DEF Published, BakedIn

-------------------------------------------------------------------------------
(* The cache, until two processes have met.                                *)

LEMMA InitAlone == Init => Alone
BY DEF Init, Alone, NoInode, BakedIn, Writing

LEMMA CachedIsKnown ==
  ASSUME TypeOK, Alone
  PROVE  known <= Cached
<1>1. CASE name.cache = NoInode
  BY <1>1 DEF Alone, Cached, BakedIn
<1>2. CASE name.cache # NoInode
  <2>1. inode[name.cache] \in known .. MaxVersion /\ known \in Nat
    BY <1>2 DEF Alone, TypeOK, Versions
  <2>2. inode[name.cache] # Partial
    BY <2>1, Numbers DEF Versions
  <2> QED BY <1>2, <2>1, <2>2 DEF Cached
<1> QED BY <1>1, <1>2

\* A process that leaves writeCache has nothing open, and the rest stays.
LEMMA LeavesAlone ==
  ASSUME TypeOK, Alone, NEW p \in Processes, UNCHANGED <<files, known>>,
         \A q \in Processes : q # p => pc'[q] = pc[q] /\ got'[q] = got[q],
         pc'[p] \in {"idle", "fetch"},
         fd' = fd \/ fd' = [fd EXCEPT ![p] = NoInode]
  PROVE  Alone'
<1>1. /\ UNCHANGED <<inode, name, known>>
      /\ \A q \in Processes : pc'[q] \in Writing => /\ q # p /\ pc[q] \in Writing
                                                    /\ pc'[q] = pc[q] /\ got'[q] = got[q]
                                                    /\ fd'[q] = fd[q]
  BY DEF files, Writing, TypeOK
<1>2. \A q \in Processes : fd'[q] = fd[q] \/ fd'[q] = NoInode
  BY DEF TypeOK
<1>3. \A q \in Processes : pc'[q] \in Writing => pc'[Other(q)] \notin Writing
  BY <1>1, OtherIs DEF Alone
<1> QED BY <1>1, <1>2, <1>3 DEF Alone, Writing

LEMMA RenameAlone ==
  ASSUME TypeOK, Position, Alone, NEW p \in Processes, Rename(p)
  PROVE  Alone' /\ known' = got[p]
<1> DEFINE i == fd[p]
<1>1. /\ pc[p] = "rename" /\ p # Other(p) /\ Other(p) \in Processes
      /\ pc[Other(p)] \notin Writing /\ fd[Other(p)] = NoInode
  BY OtherIs DEF Rename, Position, Alone, Writing
<1>2. i \in Inodes /\ i # NoInode /\ name.tmp = i /\ inode[i] = got[p]
  BY <1>1 DEF Position, Alone, TypeOK
<1>3. known <= got[p] /\ known \in Nat /\ got[p] \in Versions /\ got[p] \in Nat
  BY <1>1 DEF Alone, Writing, TypeOK, Versions
<1>4. known' = got[p]
  BY <1>3 DEF Rename
<1>5. name' = [cache |-> i, tmp |-> NoInode] /\ fd' = [fd EXCEPT ![p] = NoInode]
      /\ pc' = [pc EXCEPT ![p] = "idle"]
  BY <1>2 DEF Rename, Returns, Goto
<1>6. inode'[i] = got[p]
  BY <1>2, <1>5 DEF Rename, Referenced
<1>7. \A q \in Processes : fd'[q] = NoInode /\ pc'[q] \notin Writing
  BY <1>1, <1>5, OtherIs DEF TypeOK, Writing
<1>8. got[p] \in got[p] .. MaxVersion
  BY <1>3, Numbers DEF Versions
<1> QED BY <1>2, <1>4, <1>5, <1>6, <1>7, <1>8, OtherIs DEF Alone, Writing

LEMMA StepAlone ==
  ASSUME TypeOK, Inv, ~mixed, ~mixed', [Next]_vars
  PROVE  Alone'
<1> USE DEF endpoint, files
<1>0. Alone /\ Position /\ Published
  BY DEF Inv
<1>1. CASE UNCHANGED <<inode, name, known, pc, got, fd>>
  BY <1>0, <1>1 DEF Alone
<1>2. CASE Launch \/ RefreshTick \/ Command
  <2>1. PICK p \in Processes : /\ pc' = [pc EXCEPT ![p] = "fetch"]
                               /\ UNCHANGED <<inode, name, known, got, fd>>
    BY <1>2 DEF Launch, RefreshTick, Command, Goto, Processes
  <2>2. pc'[p] = "fetch" /\ \A q \in Processes : q # p => pc'[q] = pc[q]
    BY <2>1 DEF TypeOK
  <2> QED BY <1>0, <2>1, <2>2, LeavesAlone
<1>3. ASSUME NEW p \in Processes, FetchSucceeds(p) PROVE Alone'
  <2>1. pc[p] = "fetch" /\ pc[Other(p)] \notin Writing /\ got' = [got EXCEPT ![p] = live]
        /\ pc' = [pc EXCEPT ![p] = "open"] /\ UNCHANGED <<inode, name, known, fd>>
    BY <1>3 DEF FetchSucceeds, AfterFetch, Goto
  <2>2. known <= live
    BY <1>0 DEF Published
  <2>3. /\ pc'[p] = "open" /\ got'[p] = live
        /\ \A q \in Processes : q # p => pc'[q] = pc[q] /\ pc[q] \notin Writing
    BY <2>1, OtherIs DEF TypeOK
  <2>4. \A q \in Processes : pc'[q] \in Writing => q = p
    BY <2>3
  <2> QED BY <1>0, <2>1, <2>2, <2>3, <2>4, OtherIs DEF Alone, Writing
<1>4. ASSUME NEW p \in Processes, Open(p) PROVE Alone'
  <2> DEFINE i == TmpInode
  <2>1. /\ pc[p] = "open" /\ pc' = [pc EXCEPT ![p] = "write"]
        /\ inode' = [inode EXCEPT ![i] = Partial] /\ name' = [name EXCEPT !.tmp = i]
        /\ fd' = [fd EXCEPT ![p] = i] /\ UNCHANGED <<got, known>>
    BY <1>4 DEF Open, OpenTmp, Goto
  <2>2. i \in Inodes /\ (name.cache # NoInode => i # name.cache)
    BY <1>0, <2>1, FreeInode DEF Position, Alone
  <2> HIDE DEF i
  <2>3. /\ name'.cache = name.cache /\ name'.tmp = i /\ fd'[p] = i /\ pc'[p] = "write"
        /\ name.cache # NoInode => inode'[name.cache] = inode[name.cache]
        /\ \A q \in Processes : q # p => pc'[q] = pc[q] /\ fd'[q] = fd[q]
    BY <2>1, <2>2 DEF TypeOK
  <2>4. \A q \in Processes : pc'[q] \in Writing => q = p
    BY <1>0, <2>1, <2>3, OtherIs DEF Alone, Writing
  <2>5. known <= got[p]
    BY <1>0, <2>1 DEF Alone, Writing
  <2> QED BY <1>0, <2>1, <2>2, <2>3, <2>4, <2>5, OtherIs DEF Alone, Writing
<1>5. ASSUME NEW p \in Processes, Write(p) PROVE Alone'
  <2>1. /\ pc[p] = "write" /\ pc' = [pc EXCEPT ![p] = "rename"]
        /\ inode' = [inode EXCEPT ![fd[p]] = got[p]] /\ UNCHANGED <<name, got, fd, known>>
    BY <1>5 DEF Write, Goto
  <2>2. fd[p] \in Inodes /\ (name.cache # NoInode => fd[p] # name.cache)
    BY <1>0, <2>1 DEF Position, Alone, TypeOK
  <2>3. /\ inode'[fd[p]] = got[p] /\ pc'[p] = "rename"
        /\ name.cache # NoInode => inode'[name.cache] = inode[name.cache]
        /\ \A q \in Processes : q # p => pc'[q] = pc[q]
    BY <2>1, <2>2 DEF TypeOK
  <2>4. \A q \in Processes : pc'[q] \in Writing => q = p
    BY <1>0, <2>1, <2>3, OtherIs DEF Alone, Writing
  <2>5. known <= got[p] /\ name.tmp = fd[p]
    BY <1>0, <2>1 DEF Alone, Writing
  <2> QED BY <1>0, <2>1, <2>2, <2>3, <2>4, <2>5, OtherIs DEF Alone, Writing
<1>6. ASSUME NEW p \in Processes, FetchFails(p) \/ WriteCacheFails(p) \/ Dies(p)
      PROVE  Alone'
  <2>1. /\ pc' = [pc EXCEPT ![p] = "idle"] /\ got' = [got EXCEPT ![p] = BakedIn]
        /\ fd' = fd \/ fd' = [fd EXCEPT ![p] = NoInode]
        /\ UNCHANGED <<inode, name, known>>
    BY <1>6 DEF FetchFails, WriteCacheFails, Dies, Returns, Goto
  <2>2. /\ pc'[p] = "idle"
        /\ \A q \in Processes : q # p => pc'[q] = pc[q] /\ got'[q] = got[q]
    BY <2>1 DEF TypeOK
  <2> QED BY <1>0, <2>1, <2>2, LeavesAlone
<1>7. CASE UNCHANGED vars \/ Publish \/ Outage \/ ComesBack \/ Gate
  BY <1>1, <1>7 DEF vars, Publish, Outage, ComesBack, Gate
<1> QED BY <1>0, <1>2, <1>3, <1>4, <1>5, <1>6, <1>7, RenameAlone DEF Next, Fetch

LEMMA StepMixed == [Next]_vars /\ mixed /\ mixed \in BOOLEAN => mixed'
BY DEF Next, Fetch, vars, Publish, Outage, ComesBack, Launch, RefreshTick, Gate, Command,
       FetchSucceeds, FetchFails, Open, Write, Rename, WriteCacheFails, Dies

LEMMA StepInv ==
  ASSUME TypeOK, Inv, [Next]_vars
  PROVE  TypeOK' /\ Inv'
<1>1. TypeOK' /\ Position' /\ Published'
  BY StepTyped, StepPosition, StepPublished DEF Inv
<1>2. ~mixed' => Alone'
  BY StepMixed, StepAlone DEF TypeOK
<1> QED BY <1>1, <1>2 DEF Inv

\* A start takes the cache, or what it fetched.
LEMMA StepStarts ==
  ASSUME TypeOK, Inv, [Next]_vars, stage = "loading", stage' = "gate", ~mixed'
  PROVE  used' >= known'
<1>1. Alone /\ Position
  BY StepMixed DEF Inv, TypeOK
<1>2. PICK p \in Processes : FetchFails(p) \/ Rename(p) \/ WriteCacheFails(p)
  BY DEF Next, Fetch, vars, endpoint, files, Publish, Outage, ComesBack, Launch,
         RefreshTick, Gate, Command, FetchSucceeds, Open, Write, Dies
<1>3. known \in Nat /\ Cached \in Nat /\ got[p] \in Nat
  BY CachedTyped DEF TypeOK, Versions
<1>4. CASE FetchFails(p)
  <2>1. used' = Cached /\ known' = known
    BY <1>4 DEF FetchFails, Returns
  <2> QED BY <1>1, <1>3, <2>1, CachedIsKnown
<1>5. CASE Rename(p)
  <2>1. used' = got[p]
    BY <1>5 DEF Rename, Returns
  <2> QED BY <1>1, <1>3, <1>5, <2>1, RenameAlone
<1>6. CASE WriteCacheFails(p)
  <2>1. used' = got[p] /\ known' = known /\ known <= got[p]
    BY <1>1, <1>6 DEF WriteCacheFails, Returns, Alone, Writing
  <2> QED BY <1>3, <2>1
<1> QED BY <1>2, <1>4, <1>5, <1>6

LEMMA SpecInv == Spec => [](TypeOK /\ Inv)
<1>1. Init => TypeOK /\ Inv
  BY InitTyped, InitPosition, InitAlone DEF Inv
<1>2. TypeOK /\ Inv /\ [Next]_vars => (TypeOK /\ Inv)'
  BY StepInv
<1> QED BY <1>1, <1>2, PTL DEF Spec

\* The cache is a number that was published, or half of one, whatever two
\* processes write over each other under the one temporary name, and wherever
\* they die (fetcher.go:139-156).
THEOREM TypeCorrect == Spec => []TypeOK
BY SpecInv, PTL

\* What was once written is not lost again: a restart that finds no endpoint gets
\* a configuration no older than the newest whose write was completed, whatever
\* write died beside the cache since, unless two processes wrote at the same time.
THEOREM NeverLost == Spec => [](~mixed => known <= Cached)
<1>1. TypeOK /\ Inv => (~mixed => known <= Cached)
  BY CachedIsKnown DEF Inv
<1> QED BY SpecInv, <1>1, PTL

\* A start never goes back behind a configuration that reached the cache, a kill
\* switch among them, wherever the writes before it were cut off, unless two
\* processes wrote at the same time (fetcher.go:4-7, 85; ARCHITECTURE.md:49, 52-55).
THEOREM NoStepBack == Spec => NeverStepsBack
<1>1. TypeOK /\ Inv /\ [Next]_vars =>
        [stage = "loading" /\ stage' = "gate" /\ ~mixed' => used' >= known']_vars
  BY StepStarts
<1> QED BY SpecInv, <1>1, PTL DEF Spec, NeverStepsBack
===============================================================================
