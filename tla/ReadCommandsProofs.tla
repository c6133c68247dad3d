-------------------------- MODULE ReadCommandsProofs --------------------------
(***************************************************************************)
(* Theorems about ReadCommands, for any rows and goroutines: the read-RPC  *)
(* channel implements the ledger.                                          *)
(***************************************************************************)
EXTENDS ReadCommands, TLAPS

\* A goroutine about to complete a row has a verdict to write.
VerdictFixed == \A w \in Readers : pc[w] = "complete" => verdict[w] \in Finals

TypeInv == TypeOK /\ VerdictFixed

USE DEF WrittenOff

LEMMA InitTypeInv == Init => TypeInv
<1> SUFFICES ASSUME Init PROVE TypeOK /\ VerdictFixed
  BY DEF TypeInv
<1>1. VerdictFixed
  BY DEF Init, VerdictFixed
<1>2. /\ row \in [Reads -> {"absent", "pending", "claimed"} \cup Finals]
      /\ verdict \in [Readers -> Finals \cup {"none"}]
      /\ pc \in [Readers -> {"idle", "ttl", "claim", "writeOff"} \cup Holding]
  BY DEF Init
<1>3. up \in BOOLEAN /\ overdue \in [Reads -> BOOLEAN] /\ gets \in [Reads -> Nat]
  BY DEF Init
<1> QED BY <1>1, <1>2, <1>3 DEF Init, TypeOK

\* The rows: only the app, the clock and the PATCHes of Handle write them.
LEMMA TableStep ==
  TypeInv /\ [Next]_vars =>
    /\ (row \in [Reads -> {"absent", "pending", "claimed"} \cup Finals])'
    /\ (overdue \in [Reads -> BOOLEAN])'
    /\ (request \in [Reads -> Kinds])'
<1> SUFFICES ASSUME TypeInv, [Next]_vars
             PROVE  /\ (row \in [Reads -> {"absent", "pending", "claimed"} \cup Finals])'
                    /\ (overdue \in [Reads -> BOOLEAN])'
                    /\ (request \in [Reads -> Kinds])'
  OBVIOUS
<1> USE DEF TypeInv, TypeOK
<1>1. CASE UNCHANGED table
  BY <1>1 DEF table
<1>2. ASSUME NEW c \in Reads, Insert(c) PROVE UNCHANGED <<overdue, request>>
                                           /\ row' = [row EXCEPT ![c] = "pending"]
  BY <1>2 DEF Insert
<1>3. ASSUME NEW c \in Reads, PassDeadline(c)
      PROVE UNCHANGED <<row, request>> /\ overdue' = [overdue EXCEPT ![c] = TRUE]
  BY <1>3 DEF PassDeadline
<1>4. ASSUME NEW w \in Readers, ClaimWins(w) \/ ClaimAnswerLost(w)
      PROVE UNCHANGED <<overdue, request>>
            /\ row' = [row EXCEPT ![job[w]] = "claimed"]
  BY <1>4 DEF ClaimWins, ClaimAnswerLost
<1>5. ASSUME NEW w \in Readers, Complete(w)
      PROVE UNCHANGED <<overdue, request>> /\ verdict[w] \in Finals
            /\ row' = [row EXCEPT ![job[w]] = verdict[w]]
  BY <1>5 DEF Complete, VerdictFixed
<1> QED
  BY <1>1, <1>2, <1>3, <1>4, <1>5
  DEF Next, Handle, vars, Boot, Crash, Deliver, CheckTTL,
      ClaimMisses, Refuse, SendGet, GetAnswered, GetFails, CompleteFails

\* The goroutines that run Handle.
LEMMA ReaderStep ==
  TypeInv /\ [Next]_vars =>
    /\ (pc \in [Readers -> {"idle", "ttl", "claim", "writeOff"} \cup Holding])'
    /\ (job \in [Readers -> Reads])'
    /\ (verdict \in [Readers -> Finals \cup {"none"}])'
    /\ VerdictFixed'
<1> DEFINE Typed ==
      /\ pc \in [Readers -> {"idle", "ttl", "claim", "writeOff"} \cup Holding]
      /\ job \in [Readers -> Reads]
      /\ verdict \in [Readers -> Finals \cup {"none"}]
      /\ VerdictFixed
<1> SUFFICES ASSUME TypeInv, [Next]_vars PROVE Typed'
  OBVIOUS
<1> USE DEF TypeInv, TypeOK
<1>1. CASE UNCHANGED reader
  BY <1>1 DEF reader, VerdictFixed
<1>2. ASSUME NEW w \in Readers, NEW step \in {"ttl", "claim", "writeOff", "check", "get"},
             Goto(w, step), job' \in [Readers -> Reads], UNCHANGED verdict
      PROVE  Typed'
  BY <1>2 DEF Goto, VerdictFixed, Holding
<1>3. ASSUME NEW w \in Readers, Leave(w), UNCHANGED job PROVE Typed'
  BY <1>3 DEF Leave, Goto, VerdictFixed, Holding
<1>4. ASSUME NEW w \in Readers, NEW v \in Finals, Settle(w, v), UNCHANGED job
      PROVE Typed'
  BY <1>4 DEF Settle, Goto, VerdictFixed, Holding
<1>5. ASSUME NEW w \in Readers, Handle(w) PROVE Typed'
  <2>1. CASE CheckTTL(w)
    BY <1>2, <2>1 DEF CheckTTL
  <2>2. CASE ClaimWins(w)
    BY <1>2, <1>4, <2>2 DEF ClaimWins, Finals
  <2>3. CASE ClaimMisses(w) \/ Complete(w)
    BY <1>3, <2>3 DEF ClaimMisses, Complete
  <2>4. CASE Refuse(w) \/ GetFails(w)
    BY <1>4, <2>4 DEF Refuse, GetFails, Finals
  <2>5. CASE SendGet(w)
    BY <1>2, <2>5 DEF SendGet
  <2> QED BY <1>5, <2>1, <2>2, <2>3, <2>4, <2>5 DEF Handle
<1>6. ASSUME NEW w \in Readers, GetAnswered(w) PROVE Typed'
  BY <1>4, <1>6 DEF GetAnswered, Finals
<1>7. ASSUME NEW w \in Readers, ClaimAnswerLost(w) \/ CompleteFails(w) PROVE Typed'
  BY <1>3, <1>7 DEF ClaimAnswerLost, CompleteFails
<1>8. ASSUME NEW w \in Readers, NEW c \in Reads, Deliver(w, c) PROVE Typed'
  <2>1. job' \in [Readers -> Reads] /\ Goto(w, "ttl") /\ UNCHANGED verdict
    BY <1>8 DEF Deliver
  <2> QED BY <1>2, <2>1
<1>9. CASE Crash
  BY <1>9 DEF Crash, VerdictFixed
<1> HIDE DEF Typed
<1> QED
  BY <1>1, <1>5, <1>6, <1>7, <1>8, <1>9
  DEF Next, vars, Boot, Insert, PassDeadline, reader

LEMMA NextTypeInv == TypeInv /\ [Next]_vars => TypeInv'
<1> SUFFICES ASSUME TypeInv, [Next]_vars PROVE TypeInv'
  OBVIOUS
<1>1. up' \in BOOLEAN
  BY DEF TypeInv, TypeOK, Next, Handle, vars, Boot, Crash, Insert, PassDeadline,
         Deliver, CheckTTL, ClaimWins, ClaimMisses, ClaimAnswerLost, Refuse, SendGet,
         GetAnswered, GetFails, Complete, CompleteFails
<1>2. gets' \in [Reads -> Nat]
  <2>1. gets' = gets \/ \E c \in Reads : gets' = [gets EXCEPT ![c] = @ + 1]
    BY DEF TypeInv, TypeOK, Next, Handle, vars, Boot, Crash, Insert,
           PassDeadline, Deliver, CheckTTL, ClaimWins, ClaimMisses, ClaimAnswerLost,
           Refuse, SendGet, GetAnswered, GetFails, Complete, CompleteFails
  <2> QED BY <2>1 DEF TypeInv, TypeOK
<1>3. cut' \subseteq Reads
  <2>1. cut' = cut \/ \E u \in SUBSET Readers : cut' = cut \cup {job[w] : w \in u}
    <3>1. ASSUME NEW w \in Readers, cut' = cut \cup {job[w]}
          PROVE \E u \in SUBSET Readers : cut' = cut \cup {job[v] : v \in u}
      <4>1. {w} \in SUBSET Readers /\ {job[v] : v \in {w}} = {job[w]}
        OBVIOUS
      <4> QED BY <3>1, <4>1
    <3>2. ASSUME Crash
          PROVE \E u \in SUBSET Readers : cut' = cut \cup {job[v] : v \in u}
      <4>1. {v \in Readers : pc[v] \in Holding} \in SUBSET Readers
        OBVIOUS
      <4> QED BY <3>2, <4>1 DEF Crash
    <3> QED
      BY <3>1, <3>2
      DEF Next, Handle, vars, Boot, Insert, PassDeadline, Deliver,
          CheckTTL, ClaimWins, ClaimMisses, ClaimAnswerLost, Refuse, SendGet,
          GetAnswered, GetFails, Complete, CompleteFails
  <2> QED BY <2>1 DEF TypeInv, TypeOK
<1> QED BY <1>1, <1>2, <1>3, TableStep, ReaderStep DEF TypeInv, TypeOK

\* Every reachable state of the read-RPC channel is well typed.
THEOREM TypeCorrect == Spec => []TypeOK
<1>1. TypeInv => TypeOK
  BY DEF TypeInv
<1> QED BY <1>1, InitTypeInv, NextTypeInv, PTL DEF Spec

-------------------------------------------------------------------------------
(* Why the completing PATCH, which filters on the id alone, only meets the row
   of its own claim: a row has one holder, who knows what became of it.    *)

OneHolder ==
  \A v, w \in Readers :
    pc[v] \in Holding /\ pc[w] \in Holding /\ job[v] = job[w] => v = w

HolderKnows ==
  \A w \in Readers : pc[w] \in Holding =>
    /\ row[job[w]] = "claimed"
    /\ pc[w] = "check" => gets[job[w]] = 0
    /\ pc[w] = "get" => gets[job[w]] = 1
    /\ pc[w] = "complete" => /\ verdict[w] = "done" => gets[job[w]] = 1
                             /\ verdict[w] = "expired" => gets[job[w]] = 0

\* A row that nobody has claimed has cost no GET.
RowTells == \A c \in Reads : row[c] \in {"absent", "pending"} => gets[c] = 0

Inv == TypeInv /\ OneHolder /\ HolderKnows /\ RowTells

LEMMA InitInv == Init => Inv
<1> SUFFICES ASSUME Init PROVE Inv
  OBVIOUS
<1>1. TypeInv
  BY InitTypeInv
<1>2. \A w \in Readers : pc[w] \notin Holding
  BY DEF Init, Holding
<1>3. RowTells
  BY DEF Init, RowTells
<1> QED BY <1>1, <1>2, <1>3 DEF Inv, OneHolder, HolderKnows

\* A step after which no goroutine holds a row it did not hold before, and whose
\* holders find their rows as they were.
LEMMA NobodyNew ==
  ASSUME Inv, UNCHANGED gets,
         \A w \in Readers : pc'[w] \in Holding =>
           pc'[w] = pc[w] /\ job'[w] = job[w] /\ verdict'[w] = verdict[w]
                          /\ row'[job[w]] = row[job[w]],
         \A c \in Reads : row'[c] \in {"absent", "pending"} =>
           row[c] \in {"absent", "pending"}
  PROVE  (OneHolder /\ HolderKnows /\ RowTells)'
BY DEF Inv, OneHolder, HolderKnows, RowTells

LEMMA NextHolder == Inv /\ [Next]_vars => (OneHolder /\ HolderKnows /\ RowTells)'
<1> SUFFICES ASSUME Inv, [Next]_vars PROVE (OneHolder /\ HolderKnows /\ RowTells)'
  OBVIOUS
<1> DEFINE Kept == (OneHolder /\ HolderKnows /\ RowTells)'
<1> USE DEF Inv, TypeInv, TypeOK
<1>1. CASE UNCHANGED <<row, gets, reader>>
  BY <1>1, NobodyNew DEF reader
<1>2. ASSUME NEW c \in Reads, Insert(c) PROVE Kept
  BY <1>2, NobodyNew DEF Insert, reader, HolderKnows
<1>3. ASSUME NEW w \in Readers, NEW c \in Reads, Deliver(w, c) PROVE Kept
  BY <1>3, NobodyNew DEF Deliver, Goto, table, Holding
<1>4. ASSUME NEW w \in Readers, CheckTTL(w) PROVE Kept
  BY <1>4, NobodyNew DEF CheckTTL, Goto, table, Holding
<1>5. ASSUME NEW w \in Readers, ClaimMisses(w) \/ CompleteFails(w) PROVE Kept
  BY <1>5, NobodyNew DEF ClaimMisses, CompleteFails, Leave, Goto, table, Holding
<1>6. ASSUME NEW w \in Readers, ClaimAnswerLost(w) PROVE Kept
  <2>1. \A v \in Readers : pc'[v] \in Holding => pc[v] \in Holding /\ job[v] # job[w]
    BY <1>6 DEF ClaimAnswerLost, ClaimMatches, Leave, Goto, Holding, HolderKnows
  <2> QED BY <1>6, <2>1, NobodyNew DEF ClaimAnswerLost, Leave, Goto
<1>7. ASSUME NEW w \in Readers, ClaimWins(w) PROVE Kept
  <2>1. /\ job' = job /\ gets' = gets /\ gets[job[w]] = 0
        /\ row' = [row EXCEPT ![job[w]] = "claimed"]
        /\ pc'[w] = "check" \/ (pc'[w] = "complete" /\ verdict'[w] = "expired")
    BY <1>7 DEF ClaimWins, ClaimMatches, RowTells, Goto, Settle, Claiming
  <2>2. \A v \in Readers : v # w => pc'[v] = pc[v] /\ verdict'[v] = verdict[v]
    BY <1>7 DEF ClaimWins, Goto, Settle
  <2>3. \A v \in Readers : pc[v] \in Holding => job[v] # job[w]
    BY <1>7 DEF ClaimWins, ClaimMatches, HolderKnows
  <2>4. OneHolder'
    BY <2>1, <2>2, <2>3 DEF OneHolder
  <2>5. HolderKnows'
    BY <2>1, <2>2, <2>3 DEF HolderKnows
  <2>6. RowTells'
    BY <2>1 DEF RowTells
  <2> QED BY <2>4, <2>5, <2>6
<1>8. ASSUME NEW w \in Readers, Refuse(w) \/ GetAnswered(w) \/ GetFails(w) PROVE Kept
  <2>1. /\ job' = job /\ gets' = gets /\ row' = row
        /\ pc[w] \in Holding /\ pc'[w] = "complete"
        /\ \A v \in Readers : v # w => pc'[v] = pc[v] /\ verdict'[v] = verdict[v]
    BY <1>8 DEF Refuse, GetAnswered, GetFails, Settle, Goto, Holding, table
  <2>2. verdict'[w] = "failed" \/ (verdict'[w] = "done" /\ pc[w] = "get")
    BY <1>8 DEF Refuse, GetAnswered, GetFails, Settle
  <2>3. OneHolder'
    BY <2>1 DEF OneHolder
  <2>4. HolderKnows'
    BY <2>1, <2>2 DEF HolderKnows
  <2>5. RowTells'
    BY <2>1 DEF RowTells
  <2> QED BY <2>3, <2>4, <2>5
<1>9. ASSUME NEW w \in Readers, SendGet(w) PROVE Kept
  <2>1. /\ job' = job /\ verdict' = verdict /\ row' = row
        /\ pc[w] = "check" /\ pc'[w] = "get"
        /\ \A v \in Readers : v # w => pc'[v] = pc[v]
        /\ gets' = [gets EXCEPT ![job[w]] = @ + 1]
    BY <1>9 DEF SendGet, Goto, table
  <2>2. gets[job[w]] = 0 /\ row[job[w]] = "claimed"
    BY <2>1 DEF HolderKnows, Holding
  <2>3. OneHolder'
    BY <2>1 DEF OneHolder, Holding
  <2>4. HolderKnows'
    BY <2>1, <2>2, <2>3 DEF HolderKnows, OneHolder, Holding
  <2>5. RowTells'
    BY <2>1, <2>2 DEF RowTells
  <2> QED BY <2>3, <2>4, <2>5
<1>10. ASSUME NEW w \in Readers, Complete(w) PROVE Kept
  <2>1. \A v \in Readers : pc'[v] \in Holding => pc[v] \in Holding /\ job[v] # job[w]
    BY <1>10 DEF Complete, Leave, Goto, Holding, OneHolder
  <2>2. verdict[w] \in Finals
    BY <1>10 DEF Complete, VerdictFixed
  <2> QED BY <1>10, <2>1, <2>2, NobodyNew DEF Complete, Leave, Goto, Finals
<1>11. CASE Crash
  BY <1>11, NobodyNew DEF Crash, table, Holding
<1> QED
  BY <1>1, <1>2, <1>3, <1>4, <1>5, <1>6, <1>7, <1>8, <1>9, <1>10, <1>11
  DEF Next, Handle, vars, Boot, PassDeadline, reader, table

LEMMA NextInv == Inv /\ [Next]_vars => Inv'
BY NextTypeInv, NextHolder DEF Inv

\* A row is taken once, sent to Proxmox at most once and after that only, and
\* gets one true final status.
THEOREM Implementation == Spec => LedgerSpec
<1>1. Spec => []Inv
  BY InitInv, NextInv, PTL DEF Spec
<1>2. Init => Ledger!LInit
  BY DEF Init, Ledger!LInit
<1>3. Inv /\ [Next]_vars => [Ledger!LNext]_<<row, gets>>
  <2> SUFFICES ASSUME Inv, [Next]_vars PROVE [Ledger!LNext]_<<row, gets>>
    OBVIOUS
  <2> USE DEF Inv, TypeInv, TypeOK
  <2>1. ASSUME NEW c \in Reads,
               \/ Ledger!Submit(c) \/ Ledger!Take(c) \/ Ledger!Run(c)
               \/ \E s \in {"done", "failed", "expired"} : Ledger!Settle(c, s)
        PROVE  Ledger!LNext
    BY <2>1 DEF Ledger!LNext
  <2>2. ASSUME NEW c \in Reads, Insert(c) PROVE Ledger!Submit(c)
    BY <2>2 DEF Insert, Ledger!Submit
  <2>3. ASSUME NEW w \in Readers, ClaimWins(w) \/ ClaimAnswerLost(w)
        PROVE  Ledger!Take(job[w])
    BY <2>3 DEF ClaimWins, ClaimAnswerLost, ClaimMatches, Ledger!Take
  <2>4. ASSUME NEW w \in Readers, SendGet(w) PROVE Ledger!Run(job[w])
    <3>1. gets[job[w]] = 0 /\ row[job[w]] = "claimed"
      BY <2>4 DEF SendGet, HolderKnows, Holding
    <3> QED BY <2>4, <3>1 DEF SendGet, table, Ledger!Run
  <2>5. ASSUME NEW w \in Readers, Complete(w)
        PROVE  \E s \in {"done", "failed", "expired"} : Ledger!Settle(job[w], s)
    <3>1. /\ verdict[w] \in Finals /\ row[job[w]] = "claimed"
          /\ verdict[w] = "done" => gets[job[w]] = 1
          /\ verdict[w] = "expired" => gets[job[w]] = 0
      BY <2>5 DEF Complete, VerdictFixed, HolderKnows, Holding
    <3> QED BY <2>5, <3>1 DEF Complete, Finals, Ledger!Settle
  <2>6. \A w \in Readers : job[w] \in Reads
    OBVIOUS
  <2> QED
    BY <2>1, <2>2, <2>3, <2>4, <2>5, <2>6
    DEF Next, Handle, vars, table, Boot, Crash, PassDeadline,
        Deliver, CheckTTL, ClaimMisses, Refuse, GetAnswered, GetFails,
        CompleteFails
<1> QED BY <1>1, <1>2, <1>3, PTL DEF Spec, LedgerSpec, Ledger!LSpec, Ledger!lvars
===============================================================================
