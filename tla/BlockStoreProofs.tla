-------------------------- MODULE BlockStoreProofs --------------------------
(***************************************************************************)
(* BlockStore for every set of blocks, clients and GC workers, every mix   *)
(* of operations, and crashes at every step: its types; then its GC fence  *)
(* and the lifecycle it implements; then its reference counts, what they   *)
(* lose and what the GC is told.                                           *)
(***************************************************************************)
EXTENDS BlockStore, FiniteSetTheorems, TLAPS

-----------------------------------------------------------------------------
(* The inductive invariant.  TypeOK is not inductive by itself: a client in  *)
(* the middle of an operation is on a real block, and a decrement only       *)
(* compares and sets when it read a positive count.                          *)

ClientsAreOnBlocks ==
  \A c \in Clients : client[c].pc # "idle" => client[c].blk \in Blocks

DecrementsSawReferences ==
  \A c \in Clients : Running(c, "drop", "cas") => client[c].seen > 0

ReapersAreOnBlocks ==
  \A r \in Reapers : reaper[r].pc \notin {"idle", "sweep"} => reaper[r].cur \in Blocks

TypeInv ==
  TypeOK /\ ClientsAreOnBlocks /\ DecrementsSawReferences /\ ReapersAreOnBlocks

LEMMA IdleIsClient == Idle \in Client
BY DEF Idle, Client, AllOps, ClientSteps

LEMMA RestingIsReaper == Resting \in Reaper
BY DEF Resting, Reaper, ReaperSteps

LEMMA InitTypeInv == Init => TypeInv
BY IdleIsClient, RestingIsReaper
   DEF Init, TypeInv, TypeOK, ClientsAreOnBlocks, DecrementsSawReferences,
       ReapersAreOnBlocks, Running, Idle, Resting, Blames

(* A client that moves to another step of its own operation. *)
LEMMA GotoType ==
  ASSUME TypeInv, NEW c \in Clients, client[c].pc # "idle",
         NEW step \in ClientSteps, step # "cas", Goto(c, step)
  PROVE  /\ client' \in [Clients -> Client]
         /\ ClientsAreOnBlocks'
         /\ DecrementsSawReferences'
BY DEF TypeInv, TypeOK, ClientsAreOnBlocks, DecrementsSawReferences, Running, Goto, Client

LEMMA ReturnType ==
  ASSUME TypeInv, NEW c \in Clients, Return(c)
  PROVE  /\ client' \in [Clients -> Client]
         /\ ClientsAreOnBlocks'
         /\ DecrementsSawReferences'
BY IdleIsClient
   DEF TypeInv, TypeOK, ClientsAreOnBlocks, DecrementsSawReferences, Running, Return, Idle

LEMMA StartType ==
  ASSUME TypeInv, NEW c \in Clients, NEW b \in Blocks, NEW op, NEW step \in ClientSteps,
         step # "cas", Start(c, op, b, step)
  PROVE  /\ client' \in [Clients -> Client]
         /\ ClientsAreOnBlocks'
         /\ DecrementsSawReferences'
BY OpsAssumption
   DEF TypeInv, TypeOK, ClientsAreOnBlocks, DecrementsSawReferences, Running, Start, Idle,
       Client, AllOps

LEMMA AccuseType ==
  ASSUME TypeInv, NEW b \in Blocks, NEW what \in SUBSET Blames, Accuse(b, what)
  PROVE  blame' \in [Blocks -> SUBSET Blames]
BY DEF TypeInv, TypeOK, Accuse

LEMMA ExpireType ==
  ASSUME TypeInv, NEW b \in Blocks, Expire(b)
  PROVE  /\ blame' \in [Blocks -> SUBSET Blames]
         /\ \A d \in Blocks : blame[d] \subseteq blame'[d]
<1>1. {"expired"} \in SUBSET Blames  BY DEF Blames
<1>2. CASE Accuse(b, {"expired"})
  BY <1>1, <1>2, AccuseType DEF Accuse, TypeInv, TypeOK
<1>3. CASE UNCHANGED blame  BY <1>3 DEF TypeInv, TypeOK
<1> QED BY <1>2, <1>3 DEF Expire

LEMMA FailsType ==
  ASSUME TypeInv, NEW c \in Clients, client[c].blk \in Blocks, IncrementFails(c)
  PROVE  /\ client' \in [Clients -> Client]
         /\ ClientsAreOnBlocks'
         /\ DecrementsSawReferences'
         /\ blame' \in [Blocks -> SUBSET Blames]
<1>1. {"miscounted", "leaked"} \in SUBSET Blames  BY DEF Blames
<1>2. blame' \in [Blocks -> SUBSET Blames]
  BY <1>1, AccuseType DEF IncrementFails, TypeInv, TypeOK
<1>3. Return(c)  BY DEF IncrementFails
<1> QED BY <1>2, <1>3, ReturnType

(* A client that has read a count and goes on to compare and set it. *)
LEMMA SawType ==
  ASSUME TypeInv, NEW c \in Clients, client[c].blk \in Blocks, NEW n \in Nat,
         client[c].op = "drop" => n > 0,
         client' = [client EXCEPT ![c].pc = "cas", ![c].seen = n]
  PROVE  /\ client' \in [Clients -> Client]
         /\ ClientsAreOnBlocks'
         /\ DecrementsSawReferences'
<1>1. client \in [Clients -> Client] /\ "cas" \in ClientSteps
  BY DEF TypeInv, TypeOK, ClientSteps
<1>2. [client[c] EXCEPT !.pc = "cas", !.seen = n] \in Client  BY <1>1 DEF Client
<1>3. client' = [client EXCEPT ![c] = [client[c] EXCEPT !.pc = "cas", !.seen = n]]
  BY <1>1 DEF Client
<1>4. client' \in [Clients -> Client]  BY <1>1, <1>2, <1>3
<1>5. \A d \in Clients : d # c => client'[d] = client[d]  BY <1>1, <1>3
<1>6. /\ client'[c].pc = "cas" /\ client'[c].seen = n
      /\ client'[c].blk = client[c].blk /\ client'[c].op = client[c].op
  BY <1>1, <1>3 DEF Client
<1> QED
  BY <1>4, <1>5, <1>6
     DEF TypeInv, ClientsAreOnBlocks, DecrementsSawReferences, Running

(* The tables keep their types, and the reapers are untouched, in every step *)
(* of a client; what is left is the client itself and the two histories.     *)
LEMMA ClientStepType ==
  ASSUME TypeInv, NEW c \in Clients, ClientStep(c)
  PROVE  TypeInv'
<1> USE DEF TypeInv, TypeOK, ReapersAreOnBlocks, tables
<1>b. client[c].pc # "idle" => client[c].blk \in Blocks
  BY DEF ClientsAreOnBlocks
<1>1. CASE GetBlock(c)
  <2> DEFINE step == IF state[client[c].blk] = "absent" THEN "put" ELSE "probe"
  <2>1. step \in ClientSteps /\ step # "cas"  BY DEF ClientSteps
  <2>2. Goto(c, step) /\ client[c].pc # "idle"  BY <1>1 DEF GetBlock
  <2> QED BY <1>1, <2>1, <2>2, GotoType DEF GetBlock
<1>2. CASE BlockExists(c)
  <2>1. "repair" \in ClientSteps /\ "read" \in ClientSteps  BY DEF ClientSteps
  <2> QED BY <1>2, <2>1, GotoType, ReturnType DEF BlockExists
<1>3. CASE RepairBlock(c)
  <2>1. "read" \in ClientSteps  BY DEF ClientSteps
  <2> QED BY <1>3, <2>1, GotoType, ReturnType DEF RepairBlock
<1>4. CASE WriteBlock(c)
  <2>1. "insert" \in ClientSteps  BY DEF ClientSteps
  <2> QED BY <1>4, <2>1, GotoType DEF WriteBlock
<1>5. CASE InsertBlock(c)
  <2>1. "record" \in ClientSteps /\ {"miscounted"} \in SUBSET Blames
    BY DEF ClientSteps, Blames
  <2>2. client[c].pc # "idle" /\ client[c].blk \in Blocks
    BY <1>5, <1>b DEF InsertBlock, Running
  <2>3. blame' \in [Blocks -> SUBSET Blames]
    BY <1>5, <2>1, <2>2, AccuseType DEF InsertBlock
  <2> QED BY <1>5, <2>1, <2>2, <2>3, GotoType DEF InsertBlock, InsertRow
<1>6. CASE InsertStagedBlock(c)
  <2>1. "reread" \in ClientSteps  BY DEF ClientSteps
  <2>2. client[c].pc # "idle"  BY <1>6 DEF InsertStagedBlock, Running
  <2> QED BY <1>6, <2>1, <2>2, GotoType DEF InsertStagedBlock, InsertRow
<1>7. CASE RereadStaged(c)
  <2>1. "mark" \in ClientSteps  BY DEF ClientSteps
  <2>2. client[c].pc # "idle"  BY <1>7 DEF RereadStaged, Running
  <2> QED BY <1>7, <2>1, <2>2, GotoType, ReturnType DEF RereadStaged
<1>8. CASE RecordChunk(c)
  <2>1. client[c].blk \in Blocks  BY <1>8, <1>b DEF RecordChunk, Running
  <2>2. owners' \in [Blocks -> Nat]  BY <1>8, <2>1 DEF RecordChunk
  <2> QED BY <1>8, <2>2, ReturnType DEF RecordChunk
<1>9. CASE ClearCandidate(c)
  <2>1. "read" \in ClientSteps  BY DEF ClientSteps
  <2>2. client[c].pc # "idle"  BY <1>9 DEF ClearCandidate, Running
  <2> QED BY <1>9, <2>1, <2>2, GotoType DEF ClearCandidate
<1>10. CASE IncrementRead(c)
  <2>1. client[c].pc # "idle" /\ client[c].blk \in Blocks /\ client[c].op # "drop"
    BY <1>10, <1>b DEF IncrementRead, Incrementing
  <2>2. CASE IncrementFails(c)
    BY <1>10, <2>1, <2>2, FailsType DEF IncrementRead
  <2>3. CASE client' = [client EXCEPT ![c].pc = "cas", ![c].seen = ref[client[c].blk]] /\ UNCHANGED blame
    <3>1. ref[client[c].blk] \in Nat  BY <2>1
    <3> QED BY <1>10, <2>1, <2>3, <3>1, SawType DEF IncrementRead
  <2> QED BY <1>10, <2>2, <2>3 DEF IncrementRead
<1>11. CASE IncrementApplied(c)
  <2>1. "record" \in ClientSteps  BY DEF ClientSteps
  <2>2. client[c].pc # "idle"  BY <1>11 DEF IncrementApplied
  <2>3. client[c].blk \in Blocks /\ client[c].seen + 1 \in Nat
    BY <2>2, <1>b DEF Client
  <2>4. ref' = [ref EXCEPT ![client[c].blk] = client[c].seen + 1]
    BY <1>11 DEF IncrementApplied
  <2>5. ref' \in [Blocks -> Nat]  BY <2>3, <2>4
  <2> QED BY <1>11, <2>1, <2>2, <2>5, GotoType, ReturnType DEF IncrementApplied
<1>12. CASE IncrementRefused(c)
  <2>1. client[c].pc # "idle" /\ client[c].blk \in Blocks /\ client[c].op # "drop"
    BY <1>12, <1>b DEF IncrementRefused, Incrementing
  <2>2. CASE IncrementFails(c)
    BY <1>12, <2>1, <2>2, FailsType DEF IncrementRefused
  <2>3. CASE client' = [client EXCEPT ![c].pc = "read", ![c].tries = @ + 1] /\ UNCHANGED blame
    <3>0. client[c].tries + 1 \in Nat /\ "read" \in ClientSteps
      BY DEF Client, ClientSteps
    <3>1. client' \in [Clients -> Client]
      BY <2>1, <2>3, <3>0 DEF Client
    <3>2. ClientsAreOnBlocks' /\ DecrementsSawReferences'
      BY <2>1, <2>3 DEF ClientsAreOnBlocks, DecrementsSawReferences, Running, Client
    <3> QED BY <1>12, <2>3, <3>1, <3>2 DEF IncrementRefused
  <2> QED BY <1>12, <2>2, <2>3 DEF IncrementRefused
<1>13. CASE DecrementRead(c)
  <2>1. client[c].pc # "idle" /\ client[c].blk \in Blocks
    BY <1>13, <1>b DEF DecrementRead, Running
  <2>2. "settle" \in ClientSteps /\ "mark" \in ClientSteps  BY DEF ClientSteps
  <2>3. CASE Goto(c, "settle") \/ Goto(c, "mark")
    BY <1>13, <2>1, <2>2, <2>3, GotoType DEF DecrementRead
  <2>4. CASE ref[client[c].blk] > 0 /\ client' = [client EXCEPT ![c].pc = "cas", ![c].seen = ref[client[c].blk]]
    <3>1. ref[client[c].blk] \in Nat  BY <2>1
    <3> QED BY <1>13, <2>1, <2>4, <3>1, SawType DEF DecrementRead
  <2> QED BY <1>13, <2>3, <2>4 DEF DecrementRead
<1>14. CASE DecrementCAS(c)
  <2>1. client[c].pc # "idle" /\ client[c].seen \in Nat /\ client[c].seen > 0
    BY <1>14 DEF DecrementCAS, Running, DecrementsSawReferences, Client
  <2>2. "read" \in ClientSteps /\ "mark" \in ClientSteps /\ "settle" \in ClientSteps
    BY DEF ClientSteps
  <2>3. client[c].seen - 1 \in Nat  BY <2>1
  <2>4. ref' \in [Blocks -> Nat]  BY <1>14, <2>3 DEF DecrementCAS
  <2> QED BY <1>14, <2>1, <2>2, <2>4, GotoType DEF DecrementCAS
<1>15. CASE MarkGCCandidate(c)
  <2> DEFINE b == client[c].blk
             done == IF client[c].op = "drop" THEN [Age(c, b) EXCEPT !.pc = "settle"] ELSE Idle
  <2>1. b \in Blocks  BY <1>15, <1>b DEF MarkGCCandidate
  <2>2. \A d \in Clients : /\ Age(d, b) \in Client
                           /\ Age(d, b).pc = client[d].pc
                           /\ Age(d, b).blk = client[d].blk
                           /\ Age(d, b).op = client[d].op
                           /\ Age(d, b).seen = client[d].seen
    BY <2>1 DEF Age, Client
  <2>3. done \in Client /\ (done.pc # "idle" => done.blk \in Blocks) /\ done.pc # "cas"
    BY <2>1, <2>2, IdleIsClient DEF Client, ClientSteps, Idle
  <2>4. client' = [d \in Clients |-> IF d = c THEN done ELSE Age(d, b)]
    BY <1>15 DEF MarkGCCandidate
  <2> HIDE DEF done
  <2>5. client' \in [Clients -> Client]  BY <2>2, <2>3, <2>4
  <2>6. ClientsAreOnBlocks'  BY <2>2, <2>3, <2>4 DEF ClientsAreOnBlocks
  <2>7. DecrementsSawReferences'
    BY <2>2, <2>3, <2>4 DEF DecrementsSawReferences, Running
  <2> QED BY <1>15, <2>5, <2>6, <2>7 DEF MarkGCCandidate
<1>16. CASE UpdateBlockDecrement(c)
  BY <1>16, ReturnType DEF UpdateBlockDecrement
<1> QED
  BY <1>1, <1>2, <1>3, <1>4, <1>5, <1>6, <1>7, <1>8, <1>9, <1>10, <1>11, <1>12, <1>13,
     <1>14, <1>15, <1>16 DEF ClientStep

LEMMA ClientStartType ==
  ASSUME TypeInv, NEW c \in Clients, NEW b \in Blocks, ClientStart(c, b)
  PROVE  TypeInv'
<1> USE DEF TypeInv, TypeOK, ReapersAreOnBlocks, tables
<1>1. "get" \in ClientSteps /\ "clear" \in ClientSteps /\ "read" \in ClientSteps
  BY DEF ClientSteps
<1>2. CASE StartChunk(c, b)
  BY <1>1, <1>2, StartType DEF StartChunk, Start
<1>3. CASE StartStage(c, b)
  BY <1>1, <1>3, StartType DEF StartStage, Start
<1>4. CASE StartCommit(c, b)
  <2>1. owners' \in [Blocks -> Nat]  BY <1>4 DEF StartCommit
  <2> QED BY <1>1, <1>4, <2>1, StartType DEF StartCommit, Start
<1>5. CASE StartDrop(c, b)
  <2>1. owners[b] \in Nat /\ owners[b] > 0  BY <1>5 DEF StartDrop
  <2>2. owners[b] - 1 \in Nat  BY <2>1
  <2>3. owners' \in [Blocks -> Nat]  BY <1>5, <2>2 DEF StartDrop
  <2> QED BY <1>1, <1>5, <2>3, StartType DEF StartDrop, Start
<1> QED BY <1>2, <1>3, <1>4, <1>5 DEF ClientStart

LEMMA ClientCrashType ==
  ASSUME TypeInv, NEW c \in Clients, ClientCrash(c)
  PROVE  TypeInv'
<1> USE DEF TypeInv, TypeOK, ReapersAreOnBlocks, tables
<1>1. client[c].pc # "idle" /\ client[c].blk \in Blocks
  BY DEF ClientCrash, ClientsAreOnBlocks
<1>2. {"leaked"} \in SUBSET Blames /\ {"miscounted"} \in SUBSET Blames  BY DEF Blames
<1>3. CASE client[c].op \in {"chunk", "stage"}
  <2>1. blame' \in [Blocks -> SUBSET Blames]
    BY <1>1, <1>2, <1>3, AccuseType DEF ClientCrash
  <2> QED BY <1>3, <2>1, ReturnType DEF ClientCrash
<1>4. CASE client[c].op = "commit"
  BY <1>1, <1>4, FailsType DEF ClientCrash
<1>5. CASE client[c].op = "drop"
  <2>1. blame' \in [Blocks -> SUBSET Blames]
    BY <1>1, <1>2, <1>5, AccuseType DEF ClientCrash
  <2>2. client' = [client EXCEPT ![c].pc = "read", ![c].seen = 0]
    BY <1>5 DEF ClientCrash
  <2>a. client[c] \in Client /\ "read" \in ClientSteps  BY DEF ClientSteps
  <2>b. [client[c] EXCEPT !.pc = "read", !.seen = 0] \in Client  BY <2>a DEF Client
  <2>c. client' = [client EXCEPT ![c] = [client[c] EXCEPT !.pc = "read", !.seen = 0]]
    BY <2>a, <2>2 DEF Client
  <2>3. client' \in [Clients -> Client]  BY <2>b, <2>c
  <2>4. ClientsAreOnBlocks'  BY <1>1, <2>2 DEF ClientsAreOnBlocks, Client
  <2>5. DecrementsSawReferences'
    BY <2>2 DEF DecrementsSawReferences, Running, Client
  <2> QED BY <2>1, <2>3, <2>4, <2>5 DEF ClientCrash
<1> QED BY <1>3, <1>4, <1>5 DEF ClientCrash

(* A step of a GC worker, or its failure, moves only the worker and the tables. *)
LEMMA ReaperType ==
  ASSUME TypeInv, NEW r \in Reapers, NEW w \in Reaper,
         w.pc \notin {"idle", "sweep"} => w.cur \in Blocks,
         reaper' = [reaper EXCEPT ![r] = w]
  PROVE  reaper' \in [Reapers -> Reaper] /\ ReapersAreOnBlocks'
BY DEF TypeInv, TypeOK, ReapersAreOnBlocks

LEMMA NextCandidateType ==
  ASSUME TypeInv, NEW r \in Reapers, NextCandidate(r)
  PROVE  reaper' \in [Reapers -> Reaper] /\ ReapersAreOnBlocks'
<1> DEFINE w == [reaper[r] EXCEPT !.pc = IF reaper[r].todo = {} THEN "idle" ELSE "sweep",
                                  !.cur = NoBlock]
<1>1. reaper[r] \in Reaper  BY DEF TypeInv, TypeOK
<1>2. w \in Reaper /\ w.pc \in {"idle", "sweep"}  BY <1>1 DEF Reaper, ReaperSteps
<1>3. reaper' = [reaper EXCEPT ![r] = w]
  BY <1>1 DEF NextCandidate, Reaper, TypeInv, TypeOK
<1> HIDE DEF w
<1> QED BY <1>2, <1>3, ReaperType

LEMMA ReapStepsOn ==
  ASSUME TypeInv, NEW r \in Reapers, NEW step \in ReaperSteps,
         reaper[r].pc \notin {"idle", "sweep"},
         reaper' = [reaper EXCEPT ![r].pc = step]
  PROVE  reaper' \in [Reapers -> Reaper] /\ ReapersAreOnBlocks'
<1> DEFINE w == [reaper[r] EXCEPT !.pc = step]
<1>1. reaper[r] \in Reaper /\ reaper[r].cur \in Blocks
  BY DEF TypeInv, TypeOK, ReapersAreOnBlocks
<1>2. w \in Reaper /\ w.cur \in Blocks  BY <1>1 DEF Reaper
<1>3. reaper' = [reaper EXCEPT ![r] = w]  BY <1>1 DEF Reaper, TypeInv, TypeOK
<1> HIDE DEF w
<1> QED BY <1>2, <1>3, ReaperType

LEMMA ReaperStepType ==
  ASSUME TypeInv, NEW r \in Reapers, ReaperStep(r)
  PROVE  TypeInv'
<1> USE DEF TypeInv, TypeOK, ClientsAreOnBlocks, DecrementsSawReferences, Running, tables
<1>s. {"idle", "sweep", "fence", "erase", "strike", "unlist"} = ReaperSteps
  BY DEF ReaperSteps
<1>b. reaper[r].pc \notin {"idle", "sweep"} => reaper[r].cur \in Blocks
  BY DEF ReapersAreOnBlocks
<1>1. CASE Sweep(r)
  <2> DEFINE w == [pc |-> "sweep", cur |-> NoBlock, todo |-> Batch]
  <2>0. Batch \subseteq Blocks  BY DEF Batch, Eligible
  <2>1. w \in Reaper /\ w.pc = "sweep"  BY <1>s, <2>0 DEF Reaper
  <2>2. reaper' = [reaper EXCEPT ![r] = w]  BY <1>1 DEF Sweep
  <2> HIDE DEF w
  <2>3. reaper' \in [Reapers -> Reaper] /\ ReapersAreOnBlocks'
    BY <2>1, <2>2, ReaperType
  <2> QED BY <1>1, <2>3 DEF Sweep
<1>2. ASSUME NEW b \in Blocks, ReapGet(r, b) PROVE TypeInv'
  <2> DEFINE w == [pc |-> IF state[b] = "absent" \/ ref[b] > 0 THEN "unlist" ELSE "fence",
                   cur |-> b, todo |-> reaper[r].todo \ {b}]
  <2>1. reaper[r].todo \in SUBSET Blocks  BY DEF Reaper
  <2>2. w \in Reaper /\ w.cur \in Blocks  BY <1>s, <2>1 DEF Reaper
  <2>3. reaper' = [reaper EXCEPT ![r] = w]  BY <1>2 DEF ReapGet
  <2> HIDE DEF w
  <2>4. reaper' \in [Reapers -> Reaper] /\ ReapersAreOnBlocks'
    BY <2>2, <2>3, ReaperType
  <2> QED BY <1>2, <2>4 DEF ReapGet
<1>3. CASE ReapFence(r)
  <2>1. reaper' \in [Reapers -> Reaper] /\ ReapersAreOnBlocks'
    BY <1>3, <1>s, ReapStepsOn, NextCandidateType DEF ReapFence
  <2> QED BY <1>3, <2>1 DEF ReapFence
<1>4. CASE ReapErase(r)
  <2>1. reaper' \in [Reapers -> Reaper] /\ ReapersAreOnBlocks'
    BY <1>4, <1>s, ReapStepsOn DEF ReapErase
  <2>2. reaper[r].cur \in Blocks /\ {"crossed"} \in SUBSET Blames
    BY <1>4, <1>b DEF ReapErase, Blames
  <2>3. blame' \in [Blocks -> SUBSET Blames]
    BY <1>4, <2>2, AccuseType DEF ReapErase
  <2> QED BY <1>4, <2>1, <2>3 DEF ReapErase
<1>5. CASE ReapStrike(r)
  <2>1. reaper' \in [Reapers -> Reaper] /\ ReapersAreOnBlocks'
    BY <1>5, <1>s, ReapStepsOn DEF ReapStrike
  <2> QED BY <1>5, <2>1 DEF ReapStrike
<1>6. CASE ReapUnlist(r)
  <2>1. reaper' \in [Reapers -> Reaper] /\ ReapersAreOnBlocks'
    BY <1>6, NextCandidateType DEF ReapUnlist
  <2>2. reaper[r].cur \in Blocks /\ {"leaked"} \in SUBSET Blames
    BY <1>6, <1>b DEF ReapUnlist, Blames
  <2>3. blame' \in [Blocks -> SUBSET Blames]
    BY <1>6, <2>2, AccuseType DEF ReapUnlist
  <2> QED BY <1>6, <2>1, <2>3 DEF ReapUnlist
<1> QED BY <1>1, <1>2, <1>3, <1>4, <1>5, <1>6 DEF ReaperStep

LEMMA NextTypeInv == TypeInv /\ [Next]_vars => TypeInv'
<1> SUFFICES ASSUME TypeInv, [Next]_vars PROVE TypeInv'
  OBVIOUS
<1> USE DEF TypeInv, TypeOK, ClientsAreOnBlocks, DecrementsSawReferences,
            ReapersAreOnBlocks, Running, tables
<1>1. CASE UNCHANGED vars  BY <1>1 DEF vars
<1>2. ASSUME NEW c \in Clients, NEW b \in Blocks, ClientStart(c, b) PROVE TypeInv'
  BY <1>2, ClientStartType
<1>3. ASSUME NEW c \in Clients, ClientStep(c) PROVE TypeInv'
  BY <1>3, ClientStepType
<1>4. ASSUME NEW c \in Clients, ClientCrash(c) PROVE TypeInv'
  BY <1>4, ClientCrashType
<1>5. ASSUME NEW b \in Blocks, Mature(b) PROVE TypeInv'
  BY <1>5 DEF Mature
<1>6. ASSUME NEW r \in Reapers, ReaperStep(r) PROVE TypeInv'
  BY <1>6, ReaperStepType
<1>7. ASSUME NEW r \in Reapers, ReapFail(r) PROVE TypeInv'
  <2>1. reaper' \in [Reapers -> Reaper] /\ ReapersAreOnBlocks'
    BY <1>7, NextCandidateType DEF ReapFail
  <2> QED BY <1>7, <2>1 DEF ReapFail
<1>8. ASSUME NEW r \in Reapers, ReapCrash(r) PROVE TypeInv'
  <2>1. reaper' \in [Reapers -> Reaper] /\ ReapersAreOnBlocks'
    BY <1>8, RestingIsReaper, ReaperType DEF ReapCrash, Resting
  <2> QED BY <1>8, <2>1 DEF ReapCrash
<1>9. CASE FaultsCease  BY <1>9 DEF FaultsCease
<1>10. ASSUME NEW b \in Blocks, Expire(b) PROVE TypeInv'
  BY <1>10, ExpireType DEF Expire
<1> HIDE DEF TypeInv
<1> QED BY <1>1, <1>2, <1>3, <1>4, <1>5, <1>6, <1>7, <1>8, <1>9, <1>10 DEF Next

THEOREM TypeInvariance == Spec => []TypeInv
BY InitTypeInv, NextTypeInv, PTL DEF Spec

(* Every variable keeps its type in every behaviour of the store, the counts *)
(* as naturals included: DecrementRefCount never takes a count below zero,   *)
(* whoever runs between its read and its compare-and-set.                    *)
THEOREM TypeCorrect == Spec => []TypeOK
BY TypeInvariance, PTL DEF TypeInv

-----------------------------------------------------------------------------
(* The fence: no count on a fenced block, no reaper that deletes a row it    *)
(* does not own, no byte erased outside the fence, the abstract lifecycle    *)
(* implemented, no live row without its bytes but for the crossed write.     *)

(* The inductive invariant.  Neither conjunct of the run's invariants stands *)
(* alone: that a fenced row counts nothing needs the row a worker deletes to *)
(* be the row it fenced, and both need a missing row to count nothing.       *)

AbsentIsUncounted == \A b \in Blocks : state[b] = "absent" => ref[b] = 0

FenceInv == AbsentIsUncounted /\ FencedIsUnreferenced /\ ReaperOwnsFence

LEMMA InitFenceInv == Init => FenceInv
BY DEF Init, FenceInv, AbsentIsUncounted, FencedIsUnreferenced, ReaperOwnsFence, Reaping,
       Resting

(* What a step that moves no reaper may do to a row: nothing, give birth to  *)
(* it, or move the count of a live one.                                      *)
LEMMA RowFrame ==
  ASSUME TypeInv, FenceInv, UNCHANGED reaper,
         \A b \in Blocks :
           \/ state'[b] = state[b] /\ ref'[b] = ref[b]
           \/ state[b] \in {"absent", "active"} /\ state'[b] = "active"
  PROVE  FenceInv'
<1>1. \A r \in Reapers, b \in Blocks : Reaping(r, b)' <=> Reaping(r, b)  BY DEF Reaping
<1>2. \A b \in Blocks : state[b] = "deleting" => state'[b] = "deleting"  OBVIOUS
<1>3. AbsentIsUncounted' /\ FencedIsUnreferenced'
  BY DEF FenceInv, AbsentIsUncounted, FencedIsUnreferenced
<1>4. ReaperOwnsFence'  BY <1>1, <1>2 DEF FenceInv, ReaperOwnsFence
<1> QED BY <1>3, <1>4 DEF FenceInv

LEMMA ClientKeepsFence ==
  ASSUME TypeInv, FenceInv, NEW c \in Clients, ClientStep(c)
  PROVE  FenceInv'
<1> DEFINE b == client[c].blk
<1>t. state \in [Blocks -> {"absent", "active", "deleting"}] /\ ref \in [Blocks -> Nat]
  BY DEF TypeInv, TypeOK
<1>1. CASE InsertBlock(c)
  BY <1>1, <1>t, RowFrame DEF InsertBlock, InsertRow
<1>2. CASE InsertStagedBlock(c)
  BY <1>2, <1>t, RowFrame DEF InsertStagedBlock, InsertRow
<1>3. CASE IncrementApplied(c)
  <2>1. state[b] = "active" /\ UNCHANGED <<state, reaper>>
    BY <1>3 DEF IncrementApplied
  <2>2. \A d \in Blocks : d # b => ref'[d] = ref[d]
    BY <1>3, <1>t DEF IncrementApplied
  <2> QED BY <2>1, <2>2, RowFrame
<1>4. CASE DecrementCAS(c)
  <2>1. CASE UNCHANGED ref  BY <1>4, <2>1, RowFrame DEF DecrementCAS
  <2>2. CASE state[b] # "absent" /\ ref[b] = client[c].seen
              /\ ref' = [ref EXCEPT ![b] = client[c].seen - 1]
    <3>1. b \in Blocks /\ ref[b] > 0
      BY <1>4, <2>2 DEF DecrementCAS, Running, TypeInv, ClientsAreOnBlocks,
                        DecrementsSawReferences
    <3>2. state[b] = "active"
      BY <2>2, <3>1, <1>t DEF FenceInv, FencedIsUnreferenced
    <3>3. \A d \in Blocks : d # b => ref'[d] = ref[d]  BY <2>2, <1>t
    <3> QED BY <1>4, <3>2, <3>3, RowFrame DEF DecrementCAS
  <2> QED BY <1>4, <2>1, <2>2 DEF DecrementCAS
<1>5. CASE UNCHANGED <<state, ref, reaper>>  BY <1>5, RowFrame
<1> QED
  BY <1>1, <1>2, <1>3, <1>4, <1>5
     DEF ClientStep, GetBlock, BlockExists, RepairBlock, WriteBlock, RereadStaged,
         RecordChunk, ClearCandidate, IncrementRead, IncrementRefused, DecrementRead,
         MarkGCCandidate, UpdateBlockDecrement, tables

(* A worker that is not, or no longer, past a fence disturbs nobody's fence. *)
LEMMA ReaperFrame ==
  ASSUME TypeInv, FenceInv, UNCHANGED <<state, ref>>,
         \A r \in Reapers, b \in Blocks : Reaping(r, b)' => Reaping(r, b)
  PROVE  FenceInv'
BY DEF FenceInv, AbsentIsUncounted, FencedIsUnreferenced, ReaperOwnsFence

(* A worker moves alone. *)
LEMMA OthersReap ==
  ASSUME TypeInv, NEW r \in Reapers, NEW w, reaper' = [reaper EXCEPT ![r] = w]
  PROVE  /\ reaper'[r] = w
         /\ \A q \in Reapers \ {r}, b \in Blocks : Reaping(q, b)' <=> Reaping(q, b)
BY DEF TypeInv, TypeOK, Reaping

LEMMA NextCandidateReapsNothing ==
  ASSUME TypeInv, NEW r \in Reapers, NextCandidate(r)
  PROVE  \A q \in Reapers, b \in Blocks : Reaping(q, b)' => q # r /\ Reaping(q, b)
<1> DEFINE w == [reaper[r] EXCEPT !.pc = IF reaper[r].todo = {} THEN "idle" ELSE "sweep",
                                  !.cur = NoBlock]
<1>1. reaper[r] \in Reaper  BY DEF TypeInv, TypeOK
<1>2. reaper' = [reaper EXCEPT ![r] = w]
  BY <1>1 DEF NextCandidate, Reaper, TypeInv, TypeOK
<1>3. w.pc \in {"idle", "sweep"}  BY <1>1 DEF Reaper
<1> HIDE DEF w
<1>4. reaper'[r].pc \in {"idle", "sweep"}  BY <1>2, <1>3, OthersReap
<1>5. \A b \in Blocks : ~Reaping(r, b)'  BY <1>4 DEF Reaping
<1>6. \A q \in Reapers \ {r}, b \in Blocks : Reaping(q, b)' <=> Reaping(q, b)
  BY <1>2, OthersReap
<1> QED BY <1>5, <1>6

LEMMA ReaperKeepsFence ==
  ASSUME TypeInv, FenceInv, NEW r \in Reapers, ReaperStep(r)
  PROVE  FenceInv'
<1> DEFINE b == reaper[r].cur
<1>t. /\ state \in [Blocks -> {"absent", "active", "deleting"}]
      /\ ref \in [Blocks -> Nat]
      /\ reaper[r] \in Reaper
  BY DEF TypeInv, TypeOK
<1>b. reaper[r].pc \notin {"idle", "sweep"} => b \in Blocks
  BY DEF TypeInv, ReapersAreOnBlocks
<1>1. CASE Sweep(r)
  BY <1>1, OthersReap, ReaperFrame DEF Sweep, Reaping, tables
<1>2. ASSUME NEW d \in Blocks, ReapGet(r, d) PROVE FenceInv'
  BY <1>2, OthersReap, ReaperFrame DEF ReapGet, Reaping, tables
<1>3. CASE ReapFence(r)
  <2>1. CASE Fenceable(b)
    <3>1. /\ state' = [state EXCEPT ![b] = "deleting"]
          /\ reaper' = [reaper EXCEPT ![r].pc = "erase"]
          /\ UNCHANGED ref /\ b \in Blocks
      BY <1>3, <1>b, <2>1 DEF ReapFence
    <3>2. state[b] = "active" /\ ref[b] = 0  BY <2>1 DEF Fenceable
    <3>3. AbsentIsUncounted' /\ FencedIsUnreferenced'
      BY <1>t, <3>1, <3>2 DEF FenceInv, AbsentIsUncounted, FencedIsUnreferenced
    <3>4. \A q \in Reapers : ~Reaping(q, b)
      BY <3>1, <3>2 DEF FenceInv, ReaperOwnsFence
    <3>5. \A q \in Reapers, d \in Blocks :
            Reaping(q, d)' => (q = r /\ d = b) \/ (d # b /\ Reaping(q, d))
      BY <1>t, <3>1, <3>4 DEF Reaping, TypeInv, TypeOK, Reaper
    <3>6. ReaperOwnsFence'
      BY <1>t, <3>1, <3>5 DEF FenceInv, ReaperOwnsFence
    <3> QED BY <3>3, <3>6 DEF FenceInv
  <2>2. CASE ~Fenceable(b)
    BY <1>3, <2>2, NextCandidateReapsNothing, ReaperFrame DEF ReapFence
  <2> QED BY <2>1, <2>2
<1>4. CASE ReapErase(r)
  <2>1. \A q \in Reapers, d \in Blocks : Reaping(q, d)' => Reaping(q, d)
    BY <1>4, <1>t DEF ReapErase, Reaping, TypeInv, TypeOK, Reaper
  <2> QED BY <1>4, <2>1, ReaperFrame DEF ReapErase
<1>5. CASE ReapStrike(r)
  <2>1. /\ state' = [state EXCEPT ![b] = "absent"] /\ ref' = [ref EXCEPT ![b] = 0]
        /\ reaper' = [reaper EXCEPT ![r].pc = "unlist"]
        /\ b \in Blocks /\ Reaping(r, b)
    BY <1>5, <1>b DEF ReapStrike, Reaping
  <2>2. AbsentIsUncounted' /\ FencedIsUnreferenced'
    BY <1>t, <2>1 DEF FenceInv, AbsentIsUncounted, FencedIsUnreferenced
  <2>3. \A q \in Reapers \ {r} : ~Reaping(q, b)
    BY <2>1 DEF FenceInv, ReaperOwnsFence
  <2>4. \A q \in Reapers, d \in Blocks : Reaping(q, d)' => d # b /\ Reaping(q, d)
    BY <1>t, <2>1, <2>3 DEF Reaping, TypeInv, TypeOK, Reaper
  <2>5. ReaperOwnsFence'
    BY <1>t, <2>1, <2>4 DEF FenceInv, ReaperOwnsFence
  <2> QED BY <2>2, <2>5 DEF FenceInv
<1>6. CASE ReapUnlist(r)
  BY <1>6, NextCandidateReapsNothing, ReaperFrame DEF ReapUnlist
<1> QED BY <1>1, <1>2, <1>3, <1>4, <1>5, <1>6 DEF ReaperStep

LEMMA NextFenceInv == TypeInv /\ FenceInv /\ [Next]_vars => FenceInv'
<1> SUFFICES ASSUME TypeInv, FenceInv, [Next]_vars PROVE FenceInv'
  OBVIOUS
<1>1. CASE UNCHANGED <<state, ref, reaper>>  BY <1>1, RowFrame
<1>2. ASSUME NEW c \in Clients, ClientStep(c) PROVE FenceInv'
  BY <1>2, ClientKeepsFence
<1>3. ASSUME NEW r \in Reapers, ReaperStep(r) PROVE FenceInv'
  BY <1>3, ReaperKeepsFence
<1>4. ASSUME NEW r \in Reapers, ReapFail(r) PROVE FenceInv'
  BY <1>4, NextCandidateReapsNothing, ReaperFrame DEF ReapFail, tables
<1>5. ASSUME NEW r \in Reapers, ReapCrash(r) PROVE FenceInv'
  BY <1>5, OthersReap, ReaperFrame DEF ReapCrash, Reaping, Resting, tables
<1> QED
  BY <1>1, <1>2, <1>3, <1>4, <1>5
     DEF Next, vars, tables, ClientStart, StartChunk, StartStage, StartCommit, StartDrop,
         Start, ClientCrash, Mature, Expire, FaultsCease

THEOREM FenceInvariance == Spec => [](TypeInv /\ FenceInv)
<1>1. Init => TypeInv /\ FenceInv  BY InitTypeInv, InitFenceInv
<1>2. TypeInv /\ FenceInv /\ [Next]_vars => (TypeInv /\ FenceInv)'
  BY NextTypeInv, NextFenceInv
<1> QED BY <1>1, <1>2, PTL DEF Spec

(* A fenced block counts nothing: IncrementRefCount, DecrementRefCount and    *)
(* FenceForDelete close the race between a reaper's read of the count and    *)
(* its delete, with any number of service instances.                         *)
THEOREM FenceSafety == Spec => []FencedIsUnreferenced
BY FenceInvariance, PTL DEF FenceInv

(* A GC worker past the fence is alone there, though its deletes carry no    *)
(* condition, however many workers there are and however they crash.         *)
THEOREM FenceOwnership == Spec => []ReaperOwnsFence
BY FenceInvariance, PTL DEF FenceInv

-----------------------------------------------------------------------------
(* What a step does to the rows and the bytes, seen from outside: the        *)
(* abstract lifecycle.                                                       *)

LEMMA ClientRefines ==
  ASSUME TypeInv, FenceInv, NEW c \in Clients, ClientStep(c)
  PROVE  Lifecycle!Next \/ UNCHANGED <<state, ref, object>>
<1> DEFINE b == client[c].blk
<1>t. state \in [Blocks -> {"absent", "active", "deleting"}] /\ ref \in [Blocks -> Nat]
  BY DEF TypeInv, TypeOK
<1>b. client[c].pc # "idle" => b \in Blocks  BY DEF TypeInv, ClientsAreOnBlocks
<1>1. CASE RepairBlock(c)
  BY <1>1, <1>b DEF RepairBlock, Lifecycle!Next, Lifecycle!Write
<1>2. CASE WriteBlock(c)
  BY <1>2, <1>b DEF WriteBlock, Lifecycle!Next, Lifecycle!Write
<1>3. ASSUME NEW n \in {0, 1}, InsertRow(b, n), b \in Blocks
      PROVE  Lifecycle!Next \/ UNCHANGED <<state, ref, object>>
  <2>1. CASE state[b] = "absent"
    <3>1. Lifecycle!Create(b, n)  BY <1>3, <2>1, <1>t DEF InsertRow, Lifecycle!Create
    <3> QED BY <1>3, <3>1 DEF Lifecycle!Next
  <2>2. CASE state[b] # "absent"
    BY <1>3, <2>2, <1>t DEF InsertRow
  <2> QED BY <2>1, <2>2
<1>4. CASE InsertBlock(c)
  BY <1>3, <1>4, <1>b DEF InsertBlock, Running
<1>5. CASE InsertStagedBlock(c)
  BY <1>3, <1>5, <1>b DEF InsertStagedBlock, Running
<1>6. CASE IncrementApplied(c)
  <2>1. Lifecycle!Grant(b) /\ b \in Blocks
    BY <1>6, <1>b DEF IncrementApplied, Lifecycle!Grant
  <2> QED BY <2>1 DEF Lifecycle!Next
<1>7. CASE DecrementCAS(c)
  <2>1. CASE UNCHANGED ref  BY <1>7, <2>1 DEF DecrementCAS
  <2>2. CASE state[b] # "absent" /\ ref[b] = client[c].seen
              /\ ref' = [ref EXCEPT ![b] = client[c].seen - 1]
    <3>1. b \in Blocks /\ ref[b] > 0
      BY <1>7, <2>2 DEF DecrementCAS, Running, TypeInv, ClientsAreOnBlocks,
                        DecrementsSawReferences
    <3>2. state[b] = "active"
      BY <2>2, <3>1, <1>t DEF FenceInv, FencedIsUnreferenced
    <3>3. Lifecycle!Release(b)
      BY <1>7, <2>2, <3>1, <3>2 DEF DecrementCAS, Lifecycle!Release
    <3> QED BY <3>1, <3>3 DEF Lifecycle!Next
  <2> QED BY <1>7, <2>1, <2>2 DEF DecrementCAS
<1>8. CASE UNCHANGED <<state, ref, object>>  BY <1>8
<1> QED
  BY <1>1, <1>2, <1>4, <1>5, <1>6, <1>7, <1>8
     DEF ClientStep, GetBlock, BlockExists, RereadStaged, RecordChunk, ClearCandidate,
         IncrementRead, IncrementRefused, DecrementRead, MarkGCCandidate,
         UpdateBlockDecrement, tables

LEMMA ReaperRefines ==
  ASSUME TypeInv, FenceInv, NEW r \in Reapers, ReaperStep(r)
  PROVE  Lifecycle!Next \/ UNCHANGED <<state, ref, object>>
<1> DEFINE b == reaper[r].cur
<1>t. state \in [Blocks -> {"absent", "active", "deleting"}] /\ ref \in [Blocks -> Nat]
  BY DEF TypeInv, TypeOK
<1>b. reaper[r].pc \notin {"idle", "sweep"} => b \in Blocks
  BY DEF TypeInv, ReapersAreOnBlocks
<1>1. CASE ReapFence(r)
  <2>1. CASE Fenceable(b)
    <3>1. Lifecycle!Condemn(b) /\ b \in Blocks
      BY <1>1, <1>b, <2>1 DEF ReapFence, Fenceable, Lifecycle!Condemn
    <3> QED BY <3>1 DEF Lifecycle!Next
  <2>2. CASE ~Fenceable(b)  BY <1>1, <2>2 DEF ReapFence
  <2> QED BY <2>1, <2>2
<1>2. CASE ReapErase(r)
  <2>1. b \in Blocks /\ Reaping(r, b)  BY <1>2, <1>b DEF ReapErase, Reaping
  <2>2. state[b] = "deleting" /\ ref[b] = 0
    BY <2>1 DEF FenceInv, ReaperOwnsFence, FencedIsUnreferenced
  <2>3. Lifecycle!Erase(b)  BY <1>2, <2>2 DEF ReapErase, Lifecycle!Erase
  <2> QED BY <2>1, <2>3 DEF Lifecycle!Next
<1>3. CASE ReapStrike(r)
  <2>1. b \in Blocks /\ Reaping(r, b)  BY <1>3, <1>b DEF ReapStrike, Reaping
  <2>2. state[b] = "deleting" /\ ref[b] = 0
    BY <2>1 DEF FenceInv, ReaperOwnsFence, FencedIsUnreferenced
  <2>3. ref' = ref  BY <1>3, <1>t, <2>2 DEF ReapStrike
  <2>4. Lifecycle!Strike(b)  BY <1>3, <2>2, <2>3 DEF ReapStrike, Lifecycle!Strike
  <2> QED BY <2>1, <2>4 DEF Lifecycle!Next
<1>4. CASE UNCHANGED <<state, ref, object>>  BY <1>4
<1> QED
  BY <1>1, <1>2, <1>3, <1>4 DEF ReaperStep, Sweep, ReapGet, ReapUnlist, tables

LEMMA StepRefines ==
  TypeInv /\ FenceInv /\ [Next]_vars => [Lifecycle!Next]_(Lifecycle!vars)
<1> SUFFICES ASSUME TypeInv, FenceInv, [Next]_vars
             PROVE  Lifecycle!Next \/ UNCHANGED <<state, ref, object>>
  BY DEF Lifecycle!vars
<1>1. CASE UNCHANGED <<state, ref, object>>  BY <1>1
<1>2. ASSUME NEW c \in Clients, ClientStep(c)
      PROVE  Lifecycle!Next \/ UNCHANGED <<state, ref, object>>
  BY <1>2, ClientRefines
<1>3. ASSUME NEW r \in Reapers, ReaperStep(r)
      PROVE  Lifecycle!Next \/ UNCHANGED <<state, ref, object>>
  BY <1>3, ReaperRefines
<1> QED
  BY <1>1, <1>2, <1>3
     DEF Next, vars, tables, ClientStart, StartChunk, StartStage, StartCommit, StartDrop,
         Start, ClientCrash, Mature, Expire, ReapFail, ReapCrash, FaultsCease

(* The block store, with all its processes, reads and retries, implements    *)
(* the abstract lifecycle of a block: a count moves only while the block is  *)
(* live, and the way to oblivion leads through the fence.                    *)
THEOREM Refinement == Spec => ImplementsLifecycle
<1>1. Init => Lifecycle!Init  BY DEF Init, Lifecycle!Init
<1> QED
  BY <1>1, StepRefines, FenceInvariance, PTL
     DEF Spec, ImplementsLifecycle, Lifecycle!Spec

-----------------------------------------------------------------------------

LEMMA StepReapsFenced ==
  ASSUME TypeInv, FenceInv, [Next]_vars
  PROVE  \A b \in Blocks :
           (state'[b] = "absent" /\ state[b] # "absent") \/ (object[b] /\ ~object'[b])
             => state[b] = "deleting" /\ ref[b] = 0
<1>t. /\ state \in [Blocks -> {"absent", "active", "deleting"}]
      /\ object \in [Blocks -> BOOLEAN]
  BY DEF TypeInv, TypeOK
<1>1. CASE UNCHANGED <<state, ref, object>>  BY <1>1
<1>2. CASE Lifecycle!Next
  BY <1>2, <1>t
     DEF Lifecycle!Next, Lifecycle!Write, Lifecycle!Create, Lifecycle!Grant,
         Lifecycle!Release, Lifecycle!Condemn, Lifecycle!Erase, Lifecycle!Strike
<1> QED BY <1>1, <1>2, StepRefines DEF Lifecycle!vars

(* DeleteBlock and DeleteBlockRecord carry no condition, and still nothing   *)
(* disappears but a fenced block without references.                         *)
THEOREM ReapSafety == Spec => ReapedOnlyWhenFenced
<1>1. TypeInv /\ FenceInv /\ [Next]_vars =>
        [\A b \in Blocks :
           (state'[b] = "absent" /\ state[b] # "absent") \/ (object[b] /\ ~object'[b])
             => state[b] = "deleting" /\ ref[b] = 0]_vars
  BY StepReapsFenced
<1> QED BY <1>1, FenceInvariance, PTL DEF Spec, ReapedOnlyWhenFenced

-----------------------------------------------------------------------------
(* A live row has its bytes.  Inductively: a writer about to insert its row  *)
(* has put them, or a reaper has crossed it since.                           *)

InsertersHaveBytes ==
  \A c \in Clients :
    client[c].pc = "insert" =>
      object[client[c].blk] \/ "crossed" \in blame[client[c].blk]

BytesInv == LiveRowHasBytes /\ InsertersHaveBytes

LEMMA BytesFrame ==
  ASSUME TypeInv, BytesInv,
         \A b \in Blocks : (object[b] => object'[b]) /\ blame[b] \subseteq blame'[b],
         \A c \in Clients : client'[c].pc = "insert" =>
           /\ client'[c].blk = client[c].blk
           /\ client[c].pc = "insert" \/ object'[client[c].blk],
         \A b \in Blocks :
           state'[b] = "active" => state[b] = "active" \/ object'[b] \/ "crossed" \in blame'[b]
  PROVE  BytesInv'
<1>1. \A c \in Clients : client[c].pc = "insert" => client[c].blk \in Blocks
  BY DEF TypeInv, ClientsAreOnBlocks
<1>2. LiveRowHasBytes'  BY DEF BytesInv, LiveRowHasBytes
<1>3. InsertersHaveBytes'  BY <1>1 DEF BytesInv, InsertersHaveBytes
<1> QED BY <1>2, <1>3 DEF BytesInv

(* Blame is never withdrawn. *)
LEMMA AccuseGrows ==
  ASSUME TypeInv, NEW b \in Blocks, NEW what, Accuse(b, what)
  PROVE  \A d \in Blocks : blame[d] \subseteq blame'[d]
BY DEF Accuse, TypeInv, TypeOK

LEMMA GotoInserts ==
  ASSUME TypeInv, NEW c \in Clients, NEW step, Goto(c, step),
         step = "insert" => object'[client[c].blk]
  PROVE  \A d \in Clients : client'[d].pc = "insert" =>
           /\ client'[d].blk = client[d].blk
           /\ client[d].pc = "insert" \/ object'[client[d].blk]
BY DEF Goto, TypeInv, TypeOK, Client

LEMMA ReturnInserts ==
  ASSUME TypeInv, NEW c \in Clients, Return(c)
  PROVE  \A d \in Clients : client'[d].pc = "insert" =>
           /\ client'[d].blk = client[d].blk
           /\ client[d].pc = "insert"
BY DEF Return, Idle, TypeInv, TypeOK

LEMMA FailsKeepBytes ==
  ASSUME TypeInv, BytesInv, NEW c \in Clients, client[c].blk \in Blocks,
         IncrementFails(c), UNCHANGED <<state, object>>
  PROVE  BytesInv'
<1>1. \A d \in Blocks : blame[d] \subseteq blame'[d]
  BY AccuseGrows DEF IncrementFails
<1>2. Return(c)  BY DEF IncrementFails
<1> QED BY <1>1, <1>2, ReturnInserts, BytesFrame

LEMMA ClientKeepsBytes ==
  ASSUME TypeInv, BytesInv, NEW c \in Clients, ClientStep(c)
  PROVE  BytesInv'
<1> DEFINE b == client[c].blk
<1>t. /\ state \in [Blocks -> {"absent", "active", "deleting"}]
      /\ object \in [Blocks -> BOOLEAN]
      /\ client \in [Clients -> Client]
  BY DEF TypeInv, TypeOK
<1>b. client[c].pc # "idle" => b \in Blocks  BY DEF TypeInv, ClientsAreOnBlocks
<1>1. CASE /\ UNCHANGED <<state, object, blame>>
           /\ \/ Return(c)
              \/ \E step \in ClientSteps \ {"insert"} : Goto(c, step)
  BY <1>1, GotoInserts, ReturnInserts, BytesFrame
<1>s. {"idle", "get", "probe", "repair", "put", "record", "reread", "clear", "read", "cas",
       "mark", "settle"} = ClientSteps \ {"insert"}
  BY DEF ClientSteps
<1>2. CASE RepairBlock(c)
  <2>1. \A d \in Blocks : object[d] => object'[d]  BY <1>2, <1>t DEF RepairBlock
  <2> QED BY <1>2, <2>1, GotoInserts, ReturnInserts, BytesFrame DEF RepairBlock
<1>3. CASE WriteBlock(c)
  <2>1. object'[b] /\ \A d \in Blocks : object[d] => object'[d]
    BY <1>3, <1>t, <1>b DEF WriteBlock
  <2> QED BY <1>3, <2>1, GotoInserts, BytesFrame DEF WriteBlock
<1>4. ASSUME NEW n, client[c].pc = "insert", InsertRow(b, n),
             \A d \in Blocks : blame[d] \subseteq blame'[d],
             NEW step, step # "insert", Goto(c, step)
      PROVE  BytesInv'
  <2>1. b \in Blocks /\ (object[b] \/ "crossed" \in blame[b])
    BY <1>4, <1>b DEF BytesInv, InsertersHaveBytes
  <2>2. object' = object /\ \A d \in Blocks : d # b => state'[d] = state[d]
    BY <1>4, <1>t DEF InsertRow
  <2>3. \A d \in Blocks :
          state'[d] = "active" => state[d] = "active" \/ object'[d] \/ "crossed" \in blame'[d]
    BY <1>4, <2>1, <2>2
  <2> QED BY <1>4, <2>2, <2>3, GotoInserts, BytesFrame
<1>5. CASE InsertBlock(c)
  <2>1. \A d \in Blocks : blame[d] \subseteq blame'[d]
    BY <1>5, <1>b, AccuseGrows DEF InsertBlock, Running
  <2> QED BY <1>4, <1>5, <2>1 DEF InsertBlock, Running
<1>6. CASE InsertStagedBlock(c)
  BY <1>4, <1>6 DEF InsertStagedBlock, Running
<1>7. CASE IncrementRead(c) \/ IncrementRefused(c)
  <2>1. b \in Blocks  BY <1>7, <1>b DEF IncrementRead, IncrementRefused
  <2>2. CASE IncrementFails(c)
    BY <1>7, <2>1, <2>2, FailsKeepBytes DEF IncrementRead, IncrementRefused, tables
  <2>3. CASE /\ UNCHANGED blame
             /\ \/ client' = [client EXCEPT ![c].pc = "cas", ![c].seen = ref[b]]
                \/ client' = [client EXCEPT ![c].pc = "read", ![c].tries = @ + 1]
    <3>1. \A d \in Clients : client'[d].pc = "insert" =>
            client'[d].blk = client[d].blk /\ client[d].pc = "insert"
      BY <1>t, <2>3 DEF Client
    <3> QED BY <1>7, <2>3, <3>1, BytesFrame DEF IncrementRead, IncrementRefused, tables
  <2> QED BY <1>7, <2>2, <2>3 DEF IncrementRead, IncrementRefused
<1>8. CASE DecrementRead(c)
  <2>1. CASE client' = [client EXCEPT ![c].pc = "cas", ![c].seen = ref[b]]
    <3>1. \A d \in Clients : client'[d].pc = "insert" =>
            client'[d].blk = client[d].blk /\ client[d].pc = "insert"
      BY <1>t, <2>1 DEF Client
    <3> QED BY <1>8, <2>1, <3>1, BytesFrame DEF DecrementRead, tables
  <2>2. CASE Goto(c, "settle") \/ Goto(c, "mark")
    BY <1>1, <1>8, <1>s, <2>2 DEF DecrementRead, tables
  <2> QED BY <1>8, <2>1, <2>2 DEF DecrementRead
<1>9. CASE MarkGCCandidate(c)
  <2>1. \A d \in Clients : Age(d, b).pc = client[d].pc /\ Age(d, b).blk = client[d].blk
    BY <1>t DEF Age, Client
  <2>2. client[c].pc = "mark" /\ Age(c, b) \in Client
    BY <1>9, <1>t, <1>b DEF MarkGCCandidate, Age, Client
  <2>3. \A d \in Clients : client'[d].pc = "insert" =>
          client'[d].blk = client[d].blk /\ client[d].pc = "insert"
    BY <1>9, <2>1, <2>2 DEF MarkGCCandidate, Idle, Client
  <2> QED BY <1>9, <2>3, BytesFrame DEF MarkGCCandidate
<1>10. CASE GetBlock(c)
  <2>1. \E step \in {"put", "probe"} : Goto(c, step)  BY <1>10 DEF GetBlock
  <2> QED BY <1>1, <1>10, <1>s, <2>1 DEF GetBlock, tables
<1>11. CASE DecrementCAS(c)
  <2>1. \E step \in {"mark", "settle", "read"} : Goto(c, step)  BY <1>11 DEF DecrementCAS
  <2> QED BY <1>1, <1>11, <1>s, <2>1 DEF DecrementCAS
<1>12. CASE BlockExists(c) \/ RereadStaged(c)
  BY <1>1, <1>12, <1>s DEF BlockExists, RereadStaged, tables
<1>13. CASE RecordChunk(c) \/ ClearCandidate(c) \/ UpdateBlockDecrement(c)
  BY <1>1, <1>13, <1>s DEF RecordChunk, ClearCandidate, UpdateBlockDecrement, tables
<1>14. CASE IncrementApplied(c)
  BY <1>1, <1>14, <1>s DEF IncrementApplied
<1> QED
  BY <1>2, <1>3, <1>5, <1>6, <1>7, <1>8, <1>9, <1>10, <1>11, <1>12, <1>13, <1>14
     DEF ClientStep

LEMMA ReaperKeepsBytes ==
  ASSUME TypeInv, FenceInv, BytesInv, NEW r \in Reapers, ReaperStep(r)
  PROVE  BytesInv'
<1> DEFINE b == reaper[r].cur
<1>t. /\ state \in [Blocks -> {"absent", "active", "deleting"}]
      /\ object \in [Blocks -> BOOLEAN]
      /\ blame \in [Blocks -> SUBSET Blames]
  BY DEF TypeInv, TypeOK
<1>b. reaper[r].pc \notin {"idle", "sweep"} => b \in Blocks
  BY DEF TypeInv, ReapersAreOnBlocks
<1>1. CASE UNCHANGED <<state, object, client, blame>>
  BY <1>1, BytesFrame
<1>2. CASE ReapFence(r)
  <2>1. \A d \in Blocks : state'[d] = "active" => state[d] = "active"
    BY <1>2, <1>t DEF ReapFence
  <2> QED BY <1>2, <2>1, BytesFrame DEF ReapFence
<1>3. CASE ReapStrike(r)
  <2>1. \A d \in Blocks : state'[d] = "active" => state[d] = "active"
    BY <1>3, <1>t DEF ReapStrike
  <2> QED BY <1>3, <2>1, BytesFrame DEF ReapStrike
<1>4. CASE ReapUnlist(r)
  <2>1. \A d \in Blocks : blame[d] \subseteq blame'[d]
    BY <1>4, <1>b, AccuseGrows DEF ReapUnlist
  <2> QED BY <1>4, <2>1, BytesFrame DEF ReapUnlist
<1>5. CASE ReapErase(r)
  <2>1. /\ object' = [object EXCEPT ![b] = FALSE]
        /\ UNCHANGED <<state, client>>
        /\ b \in Blocks /\ Reaping(r, b)
    BY <1>5, <1>b DEF ReapErase, Reaping
  <2>2. state[b] = "deleting"  BY <2>1 DEF FenceInv, ReaperOwnsFence
  <2>3. \A d \in Blocks : blame[d] \subseteq blame'[d]
    BY <1>5, <2>1, AccuseGrows DEF ReapErase
  <2>4. \A d \in Blocks : d # b => object'[d] = object[d]  BY <1>t, <2>1
  <2>5. LiveRowHasBytes'
    BY <2>1, <2>2, <2>3, <2>4 DEF BytesInv, LiveRowHasBytes
  <2>6. ASSUME NEW c \in Clients, client[c].pc = "insert"
        PROVE  object'[client[c].blk] \/ "crossed" \in blame'[client[c].blk]
    <3>1. client[c].blk \in Blocks  BY <2>6 DEF TypeInv, ClientsAreOnBlocks
    <3>2. CASE client[c].blk = b
      <4>1. Accuse(b, {"crossed"})  BY <1>5, <2>6, <3>2 DEF ReapErase, Crossing
      <4> QED BY <1>t, <2>1, <3>2, <4>1 DEF Accuse
    <3>3. CASE client[c].blk # b
      BY <2>3, <2>4, <2>6, <3>1, <3>3 DEF BytesInv, InsertersHaveBytes
    <3> QED BY <3>2, <3>3
  <2>7. InsertersHaveBytes'  BY <2>1, <2>6 DEF InsertersHaveBytes
  <2> QED BY <2>5, <2>7 DEF BytesInv
<1> QED
  BY <1>1, <1>2, <1>3, <1>4, <1>5 DEF ReaperStep, Sweep, ReapGet, tables

LEMMA NextBytesInv == TypeInv /\ FenceInv /\ BytesInv /\ [Next]_vars => BytesInv'
<1> SUFFICES ASSUME TypeInv, FenceInv, BytesInv, [Next]_vars PROVE BytesInv'
  OBVIOUS
<1>1. CASE UNCHANGED <<state, object, client, blame>>  BY <1>1, BytesFrame
<1>2. ASSUME NEW c \in Clients, ClientStep(c) PROVE BytesInv'
  BY <1>2, ClientKeepsBytes
<1>3. ASSUME NEW r \in Reapers, ReaperStep(r) PROVE BytesInv'
  BY <1>3, ReaperKeepsBytes
<1>4. ASSUME NEW c \in Clients, NEW b \in Blocks, ClientStart(c, b) PROVE BytesInv'
  <2>1. \E op \in AllOps, step \in ClientSteps \ {"insert"} : Start(c, op, b, step)
    BY <1>4 DEF ClientStart, StartChunk, StartStage, StartCommit, StartDrop, AllOps, ClientSteps
  <2>2. \A d \in Clients : client'[d].pc = "insert" =>
          client'[d].blk = client[d].blk /\ client[d].pc = "insert"
    BY <2>1 DEF Start, Idle, TypeInv, TypeOK
  <2> QED BY <2>1, <2>2, BytesFrame DEF Start, tables
<1>5. ASSUME NEW c \in Clients, ClientCrash(c) PROVE BytesInv'
  <2>1. client[c].blk \in Blocks /\ UNCHANGED <<state, object>>
    BY <1>5 DEF ClientCrash, TypeInv, ClientsAreOnBlocks, tables
  <2>2. CASE IncrementFails(c)  BY <2>1, <2>2, FailsKeepBytes
  <2>3. CASE ~IncrementFails(c)
    <3>1. \A d \in Blocks : blame[d] \subseteq blame'[d]
      BY <1>5, <2>1, <2>3, AccuseGrows DEF ClientCrash
    <3>2. \/ Return(c)
          \/ client' = [client EXCEPT ![c].pc = "read", ![c].seen = 0]
      BY <1>5, <2>3 DEF ClientCrash
    <3>3. \A d \in Clients : client'[d].pc = "insert" =>
            client'[d].blk = client[d].blk /\ client[d].pc = "insert"
      BY <3>2, ReturnInserts DEF TypeInv, TypeOK, Client
    <3> QED BY <2>1, <3>1, <3>3, BytesFrame
  <2> QED BY <2>2, <2>3
<1>6. ASSUME NEW b \in Blocks, Expire(b) PROVE BytesInv'
  <2>1. UNCHANGED <<state, object, client>>  BY <1>6 DEF Expire
  <2> QED BY <1>6, <2>1, ExpireType, BytesFrame
<1> QED
  BY <1>1, <1>2, <1>3, <1>4, <1>5, <1>6
     DEF Next, vars, tables, Mature, ReapFail, ReapCrash, FaultsCease

(* WriteBlock comes before InsertBlock, and DeleteBlock after the fence: a   *)
(* live row has its bytes, at every step and after every crash, unless a     *)
(* reaper erased them under a writer that was about to insert the row.       *)
THEOREM BytesSafety == Spec => []LiveRowHasBytes
<1>1. Init => BytesInv
  BY DEF Init, BytesInv, LiveRowHasBytes, InsertersHaveBytes, Idle
<1>2. TypeInv /\ FenceInv /\ BytesInv /\ [Next]_vars => BytesInv'
  BY NextBytesInv
<1>3. BytesInv => LiveRowHasBytes  BY DEF BytesInv
<1> QED BY <1>1, <1>2, <1>3, FenceInvariance, PTL DEF Spec

-----------------------------------------------------------------------------
(* The counts: they cover the owners (OwnersAreCounted), so owned bytes are  *)
(* lost only through the windows the model names (LossIsExplained), and what *)
(* nobody counts is on the candidate list (UnreferencedIsListed).            *)

(* What one client contributes to Pending and to Unapplied.                  *)

InFlight(x, op, steps, b) == x.op = op /\ x.pc \in steps /\ x.blk = b

Owes(x, b) == IF \/ InFlight(x, "chunk", {"record"}, b)
                 \/ InFlight(x, "drop", {"read", "cas"}, b)
              THEN 1 ELSE 0

Excused(x, b) == IF InFlight(x, "commit", ClientSteps, b) THEN 1 ELSE 0

(* Everybody but c is where it was. *)
Others(c) ==
  \A d \in Clients \ {c} : /\ client'[d].op = client[d].op
                           /\ client'[d].pc = client[d].pc
                           /\ client'[d].blk = client[d].blk

LEMMA CountMoves ==
  ASSUME NEW c \in Clients, Others(c), NEW op, NEW steps, NEW b
  PROVE  /\ CountOf(op, steps, b) \in Nat /\ CountOf(op, steps, b)' \in Nat
         /\ CountOf(op, steps, b)' + (IF InFlight(client[c], op, steps, b) THEN 1 ELSE 0)
              = CountOf(op, steps, b) + (IF InFlight(client'[c], op, steps, b) THEN 1 ELSE 0)
<1> DEFINE A == {d \in Clients : InFlight(client[d], op, steps, b)}
           B == {d \in Clients : InFlight(client'[d], op, steps, b)}
<1>1. CountOf(op, steps, b) = Cardinality(A) /\ CountOf(op, steps, b)' = Cardinality(B)
  BY DEF CountOf, InFlight
<1>2. A \in SUBSET Clients /\ B \in SUBSET Clients
  OBVIOUS
<1>3. IsFiniteSet(A) /\ IsFiniteSet(B)
  BY <1>2, ClientsAssumption, FS_Subset
<1>4. Cardinality(A) \in Nat /\ Cardinality(B) \in Nat
  BY <1>3, FS_CardinalityType
<1>5. \A d \in Clients \ {c} : d \in A <=> d \in B
  BY DEF Others, InFlight
<1>6. c \in A <=> InFlight(client[c], op, steps, b)
  OBVIOUS
<1>7. c \in B <=> InFlight(client'[c], op, steps, b)
  OBVIOUS
<1>8. A \subseteq Clients /\ B \subseteq Clients
  OBVIOUS
<1> HIDE DEF A, B
<1>9. CASE c \in A /\ c \notin B
  <2>1. B = A \ {c}  BY <1>5, <1>8, <1>9
  <2> QED BY <1>1, <1>3, <1>4, <1>6, <1>7, <1>9, <2>1, FS_RemoveElement
<1>10. CASE c \notin A /\ c \in B
  <2>1. B = A \cup {c}  BY <1>5, <1>8, <1>10
  <2> QED BY <1>1, <1>3, <1>4, <1>6, <1>7, <1>10, <2>1, FS_AddElement
<1>11. CASE (c \in A) <=> (c \in B)
  <2>1. A = B  BY <1>5, <1>8, <1>11
  <2> QED BY <1>1, <1>4, <1>6, <1>7, <1>11, <2>1
<1> QED BY <1>9, <1>10, <1>11

LEMMA WeightsMove ==
  ASSUME NEW c \in Clients, Others(c), NEW b
  PROVE  /\ Pending(b) \in Nat /\ Pending(b)' \in Nat
         /\ Unapplied(b) \in Nat /\ Unapplied(b)' \in Nat
         /\ Pending(b)' + Owes(client[c], b) = Pending(b) + Owes(client'[c], b)
         /\ Unapplied(b)' + Excused(client[c], b) = Unapplied(b) + Excused(client'[c], b)
<1> DEFINE one(x, op, steps) == IF InFlight(x, op, steps, b) THEN 1 ELSE 0
<1>1. /\ CountOf("chunk", {"record"}, b) \in Nat /\ CountOf("chunk", {"record"}, b)' \in Nat
      /\ CountOf("chunk", {"record"}, b)' + one(client[c], "chunk", {"record"})
           = CountOf("chunk", {"record"}, b) + one(client'[c], "chunk", {"record"})
  BY CountMoves
<1>2. /\ CountOf("drop", {"read", "cas"}, b) \in Nat /\ CountOf("drop", {"read", "cas"}, b)' \in Nat
      /\ CountOf("drop", {"read", "cas"}, b)' + one(client[c], "drop", {"read", "cas"})
           = CountOf("drop", {"read", "cas"}, b) + one(client'[c], "drop", {"read", "cas"})
  BY CountMoves
<1>3. /\ CountOf("commit", ClientSteps, b) \in Nat /\ CountOf("commit", ClientSteps, b)' \in Nat
      /\ CountOf("commit", ClientSteps, b)' + one(client[c], "commit", ClientSteps)
           = CountOf("commit", ClientSteps, b) + one(client'[c], "commit", ClientSteps)
  BY CountMoves
<1>4. \A x : /\ Owes(x, b) = one(x, "chunk", {"record"}) + one(x, "drop", {"read", "cas"})
             /\ Excused(x, b) = one(x, "commit", ClientSteps)
  BY DEF Owes, Excused, InFlight
<1>5. \A x : one(x, "chunk", {"record"}) \in Nat /\ one(x, "drop", {"read", "cas"}) \in Nat
             /\ one(x, "commit", ClientSteps) \in Nat
  OBVIOUS
<1> HIDE DEF one
<1>6. /\ Pending(b) = CountOf("chunk", {"record"}, b) + CountOf("drop", {"read", "cas"}, b)
      /\ Pending(b)' = CountOf("chunk", {"record"}, b)' + CountOf("drop", {"read", "cas"}, b)'
      /\ Unapplied(b) = CountOf("commit", ClientSteps, b)
      /\ Unapplied(b)' = CountOf("commit", ClientSteps, b)'
  BY DEF Pending, Unapplied
<1>7. Pending(b)' + Owes(client[c], b) = Pending(b) + Owes(client'[c], b)
  BY <1>1, <1>2, <1>4, <1>5, <1>6
<1>8. Unapplied(b)' + Excused(client[c], b) = Unapplied(b) + Excused(client'[c], b)
  BY <1>3, <1>4, <1>5, <1>6
<1> QED BY <1>1, <1>2, <1>3, <1>6, <1>7, <1>8

-----------------------------------------------------------------------------
(* The inductive invariant: who rests has no operation, only an edit block   *)
(* or a decrement marks a candidate, and where a decrement can be.           *)

DropSteps == {"read", "cas", "mark", "settle"}

Roles ==
  \A c \in Clients : /\ client[c].pc = "idle" => client[c].op = "none"
                     /\ client[c].pc = "mark" => client[c].op \in {"stage", "drop"}
                     /\ client[c].op = "drop" => client[c].pc \in DropSteps

CountInv == Roles /\ OwnersAreCounted

(* Client c moves on one block: what it owes there, less what excuses it,    *)
(* may grow only with the count.                                             *)
LEMMA OneBlock ==
  ASSUME TypeInv, TypeInv', CountInv, NEW c \in Clients, Others(c), NEW b \in Blocks,
         client[c].blk = b \/ client[c].op = "none",
         client'[c].blk = b \/ client'[c].op = "none",
         client'[c].pc = "idle" => client'[c].op = "none",
         client'[c].pc = "mark" => client'[c].op \in {"stage", "drop"},
         client'[c].op = "drop" => client'[c].pc \in DropSteps,
         \A d \in Blocks \ {b} : owners'[d] = owners[d] /\ ref'[d] = ref[d],
         \A d \in Blocks : blame[d] \subseteq blame'[d],
         \/ "miscounted" \in blame'[b]
         \/ owners'[b] + Owes(client'[c], b) + ref[b] + Excused(client[c], b)
              <= owners[b] + Owes(client[c], b) + ref'[b] + Excused(client'[c], b)
  PROVE  CountInv'
<1>1. Roles'
  BY DEF CountInv, Roles, Others
<1>2. ASSUME NEW d \in Blocks, "miscounted" \notin blame'[d]
      PROVE  owners'[d] + Pending(d)' <= ref'[d] + Unapplied(d)'
  <2>1. /\ Pending(d) \in Nat /\ Pending(d)' \in Nat
        /\ Unapplied(d) \in Nat /\ Unapplied(d)' \in Nat
        /\ Pending(d)' + Owes(client[c], d) = Pending(d) + Owes(client'[c], d)
        /\ Unapplied(d)' + Excused(client[c], d) = Unapplied(d) + Excused(client'[c], d)
    BY WeightsMove
  <2>2. owners[d] + Pending(d) <= ref[d] + Unapplied(d)
    BY <1>2 DEF CountInv, OwnersAreCounted
  <2>3. owners[d] \in Nat /\ owners'[d] \in Nat /\ ref[d] \in Nat /\ ref'[d] \in Nat
    BY DEF TypeInv, TypeOK
  <2>4. /\ Owes(client[c], d) \in 0..1 /\ Owes(client'[c], d) \in 0..1
        /\ Excused(client[c], d) \in 0..1 /\ Excused(client'[c], d) \in 0..1
    BY DEF Owes, Excused
  <2>5. owners'[d] + Owes(client'[c], d) + ref[d] + Excused(client[c], d)
          <= owners[d] + Owes(client[c], d) + ref'[d] + Excused(client'[c], d)
    <3>1. CASE d = b
      BY <1>2, <3>1
    <3>2. CASE d # b
      <4>1. /\ Owes(client[c], d) = 0 /\ Owes(client'[c], d) = 0
            /\ Excused(client[c], d) = 0 /\ Excused(client'[c], d) = 0
        BY <3>2 DEF Owes, Excused, InFlight
      <4> QED BY <2>3, <3>2, <4>1
    <3> QED BY <3>1, <3>2
  <2> QED BY <2>1, <2>2, <2>3, <2>4, <2>5
<1>3. OwnersAreCounted'
  BY <1>2 DEF OwnersAreCounted
<1> QED BY <1>1, <1>3 DEF CountInv

(* A step that leaves counts and owners alone. *)
LEMMA MoveCounts ==
  ASSUME TypeInv, TypeInv', CountInv, NEW c \in Clients, Others(c),
         client[c].pc # "idle", client'[c].pc # "idle",
         client'[c].op = client[c].op, client'[c].blk = client[c].blk,
         client'[c].pc = "mark" => client[c].op \in {"stage", "drop"},
         client[c].op = "drop" => client'[c].pc \in DropSteps,
         client[c].op = "chunk" /\ client'[c].pc = "record" => client[c].pc = "record",
         client[c].op = "drop" /\ client'[c].pc \in {"read", "cas"} =>
           client[c].pc \in {"read", "cas"} \/ "miscounted" \in blame'[client[c].blk],
         \A d \in Blocks : owners'[d] = owners[d] /\ ref'[d] = ref[d],
         \A d \in Blocks : blame[d] \subseteq blame'[d]
  PROVE  CountInv'
<1> DEFINE b == client[c].blk
<1>1. b \in Blocks
  BY DEF TypeInv, ClientsAreOnBlocks
<1>2. owners[b] \in Nat /\ ref[b] \in Nat
  BY <1>1 DEF TypeInv, TypeOK
<1>3. client[c].pc \in ClientSteps /\ client'[c].pc \in ClientSteps
  BY DEF TypeInv, TypeOK, Client
<1>4. Excused(client'[c], b) = Excused(client[c], b) /\ Excused(client[c], b) \in 0..1
  BY <1>3 DEF Excused, InFlight
<1>5. \/ "miscounted" \in blame'[b]
      \/ Owes(client'[c], b) <= Owes(client[c], b)
  BY DEF Owes, InFlight
<1>6. Owes(client[c], b) \in 0..1 /\ Owes(client'[c], b) \in 0..1
  BY DEF Owes
<1>7. \/ "miscounted" \in blame'[b]
      \/ owners'[b] + Owes(client'[c], b) + ref[b] + Excused(client[c], b)
           <= owners[b] + Owes(client[c], b) + ref'[b] + Excused(client'[c], b)
  BY <1>1, <1>2, <1>4, <1>5, <1>6
<1> QED BY <1>1, <1>7, OneBlock

(* A client is done, and no commit forgets its references unaccused. *)
LEMMA ReturnCounts ==
  ASSUME TypeInv, TypeInv', CountInv, NEW c \in Clients, Return(c), client[c].pc # "idle",
         client[c].op = "commit" => "miscounted" \in blame'[client[c].blk],
         \A d \in Blocks : owners'[d] = owners[d] /\ ref'[d] = ref[d],
         \A d \in Blocks : blame[d] \subseteq blame'[d]
  PROVE  CountInv'
<1> DEFINE b == client[c].blk
<1>1. b \in Blocks
  BY DEF TypeInv, ClientsAreOnBlocks
<1>2. owners[b] \in Nat /\ ref[b] \in Nat
  BY <1>1 DEF TypeInv, TypeOK
<1>3. client'[c] = Idle /\ Others(c)
  BY DEF Return, Others, TypeInv, TypeOK
<1>4. client'[c].op = "none" /\ client'[c].pc = "idle"
  BY <1>3 DEF Idle
<1>5. Owes(client'[c], b) = 0 /\ Excused(client'[c], b) = 0
  BY <1>4 DEF Owes, Excused, InFlight
<1>6. Owes(client[c], b) \in 0..1 /\ Excused(client[c], b) \in 0..1
      /\ (client[c].op # "commit" => Excused(client[c], b) = 0)
  BY DEF Owes, Excused, InFlight
<1>7. \/ "miscounted" \in blame'[b]
      \/ owners'[b] + Owes(client'[c], b) + ref[b] + Excused(client[c], b)
           <= owners[b] + Owes(client[c], b) + ref'[b] + Excused(client'[c], b)
  BY <1>1, <1>2, <1>5, <1>6
<1> QED BY <1>1, <1>3, <1>4, <1>7, OneBlock

LEMMA GotoMoves ==
  ASSUME TypeInv, NEW c \in Clients, NEW step, Goto(c, step)
  PROVE  /\ Others(c) /\ client'[c].pc = step
         /\ client'[c].op = client[c].op /\ client'[c].blk = client[c].blk
BY DEF Goto, Others, TypeInv, TypeOK, Client

LEMMA GotoCounts ==
  ASSUME TypeInv, TypeInv', CountInv, NEW c \in Clients, NEW step, Goto(c, step),
         client[c].pc # "idle", step # "idle",
         step = "mark" => client[c].op \in {"stage", "drop"},
         client[c].op = "drop" => step \in DropSteps,
         client[c].op = "chunk" => step # "record",
         client[c].op = "drop" /\ step \in {"read", "cas"} => client[c].pc \in {"read", "cas"},
         UNCHANGED <<owners, ref, blame>>
  PROVE  CountInv'
BY GotoMoves, MoveCounts

(* InsertBlock: the row the upload counts itself in, or a miscount. *)
LEMMA InsertCounts ==
  ASSUME TypeInv, TypeInv', FenceInv, CountInv, NEW c \in Clients, InsertBlock(c)
  PROVE  CountInv'
<1> DEFINE b == client[c].blk
<1>1. /\ client[c].op = "chunk" /\ client[c].pc = "insert" /\ InsertRow(b, 1)
      /\ Goto(c, "record") /\ UNCHANGED owners
  BY DEF InsertBlock, Running
<1>2. b \in Blocks
  BY <1>1 DEF TypeInv, ClientsAreOnBlocks
<1>3. owners[b] \in Nat /\ ref[b] \in Nat
  BY <1>2 DEF TypeInv, TypeOK
<1>4. /\ Others(c) /\ client'[c].pc = "record"
      /\ client'[c].op = "chunk" /\ client'[c].blk = b
  BY <1>1, GotoMoves
<1>5. \A d \in Blocks : blame[d] \subseteq blame'[d]
  BY <1>2, AccuseGrows DEF InsertBlock
<1>6. \A d \in Blocks \ {b} : ref'[d] = ref[d]
  BY <1>1 DEF InsertRow, TypeInv, TypeOK
<1>7. /\ Owes(client[c], b) = 0 /\ Owes(client'[c], b) = 1
      /\ Excused(client[c], b) = 0 /\ Excused(client'[c], b) = 0
  BY <1>1, <1>4 DEF Owes, Excused, InFlight
<1>8. CASE state[b] = "absent"
  <2>1. ref[b] = 0 /\ ref'[b] = 1
    BY <1>1, <1>2, <1>8 DEF InsertRow, FenceInv, AbsentIsUncounted, TypeInv, TypeOK
  <2> QED BY <1>1, <1>2, <1>3, <1>4, <1>5, <1>6, <1>7, <2>1, OneBlock
<1>9. CASE state[b] # "absent"
  <2>1. "miscounted" \in blame'[b]
    BY <1>2, <1>9 DEF InsertBlock, Accuse, TypeInv, TypeOK
  <2> QED BY <1>1, <1>2, <1>4, <1>5, <1>6, <2>1, OneBlock
<1> QED BY <1>8, <1>9

(* A reference is counted, or taken back, by a compare-and-set. *)
LEMMA AppliedCounts ==
  ASSUME TypeInv, TypeInv', CountInv, NEW c \in Clients,
         IncrementApplied(c) \/ (DecrementCAS(c) /\ ref' # ref)
  PROVE  CountInv'
<1> DEFINE b == client[c].blk
<1>1. client[c].pc = "cas" /\ b \in Blocks
  BY DEF IncrementApplied, DecrementCAS, Running, TypeInv, ClientsAreOnBlocks
<1>2. /\ owners[b] \in Nat /\ ref[b] \in Nat /\ ref[b] = client[c].seen
      /\ UNCHANGED <<owners, blame>>
  BY <1>1 DEF IncrementApplied, DecrementCAS, TypeInv, TypeOK
<1>3. CASE IncrementApplied(c)
  <2>1. ref' = [ref EXCEPT ![b] = client[c].seen + 1]
    BY <1>3 DEF IncrementApplied
  <2>2. ref'[b] = ref[b] + 1 /\ \A d \in Blocks \ {b} : ref'[d] = ref[d]
    BY <1>1, <1>2, <2>1 DEF TypeInv, TypeOK
  <2>3. CASE client[c].op = "chunk"
    <3>1. Goto(c, "record")
      BY <1>3, <2>3 DEF IncrementApplied
    <3>2. /\ Others(c) /\ client'[c].pc = "record"
          /\ client'[c].op = "chunk" /\ client'[c].blk = b
      BY <2>3, <3>1, GotoMoves
    <3>3. /\ Owes(client[c], b) = 0 /\ Owes(client'[c], b) = 1
          /\ Excused(client[c], b) = 0 /\ Excused(client'[c], b) = 0
      BY <1>1, <2>3, <3>2 DEF Owes, Excused, InFlight
    <3> QED BY <1>1, <1>2, <2>2, <3>2, <3>3, OneBlock
  <2>4. CASE client[c].op = "commit"
    <3>1. Return(c)
      BY <1>3, <2>4 DEF IncrementApplied
    <3>2. Others(c) /\ client'[c].op = "none" /\ client'[c].pc = "idle"
      BY <3>1 DEF Return, Others, Idle, TypeInv, TypeOK
    <3>3. /\ Owes(client[c], b) = 0 /\ Owes(client'[c], b) = 0
          /\ Excused(client[c], b) = 1 /\ Excused(client'[c], b) = 0
      BY <1>1, <2>4, <3>2 DEF Owes, Excused, InFlight, ClientSteps
    <3> QED BY <1>1, <1>2, <2>2, <3>2, <3>3, OneBlock
  <2> QED BY <1>3, <2>3, <2>4 DEF IncrementApplied
<1>4. CASE DecrementCAS(c) /\ ref' # ref
  <2>1. /\ client[c].op = "drop" /\ client[c].seen > 0
        /\ ref' = [ref EXCEPT ![b] = client[c].seen - 1]
        /\ Goto(c, IF client[c].seen = 1 THEN "mark" ELSE "settle")
    BY <1>1, <1>4 DEF DecrementCAS, Running, TypeInv, DecrementsSawReferences
  <2>2. ref'[b] = ref[b] - 1 /\ \A d \in Blocks \ {b} : ref'[d] = ref[d]
    BY <1>1, <1>2, <2>1 DEF TypeInv, TypeOK
  <2>3. /\ Others(c) /\ client'[c].pc \in {"mark", "settle"}
        /\ client'[c].op = "drop" /\ client'[c].blk = b
    BY <2>1, GotoMoves
  <2>4. /\ Owes(client[c], b) = 1 /\ Owes(client'[c], b) = 0
        /\ Excused(client[c], b) = 0 /\ Excused(client'[c], b) = 0
    BY <1>1, <2>1, <2>3 DEF Owes, Excused, InFlight
  <2> QED BY <1>1, <1>2, <2>1, <2>2, <2>3, <2>4, OneBlock DEF DropSteps
<1> QED BY <1>3, <1>4

(* The chunk map takes over what the upload counted. *)
LEMMA RecordCounts ==
  ASSUME TypeInv, TypeInv', CountInv, NEW c \in Clients, RecordChunk(c)
  PROVE  CountInv'
<1> DEFINE b == client[c].blk
<1>1. /\ client[c].op = "chunk" /\ client[c].pc = "record" /\ Return(c)
      /\ owners' = [owners EXCEPT ![b] = @ + 1] /\ UNCHANGED <<ref, blame>>
  BY DEF RecordChunk, Running, tables
<1>2. b \in Blocks
  BY <1>1 DEF TypeInv, ClientsAreOnBlocks
<1>3. /\ owners[b] \in Nat /\ ref[b] \in Nat /\ owners'[b] = owners[b] + 1
      /\ \A d \in Blocks \ {b} : owners'[d] = owners[d]
  BY <1>1, <1>2 DEF TypeInv, TypeOK
<1>4. Others(c) /\ client'[c].op = "none" /\ client'[c].pc = "idle"
  BY <1>1 DEF Return, Others, Idle, TypeInv, TypeOK
<1>5. /\ Owes(client[c], b) = 1 /\ Owes(client'[c], b) = 0
      /\ Excused(client[c], b) = 0 /\ Excused(client'[c], b) = 0
  BY <1>1, <1>4 DEF Owes, Excused, InFlight
<1> QED BY <1>1, <1>2, <1>3, <1>4, <1>5, OneBlock

(* A commit gives up, accused; a chunk upload that gives up owed nothing. *)
LEMMA FailsCount ==
  ASSUME TypeInv, TypeInv', CountInv, NEW c \in Clients, client[c].pc # "idle",
         IncrementFails(c), UNCHANGED <<owners, ref>>
  PROVE  CountInv'
<1> DEFINE b == client[c].blk
<1>1. b \in Blocks
  BY DEF TypeInv, ClientsAreOnBlocks
<1>2. Return(c) /\ \A d \in Blocks : blame[d] \subseteq blame'[d]
  BY <1>1, AccuseGrows DEF IncrementFails
<1>3. client[c].op = "commit" => "miscounted" \in blame'[b]
  BY <1>1 DEF IncrementFails, Accuse, TypeInv, TypeOK
<1> QED BY <1>2, <1>3, ReturnCounts

LEMMA ClientKeepsCounts ==
  ASSUME TypeInv, TypeInv', FenceInv, CountInv, NEW c \in Clients, ClientStep(c)
  PROVE  CountInv'
<1> DEFINE b == client[c].blk
<1>b. client[c].pc # "idle" => b \in Blocks
  BY DEF TypeInv, ClientsAreOnBlocks
<1>g. \A d \in Blocks : blame' = blame => blame[d] \subseteq blame'[d]
  OBVIOUS
<1>d. client[c].op = "drop" => client[c].pc \in DropSteps
  BY DEF CountInv, Roles
<1>1. CASE GetBlock(c)
  BY <1>1, <1>d, GotoCounts DEF GetBlock, tables, DropSteps
<1>2. CASE BlockExists(c)
  BY <1>2, <1>d, <1>g, GotoCounts, ReturnCounts DEF BlockExists, tables, DropSteps
<1>3. CASE RepairBlock(c)
  BY <1>3, <1>d, <1>g, GotoCounts, ReturnCounts DEF RepairBlock, DropSteps
<1>4. CASE WriteBlock(c)
  BY <1>4, <1>d, GotoCounts DEF WriteBlock, DropSteps
<1>5. CASE InsertBlock(c)
  BY <1>5, InsertCounts
<1>6. CASE InsertStagedBlock(c)
  <2>1. /\ client[c].op = "stage" /\ client[c].pc = "insert" /\ Goto(c, "reread")
        /\ InsertRow(b, 0) /\ UNCHANGED <<owners, blame>>
    BY <1>6 DEF InsertStagedBlock, Running
  <2>2. \A d \in Blocks : ref'[d] = ref[d]
    BY <1>b, <2>1 DEF InsertRow, FenceInv, AbsentIsUncounted, TypeInv, TypeOK
  <2> QED BY <1>g, <2>1, <2>2, GotoMoves, MoveCounts
<1>7. CASE RereadStaged(c)
  BY <1>7, <1>g, GotoCounts, ReturnCounts DEF RereadStaged, Running, tables
<1>8. CASE RecordChunk(c)
  BY <1>8, RecordCounts
<1>9. CASE ClearCandidate(c)
  BY <1>9, GotoCounts DEF ClearCandidate, Running
<1>10. CASE IncrementRead(c)
  <2>1. CASE IncrementFails(c)
    BY <1>10, <2>1, FailsCount DEF IncrementRead, tables
  <2>2. CASE client' = [client EXCEPT ![c].pc = "cas", ![c].seen = ref[b]] /\ UNCHANGED blame
    <3>1. /\ Others(c) /\ client'[c].pc = "cas"
          /\ client'[c].op = client[c].op /\ client'[c].blk = client[c].blk
      BY <2>2 DEF Others, TypeInv, TypeOK, Client
    <3> QED BY <1>10, <1>g, <2>2, <3>1, MoveCounts DEF IncrementRead, Incrementing, tables
  <2> QED BY <1>10, <2>1, <2>2 DEF IncrementRead
<1>11. CASE IncrementApplied(c)
  BY <1>11, AppliedCounts
<1>12. CASE IncrementRefused(c)
  <2>1. CASE IncrementFails(c)
    BY <1>12, <2>1, FailsCount DEF IncrementRefused, tables
  <2>2. CASE client' = [client EXCEPT ![c].pc = "read", ![c].tries = @ + 1] /\ UNCHANGED blame
    <3>1. /\ Others(c) /\ client'[c].pc = "read"
          /\ client'[c].op = client[c].op /\ client'[c].blk = client[c].blk
      BY <2>2 DEF Others, TypeInv, TypeOK, Client
    <3> QED BY <1>12, <1>g, <2>2, <3>1, MoveCounts DEF IncrementRefused, Incrementing, tables
  <2> QED BY <1>12, <2>1, <2>2 DEF IncrementRefused
<1>13. CASE DecrementRead(c)
  <2>1. CASE Goto(c, "settle") \/ Goto(c, "mark")
    BY <1>13, <2>1, GotoCounts DEF DecrementRead, Running, tables, DropSteps
  <2>2. CASE client' = [client EXCEPT ![c].pc = "cas", ![c].seen = ref[b]]
    <3>1. /\ Others(c) /\ client'[c].pc = "cas"
          /\ client'[c].op = client[c].op /\ client'[c].blk = client[c].blk
      BY <2>2 DEF Others, TypeInv, TypeOK, Client
    <3> QED BY <1>13, <1>g, <2>2, <3>1, MoveCounts DEF DecrementRead, Running, tables, DropSteps
  <2> QED BY <1>13, <2>1, <2>2 DEF DecrementRead
<1>14. CASE DecrementCAS(c)
  <2>1. CASE ref' # ref
    BY <1>14, <2>1, AppliedCounts
  <2>2. CASE Goto(c, "read") /\ UNCHANGED ref
    BY <1>14, <2>2, GotoCounts DEF DecrementCAS, Running, DropSteps
  <2>3. CASE ref' = [ref EXCEPT ![b] = client[c].seen - 1] /\ ref[b] = client[c].seen
    <3>1. b \in Blocks /\ client[c].seen > 0
      BY <1>14, <1>b DEF DecrementCAS, Running, TypeInv, DecrementsSawReferences
    <3>2. ref'[b] # ref[b]
      BY <2>3, <3>1 DEF TypeInv, TypeOK
    <3> QED BY <2>1, <3>2
  <2> QED BY <1>14, <2>1, <2>2, <2>3 DEF DecrementCAS
<1>15. CASE MarkGCCandidate(c)
  <2>1. client[c].pc = "mark" /\ client[c].op \in {"stage", "drop"}
    BY <1>15 DEF MarkGCCandidate, CountInv, Roles
  <2>2. UNCHANGED <<owners, ref, blame>>
    BY <1>15 DEF MarkGCCandidate
  <2>3. Others(c)
    BY <1>15 DEF MarkGCCandidate, Others, Age, TypeInv, TypeOK, Client
  <2>4. CASE client[c].op = "drop"
    <3>1. client'[c].pc = "settle" /\ client'[c].op = "drop" /\ client'[c].blk = b
      <4>1. PICK x : x = Age(c, b)
        OBVIOUS
      <4>2. client'[c] = [x EXCEPT !.pc = "settle"]
        BY <1>15, <2>4, <4>1 DEF MarkGCCandidate
      <4>3. client[c] \in Client
        BY DEF TypeInv, TypeOK
      <4>4. /\ x.op = client[c].op /\ x.blk = client[c].blk
            /\ DOMAIN x = {"op", "pc", "blk", "seen", "tries", "elder"}
        BY <4>1, <4>3 DEF Age, Client
      <4> QED BY <2>4, <4>2, <4>4
    <3> QED BY <1>g, <2>1, <2>2, <2>3, <2>4, <3>1, MoveCounts DEF DropSteps
  <2>5. CASE client[c].op = "stage"
    <3>1. client'[c].op = "none" /\ client'[c].pc = "idle"
      BY <1>15, <2>5 DEF MarkGCCandidate, Idle
    <3>2. /\ Owes(client[c], b) = 0 /\ Owes(client'[c], b) = 0
          /\ Excused(client[c], b) = 0 /\ Excused(client'[c], b) = 0
      BY <2>5, <3>1 DEF Owes, Excused, InFlight
    <3>3. owners[b] \in Nat /\ ref[b] \in Nat
      BY <1>b, <2>1 DEF TypeInv, TypeOK
    <3> QED BY <1>b, <1>g, <2>1, <2>2, <2>3, <3>1, <3>2, <3>3, OneBlock
  <2> QED BY <2>1, <2>4, <2>5
<1>16. CASE UpdateBlockDecrement(c)
  BY <1>16, <1>g, ReturnCounts DEF UpdateBlockDecrement, Running, tables
<1> QED
  BY <1>1, <1>2, <1>3, <1>4, <1>5, <1>6, <1>7, <1>8, <1>9, <1>10, <1>11, <1>12, <1>13,
     <1>14, <1>15, <1>16 DEF ClientStep

LEMMA StartKeepsCounts ==
  ASSUME TypeInv, TypeInv', CountInv, NEW c \in Clients, NEW b \in Blocks, ClientStart(c, b)
  PROVE  CountInv'
<1>1. PICK op \in AllOps, step \in {"get", "clear", "read"} :
        /\ Start(c, op, b, step)
        /\ \/ op \in {"chunk", "stage"} /\ UNCHANGED owners
           \/ op = "commit" /\ owners' = [owners EXCEPT ![b] = @ + 1]
           \/ op = "drop" /\ step = "read" /\ owners[b] > 0
                /\ owners' = [owners EXCEPT ![b] = @ - 1]
        /\ op = "chunk" => step = "get"
  BY DEF ClientStart, StartChunk, StartStage, StartCommit, StartDrop, AllOps
<1>2. client[c].op = "none" /\ UNCHANGED <<ref, blame>>
  BY <1>1 DEF Start, CountInv, Roles, tables
<1>3. Others(c) /\ client'[c].op = op /\ client'[c].pc = step /\ client'[c].blk = b
  BY <1>1 DEF Start, Others, Idle, TypeInv, TypeOK
<1>4. owners[b] \in Nat /\ ref[b] \in Nat
  BY DEF TypeInv, TypeOK
<1>5. Owes(client[c], b) = 0 /\ Excused(client[c], b) = 0
  BY <1>2 DEF Owes, Excused, InFlight
<1>6. \A d \in Blocks \ {b} : owners'[d] = owners[d]
  BY <1>1 DEF TypeInv, TypeOK
<1>7. CASE op \in {"chunk", "stage"}
  <2>1. Owes(client'[c], b) = 0 /\ Excused(client'[c], b) = 0
    BY <1>1, <1>3, <1>7 DEF Owes, Excused, InFlight
  <2> QED BY <1>1, <1>2, <1>3, <1>4, <1>5, <1>7, <2>1, OneBlock
<1>8. CASE op = "commit"
  <2>1. Owes(client'[c], b) = 0 /\ Excused(client'[c], b) = 1
    BY <1>1, <1>3, <1>8 DEF Owes, Excused, InFlight, ClientSteps
  <2>2. owners'[b] = owners[b] + 1
    BY <1>1, <1>8 DEF TypeInv, TypeOK
  <2> QED BY <1>1, <1>2, <1>3, <1>4, <1>5, <1>6, <1>8, <2>1, <2>2, OneBlock
<1>9. CASE op = "drop"
  <2>1. Owes(client'[c], b) = 1 /\ Excused(client'[c], b) = 0
    BY <1>1, <1>3, <1>9 DEF Owes, Excused, InFlight
  <2>2. owners'[b] = owners[b] - 1 /\ owners'[b] \in Nat
    BY <1>1, <1>4, <1>9 DEF TypeInv, TypeOK
  <2> QED BY <1>1, <1>2, <1>3, <1>4, <1>5, <1>6, <1>9, <2>1, <2>2, OneBlock DEF DropSteps
<1> QED BY <1>7, <1>8, <1>9 DEF AllOps

LEMMA CrashKeepsCounts ==
  ASSUME TypeInv, TypeInv', CountInv, NEW c \in Clients, ClientCrash(c)
  PROVE  CountInv'
<1> DEFINE b == client[c].blk
<1>1. client[c].pc # "idle" /\ b \in Blocks /\ UNCHANGED <<owners, ref>>
  BY DEF ClientCrash, TypeInv, ClientsAreOnBlocks, tables
<1>2. CASE client[c].op \in {"chunk", "stage"}
  <2>1. Return(c) /\ \A d \in Blocks : blame[d] \subseteq blame'[d]
    BY <1>1, <1>2, AccuseGrows DEF ClientCrash
  <2> QED BY <1>1, <1>2, <2>1, ReturnCounts
<1>3. CASE client[c].op = "commit"
  BY <1>1, <1>3, FailsCount DEF ClientCrash
<1>4. CASE client[c].op = "drop"
  <2>1. /\ client' = [client EXCEPT ![c].pc = "read", ![c].seen = 0]
        /\ IF client[c].pc \in {"mark", "settle"} THEN Accuse(b, {"miscounted"})
                                                  ELSE UNCHANGED blame
    BY <1>4 DEF ClientCrash
  <2>2. /\ Others(c) /\ client'[c].pc = "read"
        /\ client'[c].op = "drop" /\ client'[c].blk = b
    BY <1>4, <2>1 DEF Others, TypeInv, TypeOK, Client
  <2>3. \A d \in Blocks : blame[d] \subseteq blame'[d]
    BY <1>1, <2>1, AccuseGrows
  <2>4. /\ Excused(client[c], b) = 0 /\ Excused(client'[c], b) = 0
        /\ Owes(client'[c], b) = 1 /\ Owes(client[c], b) \in 0..1
    BY <1>4, <2>2 DEF Owes, Excused, InFlight
  <2>5. owners[b] \in Nat /\ ref[b] \in Nat
    BY <1>1 DEF TypeInv, TypeOK
  <2>6. CASE client[c].pc \in {"read", "cas"}
    <3>1. Owes(client[c], b) = 1
      BY <1>4, <2>6 DEF Owes, InFlight
    <3> QED BY <1>1, <2>2, <2>3, <2>4, <2>5, <3>1, OneBlock DEF DropSteps
  <2>7. CASE client[c].pc \in {"mark", "settle"}
    <3>1. "miscounted" \in blame'[b]
      BY <1>1, <2>1, <2>7 DEF Accuse, TypeInv, TypeOK
    <3> QED BY <1>1, <2>2, <2>3, <3>1, OneBlock DEF DropSteps
  <2> QED BY <1>4, <2>6, <2>7 DEF CountInv, Roles, DropSteps
<1> QED BY <1>2, <1>3, <1>4 DEF ClientCrash

(* The GC workers and the clock move no client and no count: the row a       *)
(* worker deletes counts nothing.                                            *)
LEMMA StillCounts ==
  ASSUME CountInv, UNCHANGED <<client, owners>>,
         \A d \in Blocks : ref'[d] = ref[d] /\ blame[d] \subseteq blame'[d]
  PROVE  CountInv'
<1>1. \A b \in Blocks : Pending(b)' = Pending(b) /\ Unapplied(b)' = Unapplied(b)
  BY DEF Pending, Unapplied, CountOf
<1>2. OwnersAreCounted'
  BY <1>1 DEF CountInv, OwnersAreCounted
<1> QED BY <1>2 DEF CountInv, Roles

LEMMA ReaperFrees ==
  ASSUME TypeInv, FenceInv, NEW r \in Reapers, ReaperStep(r)
  PROVE  /\ UNCHANGED <<client, owners>>
         /\ \A d \in Blocks : ref'[d] = ref[d] /\ blame[d] \subseteq blame'[d]
<1> DEFINE b == reaper[r].cur
<1>b. reaper[r].pc \notin {"idle", "sweep"} => b \in Blocks
  BY DEF TypeInv, ReapersAreOnBlocks
<1>1. CASE ReapStrike(r)
  <2>1. b \in Blocks /\ Reaping(r, b) /\ ref' = [ref EXCEPT ![b] = 0]
    BY <1>1, <1>b DEF ReapStrike, Reaping
  <2>2. ref[b] = 0
    BY <2>1 DEF FenceInv, ReaperOwnsFence, FencedIsUnreferenced
  <2> QED BY <1>1, <2>1, <2>2 DEF ReapStrike, TypeInv, TypeOK
<1>2. CASE ReapErase(r)
  <2>1. \A d \in Blocks : blame[d] \subseteq blame'[d]
    BY <1>2, <1>b, AccuseGrows DEF ReapErase
  <2> QED BY <1>2, <2>1 DEF ReapErase
<1>3. CASE ReapUnlist(r)
  <2>1. \A d \in Blocks : blame[d] \subseteq blame'[d]
    BY <1>3, <1>b, AccuseGrows DEF ReapUnlist
  <2> QED BY <1>3, <2>1 DEF ReapUnlist
<1>4. CASE Sweep(r) \/ (\E d \in Blocks : ReapGet(r, d)) \/ ReapFence(r)
  BY <1>4 DEF Sweep, ReapGet, ReapFence, tables
<1> QED BY <1>1, <1>2, <1>3, <1>4 DEF ReaperStep

LEMMA NextCountInv ==
  TypeInv /\ TypeInv' /\ FenceInv /\ CountInv /\ [Next]_vars => CountInv'
<1> SUFFICES ASSUME TypeInv, TypeInv', FenceInv, CountInv, [Next]_vars PROVE CountInv'
  OBVIOUS
<1>1. CASE UNCHANGED <<client, owners, ref, blame>>
  BY <1>1, StillCounts
<1>2. ASSUME NEW r \in Reapers, ReaperStep(r) PROVE CountInv'
  BY <1>2, ReaperFrees, StillCounts
<1>3. ASSUME NEW b \in Blocks, Expire(b) PROVE CountInv'
  <2>1. UNCHANGED <<client, owners, ref>>  BY <1>3 DEF Expire
  <2> QED BY <1>3, <2>1, ExpireType, StillCounts
<1> QED
  BY <1>1, <1>2, <1>3, ClientKeepsCounts, StartKeepsCounts, CrashKeepsCounts
     DEF Next, vars, tables, Mature, ReapFail, ReapCrash, FaultsCease

LEMMA InitCountInv == Init => CountInv
<1> SUFFICES ASSUME Init PROVE CountInv
  OBVIOUS
<1>1. \A c \in Clients : client[c].op = "none" /\ client[c].pc = "idle"
  BY DEF Init, Idle
<1>2. \A op, steps, b : op # "none" => CountOf(op, steps, b) = 0
  <2>1. ASSUME NEW op, NEW steps, NEW b, op # "none" PROVE CountOf(op, steps, b) = 0
    <3>1. {c \in Clients : client[c].op = op /\ client[c].pc \in steps
                                             /\ client[c].blk = b} = {}
      BY <1>1, <2>1
    <3> QED BY <3>1, FS_EmptySet DEF CountOf
  <2> QED BY <2>1
<1>3. \A b \in Blocks : Pending(b) = 0 /\ Unapplied(b) = 0
  BY <1>2 DEF Pending, Unapplied
<1>4. OwnersAreCounted
  BY <1>3 DEF OwnersAreCounted, Init
<1> QED BY <1>1, <1>4 DEF CountInv, Roles

LEMMA CountInvariance == Spec => [](TypeInv /\ FenceInv /\ CountInv)
<1>1. Init => TypeInv /\ FenceInv /\ CountInv
  BY InitTypeInv, InitFenceInv, InitCountInv
<1>2. TypeInv /\ FenceInv /\ CountInv /\ [Next]_vars => (TypeInv /\ FenceInv /\ CountInv)'
  BY NextTypeInv, NextFenceInv, NextCountInv
<1> QED BY <1>1, <1>2, PTL DEF Spec

(* IncrementRefCount and DecrementRefCount compare before they set, so the   *)
(* count of a block covers every chunk map and version that names it, unless *)
(* one of the three windows was hit: any number of requests, deliveries and  *)
(* service instances, and crashes at every step.                             *)
THEOREM OwnersCounted == Spec => []OwnersAreCounted
BY CountInvariance, PTL DEF CountInv

(* Bytes that an owner names are lost only through the windows the model     *)
(* names: where the count covers the owner the row is live, and a live row   *)
(* has its bytes.                                                            *)
THEOREM LossExplained == Spec => []LossIsExplained
<1>1. TypeInv /\ FenceInv /\ CountInv /\ LiveRowHasBytes => LossIsExplained
  <2> SUFFICES ASSUME TypeInv, FenceInv, CountInv, LiveRowHasBytes,
                      NEW b \in Blocks, owners[b] > 0, ~object[b],
                      "miscounted" \notin blame[b], "crossed" \notin blame[b],
                      ~(Unapplied(b) > 0)
               PROVE  FALSE
    BY DEF LossIsExplained
  <2>1. Pending(b) \in Nat /\ Unapplied(b) \in Nat
    <3>1. \A op, steps : CountOf(op, steps, b) \in Nat
      <4>1. ASSUME NEW op, NEW steps PROVE CountOf(op, steps, b) \in Nat
        <5> DEFINE A == {c \in Clients : client[c].op = op /\ client[c].pc \in steps
                                                           /\ client[c].blk = b}
        <5>1. A \in SUBSET Clients
          OBVIOUS
        <5>2. IsFiniteSet(A)
          BY <5>1, ClientsAssumption, FS_Subset
        <5> QED BY <5>2, FS_CardinalityType DEF CountOf
      <4> QED BY <4>1
    <3> QED BY <3>1 DEF Pending, Unapplied
  <2>2. owners[b] + Pending(b) <= ref[b] + Unapplied(b)
    BY DEF CountInv, OwnersAreCounted
  <2>3. owners[b] \in Nat /\ ref[b] \in Nat
    BY DEF TypeInv, TypeOK
  <2>4. ref[b] > 0
    BY <2>1, <2>2, <2>3
  <2>5. state[b] = "active"
    BY <2>4 DEF FenceInv, AbsentIsUncounted, FencedIsUnreferenced, TypeInv, TypeOK
  <2> QED BY <2>5 DEF LiveRowHasBytes
<1> QED BY <1>1, CountInvariance, BytesSafety, PTL

-----------------------------------------------------------------------------
(* Who still tells the GC about a block that nothing counts, or counts it:   *)
(* inductively, somebody does as long as no candidate row does.              *)

Tells(x, b) ==
  /\ x.blk = b
  /\ \/ x.op = "stage" /\ x.pc \in {"reread", "mark"}
     \/ x.op = "drop" /\ x.pc \in {"read", "cas", "mark"}
     \/ x.op = "commit" /\ x.pc \in {"read", "cas"}

Unlisted(b) == /\ state[b] = "active" /\ ref[b] = 0 /\ candidate[b] = "none"
               /\ "leaked" \notin blame[b] /\ "expired" \notin blame[b]

ListInv == \A b \in Blocks : Unlisted(b) => \E c \in Clients : Tells(client[c], b)

LEMMA ListFrame ==
  ASSUME ListInv, NEW c \in Clients, Others(c),
         \A b \in Blocks : Unlisted(b)' =>
           \/ Tells(client'[c], b)
           \/ Unlisted(b) /\ ~Tells(client[c], b)
  PROVE  ListInv'
<1> SUFFICES ASSUME NEW b \in Blocks, Unlisted(b)', ~Tells(client'[c], b)
             PROVE  \E d \in Clients : Tells(client'[d], b)
  BY DEF ListInv
<1>1. Unlisted(b) /\ ~Tells(client[c], b)
  OBVIOUS
<1>2. PICK d \in Clients : Tells(client[d], b)
  BY <1>1 DEF ListInv
<1>3. d # c
  BY <1>1, <1>2
<1> QED BY <1>2, <1>3 DEF Others, Tells

(* Neither the row nor the candidate moves, and nothing is withdrawn. *)
LEMMA ListStill ==
  ASSUME UNCHANGED <<state, ref, candidate>>, \A b \in Blocks : blame[b] \subseteq blame'[b]
  PROVE  \A b \in Blocks : Unlisted(b)' => Unlisted(b)
BY DEF Unlisted

LEMMA ReturnMoves ==
  ASSUME TypeInv, NEW c \in Clients, Return(c) PROVE Others(c)
BY DEF Return, Others, TypeInv, TypeOK

LEMMA FailsList ==
  ASSUME TypeInv, ListInv, NEW c \in Clients, client[c].pc # "idle", client[c].op # "drop",
         client[c].op # "stage", IncrementFails(c), UNCHANGED <<state, ref, candidate>>
  PROVE  ListInv'
<1> DEFINE b == client[c].blk
<1>1. b \in Blocks
  BY DEF TypeInv, ClientsAreOnBlocks
<1>2. Others(c) /\ \A d \in Blocks : blame[d] \subseteq blame'[d]
  BY <1>1, AccuseGrows, ReturnMoves DEF IncrementFails
<1>3. \A d \in Blocks : Unlisted(d)' => Unlisted(d)
  BY <1>2, ListStill
<1>4. client[c].op = "commit" => "leaked" \in blame'[b]
  BY <1>1 DEF IncrementFails, Accuse, TypeInv, TypeOK
<1>5. \A d \in Blocks : Unlisted(d)' => ~Tells(client[c], d)
  BY <1>4 DEF Unlisted, Tells
<1> QED BY <1>2, <1>3, <1>5, ListFrame

LEMMA ClientKeepsListing ==
  ASSUME TypeInv, FenceInv, CountInv, ListInv, NEW c \in Clients, ClientStep(c)
  PROVE  ListInv'
<1> DEFINE b == client[c].blk
           old == client[c]
           new == client'[c]
<1>b. old.pc # "idle" => b \in Blocks
  BY DEF TypeInv, ClientsAreOnBlocks
<1>s. ASSUME UNCHANGED <<state, ref, candidate, blame>>, Others(c),
             Tells(old, b) /\ Unlisted(b) => Tells(new, b)
      PROVE  ListInv'
  <2>1. \A d \in Blocks : Unlisted(d)' => Unlisted(d)
    BY <1>s DEF Unlisted
  <2>2. \A d \in Blocks : Tells(old, d) => d = b
    BY DEF Tells
  <2> QED BY <1>s, <2>1, <2>2, ListFrame
<1>c. ASSUME Others(c), \A d \in Blocks \ {b} : Unlisted(d)' => Unlisted(d),
             \A d \in Blocks : d = b /\ Unlisted(d)' => Tells(new, d)
      PROVE  ListInv'
  <2>1. \A d \in Blocks : Tells(old, d) => d = b
    BY DEF Tells
  <2> QED BY <1>c, <2>1, ListFrame
<1>1. CASE GetBlock(c)
  <2>1. ~Tells(old, b)
    BY <1>1 DEF GetBlock, Tells
  <2> QED BY <1>1, <1>s, <2>1, GotoMoves DEF GetBlock, tables
<1>2. CASE BlockExists(c)
  <2>1. ~Tells(old, b)
    BY <1>2 DEF BlockExists, Tells
  <2> QED BY <1>2, <1>s, <2>1, GotoMoves, ReturnMoves DEF BlockExists, tables
<1>3. CASE RepairBlock(c)
  <2>1. ~Tells(old, b)
    BY <1>3 DEF RepairBlock, Tells
  <2> QED BY <1>3, <1>s, <2>1, GotoMoves, ReturnMoves DEF RepairBlock
<1>4. CASE WriteBlock(c)
  <2>1. ~Tells(old, b)
    BY <1>4 DEF WriteBlock, Tells
  <2> QED BY <1>4, <1>s, <2>1, GotoMoves DEF WriteBlock
<1>5. CASE InsertBlock(c)
  <2>1. b \in Blocks /\ Others(c) /\ old.op = "chunk" /\ InsertRow(b, 1)
    BY <1>5, <1>b, GotoMoves DEF InsertBlock, Running
  <2>2. \A d \in Blocks : blame[d] \subseteq blame'[d]
    BY <1>5, <2>1, AccuseGrows DEF InsertBlock
  <2>3. \A d \in Blocks : Unlisted(d)' => Unlisted(d)
    BY <2>1, <2>2 DEF InsertRow, Unlisted, TypeInv, TypeOK
  <2>4. \A d \in Blocks : ~Tells(old, d)
    BY <2>1 DEF Tells
  <2> QED BY <2>1, <2>3, <2>4, ListFrame
<1>6. CASE InsertStagedBlock(c)
  <2>1. Others(c) /\ Tells(new, b)
    BY <1>6, GotoMoves DEF InsertStagedBlock, Running, Tells
  <2>2. \A d \in Blocks \ {b} : Unlisted(d)' => Unlisted(d)
    BY <1>6 DEF InsertStagedBlock, InsertRow, Unlisted, TypeInv, TypeOK
  <2> QED BY <1>c, <2>1, <2>2
<1>7. CASE RereadStaged(c)
  <2>1. Others(c) /\ UNCHANGED <<state, ref, candidate, blame>>
    BY <1>7, GotoMoves, ReturnMoves DEF RereadStaged, tables
  <2>2. Unlisted(b) => Goto(c, "mark") /\ old.op = "stage"
    BY <1>7 DEF RereadStaged, Running, Unlisted
  <2>3. Unlisted(b) => Tells(new, b)
    BY <2>2, GotoMoves DEF Tells
  <2> QED BY <1>s, <2>1, <2>3
<1>8. CASE RecordChunk(c)
  <2>1. ~Tells(old, b)
    BY <1>8 DEF RecordChunk, Running, Tells
  <2> QED BY <1>8, <1>s, <2>1, ReturnMoves DEF RecordChunk, tables
<1>9. CASE ClearCandidate(c)
  <2>1. Others(c) /\ Tells(new, b)
    BY <1>9, GotoMoves DEF ClearCandidate, Running, Tells
  <2>2. \A d \in Blocks \ {b} : Unlisted(d)' => Unlisted(d)
    BY <1>9 DEF ClearCandidate, Unlisted, TypeInv, TypeOK
  <2> QED BY <1>c, <2>1, <2>2
<1>10. CASE IncrementRead(c)
  <2>1. old.op \in {"chunk", "commit"} /\ old.pc = "read" /\ UNCHANGED <<state, ref, candidate>>
    BY <1>10 DEF IncrementRead, Incrementing, tables
  <2>2. CASE IncrementFails(c)
    BY <2>1, <2>2, FailsList
  <2>3. CASE client' = [client EXCEPT ![c].pc = "cas", ![c].seen = ref[b]] /\ UNCHANGED blame
    <3>1. Others(c) /\ new.pc = "cas" /\ new.op = old.op /\ new.blk = b
      BY <2>3 DEF Others, TypeInv, TypeOK, Client
    <3> QED BY <1>s, <2>1, <2>3, <3>1 DEF Tells
  <2> QED BY <1>10, <2>2, <2>3 DEF IncrementRead
<1>11. CASE IncrementApplied(c)
  <2>1. /\ b \in Blocks /\ ref' = [ref EXCEPT ![b] = old.seen + 1] /\ old.seen \in Nat
        /\ UNCHANGED <<state, candidate, blame>>
    BY <1>11, <1>b DEF IncrementApplied, TypeInv, TypeOK, Client
  <2>2. Others(c)
    BY <1>11, GotoMoves, ReturnMoves DEF IncrementApplied
  <2>3. ref'[b] # 0 /\ \A d \in Blocks \ {b} : ref'[d] = ref[d]
    BY <2>1 DEF TypeInv, TypeOK
  <2> QED BY <1>c, <2>1, <2>2, <2>3 DEF Unlisted
<1>12. CASE IncrementRefused(c)
  <2>1. old.op \in {"chunk", "commit"} /\ old.pc = "cas" /\ UNCHANGED <<state, ref, candidate>>
    BY <1>12 DEF IncrementRefused, Incrementing, tables
  <2>2. CASE IncrementFails(c)
    BY <2>1, <2>2, FailsList
  <2>3. CASE client' = [client EXCEPT ![c].pc = "read", ![c].tries = @ + 1] /\ UNCHANGED blame
    <3>1. Others(c) /\ new.pc = "read" /\ new.op = old.op /\ new.blk = b
      BY <2>3 DEF Others, TypeInv, TypeOK, Client
    <3> QED BY <1>s, <2>1, <2>3, <3>1 DEF Tells
  <2> QED BY <1>12, <2>2, <2>3 DEF IncrementRefused
<1>13. CASE DecrementRead(c)
  <2>1. old.op = "drop" /\ UNCHANGED <<state, ref, candidate, blame>>
    BY <1>13 DEF DecrementRead, Running, tables
  <2>2. CASE state[b] = "absent" /\ Goto(c, "settle")
    BY <1>s, <2>1, <2>2, GotoMoves DEF Unlisted
  <2>3. CASE Goto(c, "mark")
    BY <1>s, <2>1, <2>3, GotoMoves DEF Tells
  <2>4. CASE client' = [client EXCEPT ![c].pc = "cas", ![c].seen = ref[b]]
    <3>1. Others(c) /\ new.pc = "cas" /\ new.op = old.op /\ new.blk = b
      BY <2>4 DEF Others, TypeInv, TypeOK, Client
    <3> QED BY <1>s, <2>1, <3>1 DEF Tells
  <2> QED BY <1>13, <2>2, <2>3, <2>4 DEF DecrementRead
<1>14. CASE DecrementCAS(c)
  <2>1. /\ old.op = "drop" /\ b \in Blocks /\ old.seen > 0 /\ old.seen \in Nat
        /\ UNCHANGED <<state, candidate, blame>>
    BY <1>14, <1>b DEF DecrementCAS, Running, TypeInv, TypeOK, Client, DecrementsSawReferences
  <2>2. CASE Goto(c, "read") /\ UNCHANGED ref
    BY <1>s, <2>1, <2>2, GotoMoves DEF Tells
  <2>3. CASE /\ ref' = [ref EXCEPT ![b] = old.seen - 1]
             /\ Goto(c, IF old.seen = 1 THEN "mark" ELSE "settle")
    <3>1. ref'[b] = old.seen - 1 /\ \A d \in Blocks \ {b} : ref'[d] = ref[d]
      BY <2>1, <2>3 DEF TypeInv, TypeOK
    <3>2. CASE old.seen = 1
      <4>1. Others(c) /\ Tells(new, b)
        BY <2>1, <2>3, <3>2, GotoMoves DEF Tells
      <4> QED BY <1>c, <2>1, <3>1, <4>1 DEF Unlisted
    <3>3. CASE old.seen # 1
      <4>1. Others(c) /\ ref'[b] # 0
        BY <2>1, <2>3, <3>1, <3>3, GotoMoves
      <4> QED BY <1>c, <2>1, <3>1, <4>1 DEF Unlisted
    <3> QED BY <3>2, <3>3
  <2> QED BY <1>14, <2>2, <2>3 DEF DecrementCAS
<1>15. CASE MarkGCCandidate(c)
  <2>1. Others(c)
    BY <1>15 DEF MarkGCCandidate, Others, Age, TypeInv, TypeOK, Client
  <2>2. b \in Blocks /\ candidate' = [candidate EXCEPT ![b] = "young"]
        /\ UNCHANGED <<state, ref, blame>>
    BY <1>15, <1>b DEF MarkGCCandidate
  <2>3. candidate'[b] = "young" /\ \A d \in Blocks \ {b} : candidate'[d] = candidate[d]
    BY <2>2 DEF TypeInv, TypeOK
  <2> QED BY <1>c, <2>1, <2>2, <2>3 DEF Unlisted
<1>16. CASE UpdateBlockDecrement(c)
  <2>1. ~Tells(old, b)
    BY <1>16 DEF UpdateBlockDecrement, Running, Tells
  <2> QED BY <1>16, <1>s, <2>1, ReturnMoves DEF UpdateBlockDecrement, tables
<1> QED
  BY <1>1, <1>2, <1>3, <1>4, <1>5, <1>6, <1>7, <1>8, <1>9, <1>10, <1>11, <1>12, <1>13,
     <1>14, <1>15, <1>16 DEF ClientStep

LEMMA CrashKeepsListing ==
  ASSUME TypeInv, CountInv, ListInv, NEW c \in Clients, ClientCrash(c)
  PROVE  ListInv'
<1> DEFINE b == client[c].blk
<1>1. client[c].pc # "idle" /\ b \in Blocks /\ UNCHANGED <<state, ref, candidate>>
  BY DEF ClientCrash, TypeInv, ClientsAreOnBlocks, tables
<1>2. CASE client[c].op \in {"chunk", "stage"}
  <2>1. Others(c) /\ \A d \in Blocks : blame[d] \subseteq blame'[d]
    BY <1>1, <1>2, AccuseGrows, ReturnMoves DEF ClientCrash
  <2>2. Tells(client[c], b) => "leaked" \in blame'[b]
    BY <1>1, <1>2 DEF ClientCrash, Tells, Accuse, TypeInv, TypeOK
  <2>3. \A d \in Blocks : Unlisted(d)' => Unlisted(d)
    BY <1>1, <2>1, ListStill
  <2>4. \A d \in Blocks : Unlisted(d)' => ~Tells(client[c], d)
    BY <2>2 DEF Unlisted, Tells
  <2> QED BY <2>1, <2>3, <2>4, ListFrame
<1>3. CASE client[c].op = "commit"
  BY <1>1, <1>3, FailsList DEF ClientCrash
<1>4. CASE client[c].op = "drop"
  <2>1. client' = [client EXCEPT ![c].pc = "read", ![c].seen = 0]
    BY <1>4 DEF ClientCrash
  <2>2. Others(c) /\ Tells(client'[c], b)
    BY <1>4, <2>1 DEF Others, Tells, TypeInv, TypeOK, Client
  <2>3. \A d \in Blocks : blame[d] \subseteq blame'[d]
    BY <1>1, <1>4, AccuseGrows DEF ClientCrash
  <2>4. \A d \in Blocks : Unlisted(d)' => Unlisted(d)
    BY <1>1, <2>3, ListStill
  <2>5. \A d \in Blocks : Tells(client[c], d) => d = b
    BY DEF Tells
  <2> QED BY <2>2, <2>4, <2>5, ListFrame
<1> QED BY <1>2, <1>3, <1>4 DEF ClientCrash

LEMMA ReaperKeepsListing ==
  ASSUME TypeInv, FenceInv, ListInv, NEW r \in Reapers, ReaperStep(r)
  PROVE  ListInv'
<1> DEFINE b == reaper[r].cur
<1>1. UNCHANGED client /\ \A d \in Blocks : ref'[d] = ref[d] /\ blame[d] \subseteq blame'[d]
  BY ReaperFrees
<1>b. reaper[r].pc \notin {"idle", "sweep"} => b \in Blocks
  BY DEF TypeInv, ReapersAreOnBlocks
<1>2. \A d \in Blocks : Unlisted(d)' => Unlisted(d)
  <2>1. CASE ReapUnlist(r)
    <3>1. b \in Blocks /\ candidate' = [candidate EXCEPT ![b] = "none"] /\ UNCHANGED <<state, ref>>
      BY <1>b, <2>1 DEF ReapUnlist
    <3>2. state[b] = "active" /\ ref[b] = 0 => "leaked" \in blame'[b]
      BY <2>1, <3>1 DEF ReapUnlist, Accuse, TypeInv, TypeOK
    <3>3. \A d \in Blocks \ {b} : candidate'[d] = candidate[d]
      BY <3>1 DEF TypeInv, TypeOK
    <3> QED BY <1>1, <3>1, <3>2, <3>3 DEF Unlisted
  <2>2. CASE ReapFence(r) \/ ReapStrike(r)
    <3>1. b \in Blocks /\ UNCHANGED <<candidate, blame>>
      BY <1>b, <2>2 DEF ReapFence, ReapStrike
    <3>2. \A d \in Blocks : state'[d] = "active" => state[d] = "active"
      BY <2>2, <3>1 DEF ReapFence, ReapStrike, TypeInv, TypeOK
    <3> QED BY <1>1, <3>1, <3>2 DEF Unlisted
  <2>3. CASE ReapErase(r)
    BY <1>1, <2>3 DEF ReapErase, Unlisted
  <2>4. CASE Sweep(r) \/ (\E d \in Blocks : ReapGet(r, d))
    BY <2>4 DEF Sweep, ReapGet, Unlisted, tables
  <2> QED BY <2>1, <2>2, <2>3, <2>4 DEF ReaperStep
<1> QED BY <1>1, <1>2 DEF ListInv

LEMMA NextListInv ==
  TypeInv /\ FenceInv /\ CountInv /\ ListInv /\ [Next]_vars => ListInv'
<1> SUFFICES ASSUME TypeInv, FenceInv, CountInv, ListInv, [Next]_vars PROVE ListInv'
  OBVIOUS
<1>1. CASE UNCHANGED <<client, state, ref, candidate, blame>>
  BY <1>1 DEF ListInv, Unlisted
<1>2. ASSUME NEW c \in Clients, NEW b \in Blocks, ClientStart(c, b) PROVE ListInv'
  <2>1. \E op \in AllOps, step \in ClientSteps : Start(c, op, b, step)
    BY <1>2 DEF ClientStart, StartChunk, StartStage, StartCommit, StartDrop, AllOps, ClientSteps
  <2>2. Others(c) /\ client[c].op = "none" /\ UNCHANGED <<state, ref, candidate, blame>>
    BY <2>1 DEF Start, Others, CountInv, Roles, TypeInv, TypeOK, tables
  <2>3. \A d \in Blocks : ~Tells(client[c], d) /\ (Unlisted(d)' => Unlisted(d))
    BY <2>2 DEF Tells, Unlisted
  <2> QED BY <2>2, <2>3, ListFrame
<1>3. ASSUME NEW b \in Blocks, Mature(b) PROVE ListInv'
  <2>1. \A d \in Blocks : Unlisted(d)' => Unlisted(d)
    BY <1>3 DEF Mature, Unlisted, TypeInv, TypeOK
  <2> QED BY <1>3, <2>1 DEF Mature, ListInv
<1>4. ASSUME NEW b \in Blocks, Expire(b) PROVE ListInv'
  <2>1. /\ UNCHANGED <<state, ref, client>>
        /\ \A d \in Blocks \ {b} : candidate'[d] = candidate[d]
        /\ \A d \in Blocks : blame[d] \subseteq blame'[d]
    BY <1>4, ExpireType DEF Expire, TypeInv, TypeOK
  <2>2. state[b] = "active" /\ ref[b] = 0 => "expired" \in blame'[b]
    BY <1>4 DEF Expire, Accuse, TypeInv, TypeOK
  <2>3. \A d \in Blocks : Unlisted(d)' => Unlisted(d)
    BY <2>1, <2>2 DEF Unlisted
  <2> QED BY <2>1, <2>3 DEF ListInv
<1> QED
  BY <1>1, <1>2, <1>3, <1>4, ClientKeepsListing, CrashKeepsListing, ReaperKeepsListing
     DEF Next, vars, tables, ReapFail, ReapCrash, FaultsCease

(* Once nothing runs, a live block nobody counts is on the GC's candidate    *)
(* list (MarkGCCandidate after the count reached zero, and after a staged    *)
(* block), or it leaked through one of the windows the model names.          *)
THEOREM UnreferencedListed == Spec => []UnreferencedIsListed
<1>1. Init => ListInv
  BY DEF Init, ListInv, Unlisted
<1>2. TypeInv /\ FenceInv /\ CountInv /\ ListInv /\ [Next]_vars => ListInv'
  BY NextListInv
<1>3. ListInv => UnreferencedIsListed
  <2> SUFFICES ASSUME ListInv, Quiet, NEW b \in Blocks, state[b] = "active", ref[b] = 0
               PROVE  candidate[b] # "none" \/ "leaked" \in blame[b] \/ "expired" \in blame[b]
    BY DEF UnreferencedIsListed
  <2>1. \A c \in Clients : ~Tells(client[c], b)
    BY DEF Quiet, Tells
  <2> QED BY <2>1 DEF ListInv, Unlisted
<1> QED BY <1>1, <1>2, <1>3, CountInvariance, PTL DEF Spec
=============================================================================
