-------------------------- MODULE PurgeSagaProofs --------------------------
(***************************************************************************)
(* The purge saga, for every number of batches, requests, deliveries,      *)
(* sweepers, user calls and attempts, and faults at any time: metadata is  *)
(* removed only after every reference was given back, COMPLETE means       *)
(* removed, and what is left unlisted, undeleted or written again has one  *)
(* of the causes the model records.                                        *)
(***************************************************************************)
EXTENDS PurgeSaga, FiniteSetTheorems, TLAPS

-----------------------------------------------------------------------------
(* The inductive invariant. *)

Done == {"DECREMENTED", "COMPLETE"}

(* What the job row and the queues say is backed by the decrement service.   *)
Backed ==
  /\ reported \subseteq settled /\ completed \subseteq reported
  /\ job.done \subseteq reported
  /\ job.count \in {0, Cardinality(Batches)}
  /\ job.state \in Done => settled = Batches
  /\ job.state = "COMPLETE" => ~Readable
  /\ ~Readable => settled = Batches

(* What a process holds, and what it is about to write, is backed too.       *)
ProcInv(p) ==
  /\ proc[p].batch # NoBatch => proc[p].batch \in reported
  /\ proc[p].pc = "record" => proc[p].batch # NoBatch
  /\ proc[p].to \in Done \/ proc[p].pc \in {"core", "index"} => settled = Batches
  /\ proc[p].to = "COMPLETE" \/ proc[p].pc = "index" => ~Readable

(* An upsert after the removal is known as such.                             *)
Crossing == file.status = "remnant" => "crossed" \in blame

(* What keeps the index rows of a removed file.                              *)
Causes == {"ghost", "crossed", "misfiled"}

(* They are deleted by whoever knows their key.                              *)
Unindexing ==
  ~Readable =>
    \/ index = {}
    \/ \E p \in Procs : At(p, "index") /\ index = {proc[p].place}
    \/ Causes \cap blame # {}

SagaInv ==
  /\ TypeOK
  /\ Backed
  /\ \A p \in Procs : ProcInv(p)
  /\ Crossing
  /\ Unindexing
  /\ UnfinishedIsListed

-----------------------------------------------------------------------------
(* Processes. *)

LEMMA IdleIsProc == Idle \in Proc
BY BoundsAssumption DEF Idle, Proc, Steps, States

LEMMA CountIsNat == Cardinality(Batches) \in Nat /\ Cardinality(Batches) > 0
<1>1. Cardinality(Batches) \in Nat  BY BatchesAssumption, FS_CardinalityType
<1>2. Cardinality(Batches) # 0  BY BatchesAssumption, FS_EmptySet
<1> QED BY <1>1, <1>2

(* A process moves alone. *)
LEMMA MoveAlone ==
  ASSUME TypeOK, NEW p \in Procs, NEW k \in Proc, proc' = [proc EXCEPT ![p] = k]
  PROVE  /\ proc' \in [Procs -> Proc]
         /\ proc'[p] = k
         /\ \A q \in Procs : q # p => proc'[q] = proc[q]
BY DEF TypeOK

LEMMA GotoMoves ==
  ASSUME TypeOK, NEW p \in Procs, NEW step \in Steps, Goto(p, step)
  PROVE  /\ proc' \in [Procs -> Proc]
         /\ proc'[p].pc = step /\ proc'[p].to = proc[p].to
         /\ proc'[p].batch = proc[p].batch /\ proc'[p].place = proc[p].place
         /\ \A q \in Procs : q # p => proc'[q] = proc[q]
<1> DEFINE k == [proc[p] EXCEPT !.pc = step]
<1>1. proc[p] \in Proc  BY DEF TypeOK
<1>2. k \in Proc  BY <1>1 DEF Proc
<1>3. proc' = [proc EXCEPT ![p] = k]  BY DEF Goto, TypeOK
<1>4. /\ k.pc = step /\ k.to = proc[p].to
      /\ k.batch = proc[p].batch /\ k.place = proc[p].place
  BY <1>1 DEF Proc
<1> QED BY <1>2, <1>3, <1>4, MoveAlone

LEMMA ReturnMoves ==
  ASSUME TypeOK, NEW p \in Procs, Return(p)
  PROVE  /\ proc' \in [Procs -> Proc]
         /\ proc'[p] = Idle
         /\ \A q \in Procs : q # p => proc'[q] = proc[q]
BY IdleIsProc, MoveAlone DEF Return

LEMMA AdvanceMoves ==
  ASSUME TypeOK, NEW p \in Procs, NEW to \in States, Advance(p, to)
  PROVE  /\ proc' \in [Procs -> Proc]
         /\ proc'[p].pc = "advance" /\ proc'[p].to = to
         /\ proc'[p].batch = proc[p].batch
         /\ \A q \in Procs : q # p => proc'[q] = proc[q]
<1> DEFINE k == [Idle EXCEPT !.pc = "advance", !.to = to, !.batch = proc[p].batch]
<1>1. proc[p] \in Proc  BY DEF TypeOK
<1>2. k \in Proc  BY <1>1, IdleIsProc DEF Proc, Steps
<1>3. proc' = [proc EXCEPT ![p] = k]  BY DEF Advance
<1>4. k.pc = "advance" /\ k.to = to /\ k.batch = proc[p].batch
  BY IdleIsProc DEF Proc
<1> QED BY <1>2, <1>3, <1>4, MoveAlone

(* Publishing, from the middle of a request or of a sweep. *)
LEMMA PublishAllMoves ==
  ASSUME TypeOK, NEW p \in Procs, NEW state \in States, NEW todo \in SUBSET Batches,
         NEW plain \in BOOLEAN, PublishAll(p, state, todo, plain)
  PROVE  /\ proc' \in [Procs -> Proc]
         /\ proc'[p].pc \in {"publish", "advance", "idle"}
         /\ proc'[p].to \in {proc[p].to, "none", "DECREMENT_REQUESTED"}
         /\ proc'[p].batch \in {proc[p].batch, NoBatch}
         /\ \A q \in Procs : q # p => proc'[q] = proc[q]
<1>1. proc[p] \in Proc  BY DEF TypeOK
<1>2. CASE proc' = [proc EXCEPT ![p].pc = "publish", ![p].state = state, ![p].todo = todo,
                     ![p].plain = plain]
  <2> DEFINE k == [proc[p] EXCEPT !.pc = "publish", !.state = state, !.todo = todo,
                     !.plain = plain]
  <2>1. k \in Proc  BY <1>1 DEF Proc, Steps
  <2>2. proc' = [proc EXCEPT ![p] = k]  BY <1>2 DEF TypeOK
  <2>3. k.pc = "publish" /\ k.to = proc[p].to /\ k.batch = proc[p].batch
    BY <1>1 DEF Proc
  <2> QED BY <2>1, <2>2, <2>3, MoveAlone
<1>3. CASE Advance(p, "DECREMENT_REQUESTED")
  BY <1>3, AdvanceMoves DEF States
<1>4. CASE Return(p)
  BY <1>4, ReturnMoves DEF Idle
<1> QED BY <1>2, <1>3, <1>4 DEF PublishAll

(* The steps that also note something in the snapshot. *)

LEMMA StateMoves ==
  ASSUME TypeOK, NEW p \in Procs, NEW step \in Steps, NEW state \in States,
         proc' = [proc EXCEPT ![p].pc = step, ![p].state = state]
  PROVE  /\ proc' \in [Procs -> Proc]
         /\ proc'[p].pc = step
         /\ proc'[p].to = proc[p].to
         /\ proc'[p].batch = proc[p].batch
         /\ proc'[p].place = proc[p].place
         /\ \A q \in Procs : q # p => proc'[q] = proc[q]
<1> DEFINE k == [proc[p] EXCEPT !.pc = step, !.state = state]
<1>1. proc[p] \in Proc  BY DEF TypeOK
<1>2. k \in Proc  BY <1>1 DEF Proc
<1>3. proc' = [proc EXCEPT ![p] = k]  BY DEF TypeOK
<1>4. k.pc = step /\ k.to = proc[p].to /\ k.batch = proc[p].batch /\ k.place = proc[p].place
  BY <1>1 DEF Proc
<1> QED BY <1>2, <1>3, <1>4, MoveAlone

LEMMA SeenMoves ==
  ASSUME TypeOK, NEW p \in Procs, NEW step \in Steps, NEW n \in 0..MaxAttempts,
         proc' = [proc EXCEPT ![p].pc = step, ![p].seen = n]
  PROVE  /\ proc' \in [Procs -> Proc]
         /\ proc'[p].pc = step
         /\ proc'[p].to = proc[p].to
         /\ proc'[p].batch = proc[p].batch
         /\ proc'[p].place = proc[p].place
         /\ \A q \in Procs : q # p => proc'[q] = proc[q]
<1> DEFINE k == [proc[p] EXCEPT !.pc = step, !.seen = n]
<1>1. proc[p] \in Proc  BY DEF TypeOK
<1>2. k \in Proc  BY <1>1 DEF Proc
<1>3. proc' = [proc EXCEPT ![p] = k]  BY DEF TypeOK
<1>4. k.pc = step /\ k.to = proc[p].to /\ k.batch = proc[p].batch /\ k.place = proc[p].place
  BY <1>1 DEF Proc
<1> QED BY <1>2, <1>3, <1>4, MoveAlone

LEMMA BatchMoves ==
  ASSUME TypeOK, NEW p \in Procs, NEW step \in Steps, NEW b \in Batches,
         proc' = [proc EXCEPT ![p].pc = step, ![p].batch = b]
  PROVE  /\ proc' \in [Procs -> Proc]
         /\ proc'[p].pc = step
         /\ proc'[p].to = proc[p].to
         /\ proc'[p].place = proc[p].place
         /\ proc'[p].batch = b
         /\ \A q \in Procs : q # p => proc'[q] = proc[q]
<1> DEFINE k == [proc[p] EXCEPT !.pc = step, !.batch = b]
<1>1. proc[p] \in Proc  BY DEF TypeOK
<1>2. k \in Proc  BY <1>1 DEF Proc
<1>3. proc' = [proc EXCEPT ![p] = k]  BY DEF TypeOK
<1>4. k.pc = step /\ k.to = proc[p].to /\ k.place = proc[p].place /\ k.batch = b
  BY <1>1 DEF Proc
<1> QED BY <1>2, <1>3, <1>4, MoveAlone

LEMMA PlaceMoves ==
  ASSUME TypeOK, NEW p \in Procs, NEW step \in Steps, NEW known \in Places \cup {NoPlace},
         proc' = [proc EXCEPT ![p].pc = step, ![p].place = known]
  PROVE  /\ proc' \in [Procs -> Proc]
         /\ proc'[p].pc = step
         /\ proc'[p].to = proc[p].to
         /\ proc'[p].batch = proc[p].batch
         /\ proc'[p].place = known
         /\ \A q \in Procs : q # p => proc'[q] = proc[q]
<1> DEFINE k == [proc[p] EXCEPT !.pc = step, !.place = known]
<1>1. proc[p] \in Proc  BY DEF TypeOK
<1>2. k \in Proc  BY <1>1 DEF Proc
<1>3. proc' = [proc EXCEPT ![p] = k]  BY DEF TypeOK
<1>4. k.pc = step /\ k.to = proc[p].to /\ k.batch = proc[p].batch /\ k.place = known
  BY <1>1 DEF Proc
<1> QED BY <1>2, <1>3, <1>4, MoveAlone

LEMMA TodoMoves ==
  ASSUME TypeOK, NEW p \in Procs, NEW rest \in SUBSET Batches,
         proc' = [proc EXCEPT ![p].todo = rest]
  PROVE  /\ proc' \in [Procs -> Proc]
         /\ proc'[p].pc = proc[p].pc
         /\ proc'[p].to = proc[p].to /\ proc'[p].batch = proc[p].batch
         /\ proc'[p].place = proc[p].place
         /\ \A q \in Procs : q # p => proc'[q] = proc[q]
<1> DEFINE k == [proc[p] EXCEPT !.todo = rest]
<1>1. proc[p] \in Proc  BY DEF TypeOK
<1>2. k \in Proc  BY <1>1 DEF Proc
<1>3. proc' = [proc EXCEPT ![p] = k]  BY DEF TypeOK
<1>4. /\ k.pc = proc[p].pc /\ k.to = proc[p].to
      /\ k.batch = proc[p].batch /\ k.place = proc[p].place
  BY <1>1 DEF Proc
<1> QED BY <1>2, <1>3, <1>4, MoveAlone

-----------------------------------------------------------------------------
(* Types. *)

LEMMA AckedType ==
  ASSUME TypeOK, NEW p \in Procs
  PROVE  Acked(p) \subseteq completed
BY DEF Acked

(* A process of the saga, step by step. *)
LEMMA ProcStepType ==
  ASSUME TypeOK, NEW p \in Procs, ProcInv(p), ProcStep(p)
  PROVE  TypeOK'
<1> USE DEF bus, decref, item, Readable
<1>s. Steps = {"idle", "create", "enlist", "count", "publish", "advance", "mirror",
               "claim", "get", "record", "tally", "core", "index"}
  BY DEF Steps
<1>p. proc[p] \in Proc  BY DEF TypeOK
<1>a. Acked(p) \subseteq Batches  BY AckedType DEF TypeOK
<1>1. CASE Create(p)
  <2>1. "PENDING" \in States /\ job.state \in States  BY DEF States, TypeOK, Job
  <2>2. proc' \in [Procs -> Proc]
    BY <1>1, <1>s, <2>1, StateMoves, ReturnMoves DEF Create
  <2>3. job' \in Job  BY <1>1, <2>1 DEF Create, TypeOK, Job
  <2> QED BY <1>1, <2>2, <2>3 DEF Create, TypeOK
<1>2. CASE Enlist(p)
  BY <1>2, <1>s, GotoMoves DEF Enlist, TypeOK
<1>3. CASE SetBatchCount(p)
  <2>1. proc[p].state \in States  BY <1>p DEF Proc
  <2>2. proc' \in [Procs -> Proc]
    BY <1>3, <2>1, PublishAllMoves DEF SetBatchCount
  <2>3. job' \in Job  BY <1>3, CountIsNat DEF SetBatchCount, TypeOK, Job
  <2> QED BY <1>3, <2>2, <2>3 DEF SetBatchCount, TypeOK
<1>4. ASSUME NEW b \in Batches, Publish(p, b) PROVE TypeOK'
  <2>1. "DECREMENT_REQUESTED" \in States  BY DEF States
  <2>2. proc[p].todo \ {b} \in SUBSET Batches  BY <1>p DEF Proc
  <2>3. proc' \in [Procs -> Proc]
    BY <1>4, <2>1, <2>2, ReturnMoves, AdvanceMoves, TodoMoves DEF Publish
  <2> QED BY <1>4, <2>3 DEF Publish, Decref!Request, TypeOK
<1>5. CASE AdvanceState(p)
  <2>1. proc[p].to \in States  BY <1>p DEF Proc
  <2>2. job' \in Job  BY <1>5, <2>1 DEF AdvanceState, TypeOK, Job
  <2> QED BY <1>5, <1>s, <2>2, GotoMoves DEF AdvanceState, TypeOK
<1>6. CASE MirrorState(p)
  <2>1. proc' \in [Procs -> Proc] /\ completed' \subseteq Batches
    BY <1>6, <1>s, <1>a, GotoMoves, ReturnMoves DEF MirrorState, TypeOK
  <2>2. blame' \subseteq Blames  BY <1>6 DEF MirrorState, TypeOK, Blames
  <2> QED BY <1>6, <2>1, <2>2 DEF MirrorState, TypeOK
<1>7. CASE RemoveCore(p)
  <2>1. file.place \in Places \cup {NoPlace}  BY DEF TypeOK, File
  <2>2. proc' \in [Procs -> Proc]  BY <1>7, <1>s, <2>1, PlaceMoves DEF RemoveCore
  <2>3. file' \in File /\ file'.place = NoPlace /\ ~Readable'
    BY <1>7 DEF RemoveCore, Removed, File
  <2>4. blame' \subseteq Blames  BY <1>7 DEF RemoveCore, TypeOK, Blames
  <2> QED BY <1>7, <2>2, <2>3, <2>4 DEF RemoveCore, TypeOK
<1>8. CASE RemoveIndex(p)
  <2>1. "COMPLETE" \in States  BY DEF States
  <2>2. index' \subseteq Places  BY <1>8 DEF RemoveIndex, TypeOK
  <2> QED BY <1>8, <2>1, <2>2, AdvanceMoves DEF RemoveIndex, TypeOK
<1>9. CASE RecordBatch(p)
  <2>1. proc[p].batch \in Batches
    BY <1>9, <1>p DEF RecordBatch, At, ProcInv, Proc
  <2>2. job' \in Job  BY <1>9, <2>1 DEF RecordBatch, TypeOK, Job
  <2> QED BY <1>9, <1>s, <2>2, GotoMoves DEF RecordBatch, TypeOK
<1>10. CASE Tally(p)
  <2>1. "DECREMENTED" \in States  BY DEF States
  <2>2. proc' \in [Procs -> Proc] /\ completed' \subseteq Batches
    BY <1>10, <1>a, <2>1, AdvanceMoves, ReturnMoves DEF Tally, TypeOK
  <2> QED BY <1>10, <2>2 DEF Tally, TypeOK
<1>11. CASE ClaimJob(p)
  <2>1. job' \in Job
    BY <1>11, BoundsAssumption DEF ClaimJob, TypeOK, Job
  <2>2. 0 \in 0..MaxAttempts  BY BoundsAssumption
  <2>3. proc' \in [Procs -> Proc]
    BY <1>11, <1>s, <2>2, SeenMoves, ReturnMoves DEF ClaimJob
  <2> QED BY <1>11, <2>1, <2>3 DEF ClaimJob, TypeOK
<1>12. CASE Dispatch(p)
  <2>1. "FAILED" \in States /\ job.state \in States  BY DEF States, TypeOK, Job
  <2>2. Batches \ job.done \in SUBSET Batches  OBVIOUS
  <2>3. proc' \in [Procs -> Proc]
    BY <1>12, <1>s, <2>1, <2>2, AdvanceMoves, StateMoves, PublishAllMoves, GotoMoves,
       ReturnMoves
    DEF Dispatch
  <2> QED BY <1>12, <2>3 DEF Dispatch, TypeOK
<1> QED
  BY <1>1, <1>2, <1>3, <1>4, <1>5, <1>6, <1>7, <1>8, <1>9, <1>10, <1>11, <1>12 DEF ProcStep

(* A call of a user, step by step. *)
LEMMA UserStepType ==
  ASSUME TypeOK, NEW u \in Users, UserStep(u)
  PROVE  TypeOK'
<1> USE DEF bus, decref, Readable
<1>u. user[u] \in User /\ file \in File  BY DEF TypeOK
<1>r. \A step \in {"idle", "done"} : Resting(step) \in User
  BY PlacesAssumption DEF Resting, User
<1>1. ASSUME NEW change \in {"live", "trashed", "moved"}, NEW place \in Places,
             Call(u, change, place)
      PROVE  TypeOK'
  <2> DEFINE k == [pc |-> "write", change |-> change, from |-> file.place, to |-> place]
  <2>1. file.place \in Places  BY <1>1, <1>u DEF Call, TypeOK, File
  <2>2. k \in User  BY <2>1 DEF User
  <2>3. user' = [user EXCEPT ![u] = k]  BY <1>1 DEF Call
  <2>4. user' \in [Users -> User]  BY <2>2, <2>3 DEF TypeOK
  <2> QED BY <1>1, <2>4 DEF Call, TypeOK
<1>2. CASE WriteRows(u)
  <2> DEFINE k == [user[u] EXCEPT !.pc = "list"]
  <2>1. k \in User  BY <1>u DEF User
  <2>2. user' = [user EXCEPT ![u] = k]  BY <1>2 DEF WriteRows, TypeOK
  <2>3. user' \in [Users -> User]  BY <2>1, <2>2 DEF TypeOK
  <2>4. CASE Readable /\ user[u].change = "moved"
    <3>1. file' = [file EXCEPT !.place = user[u].to]  BY <1>2, <2>4 DEF WriteRows
    <3>2. user[u].to \in Places  BY <1>u DEF User
    <3>3. file' \in File /\ file'.place \in Places /\ Readable'
      BY <1>u, <2>4, <3>1, <3>2 DEF File
    <3> QED BY <1>2, <2>3, <2>4, <3>3, PlacesAssumption DEF WriteRows, TypeOK
  <2>5. CASE Readable /\ user[u].change # "moved"
    <3>1. file' = [file EXCEPT !.status = user[u].change]  BY <1>2, <2>5 DEF WriteRows
    <3>2. user[u].change \in {"live", "trashed"}  BY <1>u, <2>5 DEF User
    <3>3. file' \in File /\ file'.place = file.place /\ Readable'
      BY <1>u, <2>5, <3>1, <3>2 DEF File
    <3> QED BY <1>2, <2>3, <2>5, <3>3 DEF WriteRows, TypeOK
  <2>6. CASE ~Readable
    <3>1. file' \in File /\ file'.place = NoPlace /\ ~Readable'
      BY <1>2, <2>6 DEF WriteRows, Remnant, File
    <3>2. blame' \subseteq Blames  BY <1>2, <2>6 DEF WriteRows, TypeOK, Blames
    <3> QED BY <1>2, <2>3, <3>1, <3>2 DEF WriteRows, TypeOK
  <2> QED BY <2>4, <2>5, <2>6
<1>3. CASE ReplaceItem(u)
  <2>1. user' \in [Users -> User]  BY <1>3, <1>r DEF ReplaceItem, TypeOK
  <2>2. user[u].to \in Places  BY <1>u DEF User
  <2>3. index' \subseteq Places  BY <1>3, <2>2 DEF ReplaceItem, TypeOK
  <2>4. blame' \subseteq Blames  BY <1>3 DEF ReplaceItem, TypeOK, Blames
  <2> QED BY <1>3, <2>1, <2>3, <2>4 DEF ReplaceItem, TypeOK
<1>4. CASE UserFails(u)
  <2>1. user' \in [Users -> User]  BY <1>4, <1>r DEF UserFails, TypeOK
  <2> QED BY <1>4, <2>1 DEF UserFails, TypeOK
<1>5. CASE Trash(u) \/ Restore(u)
  <2>1. file.place \in Places  BY <1>5, <1>u DEF Trash, Restore, Call, TypeOK, File
  <2> QED BY <1>1, <1>5, <2>1 DEF Trash, Restore
<1>6. ASSUME NEW place \in Places, Relocate(u, place) PROVE TypeOK'
  BY <1>1, <1>6 DEF Relocate
<1> QED BY <1>2, <1>3, <1>4, <1>5, <1>6 DEF UserStep

LEMMA NextType ==
  ASSUME TypeOK, \A p \in Procs : ProcInv(p), [Next]_vars
  PROVE  TypeOK'
<1> USE DEF bus, decref, item, Readable
<1>s. Steps = {"idle", "create", "enlist", "count", "publish", "advance", "mirror",
               "claim", "get", "record", "tally", "core", "index"}
  BY DEF Steps
<1>1. ASSUME NEW u \in Users, UserStep(u) PROVE TypeOK'
  BY <1>1, UserStepType
<1>2. ASSUME NEW p \in Procs, RequestStart(p) PROVE TypeOK'
  BY <1>2, <1>s, GotoMoves DEF RequestStart, TypeOK
<1>3. ASSUME NEW p \in Procs, ListDue(p) PROVE TypeOK'
  <2>1. job.attempts \in 0..MaxAttempts  BY DEF TypeOK, Job
  <2> QED BY <1>3, <1>s, <2>1, SeenMoves DEF ListDue, TypeOK
<1>4. ASSUME NEW p \in Procs, NEW b \in Batches, Receive(p, b) PROVE TypeOK'
  <2>1. proc' \in [Procs -> Proc]
    BY <1>4, <1>s, BatchMoves DEF Receive, TypeOK
  <2> QED BY <1>4, <2>1 DEF Receive, TypeOK
<1>5. ASSUME NEW p \in Procs, Fail(p) PROVE TypeOK'
  <2>1. completed' \subseteq Batches  BY <1>5, AckedType DEF Fail, TypeOK
  <2>2. blame' \subseteq Blames  BY <1>5 DEF Fail, TypeOK, Blames
  <2> QED BY <1>5, <2>1, <2>2, ReturnMoves DEF Fail, TypeOK
<1>6. ASSUME NEW b \in Batches, Service(b) \/ LoseRequest(b) PROVE TypeOK'
  BY <1>6 DEF Service, SettleBatch, ReportBatch, LoseRequest, Decref!Settle,
              Decref!Report, TypeOK
<1>7. CASE WindowPasses \/ FaultsCease
  BY <1>7 DEF WindowPasses, FaultsCease, TypeOK, Blames
<1>8. CASE UNCHANGED vars
  BY <1>8 DEF vars, TypeOK
<1>9. ASSUME NEW p \in Procs, ProcStep(p) PROVE TypeOK'
  BY <1>9, ProcStepType
<1> QED
  BY <1>1, <1>2, <1>3, <1>4, <1>5, <1>6, <1>7, <1>8, <1>9 DEF Next, Wake

-----------------------------------------------------------------------------
(* The accounting. *)

Solid == Backed /\ \A p \in Procs : ProcInv(p)

(* What backs a process never goes away. *)
Kept ==
  /\ reported \subseteq reported'
  /\ settled = Batches => settled' = Batches
  /\ ~Readable => ~Readable'

LEMMA OthersKeep ==
  ASSUME TypeOK, Solid, Kept, NEW p \in Procs, ProcInv(p)',
         \A q \in Procs : q # p => proc'[q] = proc[q]
  PROVE  \A q \in Procs : ProcInv(q)'
<1> SUFFICES ASSUME NEW q \in Procs PROVE ProcInv(q)'
  OBVIOUS
<1>1. CASE q = p  BY <1>1
<1>2. CASE q # p
  <2>1. ProcInv(q) /\ proc'[q] = proc[q]  BY <1>2 DEF Solid
  <2> QED BY <2>1 DEF Kept, ProcInv
<1> QED BY <1>1, <1>2

(* Idle processes claim nothing. *)
LEMMA IdleIsBacked ==
  ASSUME TypeOK, NEW p \in Procs, Return(p)
  PROVE  ProcInv(p)'
<1>1. proc'[p] = Idle  BY ReturnMoves
<1> QED BY <1>1 DEF Idle, ProcInv, Done

(* Most steps take a process on with what it holds. *)
LEMMA HoldsOn ==
  ASSUME Kept, NEW p \in Procs, ProcInv(p), proc'[p].pc \notin {"record", "core", "index"},
         proc'[p].to = proc[p].to, proc'[p].batch = proc[p].batch
  PROVE  ProcInv(p)'
BY DEF Kept, ProcInv

(* All batches are done when as many as there are batches are. *)
LEMMA TallyIsRight ==
  ASSUME TypeOK, Backed, job.count > 0, Cardinality(job.done) >= job.count
  PROVE  settled = Batches
<1>1. job.done \subseteq Batches /\ settled \subseteq Batches  BY DEF TypeOK, Job
<1>2. job.count = Cardinality(Batches)  BY DEF Backed
<1>3. Cardinality(job.done) <= Cardinality(Batches) /\ IsFiniteSet(job.done)
  BY <1>1, BatchesAssumption, FS_Subset
<1>4. Cardinality(job.done) = Cardinality(Batches)
  BY <1>2, <1>3, BatchesAssumption, FS_CardinalityType
<1>5. job.done = Batches
  BY <1>1, <1>4, BatchesAssumption, FS_Subset
<1> QED BY <1>1, <1>5 DEF Backed

LEMMA ProcStepSolid ==
  ASSUME TypeOK, Solid, NEW p \in Procs, ProcStep(p)
  PROVE  Solid'
<1> USE DEF bus, decref, item, Readable
<1>s. Steps = {"idle", "create", "enlist", "count", "publish", "advance", "mirror",
               "claim", "get", "record", "tally", "core", "index"}
  BY DEF Steps
<1>p. proc[p] \in Proc /\ ProcInv(p) /\ Backed  BY DEF TypeOK, Solid
<1>j. job \in Job  BY DEF TypeOK
<1>a. Acked(p) \subseteq completed  BY AckedType
<1>1. CASE Create(p)
  <2>0. Kept  BY <1>1 DEF Create, Kept
  <2>1. "PENDING" \in States /\ job.state \in States  BY <1>j DEF States, Job
  <2>2. /\ ProcInv(p)'
        /\ \A q \in Procs : q # p => proc'[q] = proc[q]
    <3>1. CASE Return(p)
      BY <3>1, IdleIsBacked, ReturnMoves
    <3>2. CASE /\ proc'[p].pc \in {"enlist", "count"}
               /\ proc'[p].to = proc[p].to /\ proc'[p].batch = proc[p].batch
               /\ \A q \in Procs : q # p => proc'[q] = proc[q]
      BY <1>1, <1>p, <3>2 DEF Create, ProcInv
    <3> QED BY <1>1, <1>s, <2>1, <3>1, <3>2, StateMoves DEF Create
  <2>3. Backed'  BY <1>1, <1>p, <1>j DEF Create, Backed, Job, Done
  <2> QED BY <2>0, <2>2, <2>3, OthersKeep DEF Solid
<1>2. CASE Enlist(p)
  <2>0. Kept  BY <1>2 DEF Enlist, Kept
  <2>1. ProcInv(p)'  BY <1>2, <1>p, <1>s, GotoMoves DEF Enlist, ProcInv
  <2>2. Backed'  BY <1>2, <1>p DEF Enlist, Backed
  <2> QED BY <1>2, <1>s, <2>0, <2>1, <2>2, OthersKeep, GotoMoves DEF Enlist, Solid
<1>3. CASE SetBatchCount(p)
  <2>0. Kept  BY <1>3 DEF SetBatchCount, Kept
  <2>1. proc[p].state \in States  BY <1>p DEF Proc
  <2>2. PublishAll(p, proc[p].state, Batches, TRUE)  BY <1>3 DEF SetBatchCount
  <2>3. ProcInv(p)'
    BY <1>3, <1>p, <2>1, <2>2, PublishAllMoves DEF SetBatchCount, ProcInv, Done
  <2>4. Backed'  BY <1>3, <1>p, <1>j DEF SetBatchCount, Backed, Job
  <2> QED BY <2>0, <2>1, <2>2, <2>3, <2>4, OthersKeep, PublishAllMoves DEF Solid
<1>4. ASSUME NEW b \in Batches, Publish(p, b) PROVE Solid'
  <2>0. Kept  BY <1>4 DEF Publish, Decref!Request, Kept
  <2>1. "DECREMENT_REQUESTED" \in States  BY DEF States
  <2>2. proc[p].todo \ {b} \in SUBSET Batches  BY <1>p DEF Proc
  <2>3. UNCHANGED <<job, file, settled, reported, completed>>
    BY <1>4 DEF Publish, Decref!Request
  <2>4. /\ ProcInv(p)'
        /\ \A q \in Procs : q # p => proc'[q] = proc[q]
    <3>1. CASE Return(p)  BY <3>1, IdleIsBacked, ReturnMoves
    <3>2. CASE Advance(p, "DECREMENT_REQUESTED")
      BY <1>p, <2>1, <2>3, <3>2, AdvanceMoves DEF ProcInv, Done
    <3>3. CASE proc' = [proc EXCEPT ![p].todo = proc[p].todo \ {b}]
      BY <1>4, <1>p, <2>2, <2>3, <3>3, TodoMoves DEF ProcInv
    <3> QED BY <1>4, <3>1, <3>2, <3>3 DEF Publish
  <2>5. Backed'  BY <1>p, <2>3 DEF Backed
  <2> QED BY <2>0, <2>4, <2>5, OthersKeep DEF Solid
<1>5. CASE AdvanceState(p)
  <2>0. Kept  BY <1>5 DEF AdvanceState, Kept
  <2>1. ProcInv(p)'  BY <1>5, <1>p, <1>s, GotoMoves DEF AdvanceState, ProcInv
  <2>2. Backed'
    BY <1>5, <1>p, <1>j DEF AdvanceState, Backed, ProcInv, Job, Done
  <2> QED BY <1>5, <1>s, <2>0, <2>1, <2>2, OthersKeep, GotoMoves DEF AdvanceState, Solid
<1>6. CASE MirrorState(p)
  <2>0. Kept  BY <1>6 DEF MirrorState, Kept
  <2>1. /\ ProcInv(p)'
        /\ \A q \in Procs : q # p => proc'[q] = proc[q]
    <3>1. CASE Return(p)  BY <3>1, IdleIsBacked, ReturnMoves
    <3>2. CASE proc[p].to = "DECREMENTED" /\ Goto(p, "core")
      BY <1>6, <1>p, <1>s, <3>2, GotoMoves DEF MirrorState, ProcInv, Done
    <3> QED BY <1>6, <3>1, <3>2 DEF MirrorState
  <2>2. Backed'  BY <1>6, <1>p, <1>a DEF MirrorState, Backed
  <2> QED BY <2>0, <2>1, <2>2, OthersKeep DEF Solid
<1>7. CASE RemoveCore(p)
  <2>0. Kept  BY <1>7 DEF RemoveCore, Removed, Kept
  <2>1. file.place \in Places \cup {NoPlace}  BY DEF TypeOK, File
  <2>2. settled = Batches  BY <1>7, <1>p DEF RemoveCore, At, ProcInv
  <2>3. /\ ProcInv(p)'
        /\ \A q \in Procs : q # p => proc'[q] = proc[q]
    <3>1. proc' = [proc EXCEPT ![p].pc = "index", ![p].place = file.place]
      BY <1>7 DEF RemoveCore
    <3>2. /\ proc'[p].pc = "index"
          /\ proc'[p].to = proc[p].to /\ proc'[p].batch = proc[p].batch
          /\ \A q \in Procs : q # p => proc'[q] = proc[q]
      BY <1>s, <2>1, <3>1, PlaceMoves
    <3>3. ~Readable' /\ UNCHANGED <<settled, reported>>
      BY <1>7 DEF RemoveCore, Removed
    <3> QED BY <1>p, <2>2, <3>2, <3>3 DEF ProcInv
  <2>4. Backed'  BY <1>7, <1>p, <2>2 DEF RemoveCore, Removed, Backed
  <2> QED BY <2>0, <2>3, <2>4, OthersKeep DEF Solid
<1>8. CASE RemoveIndex(p)
  <2>0. Kept  BY <1>8 DEF RemoveIndex, Kept
  <2>1. "COMPLETE" \in States  BY DEF States
  <2>2. settled = Batches /\ ~Readable
    BY <1>8, <1>p DEF RemoveIndex, At, ProcInv
  <2>3. ProcInv(p)'
    BY <1>8, <1>p, <2>1, <2>2, AdvanceMoves DEF RemoveIndex, ProcInv
  <2>4. Backed'  BY <1>8, <1>p DEF RemoveIndex, Backed
  <2> QED BY <1>8, <2>0, <2>1, <2>3, <2>4, OthersKeep, AdvanceMoves DEF RemoveIndex, Solid
<1>9. CASE RecordBatch(p)
  <2>0. Kept  BY <1>9 DEF RecordBatch, Kept
  <2>1. proc[p].batch \in reported  BY <1>9, <1>p DEF RecordBatch, At, ProcInv
  <2>2. ProcInv(p)'  BY <1>9, <1>p, <1>s, GotoMoves DEF RecordBatch, ProcInv
  <2>3. Backed'  BY <1>9, <1>p, <1>j, <2>1 DEF RecordBatch, Backed, Job
  <2> QED BY <1>9, <1>s, <2>0, <2>2, <2>3, OthersKeep, GotoMoves DEF RecordBatch, Solid
<1>10. CASE Tally(p)
  <2>0. Kept  BY <1>10 DEF Tally, Kept
  <2>1. "DECREMENTED" \in States  BY DEF States
  <2>2. /\ ProcInv(p)'
        /\ \A q \in Procs : q # p => proc'[q] = proc[q]
    <3>1. CASE Return(p)  BY <3>1, IdleIsBacked, ReturnMoves
    <3>2. CASE job.count > 0 /\ Cardinality(job.done) >= job.count /\ Advance(p, "DECREMENTED")
      <4>1. settled = Batches  BY <1>p, <3>2, TallyIsRight
      <4> QED BY <1>10, <1>p, <2>1, <3>2, <4>1, AdvanceMoves DEF Tally, ProcInv
    <3> QED BY <1>10, <3>1, <3>2 DEF Tally
  <2>3. Backed'  BY <1>10, <1>p, <1>a DEF Tally, Backed
  <2> QED BY <2>0, <2>2, <2>3, OthersKeep DEF Solid
<1>11. CASE ClaimJob(p)
  <2>0. Kept  BY <1>11 DEF ClaimJob, Kept
  <2>1. 0 \in 0..MaxAttempts  BY BoundsAssumption
  <2>2. /\ ProcInv(p)'
        /\ \A q \in Procs : q # p => proc'[q] = proc[q]
    <3>1. CASE Return(p)  BY <3>1, IdleIsBacked, ReturnMoves
    <3>2. CASE proc' = [proc EXCEPT ![p].pc = "get", ![p].seen = 0]
      <4>1. /\ proc'[p].pc = "get"
            /\ proc'[p].to = proc[p].to /\ proc'[p].batch = proc[p].batch
            /\ \A q \in Procs : q # p => proc'[q] = proc[q]
        BY <1>s, <2>1, <3>2, SeenMoves
      <4> QED BY <1>p, <2>0, <4>1, HoldsOn
    <3> QED BY <1>11, <3>1, <3>2 DEF ClaimJob
  <2>3. Backed'  BY <1>11, <1>p, <1>j DEF ClaimJob, Backed, Job
  <2> QED BY <2>0, <2>2, <2>3, OthersKeep DEF Solid
<1>12. CASE Dispatch(p)
  <2>0. Kept  BY <1>12 DEF Dispatch, Kept
  <2>1. "FAILED" \in States /\ job.state \in States  BY <1>j DEF States, Job
  <2>2. Batches \ job.done \in SUBSET Batches  OBVIOUS
  <2>3. /\ ProcInv(p)'
        /\ \A q \in Procs : q # p => proc'[q] = proc[q]
    <3>1. CASE Advance(p, "FAILED")
      BY <1>12, <1>p, <2>1, <3>1, AdvanceMoves DEF Dispatch, ProcInv, Done
    <3>2. CASE proc' = [proc EXCEPT ![p].pc = "count", ![p].state = job.state]
      <4>1. /\ proc'[p].pc = "count"
            /\ proc'[p].to = proc[p].to /\ proc'[p].batch = proc[p].batch
            /\ \A q \in Procs : q # p => proc'[q] = proc[q]
        BY <1>s, <2>1, <3>2, StateMoves
      <4> QED BY <1>p, <2>0, <4>1, HoldsOn
    <3>3. CASE PublishAll(p, job.state, Batches \ job.done, FALSE)
      BY <1>12, <1>p, <2>1, <2>2, <3>3, PublishAllMoves DEF Dispatch, ProcInv, Done
    <3>4. CASE job.state = "DECREMENTED" /\ Goto(p, "core")
      BY <1>12, <1>p, <1>s, <3>4, GotoMoves DEF Dispatch, ProcInv, Backed, Done
    <3>5. CASE Return(p)  BY <3>5, IdleIsBacked, ReturnMoves
    <3> QED BY <1>12, <3>1, <3>2, <3>3, <3>4, <3>5 DEF Dispatch
  <2>4. Backed'  BY <1>12, <1>p DEF Dispatch, Backed
  <2> QED BY <2>0, <2>3, <2>4, OthersKeep DEF Solid
<1> QED
  BY <1>1, <1>2, <1>3, <1>4, <1>5, <1>6, <1>7, <1>8, <1>9, <1>10, <1>11, <1>12 DEF ProcStep

(* No call of a user makes a file readable again, or a readable one not.     *)
LEMMA UserStepKeeps ==
  ASSUME TypeOK, NEW u \in Users, UserStep(u)
  PROVE  /\ UNCHANGED <<job, active, proc, completed, reported, settled>>
         /\ Readable' = Readable
         /\ blame \subseteq blame'
         /\ file'.status = "remnant" => file.status = "remnant" \/ "crossed" \in blame'
<1> USE DEF bus, decref
<1>u. user[u] \in User /\ file \in File  BY DEF TypeOK
<1>1. CASE WriteRows(u)
  <2>1. UNCHANGED <<job, active, proc, completed, reported, settled>> /\ blame \subseteq blame'
    BY <1>1 DEF WriteRows
  <2>2. CASE Readable
    <3>1. file'.status \in {"live", "trashed"}
      BY <1>1, <1>u, <2>2 DEF WriteRows, Readable, User, File
    <3> QED BY <2>1, <2>2, <3>1 DEF Readable
  <2>3. CASE ~Readable
    BY <1>1, <2>1, <2>3 DEF WriteRows, Readable, Remnant
  <2> QED BY <2>2, <2>3
<1>2. CASE ~WriteRows(u)
  BY <1>2 DEF UserStep, Trash, Restore, Relocate, Call, ReplaceItem, UserFails, Readable
<1> QED BY <1>1, <1>2

LEMMA NextSolid ==
  ASSUME TypeOK, Solid, [Next]_vars
  PROVE  Solid'
<1> USE DEF bus, decref, item, Readable
<1>s. Steps = {"idle", "create", "enlist", "count", "publish", "advance", "mirror",
               "claim", "get", "record", "tally", "core", "index"}
  BY DEF Steps
<1>b. Backed  BY DEF Solid
<1>1. ASSUME NEW u \in Users, UserStep(u) PROVE Solid'
  <2>0. UNCHANGED <<job, proc, completed, reported, settled>> /\ Readable' = Readable
    BY <1>1, UserStepKeeps
  <2>1. Kept  BY <2>0 DEF Kept
  <2>2. \A q \in Procs : ProcInv(q)'  BY <2>0, <2>1 DEF Solid, Kept, ProcInv
  <2>3. Backed'  BY <1>b, <2>0 DEF Backed
  <2> QED BY <2>2, <2>3 DEF Solid
<1>2. ASSUME NEW p \in Procs, RequestStart(p) PROVE Solid'
  <2>0. Kept  BY <1>2 DEF RequestStart, Kept
  <2>1. ProcInv(p)'  BY <1>2, <1>s, GotoMoves DEF RequestStart, ProcInv, Solid
  <2>2. Backed'  BY <1>2, <1>b DEF RequestStart, Backed
  <2> QED BY <1>2, <1>s, <2>0, <2>1, <2>2, OthersKeep, GotoMoves DEF RequestStart, Solid
<1>3. ASSUME NEW p \in Procs, ListDue(p) PROVE Solid'
  <2>0. Kept  BY <1>3 DEF ListDue, Kept
  <2>1. job.attempts \in 0..MaxAttempts  BY DEF TypeOK, Job
  <2>4. /\ proc'[p].pc = "claim"
        /\ proc'[p].to = proc[p].to /\ proc'[p].batch = proc[p].batch
        /\ \A q \in Procs : q # p => proc'[q] = proc[q]
    <3>1. proc' = [proc EXCEPT ![p].pc = "claim", ![p].seen = job.attempts]
      BY <1>3 DEF ListDue
    <3> QED BY <1>s, <2>1, <3>1, SeenMoves
  <2>2. ProcInv(p)'  BY <2>0, <2>4, HoldsOn DEF Solid
  <2>3. Backed'  BY <1>3, <1>b DEF ListDue, Backed
  <2> QED BY <2>0, <2>2, <2>3, <2>4, OthersKeep DEF Solid
<1>4. ASSUME NEW p \in Procs, NEW b \in Batches, Receive(p, b) PROVE Solid'
  <2>1. CASE UNCHANGED proc
    <3>1. Kept  BY <1>4 DEF Receive, Kept
    <3>2. \A q \in Procs : ProcInv(q)'  BY <2>1, <3>1 DEF Solid, Kept, ProcInv
    <3>3. Backed'  BY <1>4, <1>b DEF Receive, Backed
    <3> QED BY <3>2, <3>3 DEF Solid
  <2>2. CASE proc' = [proc EXCEPT ![p].pc = "record", ![p].batch = b]
    <3>0. Kept  BY <1>4 DEF Receive, Kept
    <3>1. b \in reported  BY <1>4, <1>b DEF Receive, Backed
    <3>2. ProcInv(p)'
      <4>1. /\ proc'[p].pc = "record" /\ proc'[p].batch = b
            /\ proc'[p].to = proc[p].to
        BY <1>s, <2>2, BatchMoves
      <4>2. b # NoBatch  BY NoBatchAssumption
      <4> QED BY <3>0, <3>1, <4>1, <4>2 DEF ProcInv, Solid, Kept
    <3>3. Backed'  BY <1>4, <1>b DEF Receive, Backed
    <3> QED BY <1>s, <2>2, <3>0, <3>2, <3>3, OthersKeep, BatchMoves DEF Solid
  <2> QED BY <1>4, <2>1, <2>2 DEF Receive
<1>5. ASSUME NEW p \in Procs, Fail(p) PROVE Solid'
  <2>0. Kept  BY <1>5 DEF Fail, Kept
  <2>1. Return(p)  BY <1>5 DEF Fail
  <2>2. Backed'  BY <1>5, <1>b, AckedType DEF Fail, Backed
  <2> QED BY <2>0, <2>1, <2>2, IdleIsBacked, ReturnMoves, OthersKeep DEF Solid
<1>6. ASSUME NEW b \in Batches, Service(b) \/ LoseRequest(b) PROVE Solid'
  <2>1. Kept
    BY <1>6 DEF Service, SettleBatch, ReportBatch, LoseRequest, Decref!Settle,
                Decref!Report, TypeOK, Kept
  <2>2. UNCHANGED <<job, file, proc>>
    BY <1>6 DEF Service, SettleBatch, ReportBatch, LoseRequest
  <2>3. \A q \in Procs : ProcInv(q)'  BY <2>1, <2>2 DEF Solid, Kept, ProcInv
  <2>4. reported' \subseteq settled' /\ completed' \subseteq reported'
    <3>1. CASE ReportBatch(b)
      <4>1. b \in settled  BY <3>1 DEF ReportBatch, Decref!Report, Decref!OpsOf
      <4> QED BY <1>b, <3>1, <4>1 DEF ReportBatch, Decref!Report, Backed
    <3>2. CASE SettleBatch(b)
      BY <1>b, <3>2 DEF SettleBatch, Decref!Settle, Backed
    <3>3. CASE LoseRequest(b)
      BY <1>b, <3>3 DEF LoseRequest, Backed
    <3> QED BY <1>6, <3>1, <3>2, <3>3 DEF Service
  <2>5. Backed'  BY <1>b, <2>1, <2>2, <2>4 DEF Kept, Backed
  <2> QED BY <2>3, <2>5 DEF Solid
<1>7. CASE WindowPasses \/ FaultsCease \/ UNCHANGED vars
  BY <1>7 DEF WindowPasses, FaultsCease, vars, Solid, Backed, ProcInv
<1>9. ASSUME NEW p \in Procs, ProcStep(p) PROVE Solid'
  BY <1>9, ProcStepSolid
<1> QED
  BY <1>1, <1>2, <1>3, <1>4, <1>5, <1>6, <1>7, <1>9 DEF Next, Wake

-----------------------------------------------------------------------------
(* The work list and the index. *)

Unlisted == job.state \notin {"none", "COMPLETE"} /\ ~active /\ "unlisted" \notin blame

(* Whoever is about to enlist the job. *)
Enlisting(p) == At(p, "enlist") \/ (At(p, "mirror") /\ proc[p].to # "COMPLETE")

(* Index rows of a removed file that nothing excuses. *)
Left == ~Readable /\ index # {} /\ Causes \cap blame = {}

(* Whoever is about to delete them. *)
Unindexer(p) == At(p, "index") /\ index = {proc[p].place}

LEMMA ListedByWhom == UnfinishedIsListed <=> (Unlisted => \E p \in Procs : Enlisting(p))
BY DEF UnfinishedIsListed, Unlisted, Enlisting

LEMMA UnindexedByWhom == Unindexing <=> (Left => \E p \in Procs : Unindexer(p))
BY DEF Unindexing, Left, Unindexer

(* A step of one process that adds no index row and is no last hope of one. *)
LEMMA StillUnindexing ==
  ASSUME TypeOK, NEW p \in Procs, Unindexing,
         \A q \in Procs : q # p => proc'[q] = proc[q],
         Left' => Left /\ ~Unindexer(p), index' \subseteq index
  PROVE  Unindexing'
<1>1. ASSUME Left' PROVE \E q \in Procs : Unindexer(q)'
  <2>1. PICK q \in Procs : Unindexer(q)  BY <1>1, UnindexedByWhom
  <2>2. proc'[q] = proc[q]  BY <1>1, <2>1
  <2>3. index' # {}  BY <1>1 DEF Left
  <2>4. index' = {proc'[q].place}  BY <2>1, <2>2, <2>3 DEF Unindexer
  <2> QED BY <2>1, <2>2, <2>4 DEF Unindexer, At
<1> QED BY <1>1 DEF Unindexing, Left, Unindexer, At

(* And one that needs no place on the work list either. *)
LEMMA Bystander ==
  ASSUME TypeOK, NEW p \in Procs, UnfinishedIsListed, Unindexing,
         ~Enlisting(p), ~Unindexer(p),
         \A q \in Procs : q # p => proc'[q] = proc[q],
         Unlisted' => Unlisted,
         Left' => Left, index' \subseteq index
  PROVE  UnfinishedIsListed' /\ Unindexing'
<1>1. ASSUME Unlisted' PROVE \E q \in Procs : Enlisting(q)'
  <2>1. PICK q \in Procs : Enlisting(q)  BY <1>1, ListedByWhom
  <2>2. proc'[q] = proc[q]  BY <2>1
  <2> QED BY <2>1, <2>2 DEF Enlisting, At
<1>2. Unindexing'  BY StillUnindexing
<1> QED BY <1>1, <1>2 DEF UnfinishedIsListed, Unlisted, Enlisting, At

LEMMA OthersStay ==
  ASSUME TypeOK, NEW p \in Procs, RequestStart(p) \/ Wake(p) \/ ProcStep(p) \/ Fail(p)
  PROVE  \A q \in Procs : q # p => proc'[q] = proc[q]
<1> USE DEF Goto, Return, Advance, PublishAll
<1>t. proc \in [Procs -> Proc]  BY DEF TypeOK
<1>1. CASE RequestStart(p)  BY <1>1, <1>t DEF RequestStart
<1>2. CASE ListDue(p)  BY <1>2, <1>t DEF ListDue
<1>3. ASSUME NEW b \in Batches, Receive(p, b)
      PROVE  \A q \in Procs : q # p => proc'[q] = proc[q]
  BY <1>3, <1>t DEF Receive
<1>4. CASE Fail(p)  BY <1>4, <1>t DEF Fail
<1>5. CASE Create(p) \/ Enlist(p) \/ SetBatchCount(p)
  BY <1>5, <1>t DEF Create, Enlist, SetBatchCount
<1>6. ASSUME NEW b \in Batches, Publish(p, b)
      PROVE  \A q \in Procs : q # p => proc'[q] = proc[q]
  BY <1>6, <1>t DEF Publish
<1>7. CASE AdvanceState(p) \/ MirrorState(p)
  BY <1>7, <1>t DEF AdvanceState, MirrorState
<1>8. CASE RemoveCore(p) \/ RemoveIndex(p)
  BY <1>8, <1>t DEF RemoveCore, RemoveIndex
<1>9. CASE RecordBatch(p) \/ Tally(p)  BY <1>9, <1>t DEF RecordBatch, Tally
<1>10. CASE ClaimJob(p)  BY <1>10, <1>t DEF ClaimJob
<1>11. CASE Dispatch(p)  BY <1>11, <1>t DEF Dispatch
<1> QED
  BY <1>1, <1>2, <1>3, <1>4, <1>5, <1>6, <1>7, <1>8, <1>9, <1>10, <1>11 DEF Wake, ProcStep

LEMMA ProcNextCauses ==
  ASSUME TypeOK, Solid, NEW p \in Procs, UnfinishedIsListed, Unindexing,
         RequestStart(p) \/ Wake(p) \/ ProcStep(p) \/ Fail(p)
  PROVE  UnfinishedIsListed' /\ Unindexing'
<1> USE DEF bus, decref, item, Readable
<1>s. Steps = {"idle", "create", "enlist", "count", "publish", "advance", "mirror",
               "claim", "get", "record", "tally", "core", "index"}
  BY DEF Steps
<1>o. \A q \in Procs : q # p => proc'[q] = proc[q]  BY OthersStay
<1>p. proc[p] \in Proc /\ ProcInv(p) /\ job \in Job  BY DEF TypeOK, Solid
<1>q. ASSUME UNCHANGED <<active, file, index, blame>>,
             job'.state \in {job.state, "none", "COMPLETE"},
             ~Enlisting(p), ~Unindexer(p)
      PROVE  UnfinishedIsListed' /\ Unindexing'
  BY <1>o, <1>q, Bystander DEF Unlisted, Left
<1>1. CASE Create(p)
  <2>1. ~Enlisting(p) /\ ~Unindexer(p)
    BY <1>1 DEF Create, At, Enlisting, Unindexer
  <2>2. CASE job' = job  BY <1>1, <1>q, <2>1, <2>2 DEF Create
  <2>3. CASE job.state = "none" /\ proc' = [proc EXCEPT ![p].pc = "enlist", ![p].state = "PENDING"]
    <3>1. "PENDING" \in States  BY DEF States
    <3>2. proc'[p].pc = "enlist"  BY <1>s, <2>3, <3>1, StateMoves
    <3>3. UnfinishedIsListed'  BY <3>2 DEF UnfinishedIsListed, At
    <3>4. Unindexing'  BY <1>1, <1>o, <2>1, StillUnindexing DEF Create, Left
    <3> QED BY <3>3, <3>4
  <2> QED BY <1>1, <2>2, <2>3 DEF Create
<1>2. CASE Enlist(p)
  <2>1. UnfinishedIsListed'  BY <1>2 DEF Enlist, UnfinishedIsListed
  <2>2. Unindexing'
    BY <1>2, <1>o, StillUnindexing DEF Enlist, Left, Unindexer, At
  <2> QED BY <2>1, <2>2
<1>3. CASE SetBatchCount(p)
  BY <1>3, <1>p, <1>q DEF SetBatchCount, At, Enlisting, Unindexer, Job
<1>4. ASSUME NEW b \in Batches, Publish(p, b) PROVE UnfinishedIsListed' /\ Unindexing'
  BY <1>4, <1>q DEF Publish, At, Enlisting, Unindexer
<1>5. CASE AdvanceState(p)
  <2>1. ~Enlisting(p) /\ ~Unindexer(p)
    BY <1>5 DEF AdvanceState, At, Enlisting, Unindexer
  <2>2. job'.state = proc[p].to  BY <1>5, <1>p DEF AdvanceState, Job
  <2>3. CASE proc[p].to = "COMPLETE"  BY <1>5, <1>q, <2>1, <2>2, <2>3 DEF AdvanceState
  <2>4. CASE proc[p].to # "COMPLETE"
    <3>1. proc'[p].pc = "mirror" /\ proc'[p].to = proc[p].to
      BY <1>5, <1>s, GotoMoves DEF AdvanceState
    <3>2. UnfinishedIsListed'  BY <2>4, <3>1 DEF UnfinishedIsListed, At
    <3>3. Unindexing'  BY <1>5, <1>o, <2>1, StillUnindexing DEF AdvanceState, Left
    <3> QED BY <3>2, <3>3
  <2> QED BY <2>3, <2>4
<1>6. CASE MirrorState(p)
  <2>1. UnfinishedIsListed'
    <3>1. CASE proc[p].to = "COMPLETE"
      BY <1>6, <3>1 DEF MirrorState, UnfinishedIsListed
    <3>2. CASE proc[p].to # "COMPLETE"
      BY <1>6, <3>2 DEF MirrorState, UnfinishedIsListed
    <3> QED BY <3>1, <3>2
  <2>2. Unindexing'
    <3>1. Left' => Left  BY <1>6 DEF MirrorState, Left, Causes
    <3> QED BY <1>6, <1>o, <3>1, StillUnindexing DEF MirrorState, Unindexer, At
  <2> QED BY <2>1, <2>2
<1>7. CASE RemoveCore(p)
  <2>1. ~Enlisting(p) /\ ~Unindexer(p)
    BY <1>7 DEF RemoveCore, At, Enlisting, Unindexer
  <2>2. CASE ~Readable
    <3>1. blame' = blame  BY <1>7, <2>2 DEF RemoveCore
    <3>2. Unlisted' => Unlisted  BY <1>7, <3>1 DEF RemoveCore, Unlisted
    <3>3. Left' => Left  BY <1>7, <2>2, <3>1 DEF RemoveCore, Left
    <3>4. index' \subseteq index  BY <1>7 DEF RemoveCore
    <3> QED BY <1>o, <2>1, <3>2, <3>3, <3>4, Bystander
  <2>3. CASE Readable
    <3>1. file.place \in Places \cup {NoPlace}  BY DEF TypeOK, File
    <3>2. proc' = [proc EXCEPT ![p].pc = "index", ![p].place = file.place]
      BY <1>7 DEF RemoveCore
    <3>3. proc'[p].pc = "index" /\ proc'[p].place = file.place
      BY <1>s, <3>1, <3>2, PlaceMoves
    <3>4. Unindexing'
      <4>1. CASE index \subseteq {file.place}
        <5>1. index' = {} \/ index' = {file.place}  BY <1>7, <4>1 DEF RemoveCore
        <5> QED BY <3>3, <5>1 DEF Unindexing, At
      <4>2. CASE ~(index \subseteq {file.place})
        <5>1. "misfiled" \in blame'  BY <1>7, <2>3, <4>2 DEF RemoveCore
        <5> QED BY <5>1 DEF Unindexing, Causes
      <4> QED BY <4>1, <4>2
    <3>5. ASSUME Unlisted' PROVE \E q \in Procs : Enlisting(q)'
      <4>1. Unlisted  BY <1>7, <3>5 DEF RemoveCore, Unlisted
      <4>2. PICK q \in Procs : Enlisting(q)  BY <4>1, ListedByWhom
      <4>3. proc'[q] = proc[q]  BY <1>o, <2>1, <4>2
      <4> QED BY <4>2, <4>3 DEF Enlisting, At
    <3> QED BY <3>4, <3>5 DEF UnfinishedIsListed, Unlisted, Enlisting, At
  <2> QED BY <2>2, <2>3
<1>8. CASE RemoveIndex(p)
  <2>1. ASSUME Unlisted' PROVE \E q \in Procs : Enlisting(q)'
    <3>1. Unlisted  BY <1>8, <2>1 DEF RemoveIndex, Unlisted
    <3>2. PICK q \in Procs : Enlisting(q)  BY <3>1, ListedByWhom
    <3>3. q # p  BY <1>8, <3>2 DEF RemoveIndex, Enlisting, At
    <3>4. proc'[q] = proc[q]  BY <1>o, <3>3
    <3> QED BY <3>2, <3>4 DEF Enlisting, At
  <2>2. Unindexing'
    <3>1. index' = index \ {proc[p].place} /\ UNCHANGED <<file, blame>>
      BY <1>8 DEF RemoveIndex
    <3>2. Left' => Left /\ ~Unindexer(p)  BY <3>1 DEF Left, Unindexer
    <3> QED BY <1>o, <3>1, <3>2, StillUnindexing
  <2> QED BY <2>1, <2>2 DEF UnfinishedIsListed, Unlisted, Enlisting, At
<1>9. CASE RecordBatch(p)
  BY <1>9, <1>p, <1>q DEF RecordBatch, At, Enlisting, Unindexer, Job
<1>10. CASE Tally(p)  BY <1>10, <1>q DEF Tally, At, Enlisting, Unindexer
<1>11. CASE ClaimJob(p)
  BY <1>11, <1>p, <1>q DEF ClaimJob, At, Enlisting, Unindexer, Job
<1>12. CASE Dispatch(p)  BY <1>12, <1>q DEF Dispatch, At, Enlisting, Unindexer
<1>13. CASE RequestStart(p)
  BY <1>13, <1>q DEF RequestStart, At, Enlisting, Unindexer
<1>14. CASE ListDue(p)  BY <1>14, <1>q DEF ListDue, At, Enlisting, Unindexer
<1>15. ASSUME NEW b \in Batches, Receive(p, b) PROVE UnfinishedIsListed' /\ Unindexing'
  BY <1>15, <1>q DEF Receive, At, Enlisting, Unindexer
<1>16. CASE Fail(p)
  <2>1. ASSUME Unlisted' PROVE \E q \in Procs : Enlisting(q)'
    <3>1. Unlisted /\ ~Enlisting(p)  BY <1>16, <2>1 DEF Fail, Unlisted, Enlisting
    <3>2. PICK q \in Procs : Enlisting(q)  BY <3>1, ListedByWhom
    <3>3. proc'[q] = proc[q]  BY <1>o, <3>1, <3>2
    <3> QED BY <3>2, <3>3 DEF Enlisting, At
  <2>2. Unindexing'
    <3>1. UNCHANGED item /\ blame \subseteq blame'  BY <1>16 DEF Fail
    <3>2. Left' => Left  BY <3>1 DEF Left
    <3>3. ASSUME Unindexer(p) PROVE ~Left'
      <4>1. proc[p].place \in Places  BY <3>3 DEF Unindexer, TypeOK
      <4>2. At(p, "index") /\ proc[p].place # NoPlace
        BY <3>3, <4>1, PlacesAssumption DEF Unindexer
      <4>3. "ghost" \in blame'  BY <1>16, <4>2 DEF Fail
      <4> QED BY <4>3 DEF Left, Causes
    <3> QED BY <1>o, <3>1, <3>2, <3>3, StillUnindexing
  <2> QED BY <2>1, <2>2 DEF UnfinishedIsListed, Unlisted, Enlisting, At
<1> QED
  BY <1>1, <1>2, <1>3, <1>4, <1>5, <1>6, <1>7, <1>8, <1>9, <1>10, <1>11, <1>12, <1>13,
     <1>14, <1>15, <1>16
  DEF Wake, ProcStep

(* What a user's call writes after the removal is known as such. *)
LEMMA UserCauses ==
  ASSUME TypeOK, NEW u \in Users, UserStep(u), UnfinishedIsListed, Unindexing
  PROVE  UnfinishedIsListed' /\ Unindexing'
<1>k. /\ UNCHANGED <<job, active, proc>> /\ Readable' = Readable
      /\ blame \subseteq blame'
  BY UserStepKeeps
<1>1. UnfinishedIsListed'  BY <1>k DEF UnfinishedIsListed, At
<1>2. Unindexing'
  <2>1. CASE UNCHANGED index  BY <1>k, <2>1 DEF Unindexing, At
  <2>2. CASE ReplaceItem(u) /\ ~Readable /\ user[u].to \notin index
    <3>1. "crossed" \in blame'  BY <2>2 DEF ReplaceItem
    <3> QED BY <3>1 DEF Unindexing, Causes
  <2>3. CASE ReplaceItem(u) /\ ~Readable /\ user[u].to \in index
    <3>1. index' \subseteq index  BY <2>3 DEF ReplaceItem
    <3> QED BY <1>k, <3>1 DEF Unindexing, At
  <2>4. CASE Readable  BY <1>k, <2>4 DEF Unindexing
  <2>5. UNCHANGED index \/ ReplaceItem(u)
    BY DEF UserStep, Trash, Restore, Relocate, Call, WriteRows, UserFails
  <2> QED BY <2>1, <2>2, <2>3, <2>4, <2>5
<1> QED BY <1>1, <1>2

(* Only an upsert leaves a remnant, and it is known as such. *)
LEMMA NextCrossing ==
  ASSUME TypeOK, Crossing, [Next]_vars
  PROVE  Crossing'
<1> USE DEF bus, decref, item
<1>1. ASSUME file' \in {file, Removed}, blame \subseteq blame' PROVE Crossing'
  BY <1>1 DEF Crossing, Removed
<1>2. ASSUME NEW u \in Users, UserStep(u) PROVE Crossing'
  BY <1>2, UserStepKeeps DEF Crossing
<1>3. ASSUME NEW p \in Procs, RequestStart(p) \/ Wake(p) \/ Fail(p) PROVE Crossing'
  BY <1>1, <1>3 DEF RequestStart, Wake, ListDue, Receive, Fail
<1>4. ASSUME NEW p \in Procs, ProcStep(p) PROVE Crossing'
  BY <1>1, <1>4 DEF ProcStep, Create, Enlist, SetBatchCount, Publish, AdvanceState, MirrorState,
     RemoveCore, RemoveIndex, RecordBatch, Tally, ClaimJob, Dispatch
<1>5. ASSUME NEW b \in Batches, Service(b) \/ LoseRequest(b) PROVE Crossing'
  BY <1>1, <1>5 DEF Service, SettleBatch, ReportBatch, LoseRequest
<1>6. CASE WindowPasses \/ FaultsCease \/ UNCHANGED vars
  BY <1>1, <1>6 DEF WindowPasses, FaultsCease, vars
<1> QED BY <1>2, <1>3, <1>4, <1>5, <1>6 DEF Next

LEMMA NextCauses ==
  ASSUME TypeOK, Solid, UnfinishedIsListed, Unindexing, [Next]_vars
  PROVE  UnfinishedIsListed' /\ Unindexing'
<1> USE DEF bus, decref, item, Readable
<1>1. ASSUME UNCHANGED <<proc, active, file, index>>, job' = job, blame \subseteq blame'
      PROVE  UnfinishedIsListed' /\ Unindexing'
  BY <1>1 DEF UnfinishedIsListed, Unindexing, At
<1>2. ASSUME NEW u \in Users, UserStep(u)
      PROVE  UnfinishedIsListed' /\ Unindexing'
  BY <1>2, UserCauses
<1>3. ASSUME NEW b \in Batches, Service(b) \/ LoseRequest(b)
      PROVE  UnfinishedIsListed' /\ Unindexing'
  BY <1>1, <1>3 DEF Service, SettleBatch, ReportBatch, LoseRequest
<1>4. CASE WindowPasses \/ FaultsCease \/ UNCHANGED vars
  BY <1>1, <1>4 DEF WindowPasses, FaultsCease, vars
<1>5. ASSUME NEW p \in Procs, RequestStart(p) \/ Wake(p) \/ ProcStep(p) \/ Fail(p)
      PROVE  UnfinishedIsListed' /\ Unindexing'
  BY <1>5, ProcNextCauses
<1> QED BY <1>2, <1>3, <1>4, <1>5 DEF Next

-----------------------------------------------------------------------------

LEMMA InitSaga == Init => SagaInv
<1> SUFFICES ASSUME Init PROVE SagaInv  OBVIOUS
<1> USE DEF Init, Decref!Init
<1>1. TypeOK
  <2>1. job \in Job  BY BoundsAssumption DEF Job, States
  <2>2. proc \in [Procs -> Proc]  BY IdleIsProc
  <2>3. user \in [Users -> User]  BY PlacesAssumption DEF Resting, User
  <2>4. file \in File /\ Readable /\ file.place # NoPlace /\ index \subseteq Places
    BY PlacesAssumption DEF File, Readable
  <2> QED BY <2>1, <2>2, <2>3, <2>4, BoundsAssumption DEF TypeOK
<1>r. Readable  BY DEF Readable
<1>2. Backed  BY <1>r DEF Backed, Done
<1>3. ASSUME NEW p \in Procs PROVE ProcInv(p)
  BY DEF ProcInv, Idle, Done
<1>4. Unindexing /\ UnfinishedIsListed  BY <1>r DEF Unindexing, UnfinishedIsListed
<1>5. Crossing  BY DEF Crossing
<1> QED BY <1>1, <1>2, <1>3, <1>4, <1>5 DEF SagaInv

(* The purge saga keeps its types, and everything its rows, queues and       *)
(* running processes claim stays backed by the decrement service.            *)
THEOREM SagaInvariance == Spec => []SagaInv
<1>1. Init => SagaInv  BY InitSaga
<1>2. SagaInv /\ [Next]_vars => SagaInv'
  <2> SUFFICES ASSUME SagaInv, [Next]_vars PROVE SagaInv'  OBVIOUS
  <2>1. TypeOK /\ Solid /\ Crossing /\ UnfinishedIsListed /\ Unindexing
    BY DEF SagaInv, Solid
  <2>2. TypeOK'  BY <2>1, NextType DEF Solid
  <2>3. Solid'  BY <2>1, NextSolid
  <2>4. UnfinishedIsListed' /\ Unindexing'  BY <2>1, NextCauses
  <2>5. Crossing'  BY <2>1, NextCrossing
  <2> QED BY <2>2, <2>3, <2>4, <2>5 DEF SagaInv, Solid
<1> QED BY <1>1, <1>2, PTL DEF Spec

(* Job rows, work list, batches and the running processes keep their types.  *)
THEOREM TypeCorrect == Spec => []TypeOK
<1>1. SagaInv => TypeOK  BY DEF SagaInv
<1> QED BY <1>1, SagaInvariance, PTL

(* A file's metadata goes only after every batch of its references was       *)
(* settled, whatever is republished, redelivered, claimed twice or written   *)
(* from a stale snapshot (RemoveMetadataAndComplete).                        *)
THEOREM RemovalEarned == Spec => []RemovalIsEarned
<1>1. SagaInv => RemovalIsEarned  BY DEF SagaInv, Backed, RemovalIsEarned
<1> QED BY <1>1, SagaInvariance, PTL

(* COMPLETE is written only when the file's rows are gone, and only a call   *)
(* that had read them before brings a nameless remnant of them back.         *)
THEOREM CompleteRemoved == Spec => []CompleteIsRemoved
<1>1. SagaInv => CompleteIsRemoved
  <2> SUFFICES ASSUME SagaInv,
                      job.state = "COMPLETE" \/ \E p \in Procs : proc[p].to = "COMPLETE"
               PROVE  file.status = "removed" \/ (file.status = "remnant" /\ "crossed" \in blame)
    BY DEF CompleteIsRemoved
  <2>1. ~Readable  BY DEF SagaInv, Backed, ProcInv
  <2>2. file.status \in {"removed", "remnant"}
    BY <2>1 DEF SagaInv, TypeOK, File, Readable
  <2> QED BY <2>2 DEF SagaInv, Crossing
<1> QED BY <1>1, SagaInvariance, PTL

(* Only a crash between job row and work list, or two UpdateStates that      *)
(* crossed, can hide an unfinished job from the sweepers.                    *)
THEOREM UnfinishedListed == Spec => []UnfinishedIsListed
<1>1. SagaInv => UnfinishedIsListed  BY DEF SagaInv
<1> QED BY <1>1, SagaInvariance, PTL

(* Only a crash after the core rows and before the index rows, a call that   *)
(* had read the file before its removal, or an index that disagreed with the *)
(* file's row at its removal can leave an index row behind a completed purge.*)
THEOREM CompleteUnindexed == Spec => []CompleteIsUnindexed
<1>1. SagaInv => CompleteIsUnindexed
  BY DEF SagaInv, Backed, Unindexing, Causes, CompleteIsUnindexed
<1> QED BY <1>1, SagaInvariance, PTL

=============================================================================
