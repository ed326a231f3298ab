----------------------------- MODULE PurgeSaga -----------------------------
(***************************************************************************)
(* Permanent deletion of one soft-deleted file in the metadata service: a  *)
(* purge job (purge_jobs) and its entry in the sweeper's work list         *)
(* (purge_jobs_active), moved from PENDING to COMPLETE by                  *)
(*                                                                         *)
(*   - requests (Coordinator.Request),                                     *)
(*   - completion deliveries (Coordinator.handleCompletion), and           *)
(*   - the recovery sweepers of the running instances (Sweeper.recover),   *)
(*                                                                         *)
(* each working on its own snapshot of the job row, one database or broker *)
(* call per step.  The decrements themselves are DecrefPromise's.  The     *)
(* file's owner meanwhile deletes, restores, renames and moves the file:   *)
(* a read, the file's rows, the folder's index.                            *)
(***************************************************************************)
EXTENDS Naturals, FiniteSets

CONSTANTS
  Batches,      \* the batches of the job's block list
  Requesters,   \* requests for a permanent delete
  Handlers,     \* deliveries of completions
  Sweepers,     \* one recovery sweeper per service instance
  Users,        \* calls that change the file: each is made once
  Places,       \* folders and names: the key of the file's index row
  Home,         \* where the file is at first
  MaxAttempts,  \* PURGE_MAX_ATTEMPTS (10)
  Faults,       \* crashes and failing calls: "none", "always" possible, or
                \* possible until they "cease"
  NoBatch, NoPlace  \* model values

Procs == Requesters \cup Handlers \cup Sweepers

ASSUME BatchesAssumption == Batches \subseteq Nat /\ Batches # {} /\ IsFiniteSet(Batches)
ASSUME ProcsAssumption ==
  Requesters \cap Handlers = {} /\ Requesters \cap Sweepers = {} /\ Handlers \cap Sweepers = {}
ASSUME BoundsAssumption ==
  MaxAttempts \in Nat \ {0} /\ Faults \in {"none", "always", "cease"}
ASSUME PlacesAssumption == Home \in Places /\ NoPlace \notin Places
ASSUME NoBatchAssumption == NoBatch \notin Batches

VARIABLES
  job,        \* the purge_jobs row
  active,     \* is the job in purge_jobs_active?
  file,       \* the file's rows in files_by_id and files_by_folder
  index,      \* its rows in folder_items_by_name (and by_size)
  user,       \* the step each call of a user is at
  proc,       \* the step each request, delivery and sweeper is at
  asked,      \* batches whose request is on the BLOCK_REFS_CMD queue
  completed,  \* batches whose completion waits on BLOCK_REFS_EVT
  requested, settled, reported,  \* the decrement service, see DecrefPromise
  trouble,    \* may something still fail?
  blame       \* which of Blames have happened: history, but for "overdue",
              \* which the sweepers go by

bus == <<asked, completed>>
decref == <<requested, settled, reported>>
item == <<file, index, user>>
vars == <<job, active, item, proc, bus, decref, trouble, blame>>

Decref == INSTANCE DecrefPromise WITH Ops <- Batches, BatchOf <- [b \in Batches |-> b]

States == {"none", "PENDING", "DECREMENT_REQUESTED", "DECREMENTED", "COMPLETE", "FAILED"}

\* Attempts beyond MaxAttempts are all alike.
Job == [state : States, attempts : 0..MaxAttempts, count : Nat, done : SUBSET Batches]

Steps == {"idle", "create", "enlist", "count", "publish", "advance", "mirror", "claim",
          "get", "record", "tally", "core", "index"}

Proc == [pc : Steps,
         state : States,             \* the state of the job in the snapshot
         to : States,                \* the state being written
         todo : SUBSET Batches,      \* batches still to publish
         seen : 0..MaxAttempts,
         batch : Batches \cup {NoBatch},
         plain : BOOLEAN,            \* is the first MsgId of a batch used?
         place : Places \cup {NoPlace}]  \* the file's folder and name, if known

Idle == [pc |-> "idle", state |-> "none", to |-> "none", todo |-> {}, seen |-> 0,
         batch |-> NoBatch, plain |-> FALSE, place |-> NoPlace]

(* A remnant is what an UPDATE makes of a deleted row: it has neither name   *)
(* nor owner, and no read by owner finds it.                                 *)
File == [status : {"live", "trashed", "removed", "remnant"}, place : Places \cup {NoPlace}]

Removed == [status |-> "removed", place |-> NoPlace]
Remnant == [status |-> "remnant", place |-> NoPlace]

(* GetFileByID finds it. *)
Readable == file.status \in {"live", "trashed"}

User == [pc : {"idle", "write", "list", "done"}, change : {"live", "trashed", "moved"},
         from : Places, to : Places]

Resting(step) == [pc |-> step, change |-> "moved", from |-> Home, to |-> Home]

(* unlisted: an unfinished job was left out of the work list.                *)
(* overdue:  the hour the job was created in has left the sweepers' window.  *)
(* ghost:    the name of a removed file was forgotten before its index rows  *)
(*           were deleted.                                                   *)
(* misfiled: the removed file had an index row under another folder or name. *)
(* crossed:  a user's call had read the file before it was removed, and      *)
(*           wrote afterwards.                                               *)
Blames == {"unlisted", "overdue", "ghost", "misfiled", "crossed"}

TypeOK ==
  /\ job \in Job /\ active \in BOOLEAN
  /\ file \in File /\ (Readable <=> file.place # NoPlace)
  /\ index \subseteq Places
  /\ user \in [Users -> User]
  /\ proc \in [Procs -> Proc]
  /\ asked \subseteq Batches /\ completed \subseteq Batches
  /\ requested \subseteq Batches /\ settled \subseteq Batches /\ reported \subseteq Batches
  /\ trouble \in BOOLEAN /\ blame \subseteq Blames

Init ==
  /\ job = [state |-> "none", attempts |-> 0, count |-> 0, done |-> {}]
  /\ active = FALSE
  /\ file \in [status : {"live", "trashed"}, place : {Home}] /\ index = {Home}
  /\ user = [u \in Users |-> Resting("idle")]
  /\ proc = [p \in Procs |-> Idle]
  /\ asked = {} /\ completed = {}
  /\ Decref!Init
  /\ trouble = (Faults # "none")
  /\ blame = {}

-----------------------------------------------------------------------------
(* Control of a process. *)

At(p, step) == proc[p].pc = step

Goto(p, step) == proc' = [proc EXCEPT ![p].pc = step]

Return(p) == proc' = [proc EXCEPT ![p] = Idle]

(* UpdateState(job, to): the primary row, then the work list. *)
Advance(p, to) ==
  proc' = [proc EXCEPT ![p] = [Idle EXCEPT !.pc = "advance", !.to = to, !.batch = proc[p].batch]]

(* Publish these batches; without any, the publisher is through at once. *)
PublishAll(p, state, batches, plain) ==
  IF batches # {}
  THEN proc' = [proc EXCEPT ![p].pc = "publish", ![p].state = state, ![p].todo = batches,
                  ![p].plain = plain]
  ELSE IF state = "PENDING" THEN Advance(p, "DECREMENT_REQUESTED") ELSE Return(p)

(* The last step of a delivery: acknowledged when the handler is done. *)
Acked(p) == completed \ (IF p \in Handlers THEN {proc[p].batch} ELSE {})

-----------------------------------------------------------------------------
(* The user: DeleteFileOwned, RestoreFileOwned, RenameFileOwned,             *)
(* MoveFileOwned.                                                            *)

(* The service's read of the file, and the repository's own just before it   *)
(* writes.  Neither looks for a purge job, and no write is conditional.      *)
Call(u, change, place) ==
  /\ user[u].pc = "idle"
  /\ Readable
  /\ user' = [user EXCEPT ![u] =
                [pc |-> "write", change |-> change, from |-> file.place, to |-> place]]
  /\ UNCHANGED <<job, active, file, index, proc, bus, decref, trouble, blame>>

Trash(u) == Call(u, "trashed", file.place)
Restore(u) == Call(u, "live", file.place)
Relocate(u, place) == Call(u, "moved", place)

(* UPDATE files_by_folder, files_by_id: an upsert, whether or not the row is *)
(* still there.                                                              *)
WriteRows(u) ==
  /\ user[u].pc = "write"
  /\ user' = [user EXCEPT ![u].pc = "list"]
  /\ \/ /\ Readable
        /\ file' = IF user[u].change = "moved" THEN [file EXCEPT !.place = user[u].to]
                   ELSE [file EXCEPT !.status = user[u].change]
        /\ UNCHANGED blame
     \/ /\ ~Readable
        /\ file' = Remnant
        /\ blame' = blame \cup {"crossed"}
  /\ UNCHANGED <<job, active, index, proc, bus, decref, trouble>>

(* ReplaceItem: the new row is inserted, then the one under the old key is   *)
(* deleted.  Errors are only logged.                                         *)
ReplaceItem(u) ==
  /\ user[u].pc = "list"
  /\ user' = [user EXCEPT ![u] = Resting("done")]
  /\ \/ index' = (index \ {user[u].from}) \cup {user[u].to}
     \/ trouble /\ index' = index \cup {user[u].to}
  /\ blame' = IF ~Readable /\ user[u].to \notin index THEN blame \cup {"crossed"} ELSE blame
  /\ UNCHANGED <<job, active, file, proc, bus, decref, trouble>>

UserFails(u) ==
  /\ trouble
  /\ user[u].pc \in {"write", "list"}
  /\ user' = [user EXCEPT ![u] = Resting("done")]
  /\ UNCHANGED <<job, active, file, index, proc, bus, decref, trouble, blame>>

UserStep(u) ==
  \/ Trash(u) \/ Restore(u) \/ (\E place \in Places : Relocate(u, place))
  \/ WriteRows(u) \/ ReplaceItem(u) \/ UserFails(u)

-----------------------------------------------------------------------------
(* Coordinator.Request. *)

(* Only what is in the trash. *)
RequestStart(p) ==
  /\ p \in Requesters /\ At(p, "idle")
  /\ file.status = "trashed"
  /\ Goto(p, "create")
  /\ UNCHANGED <<job, active, item, bus, decref, trouble, blame>>

(* Create: INSERT ... IF NOT EXISTS, or the row that is there. *)
Create(p) ==
  /\ At(p, "create")
  /\ \/ /\ job.state = "none"
        /\ job' = [job EXCEPT !.state = "PENDING"]
        /\ proc' = [proc EXCEPT ![p].pc = "enlist", ![p].state = "PENDING"]
     \/ /\ job.state \in {"PENDING", "DECREMENT_REQUESTED"}
        /\ proc' = [proc EXCEPT ![p].pc = "count", ![p].state = job.state]
        /\ UNCHANGED job
     \/ /\ job.state \notin {"none", "PENDING", "DECREMENT_REQUESTED"}
        /\ Return(p)
        /\ UNCHANGED job
  /\ UNCHANGED <<active, item, bus, decref, trouble, blame>>

Enlist(p) ==
  /\ At(p, "enlist")
  /\ active' = TRUE
  /\ Goto(p, "count")
  /\ UNCHANGED <<job, item, bus, decref, trouble, blame>>

-----------------------------------------------------------------------------
(* publishRequestV2, publishBatchRedrive. *)

SetBatchCount(p) ==
  /\ At(p, "count")
  /\ job' = [job EXCEPT !.count = Cardinality(Batches)]
  /\ PublishAll(p, proc[p].state, Batches, TRUE)
  /\ UNCHANGED <<active, item, bus, decref, trouble, blame>>

(* Mutant: the batches are numbered from one too many. *)
PublishOffByOne(p, b) ==
  /\ At(p, "publish")
  /\ b \in proc[p].todo /\ \A d \in proc[p].todo : b <= d
  /\ asked' = asked \cup {b + 1}
  /\ Decref!Request(b + 1)
  /\ LET rest == proc[p].todo \ {b} IN
     IF rest = {} THEN Return(p) ELSE proc' = [proc EXCEPT ![p].todo = rest]
  /\ UNCHANGED <<job, active, item, completed, trouble, blame>>

(* In order.  A first MsgId used again may be swallowed by the dedup window.  *)
(* Only a PENDING snapshot goes on to advance the state.                     *)
Publish(p, b) ==
  /\ At(p, "publish")
  /\ b \in proc[p].todo /\ \A d \in proc[p].todo : b <= d
  /\ \/ asked' = asked \cup {b}
     \/ proc[p].plain /\ b \in requested /\ UNCHANGED asked
  /\ Decref!Request(b)
  /\ LET rest == proc[p].todo \ {b} IN
     IF rest = {} /\ proc[p].state # "PENDING" THEN Return(p)
     ELSE IF rest = {} THEN Advance(p, "DECREMENT_REQUESTED")
     ELSE proc' = [proc EXCEPT ![p].todo = rest]
  /\ UNCHANGED <<job, active, item, completed, trouble, blame>>

-----------------------------------------------------------------------------
(* UpdateState. *)

AdvanceState(p) ==
  /\ At(p, "advance")
  /\ job' = [job EXCEPT !.state = proc[p].to]
  /\ Goto(p, "mirror")
  /\ UNCHANGED <<active, item, bus, decref, trouble, blame>>

(* Mutant: the work list forgets a job as soon as its decrements are done. *)
MirrorDropsDecremented(p) ==
  /\ At(p, "mirror")
  /\ active' = (proc[p].to \notin {"COMPLETE", "DECREMENTED"})
  /\ IF proc[p].to = "DECREMENTED"
     THEN Goto(p, "core") /\ UNCHANGED completed
     ELSE Return(p) /\ completed' = Acked(p)
  /\ blame' = IF proc[p].to = "COMPLETE" /\ job.state # "COMPLETE"
              THEN blame \cup {"unlisted"} ELSE blame
  /\ UNCHANGED <<job, item, asked, decref, trouble>>

(* COMPLETE leaves the work list, everything else is upserted there; the     *)
(* primary row may have been written by somebody else since.                 *)
MirrorState(p) ==
  /\ At(p, "mirror")
  /\ active' = (proc[p].to # "COMPLETE")
  /\ IF proc[p].to = "DECREMENTED"
     THEN Goto(p, "core") /\ UNCHANGED completed
     ELSE Return(p) /\ completed' = Acked(p)
  /\ blame' = IF proc[p].to = "COMPLETE" /\ job.state # "COMPLETE"
              THEN blame \cup {"unlisted"} ELSE blame
  /\ UNCHANGED <<job, item, asked, decref, trouble>>

-----------------------------------------------------------------------------
(* RemoveMetadataAndComplete. *)

(* Mutant: the name is not read before the row that holds it is deleted. *)
RemoveNameless(p) ==
  /\ At(p, "core")
  /\ file' = Removed
  /\ Goto(p, "index")
  /\ blame' = IF Readable /\ ~(index \subseteq {file.place})
              THEN blame \cup {"misfiled"} ELSE blame
  /\ UNCHANGED <<job, active, index, user, bus, decref, trouble>>

(* files_by_folder and files_by_id; when the file cannot be read any more,   *)
(* its name is not known.                                                    *)
RemoveCore(p) ==
  /\ At(p, "core")
  /\ file' = Removed
  /\ proc' = [proc EXCEPT ![p].pc = "index", ![p].place = file.place]
  /\ blame' = IF Readable /\ ~(index \subseteq {file.place})
              THEN blame \cup {"misfiled"} ELSE blame
  /\ UNCHANGED <<job, active, index, user, bus, decref, trouble>>

(* folder_items_by_name is keyed by the name: without it nothing is deleted. *)
RemoveIndex(p) ==
  /\ At(p, "index")
  /\ index' = index \ {proc[p].place}
  /\ Advance(p, "COMPLETE")
  /\ UNCHANGED <<job, active, file, user, bus, decref, trouble, blame>>

-----------------------------------------------------------------------------
(* handleCompletion. *)

(* A completion for a job that is past requesting, or given up, is dropped. *)
Receive(p, b) ==
  /\ p \in Handlers /\ At(p, "idle")
  /\ b \in completed
  /\ \A q \in Handlers : proc[q].batch # b
  /\ \/ /\ job.state \in {"DECREMENTED", "COMPLETE", "FAILED"}
        /\ completed' = completed \ {b}
        /\ UNCHANGED proc
     \/ /\ job.state \in {"PENDING", "DECREMENT_REQUESTED"}
        /\ proc' = [proc EXCEPT ![p].pc = "record", ![p].batch = b]
        /\ UNCHANGED completed
  /\ UNCHANGED <<job, active, item, asked, decref, trouble, blame>>

(* batches_done = batches_done + {b} *)
RecordBatch(p) ==
  /\ At(p, "record")
  /\ job' = [job EXCEPT !.done = @ \cup {proc[p].batch}]
  /\ Goto(p, "tally")
  /\ UNCHANGED <<active, item, bus, decref, trouble, blame>>

(* Mutant: the batch is not compared with the state of the job. *)
CompleteWithoutTally(p) ==
  /\ At(p, "tally")
  /\ Advance(p, "DECREMENTED") /\ UNCHANGED completed
  /\ UNCHANGED <<job, active, item, asked, decref, trouble, blame>>

(* Mutant: with the last batch the job is called COMPLETE at once. *)
TallyCompletes(p) ==
  /\ At(p, "tally")
  /\ IF job.count > 0 /\ Cardinality(job.done) >= job.count
     THEN Advance(p, "COMPLETE") /\ UNCHANGED completed
     ELSE Return(p) /\ completed' = Acked(p)
  /\ UNCHANGED <<job, active, item, asked, decref, trouble, blame>>

(* The accounting is read back in a statement of its own. *)
Tally(p) ==
  /\ At(p, "tally")
  /\ IF job.count > 0 /\ Cardinality(job.done) >= job.count
     THEN Advance(p, "DECREMENTED") /\ UNCHANGED completed
     ELSE Return(p) /\ completed' = Acked(p)
  /\ UNCHANGED <<job, active, item, asked, decref, trouble, blame>>

-----------------------------------------------------------------------------
(* Sweeper.recover. *)

(* DueBuckets lists the last MaxAttempts * MaxRetryDelay hours and two, by   *)
(* the hour a job was created in.  That hour passes out of it whatever the   *)
(* job has come to.                                                          *)
WindowPasses ==
  /\ active
  /\ blame' = blame \cup {"overdue"}
  /\ UNCHANGED <<job, active, item, proc, bus, decref, trouble>>

(* The work list, and the attempts of the job before the claim. *)
ListDue(p) ==
  /\ p \in Sweepers /\ At(p, "idle")
  /\ active /\ "overdue" \notin blame
  /\ proc' = [proc EXCEPT ![p].pc = "claim", ![p].seen = job.attempts]
  /\ UNCHANGED <<job, active, item, bus, decref, trouble, blame>>

(* Mutant: the claim does not count as an attempt. *)
ClaimUncounted(p) ==
  /\ At(p, "claim")
  /\ IF job.attempts = proc[p].seen THEN Goto(p, "get") ELSE Return(p)
  /\ UNCHANGED <<job, active, item, bus, decref, trouble, blame>>

(* UPDATE ... IF attempts = seen. *)
ClaimJob(p) ==
  /\ At(p, "claim")
  /\ \/ /\ job.attempts = proc[p].seen
        /\ job' = [job EXCEPT !.attempts = IF @ = MaxAttempts THEN @ ELSE @ + 1]
        /\ proc' = [proc EXCEPT ![p].pc = "get", ![p].seen = 0]
     \/ /\ job.attempts # proc[p].seen
        /\ Return(p)
        /\ UNCHANGED job
  /\ UNCHANGED <<active, item, bus, decref, trouble, blame>>

(* dispatch, on the row as it is after the claim: PublishRequest publishes   *)
(* everything when batch_count is unset and the missing batches otherwise.   *)
Dispatch(p) ==
  /\ At(p, "get")
  /\ \/ job.attempts >= MaxAttempts /\ Advance(p, "FAILED")
     \/ /\ job.attempts < MaxAttempts
        /\ \/ /\ job.state \in {"PENDING", "DECREMENT_REQUESTED"} /\ job.count = 0
              /\ proc' = [proc EXCEPT ![p].pc = "count", ![p].state = job.state]
           \/ /\ job.state \in {"PENDING", "DECREMENT_REQUESTED"} /\ job.count > 0
              /\ PublishAll(p, job.state, Batches \ job.done, FALSE)
           \/ job.state = "DECREMENTED" /\ Goto(p, "core")
           \/ job.state \in {"FAILED", "COMPLETE"} /\ Return(p)
  /\ UNCHANGED <<job, active, item, bus, decref, trouble, blame>>

-----------------------------------------------------------------------------
(* The decrement service, and the broker in front of it. *)

SettleBatch(b) ==
  /\ b \in asked /\ b \notin settled
  /\ Decref!Settle(b)
  /\ UNCHANGED <<job, active, item, proc, bus, trouble, blame>>

(* The completion of a re-driven batch has the MsgId of the first one and    *)
(* may be swallowed by the dedup window.                                     *)
ReportBatch(b) ==
  /\ b \in asked
  /\ Decref!Report(b)
  /\ asked' = asked \ {b}
  /\ \/ completed' = completed \cup {b}
     \/ b \in reported /\ UNCHANGED completed
  /\ UNCHANGED <<job, active, item, proc, trouble, blame>>

(* The worker's deliveries are used up: the request is dead-lettered. *)
LoseRequest(b) ==
  /\ trouble
  /\ b \in asked
  /\ asked' = asked \ {b}
  /\ UNCHANGED <<job, active, item, proc, completed, decref, trouble, blame>>

(* A call fails, or the process dies.  A delivery comes back unless it was   *)
(* the last one.                                                             *)
Fail(p) ==
  /\ trouble
  /\ ~At(p, "idle")
  /\ Return(p)
  /\ completed' \in {completed, Acked(p)}
  /\ blame' = blame
       \cup (IF At(p, "enlist") \/ (At(p, "mirror") /\ proc[p].to # "COMPLETE" /\ ~active)
             THEN {"unlisted"} ELSE {})
       \cup (IF At(p, "index") /\ proc[p].place # NoPlace THEN {"ghost"} ELSE {})
  /\ UNCHANGED <<job, active, item, asked, decref, trouble>>

FaultsCease ==
  /\ Faults = "cease"
  /\ trouble
  /\ trouble' = FALSE
  /\ UNCHANGED <<job, active, item, proc, bus, decref, blame>>

-----------------------------------------------------------------------------

(* What a process does once it has begun. *)
ProcStep(p) ==
  \/ Create(p) \/ Enlist(p) \/ SetBatchCount(p) \/ (\E b \in Batches : Publish(p, b))
  \/ AdvanceState(p) \/ MirrorState(p) \/ RemoveCore(p) \/ RemoveIndex(p)
  \/ RecordBatch(p) \/ Tally(p) \/ ClaimJob(p) \/ Dispatch(p)

Wake(p) == ListDue(p) \/ \E b \in Batches : Receive(p, b)

Service(b) == SettleBatch(b) \/ ReportBatch(b)

Next ==
  \/ \E u \in Users : UserStep(u)
  \/ \E p \in Procs : RequestStart(p) \/ Wake(p) \/ ProcStep(p) \/ Fail(p)
  \/ \E b \in Batches : Service(b) \/ LoseRequest(b)
  \/ WindowPasses \/ FaultsCease

Spec == Init /\ [][Next]_vars

(* Requests run on, the sweepers' ticker and the consumer keep going, and    *)
(* the decrement service gets round to what it is asked.                     *)
Fairness ==
  /\ \A p \in Procs : WF_vars(ProcStep(p)) /\ WF_vars(Wake(p))
  /\ \A b \in Batches : WF_vars(Service(b))
  /\ WF_vars(FaultsCease)

FairSpec == Spec /\ Fairness

-----------------------------------------------------------------------------
(* Properties. *)

(* The file's metadata is removed only after the references of every one of  *)
(* its blocks were given back, whatever is published again, delivered twice, *)
(* claimed by two sweepers or written from a stale snapshot.                 *)
RemovalIsEarned == ~Readable => settled = Batches

(* A job that says COMPLETE or is about to say so has removed its file: there*)
(* is no row of it, or only what the upsert of a delete, restore, rename or  *)
(* move that had read the file before made of the deleted one.               *)
CompleteIsRemoved ==
  job.state = "COMPLETE" \/ (\E p \in Procs : proc[p].to = "COMPLETE") =>
    \/ file.status = "removed"
    \/ file.status = "remnant" /\ "crossed" \in blame

(* An unfinished job is on the sweepers' work list, or somebody is about to  *)
(* put it there, unless one of two things happened: a crash between the job  *)
(* row and the work list, or two UpdateStates that crossed, the COMPLETE one *)
(* being first on the job row and last on the work list.                     *)
UnfinishedIsListed ==
  job.state \notin {"none", "COMPLETE"} =>
    \/ active
    \/ \E p \in Procs : At(p, "enlist") \/ (At(p, "mirror") /\ proc[p].to # "COMPLETE")
    \/ "unlisted" \in blame

(* A completed purge leaves no index row behind, unless somebody is about to *)
(* delete it, or: a crash forgot the name, a user's call that had read the   *)
(* file inserted it afterwards, or the index did not agree with the file's   *)
(* row when that was removed (a rename or move under way, failed, or crossed *)
(* by another).                                                              *)
CompleteIsUnindexed ==
  job.state = "COMPLETE" =>
    \/ index = {}
    \/ \E p \in Procs : At(p, "index") /\ index = {proc[p].place}
    \/ {"ghost", "crossed", "misfiled"} \cap blame # {}

(* A listed job does not hang: faults that cease, lost requests, swallowed   *)
(* completions and overwritten states notwithstanding, it completes or is    *)
(* given up, unless its hour passes out of the sweepers' window first.       *)
ListedIsFinished ==
  active ~> job.state \in {"COMPLETE", "FAILED"} \/ {"unlisted", "overdue"} \cap blame # {}

(* coordinator.go:491-492: "the trash is the staging area, and only what is  *)
(* in it may be destroyed."                                                  *)
OnlyTrashIsDestroyed ==
  [][Readable /\ ~Readable' => file.status = "trashed"]_vars

=============================================================================
