---------------------------- MODULE DecrefLedger ----------------------------
(***************************************************************************)
(* The block decrement workers of the upload service: they take a batch of *)
(* decrement operations off the BLOCK_REFS_CMD work queue, put every       *)
(* operation through the ledger (block_decrement_operations) so that a     *)
(* redelivery does not decrement again, publish one completion and         *)
(* acknowledge.  One database or broker call per step.                     *)
(*                                                                         *)
(* Of the block store the workers see the rows and their counts, which     *)
(* other uploads, jobs and the GC change under them; DecrementRefCount is  *)
(* one step here, its reads and retries are in BlockStore.                 *)
(***************************************************************************)
EXTENDS Naturals, FiniteSets

CONSTANTS
  Batches, Ops, BatchOf,  \* as in DecrefPromise; Ops are occurrence indices
  Invalid,        \* operations whose block hash is malformed
  Blocks, BlockOf,  \* the block of each other operation
  Workers,        \* message handlers of the running service instances
  MaxBatches,     \* bound: batches that are asked for
  Redrives,       \* bound: re-drives of each batch
  MaxDeliver,     \* deliveries of one message (10 in the code)
  MaxFaults,      \* bound: crashes and failing calls
  MaxRefs,        \* bound: nobody else refers to a block beyond this count
  PromptWorkers,  \* does staleAfter (90s) outlast every running operation?
  NoMsg           \* a model value

(* Try 0 is the first publish, try n the re-drive r<n>. *)
Messages == UNION {[batch : {b}, try : 0..Redrives[b]] : b \in Batches}

ASSUME OpsAssumption ==
  Ops \subseteq Nat /\ IsFiniteSet(Ops) /\ BatchOf \in [Ops -> Batches]
ASSUME BlocksAssumption == Invalid \subseteq Ops /\ BlockOf \in [Ops \ Invalid -> Blocks]
ASSUME BoundsAssumption ==
  /\ Redrives \in [Batches -> Nat]
  /\ MaxBatches \in Nat
  /\ MaxDeliver \in Nat \ {0} /\ MaxFaults \in Nat /\ MaxRefs \in Nat
  /\ PromptWorkers \in BOOLEAN
ASSUME NoMsgAssumption == NoMsg \notin Messages

VARIABLES
  published,   \* every message ever put on the queue
  queue,       \* those neither acknowledged nor terminated
  deliveries,  \* how often each message was delivered
  held,        \* the claim <<operation, updated_at>> a nacked message waits out
  status,      \* block_decrement_operations.status, "none" when no row
  stamp,       \* its updated_at: a new value with every write
  stale,       \* is updated_at older than staleAfter?
  worker,      \* the step each handler is at
  reported,    \* batches whose completion was published
  count,       \* blocks.ref_count, 0 when there is no row
  faults,      \* faults so far
  hits,        \* history: decrements applied for each operation
  lapsed,      \* history: operations whose holder was cut off, or overtaken,
               \* between the decrement and the ledger
  short        \* history: blocks on which others took a reference of Ops

broker == <<published, queue, deliveries, held>>
ledger == <<status, stamp, stale>>
store == <<count, short>>
history == <<hits, lapsed>>
vars == <<broker, ledger, worker, reported, faults, store, history>>

OpsOf(b) == {o \in Ops : BatchOf[o] = b}

OpsOn(b) == {o \in Ops \ Invalid : BlockOf[o] = b}

(* References that operations have still to give back. *)
Owed(b) == {o \in OpsOn(b) : hits[o] = 0}

Terminal == {"applied", "absent", "invalid"}

Steps == {"idle", "claim", "read", "takeover", "reread", "apply", "settle",
          "report", "ack"}

Worker == [msg : Messages \cup {NoMsg}, pc : Steps, todo : SUBSET Ops,
           seen : Nat, out : Terminal \cup {"none"}]

Idle == [msg |-> NoMsg, pc |-> "idle", todo |-> {}, seen |-> 0, out |-> "none"]

TypeOK ==
  /\ published \subseteq Messages /\ queue \subseteq published
  /\ deliveries \in [Messages -> 0..MaxDeliver]
  /\ held \in [Messages -> SUBSET (Ops \X Nat)]
  /\ status \in [Ops -> Terminal \cup {"none", "claimed"}]
  /\ stamp \in [Ops -> Nat] /\ stale \in [Ops -> BOOLEAN]
  /\ worker \in [Workers -> Worker]
  /\ reported \subseteq Batches
  /\ faults \in Nat
  /\ count \in [Blocks -> Nat] /\ short \subseteq Blocks
  /\ hits \in [Ops -> Nat] /\ lapsed \subseteq Ops

Init ==
  /\ published = {} /\ queue = {}
  /\ deliveries = [m \in Messages |-> 0]
  /\ held = [m \in Messages |-> {}]
  /\ status = [o \in Ops |-> "none"]
  /\ stamp = [o \in Ops |-> 0]
  /\ stale = [o \in Ops |-> FALSE]
  /\ worker = [w \in Workers |-> Idle]
  /\ reported = {}
  /\ count = [b \in Blocks |-> Cardinality(OpsOn(b))]
  /\ short = {}
  /\ faults = 0
  /\ hits = [o \in Ops |-> 0]
  /\ lapsed = {}

-----------------------------------------------------------------------------
(* The operation a handler is working on: they go in occurrence order. *)
Current(w, o) == o \in worker[w].todo /\ \A p \in worker[w].todo : o <= p

At(w, step, o) == worker[w].pc = step /\ Current(w, o)

Holds(w, o) == At(w, "apply", o) \/ At(w, "settle", o)

Goto(w, step) == worker' = [worker EXCEPT ![w].pc = step]

Release(w) == worker' = [worker EXCEPT ![w] = Idle]

(* The result of o is known: on to the next operation, or to the report. *)
Advance(w, o) ==
  worker' = [worker EXCEPT ![w].todo = @ \ {o}, ![w].out = "none", ![w].seen = 0,
               ![w].pc = IF worker[w].todo \ {o} = {} THEN "report" ELSE "claim"]

(* A write to the ledger row of o. *)
Touch(o, new) ==
  /\ status' = [status EXCEPT ![o] = new]
  /\ stamp' = [stamp EXCEPT ![o] = @ + 1]
  /\ stale' = [stale EXCEPT ![o] = FALSE]

-----------------------------------------------------------------------------
(* The queue. *)

(* The MsgId of a try is swallowed by the stream's dedup window when it was  *)
(* published before.                                                         *)
Publish(m) ==
  /\ m \notin published
  /\ m.try = 0 \/ [m EXCEPT !.try = 0] \in published
  /\ Cardinality({n.batch : n \in published \cup {m}}) <= MaxBatches
  /\ published' = published \cup {m}
  /\ queue' = queue \cup {m}
  /\ UNCHANGED <<deliveries, held, ledger, worker, reported, faults, store, history>>

(* Mutant: a message is delivered as long as it is on the queue. *)
DeliverableForEver(m) ==
  /\ m \in queue
  /\ PromptWorkers => \A v \in Workers : worker[v].msg # m
  /\ \A h \in held[m] : stamp[h[1]] = h[2] => stale[h[1]]

(* A message is with one handler at a time, unless that handler outlives its *)
(* ack deadline; after RetryAfter it stays away for staleAfter.              *)
Deliverable(m) ==
  /\ m \in queue
  /\ deliveries[m] < MaxDeliver
  /\ PromptWorkers => \A v \in Workers : worker[v].msg # m
  /\ \A h \in held[m] : stamp[h[1]] = h[2] => stale[h[1]]

Receive(w, m) ==
  /\ worker[w].pc = "idle"
  /\ Deliverable(m)
  /\ OpsOf(m.batch) # {}
  /\ deliveries' = [deliveries EXCEPT ![m] = @ + 1]
  /\ held' = [held EXCEPT ![m] = {}]
  /\ worker' = [worker EXCEPT ![w] =
                  [Idle EXCEPT !.msg = m, !.pc = "claim", !.todo = OpsOf(m.batch)]]
  /\ UNCHANGED <<published, queue, ledger, reported, faults, store, history>>

(* "invalid op count": terminated, and a copy put on the dead letter queue. *)
Reject(w, m) ==
  /\ worker[w].pc = "idle"
  /\ Deliverable(m)
  /\ OpsOf(m.batch) = {}
  /\ deliveries' = [deliveries EXCEPT ![m] = @ + 1]
  /\ queue' = queue \ {m}
  /\ UNCHANGED <<published, held, ledger, worker, reported, faults, store, history>>

(* A nack: when the deliveries are used up the message is dead-lettered. *)
Requeue(w, wait) ==
  LET m == worker[w].msg IN
  /\ IF deliveries[m] = MaxDeliver
     THEN queue' = queue \ {m} /\ UNCHANGED held
     ELSE held' = [held EXCEPT ![m] = wait] /\ UNCHANGED queue
  /\ Release(w)
  /\ UNCHANGED <<published, deliveries>>

-----------------------------------------------------------------------------
(* ClaimBlockDecrement. *)

(* Mutant: nobody looks at [applied] of the INSERT. *)
ClaimIgnoresApplied(w, o) ==
  /\ At(w, "claim", o)
  /\ IF status[o] = "none" THEN Touch(o, "claimed") ELSE UNCHANGED ledger
  /\ Goto(w, "apply")
  /\ UNCHANGED <<broker, reported, faults, store, history>>

(* INSERT ... IF NOT EXISTS. *)
Claim(w, o) ==
  /\ At(w, "claim", o)
  /\ \/ status[o] = "none" /\ Touch(o, "claimed") /\ Goto(w, "apply")
     \/ status[o] # "none" /\ Goto(w, "read") /\ UNCHANGED ledger
  /\ UNCHANGED <<broker, reported, faults, store, history>>

(* Mutant: a claim is never too old to wait for. *)
ReadClaimNeverStale(w, o) ==
  /\ At(w, "read", o)
  /\ \/ status[o] \in Terminal /\ Advance(w, o) /\ UNCHANGED broker
     \/ status[o] = "claimed" /\ Requeue(w, {<<o, stamp[o]>>})
  /\ UNCHANGED <<ledger, reported, faults, store, history>>

(* A terminal row is replayed, a stale claim is up for a takeover, a fresh   *)
(* one is somebody else's.                                                   *)
ReadClaim(w, o) ==
  /\ At(w, "read", o)
  /\ \/ status[o] \in Terminal /\ Advance(w, o) /\ UNCHANGED broker
     \/ /\ status[o] = "claimed" /\ stale[o]
        /\ worker' = [worker EXCEPT ![w].pc = "takeover", ![w].seen = stamp[o]]
        /\ UNCHANGED broker
     \/ status[o] = "claimed" /\ ~stale[o] /\ Requeue(w, {<<o, stamp[o]>>})
  /\ UNCHANGED <<ledger, reported, faults, store, history>>

(* Mutant: the takeover without "IF updated_at = seen". *)
TakeOverBlindly(w, o) ==
  /\ At(w, "takeover", o)
  /\ Touch(o, "claimed")
  /\ Goto(w, "apply")
  /\ lapsed' = IF \E v \in Workers : Holds(v, o) THEN lapsed \cup {o} ELSE lapsed
  /\ UNCHANGED <<broker, reported, faults, store, hits>>

(* UPDATE ... IF updated_at = seen.  A holder that is still running has been *)
(* overtaken.                                                                *)
TakeOver(w, o) ==
  /\ At(w, "takeover", o)
  /\ \/ /\ stamp[o] = worker[w].seen
        /\ Touch(o, "claimed")
        /\ Goto(w, "apply")
        /\ lapsed' = IF \E v \in Workers : Holds(v, o) THEN lapsed \cup {o} ELSE lapsed
     \/ /\ stamp[o] # worker[w].seen
        /\ Goto(w, "reread")
        /\ UNCHANGED <<ledger, lapsed>>
  /\ UNCHANGED <<broker, reported, faults, store, hits>>

Reread(w, o) ==
  /\ At(w, "reread", o)
  /\ \/ status[o] \in Terminal /\ Advance(w, o) /\ UNCHANGED broker
     \/ status[o] = "claimed" /\ Requeue(w, {<<o, stamp[o]>>})
  /\ UNCHANGED <<ledger, reported, faults, store, history>>

-----------------------------------------------------------------------------
(* applyOp, holding the claim. *)

Outcome(w, o, result) ==
  /\ At(w, "apply", o)
  /\ worker' = [worker EXCEPT ![w].pc = "settle", ![w].out = result]
  /\ UNCHANGED <<broker, ledger, reported, faults, short, lapsed>>

(* Mutant: an error of DecrementRefCount is taken for a result. *)
ApplyIgnoresError(w, o) ==
  /\ Outcome(w, o, IF o \in Invalid THEN "invalid" ELSE "applied")
  /\ UNCHANGED <<count, hits>>

(* The hash was never one; or DecrementRefCount takes a reference off, with  *)
(* MarkGCCandidate when it was the last; or it answers a count of zero and   *)
(* does nothing; or the row is gone, as the GC may have it once nothing is   *)
(* counted.                                                                  *)
Apply(w, o) ==
  \/ o \in Invalid /\ Outcome(w, o, "invalid") /\ UNCHANGED <<count, hits>>
  \/ /\ o \notin Invalid /\ count[BlockOf[o]] > 0
     /\ Outcome(w, o, "applied")
     /\ count' = [count EXCEPT ![BlockOf[o]] = @ - 1]
     /\ hits' = [hits EXCEPT ![o] = @ + 1]
  \/ /\ o \notin Invalid /\ count[BlockOf[o]] = 0
     /\ Outcome(w, o, "applied") \/ Outcome(w, o, "absent")
     /\ UNCHANGED <<count, hits>>

(* Mutant: a batch is reported when the first operation is done. *)
SettleReportsEarly(w, o) ==
  /\ At(w, "settle", o)
  /\ Touch(o, worker[w].out)
  /\ worker' = [worker EXCEPT ![w].todo = @ \ {o}, ![w].out = "none", ![w].pc = "report"]
  /\ UNCHANGED <<broker, reported, faults, store, history>>

(* UpdateBlockDecrement: an UPDATE without a condition. *)
Settle(w, o) ==
  /\ At(w, "settle", o)
  /\ Touch(o, worker[w].out)
  /\ Advance(w, o)
  /\ UNCHANGED <<broker, reported, faults, store, history>>

(* The completion goes out first, the acknowledgement second. *)
Report(w) ==
  /\ worker[w].pc = "report"
  /\ reported' = reported \cup {worker[w].msg.batch}
  /\ Goto(w, "ack")
  /\ UNCHANGED <<broker, ledger, faults, store, history>>

Ack(w) ==
  /\ worker[w].pc = "ack"
  /\ queue' = queue \ {worker[w].msg}
  /\ Release(w)
  /\ UNCHANGED <<published, deliveries, held, ledger, reported, faults, store, history>>

-----------------------------------------------------------------------------
(* Faults and time. *)

Fault(w) ==
  /\ faults < MaxFaults
  /\ worker[w].pc # "idle"
  /\ faults' = faults + 1
  /\ lapsed' = lapsed \cup {o \in Ops : At(w, "settle", o) /\ worker[w].out = "applied"}
  /\ UNCHANGED <<ledger, reported, store, hits>>

(* A database or broker call returns an error: natsx.Retry. *)
Fail(w) ==
  /\ worker[w].pc # "ack"
  /\ Fault(w)
  /\ Requeue(w, {})

(* The process dies: the broker redelivers when the ack deadline passes. *)
Crash(w) ==
  /\ Fault(w)
  /\ Release(w)
  /\ UNCHANGED broker

GoStale(o) ==
  /\ status[o] = "claimed" /\ ~stale[o]
  /\ PromptWorkers => \A w \in Workers : ~Holds(w, o)
  /\ stale' = [stale EXCEPT ![o] = TRUE]
  /\ UNCHANGED <<broker, status, stamp, worker, reported, faults, store, history>>

-----------------------------------------------------------------------------
(* The block store's other users. *)

(* InsertBlock, IncrementRefCount. *)
Reference(b) ==
  /\ count[b] < MaxRefs
  /\ count' = [count EXCEPT ![b] = @ + 1]
  /\ UNCHANGED <<broker, ledger, worker, reported, faults, short, history>>

(* A decrement of another job: of a reference of its own, or of one that was *)
(* never counted or is given back twice (BlockStore's "miscounted"), which   *)
(* takes off a reference of the operations here when no other is left.       *)
Unreference(b) ==
  /\ count[b] > 0
  /\ count' = [count EXCEPT ![b] = @ - 1]
  /\ short' = IF count[b] > Cardinality(Owed(b)) THEN short ELSE short \cup {b}
  /\ UNCHANGED <<broker, ledger, worker, reported, faults, history>>

-----------------------------------------------------------------------------

WorkerStep(w) ==
  \/ \E m \in Messages : Receive(w, m) \/ Reject(w, m)
  \/ \E o \in Ops : \/ Claim(w, o) \/ ReadClaim(w, o) \/ TakeOver(w, o)
                    \/ Reread(w, o) \/ Apply(w, o) \/ Settle(w, o)
  \/ Report(w) \/ Ack(w)

Next ==
  \/ \E m \in Messages : Publish(m)
  \/ \E w \in Workers : WorkerStep(w) \/ Fail(w) \/ Crash(w)
  \/ \E o \in Ops : GoStale(o)
  \/ \E b \in Blocks : Reference(b) \/ Unreference(b)

Spec == Init /\ [][Next]_vars

(* The consumer keeps pulling, handlers run on, and the clock moves. *)
Fairness ==
  /\ \A w \in Workers : WF_vars(WorkerStep(w))
  /\ \A o \in Ops : WF_vars(GoStale(o))

FairSpec == Spec /\ Fairness

-----------------------------------------------------------------------------
(* Properties. *)

(* ClaimBlockDecrement's ledger keeps two deliveries of one operation from   *)
(* both decrementing, whoever claims, waits or takes over in between: more   *)
(* than one decrement needs a holder that was cut off or overtaken after it  *)
(* had decremented and before it wrote the ledger row.                       *)
SecondHitIsALapse == \A o \in Ops : hits[o] > 1 => o \in lapsed

WellCounted(b) == b \notin short /\ \A o \in OpsOn(b) : hits[o] <= 1

(* DecrementRefCount answers a count of zero, and the worker a missing row,  *)
(* as if all were well, and the operation is settled.  Nothing is settled    *)
(* without its decrement all the same, except on a block whose count was too *)
(* low already: by somebody else's doing, or because another operation of    *)
(* the job decremented twice.  A malformed operation never decrements.       *)
LedgerIsTruthful ==
  \A o \in Ops :
    /\ o \in Invalid => hits[o] = 0 /\ status[o] \notin {"applied", "absent"}
    /\ o \notin Invalid /\ status[o] \in Terminal =>
         hits[o] > 0 \/ ~WellCounted(BlockOf[o])

(* At most one handler holds the claim of an operation that has not lapsed,  *)
(* and the claim it will overwrite unconditionally is still its own.         *)
ClaimIsExclusive ==
  \A o \in Ops \ lapsed : \A w, v \in Workers :
    Holds(w, o) => status[o] = "claimed" /\ (Holds(v, o) => v = w)

(* A batch with operations that was asked for is reported, through crashes,  *)
(* failing calls, stale claims and competing deliveries, as long as there    *)
(* are enough deliveries for the faults.                                     *)
RequestedIsReported ==
  \A b \in Batches :
    (OpsOf(b) # {} /\ \E m \in published : m.batch = b) ~> b \in reported

Promise == INSTANCE DecrefPromise WITH
  requested <- {m.batch : m \in published},
  settled <- {o \in Ops : status[o] \in Terminal}

(* A completion is published only for a batch whose every operation has a    *)
(* terminal ledger row, and no row ever leaves its terminal status.          *)
KeepsPromise == Promise!Spec

=============================================================================
