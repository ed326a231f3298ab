----------------------------- MODULE BlockStore -----------------------------
(***************************************************************************)
(* The reference-counted, content-addressed block store of the upload      *)
(* service: the blocks table, the storage backend behind it, the           *)
(* block_gc_candidates table, and everybody who touches them:              *)
(*                                                                         *)
(*   - requests and deliveries (Clients), one database or storage call per *)
(*     step: a chunk upload (ReceiveChunk), an edit block (WriteEditBlock),*)
(*     the references of a committed edit (CommitEdit), and the delivery   *)
(*     of one decrement operation (applyOp);                               *)
(*   - the GC workers (Reapers) of the running service instances.          *)
(*                                                                         *)
(* Every LWT (IF ...) of the code is one atomic step; between two calls    *)
(* anything else may run.  A crash loses the process, never the tables.    *)
(***************************************************************************)
EXTENDS Naturals, FiniteSets

CONSTANTS
  Blocks,       \* block hashes
  Clients,      \* requests and message deliveries that run concurrently
  Reapers,      \* block GC workers, one per service instance
  Ops,          \* the operations clients may run
  MaxRefs,      \* bound: no new owner of a block beyond this many
  CASAttempts,  \* IncrementRefCount's attempts (8 in the code)
  Faults,       \* crashes and failing calls: "none", "always" possible, or
                \* possible until they "cease"
  Token,        \* the order in which a scan of a table meets the blocks
  SweepLimit,   \* most candidates one sweep takes (100 in the code)
  PatientGrace, \* does a grace period (1h, 24h) outlast every request that
                \* was running when it began?
  NoBlock       \* a model value

ASSUME NoBlockAssumption == NoBlock \notin Blocks
ASSUME ClientsAssumption == IsFiniteSet(Clients)
ASSUME BoundsAssumption == CASAttempts \in Nat \ {0} /\ MaxRefs \in Nat
ASSUME FaultsAssumption ==
  Faults \in {"none", "always", "cease"} /\ PatientGrace \in BOOLEAN
ASSUME SweepAssumption == Token \in [Blocks -> Nat] /\ SweepLimit \in Nat \ {0}
ASSUME OpsAssumption == Ops \subseteq {"chunk", "stage", "commit", "drop"}

VARIABLES
  state,      \* blocks.state: null is "active", no row is "absent"
  ref,        \* blocks.ref_count, 0 when there is no row
  object,     \* are the block's bytes in the storage backend?
  candidate,  \* block_gc_candidates: no row, in its grace period, or past it
  client,     \* the step each client is at
  reaper,     \* the step each GC worker is at, and the rest of its batch
  trouble,    \* may something still fail?
  owners,     \* history: chunk maps and versions that name the block and will
              \* each request one decrement when they are purged
  blame       \* history: which of Blames have happened to each block

tables == <<state, ref, object, candidate>>
vars == <<tables, client, reaper, trouble, owners, blame>>

-----------------------------------------------------------------------------
(* Types. *)

AllOps == {"chunk", "stage", "commit", "drop"}

ClientSteps == {"idle", "get", "probe", "repair", "put", "insert", "record",
                "reread", "clear", "read", "cas", "mark", "settle"}

Client == [op : AllOps \cup {"none"}, pc : ClientSteps,
           blk : Blocks \cup {NoBlock}, seen : Nat, tries : Nat,
           elder : SUBSET Blocks]  \* candidates marked since it started

Idle == [op |-> "none", pc |-> "idle", blk |-> NoBlock, seen |-> 0, tries |-> 0,
         elder |-> {}]

ReaperSteps == {"idle", "sweep", "fence", "erase", "strike", "unlist"}

Reaper == [pc : ReaperSteps, cur : Blocks \cup {NoBlock}, todo : SUBSET Blocks]

Resting == [pc |-> "idle", cur |-> NoBlock, todo |-> {}]

(* What can go wrong with the bookkeeping of a block, see Accuse:            *)
(*   miscounted  ref_count stopped agreeing with the owners                  *)
(*   leaked      unreferenced, and nothing tells the GC about it             *)
(*   crossed     erased under a writer that was about to insert the row      *)
(*   expired     unreferenced, and its candidate row reached its lifetime    *)
Blames == {"miscounted", "leaked", "crossed", "expired"}

TypeOK ==
  /\ state \in [Blocks -> {"absent", "active", "deleting"}]
  /\ ref \in [Blocks -> Nat]
  /\ object \in [Blocks -> BOOLEAN]
  /\ candidate \in [Blocks -> {"none", "young", "eligible"}]
  /\ client \in [Clients -> Client]
  /\ reaper \in [Reapers -> Reaper]
  /\ trouble \in BOOLEAN
  /\ owners \in [Blocks -> Nat]
  /\ blame \in [Blocks -> SUBSET Blames]

Init ==
  /\ state = [b \in Blocks |-> "absent"]
  /\ ref = [b \in Blocks |-> 0]
  /\ object = [b \in Blocks |-> FALSE]
  /\ candidate = [b \in Blocks |-> "none"]
  /\ client = [c \in Clients |-> Idle]
  /\ reaper = [r \in Reapers |-> Resting]
  /\ trouble = (Faults # "none")
  /\ owners = [b \in Blocks |-> 0]
  /\ blame = [b \in Blocks |-> {}]

-----------------------------------------------------------------------------
(* Client control. *)

Running(c, op, step) == client[c].op = op /\ client[c].pc = step

Goto(c, step) == client' = [client EXCEPT ![c].pc = step]

Return(c) == client' = [client EXCEPT ![c] = Idle]

Start(c, op, b, step) ==
  /\ op \in Ops
  /\ client[c].pc = "idle"
  /\ client' = [client EXCEPT ![c] =
                  [Idle EXCEPT !.op = op, !.pc = step, !.blk = b]]
  /\ UNCHANGED <<tables, reaper, trouble, blame>>

Accuse(b, what) == blame' = [blame EXCEPT ![b] = @ \cup what]

StartChunk(c, b) ==
  /\ ref[b] < MaxRefs /\ owners[b] < MaxRefs
  /\ Start(c, "chunk", b, "get")
  /\ UNCHANGED owners

StartStage(c, b) ==
  /\ Start(c, "stage", b, "get")
  /\ UNCHANGED owners

(* The metadata service read the block back and won the version row: from   *)
(* here on a version names the block, and nothing counts that yet.          *)
StartCommit(c, b) ==
  /\ object[b]
  /\ ref[b] < MaxRefs /\ owners[b] < MaxRefs
  /\ Start(c, "commit", b, "clear")
  /\ owners' = [owners EXCEPT ![b] = @ + 1]

(* An owner was purged and its decrement operation is delivered and claimed. *)
StartDrop(c, b) ==
  /\ owners[b] > 0
  /\ Start(c, "drop", b, "read")
  /\ owners' = [owners EXCEPT ![b] = @ - 1]

-----------------------------------------------------------------------------
(* ReceiveChunk and WriteEditBlock, up to the row. *)

(* Mutant: a missing row goes straight to the insert, without the bytes. *)
GetBlockForgetsBytes(c) ==
  /\ client[c].pc = "get"
  /\ Goto(c, IF state[client[c].blk] = "absent" THEN "insert" ELSE "probe")
  /\ UNCHANGED <<tables, reaper, trouble, owners, blame>>

GetBlock(c) ==
  /\ client[c].pc = "get"
  /\ Goto(c, IF state[client[c].blk] = "absent" THEN "put" ELSE "probe")
  /\ UNCHANGED <<tables, reaper, trouble, owners, blame>>

(* An edit block whose bytes are there is done ("reused"); a chunk goes on   *)
(* to count itself.                                                          *)
BlockExists(c) ==
  /\ client[c].pc = "probe"
  /\ \/ ~object[client[c].blk] /\ Goto(c, "repair")
     \/ object[client[c].blk] /\ client[c].op = "chunk" /\ Goto(c, "read")
     \/ object[client[c].blk] /\ client[c].op = "stage" /\ Return(c)
  /\ UNCHANGED <<tables, reaper, trouble, owners, blame>>

RepairBlock(c) ==
  /\ client[c].pc = "repair"
  /\ object' = [object EXCEPT ![client[c].blk] = TRUE]
  /\ \/ client[c].op = "chunk" /\ Goto(c, "read")
     \/ client[c].op = "stage" /\ Return(c)
  /\ UNCHANGED <<state, ref, candidate, reaper, trouble, owners, blame>>

WriteBlock(c) ==
  /\ client[c].pc = "put"
  /\ object' = [object EXCEPT ![client[c].blk] = TRUE]
  /\ Goto(c, "insert")
  /\ UNCHANGED <<state, ref, candidate, reaper, trouble, owners, blame>>

(* INSERT ... IF NOT EXISTS with n references. *)
InsertRow(b, n) ==
  /\ state' = [state EXCEPT ![b] = IF @ = "absent" THEN "active" ELSE @]
  /\ ref' = [ref EXCEPT ![b] = IF state[b] = "absent" THEN n ELSE @]
  /\ UNCHANGED <<object, candidate>>

(* InsertBlock does not look at [applied]: when the row is there already the *)
(* caller believes it holds the reference the statement did not write.       *)
InsertBlock(c) ==
  LET b == client[c].blk IN
  /\ Running(c, "chunk", "insert")
  /\ InsertRow(b, 1)
  /\ IF state[b] = "absent" THEN UNCHANGED blame ELSE Accuse(b, {"miscounted"})
  /\ Goto(c, "record")
  /\ UNCHANGED <<reaper, trouble, owners>>

InsertStagedBlock(c) ==
  /\ Running(c, "stage", "insert")
  /\ InsertRow(client[c].blk, 0)
  /\ Goto(c, "reread")
  /\ UNCHANGED <<reaper, trouble, owners, blame>>

(* Only a row still at zero references becomes a GC candidate. *)
RereadStaged(c) ==
  LET b == client[c].blk IN
  /\ Running(c, "stage", "reread")
  /\ IF state[b] # "absent" /\ ref[b] = 0 THEN Goto(c, "mark") ELSE Return(c)
  /\ UNCHANGED <<tables, reaper, trouble, owners, blame>>

(* The chunk map now names the block (RecordBlockForChunk). *)
RecordChunk(c) ==
  /\ Running(c, "chunk", "record")
  /\ owners' = [owners EXCEPT ![client[c].blk] = @ + 1]
  /\ Return(c)
  /\ UNCHANGED <<tables, reaper, trouble, blame>>

-----------------------------------------------------------------------------
(* IncrementRefCount, for a chunk and for a committed edit. *)

Incrementing(c) == client[c].op \in {"chunk", "commit"}

(* A chunk upload fails and is retried by its client; a committed version    *)
(* stays committed without the reference (the error is only logged).         *)
IncrementFails(c) ==
  /\ Return(c)
  /\ IF client[c].op = "commit" THEN Accuse(client[c].blk, {"miscounted", "leaked"})
                                ELSE UNCHANGED blame

IncrementRead(c) ==
  LET b == client[c].blk IN
  /\ Incrementing(c) /\ client[c].pc = "read"
  /\ \/ /\ state[b] = "absent"
        /\ IncrementFails(c)
     \/ /\ state[b] # "absent"
        /\ client' = [client EXCEPT ![c].pc = "cas", ![c].seen = ref[b]]
        /\ UNCHANGED blame
  /\ UNCHANGED <<tables, reaper, trouble, owners>>

(* Mutant: the increment without "AND state = null". *)
IncrementAppliedToFenced(c) ==
  LET b == client[c].blk IN
  /\ Incrementing(c) /\ client[c].pc = "cas"
  /\ state[b] # "absent" /\ ref[b] = client[c].seen
  /\ ref' = [ref EXCEPT ![b] = client[c].seen + 1]
  /\ IF client[c].op = "chunk" THEN Goto(c, "record") ELSE Return(c)
  /\ UNCHANGED <<state, object, candidate, reaper, trouble, owners, blame>>

(* Mutant: the increment without "IF ref_count = seen". *)
IncrementAppliedBlindly(c) ==
  LET b == client[c].blk IN
  /\ Incrementing(c) /\ client[c].pc = "cas"
  /\ state[b] = "active"
  /\ ref' = [ref EXCEPT ![b] = client[c].seen + 1]
  /\ IF client[c].op = "chunk" THEN Goto(c, "record") ELSE Return(c)
  /\ UNCHANGED <<state, object, candidate, reaper, trouble, owners, blame>>

(* UPDATE ... IF ref_count = seen AND state = null, applied. *)
IncrementApplied(c) ==
  LET b == client[c].blk IN
  /\ Incrementing(c) /\ client[c].pc = "cas"
  /\ state[b] = "active" /\ ref[b] = client[c].seen
  /\ ref' = [ref EXCEPT ![b] = client[c].seen + 1]
  /\ \/ client[c].op = "chunk" /\ Goto(c, "record")
     \/ client[c].op = "commit" /\ Return(c)
  /\ UNCHANGED <<state, object, candidate, reaper, trouble, owners, blame>>

(* ErrBlockDeleting, or another attempt, or one attempt too many. *)
IncrementRefused(c) ==
  LET b == client[c].blk IN
  /\ Incrementing(c) /\ client[c].pc = "cas"
  /\ ~(state[b] = "active" /\ ref[b] = client[c].seen)
  /\ \/ /\ state[b] = "deleting" \/ client[c].tries + 1 = CASAttempts
        /\ IncrementFails(c)
     \/ /\ state[b] # "deleting" /\ client[c].tries + 1 < CASAttempts
        /\ client' = [client EXCEPT ![c].pc = "read", ![c].tries = @ + 1]
        /\ UNCHANGED blame
  /\ UNCHANGED <<tables, reaper, trouble, owners>>

(* applyEditReferences takes the block off the candidate list first, and     *)
(* goes on to count it even when that failed.                                *)
ClearCandidate(c) ==
  /\ Running(c, "commit", "clear")
  /\ \/ candidate' = [candidate EXCEPT ![client[c].blk] = "none"]
     \/ trouble /\ UNCHANGED candidate
  /\ Goto(c, "read")
  /\ UNCHANGED <<state, ref, object, reaper, trouble, owners, blame>>

-----------------------------------------------------------------------------
(* One decrement operation: DecrementRefCount, MarkGCCandidate when the      *)
(* count is zero, and the terminal ledger row.                               *)

(* Mutant: without the early return for a count that is zero already. *)
DecrementReadBelowZero(c) ==
  LET b == client[c].blk IN
  /\ Running(c, "drop", "read")
  /\ IF state[b] = "absent" THEN Goto(c, "settle")
     ELSE client' = [client EXCEPT ![c].pc = "cas", ![c].seen = ref[b]]
  /\ UNCHANGED <<tables, reaper, trouble, owners, blame>>

DecrementRead(c) ==
  LET b == client[c].blk IN
  /\ Running(c, "drop", "read")
  /\ \/ state[b] = "absent" /\ Goto(c, "settle")
     \/ state[b] # "absent" /\ ref[b] = 0 /\ Goto(c, "mark")
     \/ /\ state[b] # "absent" /\ ref[b] > 0
        /\ client' = [client EXCEPT ![c].pc = "cas", ![c].seen = ref[b]]
  /\ UNCHANGED <<tables, reaper, trouble, owners, blame>>

(* Mutant: the decrement without "IF ref_count = seen". *)
DecrementBlindly(c) ==
  LET b == client[c].blk IN
  /\ Running(c, "drop", "cas")
  /\ state[b] # "absent"
  /\ ref' = [ref EXCEPT ![b] = client[c].seen - 1]
  /\ Goto(c, IF client[c].seen = 1 THEN "mark" ELSE "settle")
  /\ UNCHANGED <<state, object, candidate, reaper, trouble, owners, blame>>

(* Mutant: a block whose count reaches zero is not told to the GC. *)
DecrementForgetsGC(c) ==
  LET b == client[c].blk IN
  /\ Running(c, "drop", "cas")
  /\ state[b] # "absent" /\ ref[b] = client[c].seen
  /\ ref' = [ref EXCEPT ![b] = client[c].seen - 1]
  /\ Goto(c, "settle")
  /\ UNCHANGED <<state, object, candidate, reaper, trouble, owners, blame>>

(* UPDATE ... IF ref_count = seen: no condition on the state.  A refused     *)
(* attempt reads again; when the attempts run out the message does.          *)
DecrementCAS(c) ==
  LET b == client[c].blk IN
  /\ Running(c, "drop", "cas")
  /\ \/ /\ state[b] # "absent" /\ ref[b] = client[c].seen
        /\ ref' = [ref EXCEPT ![b] = client[c].seen - 1]
        /\ Goto(c, IF client[c].seen = 1 THEN "mark" ELSE "settle")
     \/ /\ ~(state[b] # "absent" /\ ref[b] = client[c].seen)
        /\ Goto(c, "read")
        /\ UNCHANGED ref
  /\ UNCHANGED <<state, object, candidate, reaper, trouble, owners, blame>>

(* With a patient grace period, whoever is running now is older than it. *)
Age(d, b) ==
  IF PatientGrace /\ client[d].pc # "idle"
  THEN [client[d] EXCEPT !.elder = @ \cup {b}]
  ELSE client[d]

(* An upsert: the grace period starts again. *)
MarkGCCandidate(c) ==
  LET b == client[c].blk
      done == IF client[c].op = "drop" THEN [Age(c, b) EXCEPT !.pc = "settle"] ELSE Idle
  IN
  /\ client[c].pc = "mark"
  /\ candidate' = [candidate EXCEPT ![b] = "young"]
  /\ client' = [d \in Clients |-> IF d = c THEN done ELSE Age(d, b)]
  /\ UNCHANGED <<state, ref, object, reaper, trouble, owners, blame>>

UpdateBlockDecrement(c) ==
  /\ Running(c, "drop", "settle")
  /\ Return(c)
  /\ UNCHANGED <<tables, reaper, trouble, owners, blame>>

(* The grace period of a candidate ends. *)
Mature(b) ==
  /\ candidate[b] = "young"
  /\ \A c \in Clients : b \notin client[c].elder
  /\ candidate' = [candidate EXCEPT ![b] = "eligible"]
  /\ UNCHANGED <<state, ref, object, client, reaper, trouble, owners, blame>>

(* A candidate row that no sweep has removed ages out (the table's           *)
(* default_time_to_live, 30 days), whatever has become of its block.         *)
Expire(b) ==
  /\ candidate[b] = "eligible"
  /\ candidate' = [candidate EXCEPT ![b] = "none"]
  /\ IF state[b] = "active" /\ ref[b] = 0 THEN Accuse(b, {"expired"}) ELSE UNCHANGED blame
  /\ UNCHANGED <<state, ref, object, client, reaper, trouble, owners>>

(* A client's process dies, or a call of its fails.  An upload or a save is  *)
(* gone (its retry is a new one).  A committed version whose references were *)
(* not all applied keeps none of them: the retry is told "duplicate".  A     *)
(* decrement is redelivered and, once its claim is stale, runs again.        *)
ClientCrash(c) ==
  LET op == client[c].op
      b == client[c].blk
  IN
  /\ trouble
  /\ client[c].pc # "idle"
  /\ \/ /\ op \in {"chunk", "stage"}
        /\ Return(c)
        /\ IF op = "stage" /\ client[c].pc \in {"reread", "mark"}
           THEN Accuse(b, {"leaked"}) ELSE UNCHANGED blame
     \/ /\ op = "commit"
        /\ IncrementFails(c)
     \/ /\ op = "drop"
        /\ client' = [client EXCEPT ![c].pc = "read", ![c].seen = 0]
        /\ IF client[c].pc \in {"mark", "settle"} THEN Accuse(b, {"miscounted"})
                                                  ELSE UNCHANGED blame
  /\ UNCHANGED <<tables, reaper, trouble, owners>>

-----------------------------------------------------------------------------
(* BlockGCWorker: a sweep takes a batch of eligible candidates and handles   *)
(* them one by one.                                                          *)

Eligible == {b \in Blocks : candidate[b] = "eligible"}

(* The candidates a scan meets before it comes to b. *)
Ahead(b) == {a \in Eligible : Token[a] < Token[b]}

(* ListEligibleGCCandidates: the scan stops when it has its fill. *)
Batch == {b \in Eligible : Cardinality(Ahead(b)) < SweepLimit}

NextCandidate(r) ==
  reaper' = [reaper EXCEPT ![r].pc = IF reaper[r].todo = {} THEN "idle" ELSE "sweep",
                           ![r].cur = NoBlock]

Sweep(r) ==
  /\ reaper[r].pc = "idle"
  /\ Eligible # {}
  /\ reaper' = [reaper EXCEPT ![r] = [pc |-> "sweep", cur |-> NoBlock, todo |-> Batch]]
  /\ UNCHANGED <<tables, client, trouble, owners, blame>>

ReapGet(r, b) ==
  /\ reaper[r].pc = "sweep"
  /\ b \in reaper[r].todo
  /\ reaper' = [reaper EXCEPT ![r] =
       [pc |-> IF state[b] = "absent" \/ ref[b] > 0 THEN "unlist" ELSE "fence",
        cur |-> b, todo |-> reaper[r].todo \ {b}]]
  /\ UNCHANGED <<tables, client, trouble, owners, blame>>

(* Mutants of the fence's condition: trusting the count read earlier, fencing *)
(* a fenced row again, and asking for a state that is never written.         *)
FenceableUncounted(b) == state[b] = "active"
FenceableTwice(b) == state[b] # "absent" /\ ref[b] = 0
FenceableIfMarkedActive(b) == state[b] = "ACTIVE" /\ ref[b] = 0

(* FenceForDelete: UPDATE ... IF ref_count = 0 AND state = null. *)
Fenceable(b) == state[b] = "active" /\ ref[b] = 0

(* Mutant: the pre-check is trusted and the row is not fenced. *)
ReapUnfenced(r) ==
  /\ reaper[r].pc = "fence"
  /\ reaper' = [reaper EXCEPT ![r].pc = "erase"]
  /\ UNCHANGED <<tables, client, trouble, owners, blame>>

ReapFence(r) ==
  LET b == reaper[r].cur IN
  /\ reaper[r].pc = "fence"
  /\ \/ /\ Fenceable(b)
        /\ state' = [state EXCEPT ![b] = "deleting"]
        /\ reaper' = [reaper EXCEPT ![r].pc = "erase"]
     \/ /\ ~Fenceable(b)
        /\ NextCandidate(r)
        /\ UNCHANGED state
  /\ UNCHANGED <<ref, object, candidate, client, trouble, owners, blame>>

(* Some writer saw no row, has put its bytes and is about to insert. *)
Crossing(b) == \E c \in Clients : client[c].blk = b /\ client[c].pc = "insert"

ReapErase(r) ==
  LET b == reaper[r].cur IN
  /\ reaper[r].pc = "erase"
  /\ object' = [object EXCEPT ![b] = FALSE]
  /\ reaper' = [reaper EXCEPT ![r].pc = "strike"]
  /\ IF Crossing(b) THEN Accuse(b, {"crossed"}) ELSE UNCHANGED blame
  /\ UNCHANGED <<state, ref, candidate, client, trouble, owners>>

(* DeleteBlockRecord: an unconditional DELETE. *)
ReapStrike(r) ==
  LET b == reaper[r].cur IN
  /\ reaper[r].pc = "strike"
  /\ state' = [state EXCEPT ![b] = "absent"]
  /\ ref' = [ref EXCEPT ![b] = 0]
  /\ reaper' = [reaper EXCEPT ![r].pc = "unlist"]
  /\ UNCHANGED <<object, candidate, client, trouble, owners, blame>>

(* RemoveGCCandidate, decided on the row that was read before: an            *)
(* unconditional DELETE that may also remove a candidate marked since.       *)
ReapUnlist(r) ==
  LET b == reaper[r].cur IN
  /\ reaper[r].pc = "unlist"
  /\ candidate' = [candidate EXCEPT ![b] = "none"]
  /\ NextCandidate(r)
  /\ IF state[b] = "active" /\ ref[b] = 0 THEN Accuse(b, {"leaked"}) ELSE UNCHANGED blame
  /\ UNCHANGED <<state, ref, object, client, trouble, owners>>

(* A call fails: the candidate is left as it is and the batch goes on. *)
ReapFail(r) ==
  /\ trouble
  /\ reaper[r].pc \notin {"idle", "sweep"}
  /\ NextCandidate(r)
  /\ UNCHANGED <<tables, client, trouble, owners, blame>>

ReapCrash(r) ==
  /\ trouble
  /\ reaper[r].pc # "idle"
  /\ reaper' = [reaper EXCEPT ![r] = Resting]
  /\ UNCHANGED <<tables, client, trouble, owners, blame>>

FaultsCease ==
  /\ Faults = "cease"
  /\ trouble
  /\ trouble' = FALSE
  /\ UNCHANGED <<tables, client, reaper, owners, blame>>

-----------------------------------------------------------------------------

ClientStep(c) ==
  \/ GetBlock(c) \/ BlockExists(c) \/ RepairBlock(c) \/ WriteBlock(c)
  \/ InsertBlock(c) \/ InsertStagedBlock(c) \/ RereadStaged(c) \/ RecordChunk(c)
  \/ ClearCandidate(c)
  \/ IncrementRead(c) \/ IncrementApplied(c) \/ IncrementRefused(c)
  \/ DecrementRead(c) \/ DecrementCAS(c)
  \/ MarkGCCandidate(c) \/ UpdateBlockDecrement(c)

ClientStart(c, b) ==
  \/ StartChunk(c, b) \/ StartStage(c, b) \/ StartCommit(c, b) \/ StartDrop(c, b)

ReaperStep(r) ==
  \/ Sweep(r)
  \/ \E b \in Blocks : ReapGet(r, b)
  \/ ReapFence(r) \/ ReapErase(r) \/ ReapStrike(r) \/ ReapUnlist(r)

Next ==
  \/ \E c \in Clients, b \in Blocks : ClientStart(c, b)
  \/ \E c \in Clients : ClientStep(c) \/ ClientCrash(c)
  \/ \E b \in Blocks : Mature(b) \/ Expire(b)
  \/ \E r \in Reapers : ReaperStep(r) \/ ReapFail(r) \/ ReapCrash(r)
  \/ FaultsCease

Spec == Init /\ [][Next]_vars

(* Requests and deliveries that have begun run on, the clock moves, and the  *)
(* GC worker of every instance keeps ticking.                                *)
Fairness ==
  /\ \A c \in Clients : WF_vars(ClientStep(c))
  /\ \A b \in Blocks : WF_vars(Mature(b))
  /\ \A r \in Reapers : WF_vars(ReaperStep(r))
  /\ WF_vars(FaultsCease)

FairSpec == Spec /\ Fairness

-----------------------------------------------------------------------------
(* Properties. *)

(* A fenced block is never counted: IncrementRefCount's "state = null" and   *)
(* FenceForDelete's "ref_count = 0" together close the window between the    *)
(* GC worker's read and its delete, whoever runs in between.                 *)
FencedIsUnreferenced ==
  \A b \in Blocks : state[b] = "deleting" => ref[b] = 0

Reaping(r, b) == reaper[r].cur = b /\ reaper[r].pc \in {"erase", "strike"}

(* At most one GC worker is past the fence of a block, and the row it will   *)
(* delete unconditionally is still the row it fenced.                        *)
ReaperOwnsFence ==
  \A r \in Reapers, b \in Blocks :
    Reaping(r, b) =>
      /\ state[b] = "deleting"
      /\ \A q \in Reapers \ {r} : ~Reaping(q, b)

(* DeleteBlockRecord and DeleteBlock have no condition of their own, and yet *)
(* a row only disappears, and bytes are only erased, when the block is       *)
(* fenced and nothing counts it.                                             *)
ReapedOnlyWhenFenced ==
  [][\A b \in Blocks :
       (state'[b] = "absent" /\ state[b] # "absent") \/ (object[b] /\ ~object'[b])
         => state[b] = "deleting" /\ ref[b] = 0]_vars

CountOf(op, steps, b) ==
  Cardinality({c \in Clients : client[c].op = op /\ client[c].pc \in steps
                                                 /\ client[c].blk = b})

(* References that are counted and do not belong to an owner: increments not *)
(* yet recorded in a chunk map, decrements not yet applied.                  *)
Pending(b) == CountOf("chunk", {"record"}, b) + CountOf("drop", {"read", "cas"}, b)

(* Committed versions whose references are still being applied. *)
Unapplied(b) == CountOf("commit", ClientSteps, b)

(* ref_count covers every owner, whatever the interleaving, unless one of    *)
(* three things happened to the block: InsertBlock was refused by a row that *)
(* appeared meanwhile, a commit failed to apply its references, or a         *)
(* decrement ran again after it had been applied.                            *)
OwnersAreCounted ==
  \A b \in Blocks :
    \/ "miscounted" \in blame[b]
    \/ owners[b] + Pending(b) <= ref[b] + Unapplied(b)

(* A live row has its bytes, unless a writer that saw no row had put them    *)
(* before a reaper erased them and inserted its row afterwards.              *)
LiveRowHasBytes ==
  \A b \in Blocks :
    state[b] = "active" /\ "crossed" \notin blame[b] => object[b]

(* Bytes that a file names are lost only through those four windows, or      *)
(* while a commit is still between its verdict and its references.           *)
LossIsExplained ==
  \A b \in Blocks :
    owners[b] > 0 /\ ~object[b] =>
      blame[b] \cap {"miscounted", "crossed"} # {} \/ Unapplied(b) > 0

(* With nothing in flight, a live row that nobody references is on the GC's  *)
(* candidate list, or it leaked: a staging request died before it marked the *)
(* candidate, a committed version could not count itself after it had        *)
(* cleared the candidate, or a reaper that had seen the row absent or        *)
(* referenced took a newer candidate off the list; or the candidate was      *)
(* left waiting for its whole lifetime.                                      *)
Quiet ==
  /\ \A c \in Clients : client[c].pc = "idle"
  /\ \A r \in Reapers : reaper[r].pc = "idle"

UnreferencedIsListed ==
  Quiet => \A b \in Blocks :
             state[b] = "active" /\ ref[b] = 0 =>
               candidate[b] # "none" \/ blame[b] \cap {"leaked", "expired"} # {}

(* A sweep gets round to every block that stays a candidate, even if workers *)
(* crash for a while: it is fenced, or referenced again, or given a new      *)
(* grace period (or a racing reaper takes it off the list, or its candidate  *)
(* row ages out), unless as many candidates as a sweep takes stand before it *)
(* in the scan, as the fenced rows that no later sweep can finish do.        *)
EligibleIsFenced ==
  \A b \in Blocks :
    (state[b] = "active" /\ ref[b] = 0 /\ candidate[b] = "eligible")
      ~> \/ state[b] # "active" \/ ref[b] > 0
         \/ candidate[b] = "young" \/ blame[b] \cap {"leaked", "expired"} # {}
         \/ Cardinality(Ahead(b)) >= SweepLimit

(* block_gc_worker.go:114-115: "A crash after fencing resumes on the next    *)
(* sweep because the candidate row still exists."  For faults that cease.    *)
FencedIsReaped ==
  \A b \in Blocks : state[b] = "deleting" ~> state[b] # "deleting"

(* commit_edit.go:203: "(the user's bytes are safe)"; with Ops restricted to *)
(* edits, every block an owner names still has its bytes.                    *)
OwnedBytesArePresent ==
  \A b \in Blocks : owners[b] > 0 => object[b]

(* commit_edit.go:143-145: "a candidate for a referenced block is harmless   *)
(* (the GC's fence requires ref_count = 0)": a block that chunk maps name is *)
(* never fenced.                                                             *)
OwnedIsNeverFenced ==
  \A b \in Blocks : owners[b] > 0 => state[b] # "deleting"

(* What the block table promises, free of the processes that keep it. *)
Lifecycle == INSTANCE BlockLifecycle

ImplementsLifecycle == Lifecycle!Spec

=============================================================================
