------------------------- MODULE DecrefLedgerProofs -------------------------
(***************************************************************************)
(* The decrement ledger, for every set of operations, batches, workers and *)
(* re-drives, any number of faults and deliveries, and workers that may or *)
(* may not be overtaken: it keeps DecrefPromise, its rows are truthful,    *)
(* its claims are exclusive, and a second decrement of one operation needs *)
(* a lapse.                                                                *)
(***************************************************************************)
EXTENDS DecrefLedger, FiniteSetTheorems, TLAPS

-----------------------------------------------------------------------------
(* The inductive invariant. *)

Settled == {o \in Ops : status[o] \in Terminal}

GivenBack(o) == hits[o] > 0 \/ ~WellCounted(BlockOf[o])

(* As long as nobody takes what is not its own, a block's count covers the   *)
(* operations that have still to give their reference back.                  *)
StoreInv == \A b \in Blocks : WellCounted(b) => Cardinality(Owed(b)) <= count[b]

(* What a handler knows: its message was published and is not empty, what it *)
(* no longer has to do is settled, and what it believes of the operation it  *)
(* is at.  The takeover's comparison is sound because a row whose updated_at *)
(* has not moved since it was read as CLAIMED is CLAIMED.                    *)
Believes(w, o) ==
  /\ worker[w].pc \in {"read", "takeover", "reread", "apply", "settle"} => status[o] # "none"
  /\ worker[w].pc = "takeover" =>
       /\ worker[w].seen <= stamp[o]
       /\ worker[w].seen = stamp[o] => status[o] = "claimed"
  /\ worker[w].pc = "settle" =>
       /\ worker[w].out \in Terminal
       /\ worker[w].out = "invalid" <=> o \in Invalid
       /\ worker[w].out # "invalid" => GivenBack(o)

WorkerInv(w) ==
  /\ worker[w].pc # "idle" =>
       /\ worker[w].msg \in published
       /\ OpsOf(worker[w].msg.batch) # {}
       /\ worker[w].todo \subseteq OpsOf(worker[w].msg.batch)
       /\ OpsOf(worker[w].msg.batch) \ worker[w].todo \subseteq Settled
  /\ worker[w].pc \in {"report", "ack"} => worker[w].todo = {}
  /\ \A o \in Ops : Current(w, o) => Believes(w, o)

(* What holds of an operation: its decrements are accounted for by its row   *)
(* or by the one handler that holds its claim, unless it lapsed.             *)
Untouched(w, o) == At(w, "apply", o) \/ (At(w, "settle", o) /\ worker[w].out # "applied")

Sole(o) ==
  /\ \A w, v \in Workers : Holds(w, o) => status[o] = "claimed" /\ (Holds(v, o) => v = w)
  /\ hits[o] <= 1
  /\ \A w \in Workers : Untouched(w, o) => hits[o] = 0
  /\ status[o] = "claimed" /\ (\A w \in Workers : ~Holds(w, o)) => hits[o] = 0

OpInv(o) ==
  /\ status[o] = "none" => hits[o] = 0
  /\ o \notin Invalid /\ status[o] \in Terminal => GivenBack(o)
  /\ o \in Invalid => hits[o] = 0 /\ status[o] \notin {"applied", "absent"}
  /\ o \notin lapsed => Sole(o)

LedgerInv ==
  /\ TypeOK
  /\ \A w \in Workers : WorkerInv(w)
  /\ \A o \in Ops : OpInv(o)
  /\ StoreInv

-----------------------------------------------------------------------------
(* Handlers. *)

LEMMA IdleIsWorker == Idle \in Worker
BY DEF Idle, Worker, Steps

(* Only one operation is the least of those left to do. *)
LEMMA CurrentUnique ==
  ASSUME TypeOK, NEW w \in Workers, NEW o \in Ops, NEW p \in Ops, Current(w, o), Current(w, p)
  PROVE  o = p
<1>1. o \in Nat /\ p \in Nat  BY OpsAssumption
<1>2. o <= p /\ p <= o  BY DEF Current
<1> QED BY <1>1, <1>2

(* A handler moves alone. *)
LEMMA MoveAlone ==
  ASSUME TypeOK, NEW w \in Workers, NEW k \in Worker, worker' = [worker EXCEPT ![w] = k]
  PROVE  /\ worker' \in [Workers -> Worker]
         /\ worker'[w] = k
         /\ \A v \in Workers : v # w => worker'[v] = worker[v]
BY DEF TypeOK

LEMMA GotoMoves ==
  ASSUME TypeOK, NEW w \in Workers, NEW step \in Steps, Goto(w, step)
  PROVE  /\ worker' \in [Workers -> Worker]
         /\ worker'[w] = [worker[w] EXCEPT !.pc = step]
         /\ \A v \in Workers : v # w => worker'[v] = worker[v]
<1>1. worker[w] \in Worker  BY DEF TypeOK
<1>2. [worker[w] EXCEPT !.pc = step] \in Worker  BY <1>1 DEF Worker
<1>3. worker' = [worker EXCEPT ![w] = [worker[w] EXCEPT !.pc = step]]
  BY DEF Goto, TypeOK
<1> QED BY <1>2, <1>3, MoveAlone

LEMMA GotoFields ==
  ASSUME TypeOK, NEW w \in Workers, NEW step \in Steps, Goto(w, step)
  PROVE  /\ worker'[w].pc = step
         /\ worker'[w].msg = worker[w].msg /\ worker'[w].todo = worker[w].todo
         /\ worker'[w].out = worker[w].out
<1>1. worker[w] \in Worker  BY DEF TypeOK
<1>2. worker'[w] = [worker[w] EXCEPT !.pc = step]  BY GotoMoves
<1> QED BY <1>1, <1>2 DEF Worker

LEMMA ReleaseMoves ==
  ASSUME TypeOK, NEW w \in Workers, Release(w)
  PROVE  /\ worker' \in [Workers -> Worker]
         /\ worker'[w] = Idle
         /\ \A v \in Workers : v # w => worker'[v] = worker[v]
BY IdleIsWorker, MoveAlone DEF Release

LEMMA AdvanceMoves ==
  ASSUME TypeOK, NEW w \in Workers, NEW o \in Ops, Advance(w, o)
  PROVE  /\ worker' \in [Workers -> Worker]
         /\ worker'[w].msg = worker[w].msg
         /\ worker'[w].todo = worker[w].todo \ {o}
         /\ worker'[w].pc = IF worker[w].todo \ {o} = {} THEN "report" ELSE "claim"
         /\ \A v \in Workers : v # w => worker'[v] = worker[v]
<1> DEFINE step == IF worker[w].todo \ {o} = {} THEN "report" ELSE "claim"
           k == [worker[w] EXCEPT !.todo = worker[w].todo \ {o}, !.out = "none",
                                  !.seen = 0, !.pc = step]
<1>1. worker[w] \in Worker  BY DEF TypeOK
<1>2. step \in Steps  BY DEF Steps
<1>3. k \in Worker  BY <1>1, <1>2 DEF Worker
<1>4. worker' = [worker EXCEPT ![w] = k]  BY DEF Advance, TypeOK
<1>5. /\ worker' \in [Workers -> Worker] /\ worker'[w] = k
      /\ \A v \in Workers : v # w => worker'[v] = worker[v]
  BY <1>3, <1>4, MoveAlone
<1>6. k.msg = worker[w].msg /\ k.todo = worker[w].todo \ {o} /\ k.pc = step
  BY <1>1 DEF Worker
<1> QED BY <1>5, <1>6

-----------------------------------------------------------------------------
(* Types. *)

LEMMA TouchWrites ==
  ASSUME TypeOK, NEW o \in Ops, NEW new \in Terminal \cup {"claimed"}, Touch(o, new)
  PROVE  /\ status' \in [Ops -> Terminal \cup {"none", "claimed"}]
         /\ stamp' \in [Ops -> Nat] /\ stale' \in [Ops -> BOOLEAN]
         /\ status'[o] = new /\ stamp'[o] = stamp[o] + 1
         /\ \A p \in Ops : p # o => status'[p] = status[p] /\ stamp'[p] = stamp[p]
BY DEF TypeOK, Touch

LEMMA RequeueType ==
  ASSUME TypeOK, NEW w \in Workers, NEW wait \in SUBSET (Ops \X Nat), Requeue(w, wait)
  PROVE  /\ worker' \in [Workers -> Worker]
         /\ queue' \subseteq published' /\ published' = published
         /\ deliveries' = deliveries
         /\ held' \in [Messages -> SUBSET (Ops \X Nat)]
<1>1. worker' \in [Workers -> Worker]  BY ReleaseMoves DEF Requeue
<1> QED BY <1>1 DEF Requeue, TypeOK

(* A handler at a step of an operation. *)
LEMMA AtType ==
  ASSUME TypeOK, NEW w \in Workers, NEW o \in Ops, NEW step, At(w, step, o)
  PROVE  worker[w] \in Worker /\ worker[w].pc = step /\ Current(w, o)
BY DEF At, TypeOK

LEMMA ReceiveMoves ==
  ASSUME TypeOK, NEW w \in Workers, NEW m \in Messages, Receive(w, m)
  PROVE  /\ worker' \in [Workers -> Worker]
         /\ worker'[w] = [Idle EXCEPT !.msg = m, !.pc = "claim", !.todo = OpsOf(m.batch)]
         /\ \A v \in Workers : v # w => worker'[v] = worker[v]
<1> DEFINE k == [Idle EXCEPT !.msg = m, !.pc = "claim", !.todo = OpsOf(m.batch)]
<1>1. k \in Worker  BY IdleIsWorker DEF Worker, Steps, OpsOf
<1>2. worker' = [worker EXCEPT ![w] = k]  BY DEF Receive
<1> QED BY <1>1, <1>2, MoveAlone

LEMMA TakeOverReadMoves ==
  ASSUME TypeOK, NEW w \in Workers, NEW o \in Ops,
         worker' = [worker EXCEPT ![w].pc = "takeover", ![w].seen = stamp[o]]
  PROVE  /\ worker' \in [Workers -> Worker]
         /\ worker'[w] = [worker[w] EXCEPT !.pc = "takeover", !.seen = stamp[o]]
         /\ \A v \in Workers : v # w => worker'[v] = worker[v]
<1> DEFINE k == [worker[w] EXCEPT !.pc = "takeover", !.seen = stamp[o]]
<1>1. worker[w] \in Worker /\ stamp[o] \in Nat  BY DEF TypeOK
<1>2. k \in Worker  BY <1>1 DEF Worker, Steps
<1>3. worker' = [worker EXCEPT ![w] = k]  BY DEF TypeOK
<1> QED BY <1>2, <1>3, MoveAlone

LEMMA ApplyMoves ==
  ASSUME TypeOK, NEW w \in Workers, NEW result \in Terminal,
         worker' = [worker EXCEPT ![w].pc = "settle", ![w].out = result]
  PROVE  /\ worker' \in [Workers -> Worker]
         /\ worker'[w] = [worker[w] EXCEPT !.pc = "settle", !.out = result]
         /\ \A v \in Workers : v # w => worker'[v] = worker[v]
<1> DEFINE k == [worker[w] EXCEPT !.pc = "settle", !.out = result]
<1>1. worker[w] \in Worker  BY DEF TypeOK
<1>2. k \in Worker  BY <1>1 DEF Worker, Steps
<1>3. worker' = [worker EXCEPT ![w] = k]  BY DEF TypeOK
<1> QED BY <1>2, <1>3, MoveAlone

LEMMA FaultType ==
  ASSUME TypeOK, NEW w \in Workers, Fault(w)
  PROVE  faults' \in Nat /\ lapsed' \subseteq Ops /\ hits' = hits /\ reported' = reported
BY DEF Fault, TypeOK

LEMMA WorkerStepType ==
  ASSUME TypeOK, NEW w \in Workers, WorkerInv(w), WorkerStep(w)
  PROVE  TypeOK'
<1> USE DEF broker, ledger, store, history
<1>s. "apply" \in Steps /\ "read" \in Steps /\ "reread" \in Steps /\ "ack" \in Steps
  BY DEF Steps
<1>t. "applied" \in Terminal /\ "absent" \in Terminal /\ "invalid" \in Terminal
  BY DEF Terminal
<1>w. \A o \in Ops : {<<o, stamp[o]>>} \in SUBSET (Ops \X Nat)  BY DEF TypeOK
<1>1. ASSUME NEW m \in Messages, Receive(w, m) PROVE TypeOK'
  <2>1. worker' \in [Workers -> Worker]  BY <1>1, ReceiveMoves
  <2>2. deliveries' \in [Messages -> 0..MaxDeliver]
    BY <1>1, BoundsAssumption DEF Receive, Deliverable, TypeOK
  <2>3. held' \in [Messages -> SUBSET (Ops \X Nat)]  BY <1>1 DEF Receive, TypeOK
  <2> QED BY <1>1, <2>1, <2>2, <2>3 DEF Receive, TypeOK
<1>2. ASSUME NEW m \in Messages, Reject(w, m) PROVE TypeOK'
  <2>2. deliveries' \in [Messages -> 0..MaxDeliver]
    BY <1>2, BoundsAssumption DEF Reject, Deliverable, TypeOK
  <2> QED BY <1>2, <2>2 DEF Reject, TypeOK
<1>3. ASSUME NEW o \in Ops, Claim(w, o) PROVE TypeOK'
  <2>1. CASE Touch(o, "claimed") /\ Goto(w, "apply")
    BY <1>3, <1>s, <2>1, TouchWrites, GotoMoves DEF Claim, TypeOK
  <2>2. CASE Goto(w, "read") /\ UNCHANGED ledger
    BY <1>3, <1>s, <2>2, GotoMoves DEF Claim, TypeOK
  <2> QED BY <1>3, <2>1, <2>2 DEF Claim
<1>4. ASSUME NEW o \in Ops, ReadClaim(w, o) PROVE TypeOK'
  <2>1. CASE Advance(w, o) /\ UNCHANGED broker
    BY <1>4, <2>1, AdvanceMoves DEF ReadClaim, TypeOK
  <2>2. CASE /\ worker' = [worker EXCEPT ![w].pc = "takeover", ![w].seen = stamp[o]]
             /\ UNCHANGED broker
    <3>1. worker' \in [Workers -> Worker]  BY <2>2, TakeOverReadMoves
    <3> QED BY <1>4, <2>2, <3>1 DEF ReadClaim, TypeOK
  <2>3. CASE Requeue(w, {<<o, stamp[o]>>})
    BY <1>4, <1>w, <2>3, RequeueType DEF ReadClaim, TypeOK
  <2> QED BY <1>4, <2>1, <2>2, <2>3 DEF ReadClaim
<1>5. ASSUME NEW o \in Ops, TakeOver(w, o) PROVE TypeOK'
  <2>1. lapsed' \subseteq Ops  BY <1>5 DEF TakeOver, TypeOK
  <2>2. CASE Touch(o, "claimed") /\ Goto(w, "apply")
    BY <1>5, <1>s, <2>1, <2>2, TouchWrites, GotoMoves DEF TakeOver, TypeOK
  <2>3. CASE Goto(w, "reread") /\ UNCHANGED ledger
    BY <1>5, <1>s, <2>1, <2>3, GotoMoves DEF TakeOver, TypeOK
  <2> QED BY <1>5, <2>2, <2>3 DEF TakeOver
<1>6. ASSUME NEW o \in Ops, Reread(w, o) PROVE TypeOK'
  <2>1. CASE Advance(w, o) /\ UNCHANGED broker
    BY <1>6, <2>1, AdvanceMoves DEF Reread, TypeOK
  <2>3. CASE Requeue(w, {<<o, stamp[o]>>})
    BY <1>6, <1>w, <2>3, RequeueType DEF Reread, TypeOK
  <2> QED BY <1>6, <2>1, <2>3 DEF Reread
<1>7. ASSUME NEW o \in Ops, Apply(w, o) PROVE TypeOK'
  <2>1. worker' \in [Workers -> Worker]
    BY <1>7, <1>t, ApplyMoves DEF Apply, Outcome
  <2>2. hits' \in [Ops -> Nat] /\ count' \in [Blocks -> Nat]
    <3>1. CASE UNCHANGED <<count, hits>>  BY <3>1 DEF TypeOK
    <3>2. CASE /\ o \notin Invalid /\ count[BlockOf[o]] > 0
               /\ count' = [count EXCEPT ![BlockOf[o]] = @ - 1]
               /\ hits' = [hits EXCEPT ![o] = @ + 1]
      <4>1. BlockOf[o] \in Blocks  BY <3>2, BlocksAssumption
      <4>2. count[BlockOf[o]] - 1 \in Nat  BY <3>2, <4>1 DEF TypeOK
      <4>3. count' \in [Blocks -> Nat]  BY <3>2, <4>1, <4>2 DEF TypeOK
      <4>4. hits' \in [Ops -> Nat]  BY <3>2 DEF TypeOK
      <4> QED BY <4>3, <4>4
    <3> QED BY <1>7, <3>1, <3>2 DEF Apply
  <2> QED BY <1>7, <2>1, <2>2 DEF Apply, Outcome, TypeOK
<1>8. ASSUME NEW o \in Ops, Settle(w, o) PROVE TypeOK'
  <2>1. worker[w].out \in Terminal
    BY <1>8 DEF Settle, At, WorkerInv, Believes
  <2> QED BY <1>8, <2>1, TouchWrites, AdvanceMoves DEF Settle, TypeOK
<1>9. CASE Report(w)
  <2>1. worker[w].msg \in published  BY <1>9 DEF Report, WorkerInv
  <2>2. worker[w].msg.batch \in Batches  BY <2>1 DEF TypeOK, Messages
  <2> QED BY <1>9, <1>s, <2>2, GotoMoves DEF Report, TypeOK
<1>10. CASE Ack(w)
  BY <1>10, ReleaseMoves DEF Ack, TypeOK
<1> QED
  BY <1>1, <1>2, <1>3, <1>4, <1>5, <1>6, <1>7, <1>8, <1>9, <1>10 DEF WorkerStep

LEMMA NextType ==
  ASSUME TypeOK, \A w \in Workers : WorkerInv(w), [Next]_vars
  PROVE  TypeOK'
<1>1. ASSUME NEW w \in Workers, WorkerStep(w) PROVE TypeOK'
  BY <1>1, WorkerStepType
<1>2. ASSUME NEW m \in Messages, Publish(m) PROVE TypeOK'
  BY <1>2 DEF Publish, TypeOK, ledger, store, history
<1>3. ASSUME NEW w \in Workers, Fail(w) PROVE TypeOK'
  <2>1. {} \in SUBSET (Ops \X Nat)  OBVIOUS
  <2>2. Fault(w) /\ Requeue(w, {})  BY <1>3 DEF Fail
  <2>3. UNCHANGED <<ledger, store>>  BY <2>2 DEF Fault
  <2> QED BY <2>1, <2>2, <2>3, FaultType, RequeueType DEF TypeOK, ledger, store
<1>4. ASSUME NEW w \in Workers, Crash(w) PROVE TypeOK'
  <2>1. Fault(w) /\ Release(w) /\ UNCHANGED broker  BY <1>4 DEF Crash
  <2>2. UNCHANGED <<ledger, store>>  BY <2>1 DEF Fault
  <2> QED BY <2>1, <2>2, FaultType, ReleaseMoves DEF TypeOK, ledger, store, broker
<1>5. ASSUME NEW o \in Ops, GoStale(o) PROVE TypeOK'
  BY <1>5 DEF GoStale, TypeOK, broker, store, history
<1>6. CASE UNCHANGED vars
  BY <1>6 DEF vars, broker, ledger, store, history, TypeOK
<1>7. ASSUME NEW b \in Blocks, Reference(b) \/ Unreference(b) PROVE TypeOK'
  <2>1. count' \in [Blocks -> Nat] /\ short' \subseteq Blocks
    BY <1>7 DEF Reference, Unreference, TypeOK
  <2> QED BY <1>7, <2>1 DEF Reference, Unreference, TypeOK, broker, ledger, history
<1> QED BY <1>1, <1>2, <1>3, <1>4, <1>5, <1>6, <1>7 DEF Next

-----------------------------------------------------------------------------
(* The ledger only moves forward: a row once written stays, a terminal row   *)
(* stays terminal, and every write moves updated_at.                         *)

Forward ==
  /\ published \subseteq published'
  /\ \A o \in Ops :
       /\ status[o] # "none" => status'[o] # "none"
       /\ status[o] \in Terminal => status'[o] \in Terminal
       /\ stamp[o] <= stamp'[o]
       /\ stamp'[o] = stamp[o] => status'[o] = status[o]
       /\ hits[o] <= hits'[o]
       /\ GivenBack(o) => GivenBack(o)'

(* A block that was miscounted stays so.                                     *)
LEMMA BackForGood ==
  ASSUME TypeOK, TypeOK', \A p \in Ops : hits[p] <= hits'[p], short \subseteq short',
         NEW o \in Ops
  PROVE  GivenBack(o) => GivenBack(o)'
<1>1. \A p \in Ops : hits[p] \in Nat /\ hits'[p] \in Nat  BY DEF TypeOK
<1>2. \A p \in Ops : hits[p] > 1 => hits'[p] > 1  BY <1>1
<1>3. hits[o] > 0 => hits'[o] > 0  BY <1>1
<1> QED BY <1>1, <1>2, <1>3 DEF GivenBack, WellCounted, OpsOn

LEMMA ForwardWhenSame ==
  ASSUME TypeOK, TypeOK', UNCHANGED <<status, stamp, hits>>, published \subseteq published',
         short \subseteq short'
  PROVE  Forward
BY BackForGood DEF TypeOK, Forward

LEMMA ForwardWhenTouched ==
  ASSUME TypeOK, TypeOK', NEW o \in Ops, NEW new \in Terminal \cup {"claimed"},
         Touch(o, new),
         status[o] \in Terminal => new \in Terminal,
         UNCHANGED <<hits, published, short>>
  PROVE  Forward
<1>1. new # "none"  BY DEF Terminal
<1>2. \A p \in Ops : stamp[p] \in Nat /\ hits[p] \in Nat  BY DEF TypeOK
<1> QED BY <1>1, <1>2, TouchWrites, BackForGood DEF Forward

LEMMA WorkerStepForward ==
  ASSUME TypeOK, TypeOK', NEW w \in Workers, WorkerInv(w), WorkerStep(w)
  PROVE  Forward
<1> USE DEF broker, ledger, store, history
<1>1. ASSUME NEW o \in Ops, Claim(w, o) PROVE Forward
  <2>1. CASE status[o] = "none" /\ Touch(o, "claimed")
    <3>1. status[o] \notin Terminal  BY <2>1 DEF Terminal
    <3> QED BY <1>1, <2>1, <3>1, ForwardWhenTouched DEF Claim
  <2>2. CASE UNCHANGED ledger  BY <1>1, <2>2, ForwardWhenSame DEF Claim
  <2> QED BY <1>1, <2>1, <2>2 DEF Claim
<1>2. ASSUME NEW o \in Ops, TakeOver(w, o) PROVE Forward
  <2>1. CASE stamp[o] = worker[w].seen /\ Touch(o, "claimed")
    <3>1. status[o] = "claimed"
      BY <1>2, <2>1 DEF TakeOver, At, WorkerInv, Believes
    <3>2. status[o] \notin Terminal  BY <3>1 DEF Terminal
    <3> QED BY <1>2, <2>1, <3>2, ForwardWhenTouched DEF TakeOver
  <2>2. CASE UNCHANGED ledger  BY <1>2, <2>2, ForwardWhenSame DEF TakeOver
  <2> QED BY <1>2, <2>1, <2>2 DEF TakeOver
<1>3. ASSUME NEW o \in Ops, Settle(w, o) PROVE Forward
  <2>1. worker[w].out \in Terminal  BY <1>3 DEF Settle, At, WorkerInv, Believes
  <2> QED BY <1>3, <2>1, ForwardWhenTouched DEF Settle
<1>4. ASSUME NEW o \in Ops, Apply(w, o) PROVE Forward
  <2>1. \A p \in Ops : hits[p] \in Nat /\ stamp[p] \in Nat  BY DEF TypeOK
  <2>2. \A p \in Ops : hits[p] <= hits'[p]  BY <1>4, <2>1 DEF Apply, TypeOK
  <2> QED BY <1>4, <2>1, <2>2, BackForGood DEF Apply, Outcome, Forward
<1>5. CASE UNCHANGED <<status, stamp, hits, published, short>>  BY <1>5, ForwardWhenSame
<1> QED
  BY <1>1, <1>2, <1>3, <1>4, <1>5
     DEF WorkerStep, Receive, Reject, ReadClaim, Reread, Report, Ack, Requeue

LEMMA NextForward ==
  ASSUME TypeOK, TypeOK', \A w \in Workers : WorkerInv(w), [Next]_vars
  PROVE  Forward
<1>1. ASSUME NEW w \in Workers, WorkerStep(w) PROVE Forward
  BY <1>1, WorkerStepForward
<1>2. CASE /\ UNCHANGED <<status, stamp, hits>> /\ published \subseteq published'
           /\ short \subseteq short'
  BY <1>2, ForwardWhenSame
<1> QED
  BY <1>1, <1>2
     DEF Next, Publish, Fail, Crash, Fault, GoStale, Requeue, Reference, Unreference, vars,
         broker, ledger, store, history

-----------------------------------------------------------------------------
(* What handlers believe stays true. *)

(* A handler that does not move. *)
LEMMA BystanderKeeps ==
  ASSUME TypeOK, TypeOK', Forward, NEW v \in Workers, WorkerInv(v), worker'[v] = worker[v]
  PROVE  WorkerInv(v)'
<1>1. Settled \subseteq Settled'  BY DEF Forward, Settled
<1>2. ASSUME NEW o \in Ops, Current(v, o)' PROVE Believes(v, o)'
  <2>1. Current(v, o) /\ Believes(v, o)  BY <1>2 DEF Current, WorkerInv
  <2>2. /\ stamp[o] \in Nat /\ stamp'[o] \in Nat /\ worker[v].seen \in Nat
        /\ hits[o] \in Nat /\ hits'[o] \in Nat
    BY DEF TypeOK, Worker
  <2>3. /\ status[o] # "none" => status'[o] # "none"
        /\ stamp[o] <= stamp'[o] /\ (stamp'[o] = stamp[o] => status'[o] = status[o])
        /\ hits[o] <= hits'[o] /\ (GivenBack(o) => GivenBack(o)')
    BY DEF Forward
  <2>4. worker[v].pc = "takeover" =>
          worker[v].seen <= stamp'[o] /\ (worker[v].seen = stamp'[o] => status'[o] = "claimed")
    BY <2>1, <2>2, <2>3 DEF Believes
  <2> QED BY <2>1, <2>2, <2>3, <2>4 DEF Believes
<1> QED BY <1>1, <1>2 DEF WorkerInv, Forward, OpsOf

(* One that goes on with the same operation. *)
LEMMA MoverKeeps ==
  ASSUME Forward, NEW w \in Workers, WorkerInv(w), worker[w].pc # "idle",
         worker'[w].msg = worker[w].msg, worker'[w].todo = worker[w].todo,
         worker'[w].pc \notin {"report", "ack"},
         \A o \in Ops : Current(w, o) => Believes(w, o)'
  PROVE  WorkerInv(w)'
<1>1. Settled \subseteq Settled'  BY DEF Forward, Settled
<1>2. \A o \in Ops : Current(w, o)' => Believes(w, o)'  BY DEF Current
<1> QED BY <1>1, <1>2 DEF WorkerInv, Forward, OpsOf

(* One that has the result of its operation. *)
LEMMA AdvanceKeeps ==
  ASSUME TypeOK, Forward, NEW w \in Workers, NEW o \in Ops, WorkerInv(w),
         worker[w].pc # "idle", Advance(w, o), status'[o] \in Terminal
  PROVE  WorkerInv(w)'
<1>1. /\ worker'[w].msg = worker[w].msg /\ worker'[w].todo = worker[w].todo \ {o}
      /\ worker'[w].pc = IF worker'[w].todo = {} THEN "report" ELSE "claim"
  BY AdvanceMoves
<1>2. Settled \subseteq Settled' /\ o \in Settled'  BY DEF Forward, Settled
<1>3. worker'[w].pc \in {"report", "claim"} /\ (worker'[w].pc = "report" => worker'[w].todo = {})
  BY <1>1
<1>4. \A p \in Ops : Believes(w, p)'  BY <1>3 DEF Believes
<1>5. OpsOf(worker[w].msg.batch) \ worker'[w].todo \subseteq Settled'
  BY <1>1, <1>2 DEF WorkerInv
<1> QED BY <1>1, <1>3, <1>4, <1>5 DEF WorkerInv, Forward, OpsOf

LEMMA ReleaseKeeps ==
  ASSUME TypeOK, NEW w \in Workers, Release(w)
  PROVE  WorkerInv(w)'
<1>1. worker'[w].pc = "idle" /\ worker'[w].todo = {}  BY ReleaseMoves DEF Idle
<1> QED BY <1>1 DEF WorkerInv, Current

(* Where nothing is counted nothing is owed.                                 *)
LEMMA AppliedIsGivenBack ==
  ASSUME TypeOK, TypeOK', Forward, StoreInv, NEW w \in Workers, NEW o \in Ops \ Invalid,
         Apply(w, o)
  PROVE  GivenBack(o)'
<1> DEFINE b == BlockOf[o]
<1>1. CASE hits' = [hits EXCEPT ![o] = @ + 1]
  BY <1>1 DEF GivenBack, TypeOK
<1>2. CASE count[b] = 0
  <2>1. b \in Blocks  BY BlocksAssumption
  <2>2. SUFFICES ASSUME WellCounted(b) PROVE hits[o] > 0
    BY DEF GivenBack, Forward
  <2>3. IsFiniteSet(Owed(b))
    BY OpsAssumption, FS_Subset DEF Owed, OpsOn
  <2>4. Cardinality(Owed(b)) = 0
    <3>1. Cardinality(Owed(b)) \in Nat  BY <2>3, FS_CardinalityType
    <3> QED BY <1>2, <2>1, <2>2, <3>1 DEF StoreInv
  <2>5. Owed(b) = {}  BY <2>3, <2>4, FS_EmptySet
  <2> QED BY <2>5 DEF Owed, OpsOn, TypeOK
<1> QED BY <1>1, <1>2 DEF Apply

LEMMA WorkerStepKeeps ==
  ASSUME TypeOK, TypeOK', Forward, NEW w \in Workers, WorkerInv(w), WorkerStep(w),
         \A o \in Ops : OpInv(o), StoreInv
  PROVE  WorkerInv(w)'
<1>s. "apply" \in Steps /\ "read" \in Steps /\ "reread" \in Steps /\ "ack" \in Steps
  BY DEF Steps
<1>t. "applied" \in Terminal /\ "absent" \in Terminal /\ "invalid" \in Terminal
  BY DEF Terminal
<1>w. worker[w] \in Worker  BY DEF TypeOK
<1>1. ASSUME NEW m \in Messages, Receive(w, m) PROVE WorkerInv(w)'
  <2>1. worker'[w] = [Idle EXCEPT !.msg = m, !.pc = "claim", !.todo = OpsOf(m.batch)]
    BY <1>1, ReceiveMoves
  <2>2. worker'[w].msg = m /\ worker'[w].pc = "claim" /\ worker'[w].todo = OpsOf(m.batch)
    BY <2>1 DEF Idle
  <2>3. m \in published' /\ OpsOf(m.batch) # {}
    BY <1>1 DEF Receive, Deliverable, TypeOK
  <2> QED BY <2>2, <2>3 DEF WorkerInv, Believes, OpsOf
<1>2. ASSUME NEW m \in Messages, Reject(w, m) PROVE WorkerInv(w)'
  BY <1>2, BystanderKeeps DEF Reject
<1>3. ASSUME NEW o \in Ops, Claim(w, o) PROVE WorkerInv(w)'
  <2>1. Current(w, o) /\ worker[w].pc = "claim"  BY <1>3 DEF Claim, At
  <2>2. \A p \in Ops : Current(w, p) => p = o  BY <2>1, CurrentUnique
  <2>3. status'[o] # "none"
    BY <1>3, TouchWrites DEF Claim, ledger
  <2>4. \E step \in {"apply", "read"} : Goto(w, step)  BY <1>3 DEF Claim
  <2>5. /\ worker'[w].msg = worker[w].msg /\ worker'[w].todo = worker[w].todo
        /\ worker'[w].pc \in {"apply", "read"}
    BY <1>s, <2>4, GotoFields
  <2>6. Believes(w, o)'  BY <2>3, <2>5 DEF Believes
  <2> QED BY <2>1, <2>2, <2>5, <2>6, MoverKeeps
<1>4. ASSUME NEW o \in Ops, ReadClaim(w, o) PROVE WorkerInv(w)'
  <2>1. Current(w, o) /\ worker[w].pc = "read"  BY <1>4 DEF ReadClaim, At
  <2>2. \A p \in Ops : Current(w, p) => p = o  BY <2>1, CurrentUnique
  <2>3. UNCHANGED <<status, stamp>>  BY <1>4 DEF ReadClaim, ledger
  <2>4. CASE status[o] \in Terminal /\ Advance(w, o)
    BY <2>1, <2>3, <2>4, AdvanceKeeps
  <2>5. CASE /\ status[o] = "claimed"
             /\ worker' = [worker EXCEPT ![w].pc = "takeover", ![w].seen = stamp[o]]
    <3>1. worker'[w] = [worker[w] EXCEPT !.pc = "takeover", !.seen = stamp[o]]
      BY <2>5, TakeOverReadMoves
    <3>2. /\ worker'[w].msg = worker[w].msg /\ worker'[w].todo = worker[w].todo
          /\ worker'[w].pc = "takeover" /\ worker'[w].seen = stamp[o]
      BY <1>w, <3>1 DEF Worker
    <3>3. stamp[o] \in Nat  BY DEF TypeOK
    <3>4. Believes(w, o)'  BY <2>3, <2>5, <3>2, <3>3 DEF Believes
    <3> QED BY <2>1, <2>2, <3>2, <3>4, MoverKeeps
  <2>6. CASE Requeue(w, {<<o, stamp[o]>>})
    BY <2>6, ReleaseKeeps DEF Requeue
  <2> QED BY <1>4, <2>4, <2>5, <2>6 DEF ReadClaim
<1>5. ASSUME NEW o \in Ops, TakeOver(w, o) PROVE WorkerInv(w)'
  <2>1. Current(w, o) /\ worker[w].pc = "takeover"  BY <1>5 DEF TakeOver, At
  <2>2. \A p \in Ops : Current(w, p) => p = o  BY <2>1, CurrentUnique
  <2>3. status'[o] # "none"
    BY <2>1 DEF WorkerInv, Believes, Forward
  <2>4. \E step \in {"apply", "reread"} : Goto(w, step)  BY <1>5 DEF TakeOver
  <2>5. /\ worker'[w].msg = worker[w].msg /\ worker'[w].todo = worker[w].todo
        /\ worker'[w].pc \in {"apply", "reread"}
    BY <1>s, <2>4, GotoFields
  <2>6. Believes(w, o)'  BY <2>3, <2>5 DEF Believes
  <2> QED BY <2>1, <2>2, <2>5, <2>6, MoverKeeps
<1>6. ASSUME NEW o \in Ops, Reread(w, o) PROVE WorkerInv(w)'
  <2>1. worker[w].pc = "reread" /\ UNCHANGED status  BY <1>6 DEF Reread, At, ledger
  <2>4. CASE status[o] \in Terminal /\ Advance(w, o)
    BY <2>1, <2>4, AdvanceKeeps
  <2>6. CASE Requeue(w, {<<o, stamp[o]>>})
    BY <2>6, ReleaseKeeps DEF Requeue
  <2> QED BY <1>6, <2>4, <2>6 DEF Reread
<1>7. ASSUME NEW o \in Ops, Apply(w, o) PROVE WorkerInv(w)'
  <2>1. Current(w, o) /\ worker[w].pc = "apply"
    BY <1>7 DEF Apply, Outcome, At
  <2>2. \A p \in Ops : Current(w, p) => p = o  BY <2>1, CurrentUnique
  <2>3. status'[o] # "none"  BY <2>1 DEF WorkerInv, Believes, Forward
  <2>4. PICK result \in Terminal :
          /\ worker' = [worker EXCEPT ![w].pc = "settle", ![w].out = result]
          /\ result = "invalid" <=> o \in Invalid
    BY <1>7, <1>t DEF Apply, Outcome
  <2>5. worker'[w] = [worker[w] EXCEPT !.pc = "settle", !.out = result]
    BY <2>4, ApplyMoves
  <2>6. /\ worker'[w].msg = worker[w].msg /\ worker'[w].todo = worker[w].todo
        /\ worker'[w].pc = "settle" /\ worker'[w].out = result
    BY <1>w, <2>5 DEF Worker
  <2>7. result # "invalid" => GivenBack(o)'  BY <1>7, <2>4, AppliedIsGivenBack
  <2>8. Believes(w, o)'  BY <2>3, <2>4, <2>6, <2>7 DEF Believes
  <2> QED BY <2>1, <2>2, <2>6, <2>8, MoverKeeps
<1>8. ASSUME NEW o \in Ops, Settle(w, o) PROVE WorkerInv(w)'
  <2>1. worker[w].out \in Terminal /\ worker[w].pc = "settle"
    BY <1>8 DEF Settle, At, WorkerInv, Believes
  <2>2. status'[o] \in Terminal  BY <1>8, <2>1, TouchWrites DEF Settle
  <2> QED BY <1>8, <2>1, <2>2, AdvanceKeeps DEF Settle
<1>9. CASE Report(w)
  <2>1. worker'[w] = [worker[w] EXCEPT !.pc = "ack"]  BY <1>9, <1>s, GotoMoves DEF Report
  <2>2. /\ worker'[w].msg = worker[w].msg /\ worker'[w].todo = {}
        /\ worker'[w].pc = "ack" /\ worker[w].pc = "report" /\ worker[w].todo = {}
    BY <1>9, <1>w, <2>1 DEF Report, Worker, WorkerInv
  <2>3. Settled \subseteq Settled'  BY DEF Forward, Settled
  <2> QED BY <2>2, <2>3 DEF WorkerInv, Believes, Forward, Current, OpsOf
<1>10. CASE Ack(w)
  BY <1>10, ReleaseKeeps DEF Ack
<1> QED
  BY <1>1, <1>2, <1>3, <1>4, <1>5, <1>6, <1>7, <1>8, <1>9, <1>10 DEF WorkerStep

(* Whoever moves, nobody else does. *)
LEMMA WorkerStepMovesAlone ==
  ASSUME TypeOK, NEW w \in Workers, WorkerStep(w)
  PROVE  \A v \in Workers : v # w => worker'[v] = worker[v]
<1>s. "apply" \in Steps /\ "read" \in Steps /\ "reread" \in Steps /\ "ack" \in Steps
  BY DEF Steps
<1>t. "applied" \in Terminal /\ "absent" \in Terminal /\ "invalid" \in Terminal
  BY DEF Terminal
<1> DEFINE Alone == \A v \in Workers : v # w => worker'[v] = worker[v]
<1>1. ASSUME NEW m \in Messages, Receive(w, m) \/ Reject(w, m) PROVE Alone
  BY <1>1, ReceiveMoves DEF Reject
<1>2. ASSUME NEW step \in Steps, Goto(w, step) PROVE Alone  BY <1>2, GotoMoves
<1>3. ASSUME NEW o \in Ops, Advance(w, o) PROVE Alone  BY <1>3, AdvanceMoves
<1>4. CASE Release(w)  BY <1>4, ReleaseMoves
<1>5. ASSUME NEW o \in Ops, ReadClaim(w, o) PROVE Alone
  BY <1>3, <1>4, <1>5, TakeOverReadMoves DEF ReadClaim, Requeue
<1>6. ASSUME NEW o \in Ops, Apply(w, o) PROVE Alone
  BY <1>t, <1>6, ApplyMoves DEF Apply, Outcome
<1> QED
  BY <1>s, <1>1, <1>2, <1>3, <1>4, <1>5, <1>6
     DEF WorkerStep, Claim, TakeOver, Reread, Settle, Report, Ack, Requeue

LEMMA NextWorkers ==
  ASSUME TypeOK, TypeOK', \A w \in Workers : WorkerInv(w), \A o \in Ops : OpInv(o),
         StoreInv, [Next]_vars
  PROVE  \A w \in Workers : WorkerInv(w)'
<1>f. Forward  BY NextForward
<1>1. ASSUME NEW w \in Workers, WorkerStep(w) PROVE \A v \in Workers : WorkerInv(v)'
  BY <1>f, <1>1, WorkerStepKeeps, WorkerStepMovesAlone, BystanderKeeps
<1>2. ASSUME NEW w \in Workers, Release(w) PROVE \A v \in Workers : WorkerInv(v)'
  BY <1>f, <1>2, ReleaseMoves, ReleaseKeeps, BystanderKeeps
<1>3. CASE UNCHANGED worker
  BY <1>f, <1>3, BystanderKeeps
<1> QED
  BY <1>1, <1>2, <1>3 DEF Next, Publish, Fail, Crash, Requeue, GoStale, Reference,
                                Unreference, vars

-----------------------------------------------------------------------------
(* What holds of an operation stays true. *)

LEMMA OpFrame ==
  ASSUME Forward, NEW p \in Ops, OpInv(p), status'[p] = status[p], hits'[p] = hits[p],
         lapsed \subseteq lapsed',
         \A v \in Workers : (Holds(v, p)' <=> Holds(v, p)) /\ (Untouched(v, p)' => Untouched(v, p))
  PROVE  OpInv(p)'
BY DEF OpInv, Sole, Forward

LEMMA BystanderHolds ==
  ASSUME NEW v \in Workers, worker'[v] = worker[v], NEW p \in Ops
  PROVE  (Holds(v, p)' <=> Holds(v, p)) /\ (Untouched(v, p)' <=> Untouched(v, p))
BY DEF Holds, Untouched, At, Current

(* A step of w at o that only touches o leaves every other operation alone,  *)
(* and o itself too unless w holds it before or after.                       *)
LEMMA Elsewhere ==
  ASSUME TypeOK, TypeOK', Forward, NEW w \in Workers, NEW o \in Ops, NEW p \in Ops, p # o,
         Current(w, o),
         Current(w, o)' \/ worker'[w].pc \notin {"apply", "settle"},
         \A v \in Workers : v # w => worker'[v] = worker[v],
         OpInv(p), status'[p] = status[p], hits'[p] = hits[p], lapsed \subseteq lapsed'
  PROVE  OpInv(p)'
<1>1. ~Current(w, p)  BY CurrentUnique
<1>2. ~Holds(w, p) /\ ~Untouched(w, p)  BY <1>1 DEF Holds, Untouched, At
<1>3. ~Holds(w, p)' /\ ~Untouched(w, p)'
  <2>1. CASE Current(w, o)'
    <3>1. o \in Nat /\ p \in Nat  BY OpsAssumption
    <3>2. ~Current(w, p)'  BY <2>1, <3>1 DEF Current
    <3> QED BY <3>2 DEF Holds, Untouched, At
  <2>2. CASE worker'[w].pc \notin {"apply", "settle"}
    BY <2>2 DEF Holds, Untouched, At
  <2> QED BY <2>1, <2>2
<1>4. \A v \in Workers : (Holds(v, p)' <=> Holds(v, p)) /\ (Untouched(v, p)' => Untouched(v, p))
  BY <1>2, <1>3, BystanderHolds
<1> QED BY <1>4, OpFrame

LEMMA HandsOff ==
  ASSUME Forward, NEW w \in Workers, worker[w].pc \notin {"apply", "settle"},
         worker'[w].pc \notin {"apply", "settle"},
         \A v \in Workers : v # w => worker'[v] = worker[v],
         UNCHANGED <<status, hits>>, lapsed \subseteq lapsed', \A p \in Ops : OpInv(p)
  PROVE  \A p \in Ops : OpInv(p)'
<1>1. ASSUME NEW p \in Ops, NEW v \in Workers
      PROVE  (Holds(v, p)' <=> Holds(v, p)) /\ (Untouched(v, p)' => Untouched(v, p))
  <2>1. CASE v = w  BY <2>1 DEF Holds, Untouched, At
  <2>2. CASE v # w  BY <2>2, BystanderHolds
  <2> QED BY <2>1, <2>2
<1> QED BY <1>1, OpFrame

LEMMA ClaimKeepsOps ==
  ASSUME TypeOK, TypeOK', Forward, \A v \in Workers : WorkerInv(v), \A p \in Ops : OpInv(p),
         NEW w \in Workers, NEW o \in Ops, Claim(w, o)
  PROVE  \A p \in Ops : OpInv(p)'
<1>s. "apply" \in Steps /\ "read" \in Steps  BY DEF Steps
<1>a. Current(w, o) /\ worker[w].pc = "claim" /\ UNCHANGED <<hits, lapsed>>
  BY DEF Claim, At, history
<1>1. CASE status[o] = "none" /\ Touch(o, "claimed") /\ Goto(w, "apply")
  <2>1. /\ worker'[w].pc = "apply" /\ worker'[w].todo = worker[w].todo
        /\ \A v \in Workers : v # w => worker'[v] = worker[v]
    BY <1>s, <1>1, GotoMoves, GotoFields
  <2>2. status'[o] = "claimed" /\ \A p \in Ops : p # o => status'[p] = status[p]
    BY <1>1, TouchWrites
  <2>3. \A v \in Workers : ~Holds(v, o)
    BY <1>1 DEF Holds, At, WorkerInv, Believes
  <2>4. \A v \in Workers : Holds(v, o)' => v = w  BY <2>1, <2>3, BystanderHolds
  <2>5. hits'[o] = 0  BY <1>a, <1>1 DEF OpInv
  <2>6. At(w, "apply", o)'  BY <1>a, <2>1 DEF At, Current
  <2>7. OpInv(o)'
    BY <2>2, <2>4, <2>5, <2>6 DEF OpInv, Sole, Holds, Terminal
  <2>8. Current(w, o)'  BY <2>6 DEF At
  <2> QED BY <1>a, <2>1, <2>2, <2>7, <2>8, Elsewhere
<1>2. CASE Goto(w, "read") /\ UNCHANGED ledger
  BY <1>a, <1>s, <1>2, GotoMoves, GotoFields, HandsOff DEF ledger
<1> QED BY <1>1, <1>2 DEF Claim

LEMMA TakeOverKeepsOps ==
  ASSUME TypeOK, TypeOK', Forward, \A v \in Workers : WorkerInv(v), \A p \in Ops : OpInv(p),
         NEW w \in Workers, NEW o \in Ops, TakeOver(w, o)
  PROVE  \A p \in Ops : OpInv(p)'
<1>s. "apply" \in Steps /\ "reread" \in Steps  BY DEF Steps
<1>a. Current(w, o) /\ worker[w].pc = "takeover" /\ UNCHANGED hits /\ lapsed \subseteq lapsed'
  BY DEF TakeOver, At
<1>1. CASE /\ stamp[o] = worker[w].seen /\ Touch(o, "claimed") /\ Goto(w, "apply")
           /\ lapsed' = IF \E v \in Workers : Holds(v, o) THEN lapsed \cup {o} ELSE lapsed
  <2>1. /\ worker'[w].pc = "apply" /\ worker'[w].todo = worker[w].todo
        /\ \A v \in Workers : v # w => worker'[v] = worker[v]
    BY <1>s, <1>1, GotoMoves, GotoFields
  <2>2. status'[o] = "claimed" /\ \A p \in Ops : p # o => status'[p] = status[p]
    BY <1>1, TouchWrites
  <2>3. status[o] = "claimed"  BY <1>a, <1>1 DEF WorkerInv, Believes
  <2>4. At(w, "apply", o)'  BY <1>a, <2>1 DEF At, Current
  <2>5. ASSUME o \notin lapsed' PROVE Sole(o)'
    <3>1. \A v \in Workers : ~Holds(v, o)  BY <1>1, <2>5
    <3>2. hits[o] = 0  BY <1>a, <2>3, <2>5, <3>1 DEF OpInv, Sole
    <3>3. \A v \in Workers : Holds(v, o)' => v = w  BY <2>1, <3>1, BystanderHolds
    <3> QED BY <1>a, <2>2, <2>4, <3>2, <3>3 DEF Sole, Holds
  <2>6. OpInv(o)'  BY <1>a, <2>2, <2>3, <2>5 DEF OpInv, Terminal
  <2>7. Current(w, o)'  BY <2>4 DEF At
  <2> QED BY <1>a, <2>1, <2>2, <2>6, <2>7, Elsewhere
<1>2. CASE Goto(w, "reread") /\ UNCHANGED ledger
  BY <1>a, <1>s, <1>2, GotoMoves, GotoFields, HandsOff DEF ledger
<1> QED BY <1>1, <1>2 DEF TakeOver

LEMMA ApplyKeepsOps ==
  ASSUME TypeOK, TypeOK', Forward, \A v \in Workers : WorkerInv(v), \A p \in Ops : OpInv(p),
         NEW w \in Workers, NEW o \in Ops, Apply(w, o)
  PROVE  \A p \in Ops : OpInv(p)'
<1>a. /\ Current(w, o) /\ worker[w].pc = "apply" /\ At(w, "apply", o)
      /\ UNCHANGED <<status, lapsed>>
  BY DEF Apply, Outcome, At, ledger
<1>1. PICK result \in Terminal :
        /\ worker' = [worker EXCEPT ![w].pc = "settle", ![w].out = result]
        /\ \/ result = "applied" /\ o \notin Invalid /\ hits' = [hits EXCEPT ![o] = @ + 1]
           \/ hits' = hits
  BY DEF Apply, Outcome, Terminal
<1>2. /\ worker'[w] = [worker[w] EXCEPT !.pc = "settle", !.out = result]
      /\ \A v \in Workers : v # w => worker'[v] = worker[v]
  BY <1>1, ApplyMoves
<1>3. /\ worker'[w].todo = worker[w].todo
      /\ worker'[w].pc = "settle" /\ worker'[w].out = result
  BY <1>2 DEF TypeOK, Worker
<1>4. At(w, "settle", o)'  BY <1>a, <1>3 DEF At, Current
<1>5. Current(w, o)' /\ Holds(w, o)' /\ Holds(w, o) /\ Untouched(w, o)
  BY <1>a, <1>4 DEF At, Holds, Untouched
<1>6. \A p \in Ops : p # o => hits'[p] = hits[p]  BY <1>1 DEF TypeOK
<1>7. OpInv(o)'
  <2>1. CASE hits' = hits
    <3>1. \A v \in Workers :
            (Holds(v, o)' <=> Holds(v, o)) /\ (Untouched(v, o)' => Untouched(v, o))
      BY <1>2, <1>5, BystanderHolds
    <3> QED BY <1>a, <2>1, <3>1, OpFrame
  <2>2. CASE result = "applied" /\ o \notin Invalid /\ hits' = [hits EXCEPT ![o] = @ + 1]
    <3>1. hits'[o] = hits[o] + 1 /\ hits[o] \in Nat  BY <2>2 DEF TypeOK
    <3>2. status[o] # "none"  BY <1>a DEF WorkerInv, Believes
    <3>3. ASSUME o \notin lapsed PROVE Sole(o)'
      <4>1. Sole(o)  BY <3>3 DEF OpInv
      <4>2. hits'[o] = 1  BY <1>5, <3>1, <4>1 DEF Sole
      <4>3. \A v \in Workers : Holds(v, o)' => v = w
        BY <1>2, <1>5, <4>1, BystanderHolds DEF Sole
      <4>4. ~Untouched(w, o)'  BY <1>3, <2>2 DEF Untouched, At
      <4>5. \A v \in Workers : ~Untouched(v, o)'
        BY <4>3, <4>4 DEF Untouched, Holds
      <4>6. status'[o] = "claimed"  BY <1>a, <1>5, <4>1 DEF Sole
      <4> QED BY <1>5, <4>2, <4>3, <4>5, <4>6 DEF Sole
    <3>4. hits'[o] > 0  BY <3>1
    <3> QED BY <1>a, <2>2, <3>2, <3>3, <3>4 DEF OpInv, GivenBack
  <2> QED BY <1>1, <2>1, <2>2
<1> QED BY <1>a, <1>2, <1>5, <1>6, <1>7, Elsewhere

LEMMA SettleKeepsOps ==
  ASSUME TypeOK, TypeOK', Forward, \A v \in Workers : WorkerInv(v), \A p \in Ops : OpInv(p),
         NEW w \in Workers, NEW o \in Ops, Settle(w, o)
  PROVE  \A p \in Ops : OpInv(p)'
<1>a. /\ Current(w, o) /\ worker[w].pc = "settle" /\ Holds(w, o)
      /\ UNCHANGED <<hits, lapsed>> /\ Touch(o, worker[w].out) /\ Advance(w, o)
  BY DEF Settle, At, Holds, history
<1>1. /\ worker'[w].pc \in {"report", "claim"}
      /\ \A v \in Workers : v # w => worker'[v] = worker[v]
  BY <1>a, AdvanceMoves
<1>2. /\ worker[w].out \in Terminal
      /\ worker[w].out # "invalid" => GivenBack(o)'
      /\ worker[w].out = "invalid" <=> o \in Invalid
  BY <1>a DEF WorkerInv, Believes, Forward
<1>3. status'[o] = worker[w].out /\ \A p \in Ops : p # o => status'[p] = status[p]
  BY <1>a, <1>2, TouchWrites
<1>4. ASSUME o \notin lapsed PROVE Sole(o)'
  <2>1. Sole(o)  BY <1>4 DEF OpInv
  <2>2. ~Holds(w, o)'  BY <1>1 DEF Holds, At
  <2>3. \A v \in Workers : ~Holds(v, o)'
    BY <1>a, <1>1, <2>1, <2>2, BystanderHolds DEF Sole
  <2>4. status'[o] # "claimed"  BY <1>2, <1>3 DEF Terminal
  <2> QED BY <1>a, <2>1, <2>3, <2>4 DEF Sole, Untouched, Holds
<1>5. OpInv(o)'  BY <1>a, <1>2, <1>3, <1>4 DEF OpInv, Terminal
<1> QED BY <1>a, <1>1, <1>3, <1>5, Elsewhere

(* The fault of a handler: what it had decremented lapses, what it had not   *)
(* is as good as never claimed.                                              *)
LEMMA FaultKeepsOps ==
  ASSUME TypeOK, Forward, NEW w \in Workers, Fault(w), Release(w), \A p \in Ops : OpInv(p)
  PROVE  \A p \in Ops : OpInv(p)'
<1>1. /\ worker'[w].pc = "idle"
      /\ \A v \in Workers : v # w => worker'[v] = worker[v]
  BY ReleaseMoves DEF Idle
<1>2. UNCHANGED <<status, hits>> /\ lapsed \subseteq lapsed'  BY DEF Fault, ledger
<1>3. \A p \in Ops : ~Holds(w, p)' /\ ~Untouched(w, p)'  BY <1>1 DEF Holds, Untouched, At
<1> SUFFICES ASSUME NEW p \in Ops PROVE OpInv(p)'
  OBVIOUS
<1>4. CASE ~Holds(w, p)
  <2>1. \A v \in Workers :
          (Holds(v, p)' <=> Holds(v, p)) /\ (Untouched(v, p)' => Untouched(v, p))
    BY <1>1, <1>3, <1>4, BystanderHolds
  <2> QED BY <1>2, <2>1, OpFrame
<1>5. CASE Holds(w, p) /\ ~Untouched(w, p)
  <2>1. p \in lapsed'  BY <1>5 DEF Fault, Holds, Untouched
  <2> QED BY <1>2, <2>1 DEF OpInv, Forward
<1>6. CASE Holds(w, p) /\ Untouched(w, p)
  <2>1. ASSUME p \notin lapsed' PROVE Sole(p)'
    <3>1. Sole(p)  BY <1>2, <2>1 DEF OpInv
    <3>2. hits[p] = 0  BY <1>6, <3>1 DEF Sole
    <3>3. \A v \in Workers : ~Holds(v, p)'
      BY <1>1, <1>3, <1>6, <3>1, BystanderHolds DEF Sole
    <3> QED BY <1>2, <3>2, <3>3 DEF Sole, Untouched, Holds
  <2> QED BY <1>2, <2>1 DEF OpInv, Forward
<1> QED BY <1>4, <1>5, <1>6

LEMMA NextOps ==
  ASSUME TypeOK, TypeOK', \A v \in Workers : WorkerInv(v), \A p \in Ops : OpInv(p), [Next]_vars
  PROVE  \A p \in Ops : OpInv(p)'
<1> DEFINE Kept == \A p \in Ops : OpInv(p)'
<1>f. Forward  BY NextForward
<1>s. "ack" \in Steps  BY DEF Steps
<1>1. ASSUME NEW w \in Workers, NEW o \in Ops,
             Claim(w, o) \/ TakeOver(w, o) \/ Apply(w, o) \/ Settle(w, o)
      PROVE  Kept
  BY <1>f, <1>1, ClaimKeepsOps, TakeOverKeepsOps, ApplyKeepsOps, SettleKeepsOps
<1>2. ASSUME NEW w \in Workers, Fail(w) \/ Crash(w) PROVE Kept
  <2>1. Fault(w) /\ Release(w)  BY <1>2 DEF Fail, Crash, Requeue
  <2> QED BY <1>f, <2>1, FaultKeepsOps
<1>3. CASE UNCHANGED <<status, hits, lapsed, worker>>
  BY <1>f, <1>3, BystanderHolds, OpFrame
<1>4. ASSUME NEW w \in Workers,
             worker[w].pc \notin {"apply", "settle"}, worker'[w].pc \notin {"apply", "settle"},
             \A v \in Workers : v # w => worker'[v] = worker[v],
             UNCHANGED <<status, hits, lapsed>>
      PROVE  Kept
  BY <1>f, <1>4, HandsOff
<1>5. ASSUME NEW w \in Workers, NEW m \in Messages, Receive(w, m) PROVE Kept
  <2>1. worker'[w].pc = "claim" /\ worker[w].pc = "idle"
    BY <1>5, ReceiveMoves DEF Receive, Idle
  <2> QED BY <1>4, <1>5, <2>1, ReceiveMoves DEF Receive, ledger, history
<1>6. ASSUME NEW w \in Workers, NEW o \in Ops, ReadClaim(w, o) \/ Reread(w, o) PROVE Kept
  <2>1. worker[w].pc \in {"read", "reread"} /\ UNCHANGED <<status, hits, lapsed>>
    BY <1>6 DEF ReadClaim, Reread, At, ledger, history
  <2>2. \/ Advance(w, o) \/ Release(w)
        \/ worker' = [worker EXCEPT ![w].pc = "takeover", ![w].seen = stamp[o]]
    BY <1>6 DEF ReadClaim, Reread, Requeue
  <2>3. CASE Advance(w, o)  BY <1>4, <2>1, <2>3, AdvanceMoves
  <2>4. CASE Release(w)  BY <1>4, <2>1, <2>4, ReleaseMoves DEF Idle
  <2>5. CASE worker' = [worker EXCEPT ![w].pc = "takeover", ![w].seen = stamp[o]]
    <3>1. worker'[w].pc = "takeover"  BY <2>5 DEF TypeOK, Worker
    <3> QED BY <1>4, <2>1, <2>5, <3>1, TakeOverReadMoves
  <2> QED BY <2>2, <2>3, <2>4, <2>5
<1>7. ASSUME NEW w \in Workers, Report(w) PROVE Kept
  BY <1>4, <1>7, <1>s, GotoMoves, GotoFields DEF Report, ledger, history
<1>8. ASSUME NEW w \in Workers, Ack(w) PROVE Kept
  BY <1>4, <1>8, ReleaseMoves DEF Ack, Idle, ledger, history
<1> QED
  BY <1>1, <1>2, <1>3, <1>5, <1>6, <1>7, <1>8
     DEF Next, WorkerStep, Reject, Publish, GoStale, Reference, Unreference, vars, ledger,
         history

-----------------------------------------------------------------------------
(* The counts cover what is owed. *)

LEMMA StoreFrame ==
  ASSUME StoreInv, UNCHANGED <<store, hits>>
  PROVE  StoreInv'
BY DEF StoreInv, WellCounted, Owed, OpsOn, store

(* A decrement takes off the operation's own reference, or it is a second    *)
(* one.                                                                      *)
LEMMA ApplyKeepsStore ==
  ASSUME TypeOK, StoreInv, NEW w \in Workers, NEW o \in Ops, Apply(w, o)
  PROVE  StoreInv'
<1>1. UNCHANGED short  BY DEF Apply, Outcome
<1>2. CASE UNCHANGED <<count, hits>>
  BY <1>1, <1>2, StoreFrame DEF store
<1>3. CASE /\ o \notin Invalid /\ count[BlockOf[o]] > 0
           /\ count' = [count EXCEPT ![BlockOf[o]] = @ - 1]
           /\ hits' = [hits EXCEPT ![o] = @ + 1]
  <2> DEFINE b == BlockOf[o]
  <2>1. b \in Blocks /\ o \in OpsOn(b)  BY <1>3, BlocksAssumption DEF OpsOn
  <2>2. /\ hits'[o] = hits[o] + 1 /\ \A p \in Ops : p # o => hits'[p] = hits[p]
        /\ count'[b] = count[b] - 1 /\ \A c \in Blocks : c # b => count'[c] = count[c]
        /\ \A p \in Ops : hits[p] \in Nat
        /\ count[b] \in Nat
    BY <1>3, <2>1 DEF TypeOK
  <2> SUFFICES ASSUME NEW c \in Blocks, WellCounted(c)'
               PROVE  (Cardinality(Owed(c)) <= count[c])'
    BY DEF StoreInv
  <2>3. WellCounted(c)
    <3>1. \A p \in Ops : hits'[p] <= 1 => hits[p] <= 1  BY <2>2
    <3> QED BY <1>1, <3>1 DEF WellCounted, OpsOn
  <2>4. Cardinality(Owed(c)) <= count[c]  BY <2>3 DEF StoreInv
  <2>5. CASE c # b
    <3>1. o \notin OpsOn(c)  BY <2>5 DEF OpsOn
    <3>2. Owed(c)' = Owed(c)  BY <2>2, <3>1 DEF Owed, OpsOn
    <3> QED BY <2>2, <2>4, <2>5, <3>2
  <2>6. CASE c = b
    <3>1. hits'[o] <= 1  BY <2>1, <2>6 DEF WellCounted, OpsOn
    <3>2. hits[o] = 0  BY <2>1, <2>2, <3>1 DEF OpsOn
    <3>3. o \in Owed(b) /\ Owed(b)' = Owed(b) \ {o}
      BY <2>1, <2>2, <3>2 DEF Owed, OpsOn
    <3>4. IsFiniteSet(Owed(b))  BY OpsAssumption, FS_Subset DEF Owed, OpsOn
    <3>5. Cardinality(Owed(b) \ {o}) = Cardinality(Owed(b)) - 1
      BY <3>3, <3>4, FS_RemoveElement
    <3>6. Cardinality(Owed(b)) \in Nat  BY <3>4, FS_CardinalityType
    <3> QED BY <2>2, <2>4, <2>6, <3>3, <3>5, <3>6
  <2> QED BY <2>5, <2>6
<1> QED BY <1>2, <1>3 DEF Apply

LEMMA OthersKeepStore ==
  ASSUME TypeOK, StoreInv, NEW b \in Blocks, Reference(b) \/ Unreference(b)
  PROVE  StoreInv'
<1>1. \A c \in Blocks : Owed(c)' = Owed(c)
  BY DEF Reference, Unreference, Owed, OpsOn, history
<1>2. \A c \in Blocks : WellCounted(c)' => WellCounted(c)
  BY DEF Reference, Unreference, WellCounted, OpsOn, history
<1>3. \A c \in Blocks : c # b => count'[c] = count[c]
  BY DEF Reference, Unreference, TypeOK
<1>4. IsFiniteSet(Owed(b))  BY OpsAssumption, FS_Subset DEF Owed, OpsOn
<1>5. Cardinality(Owed(b)) \in Nat /\ count[b] \in Nat
  BY <1>4, FS_CardinalityType DEF TypeOK
<1>6. WellCounted(b)' => Cardinality(Owed(b)) <= count'[b]
  <2>1. CASE Reference(b)
    <3>1. count'[b] = count[b] + 1  BY <2>1 DEF Reference, TypeOK
    <3> QED BY <1>2, <1>5, <3>1 DEF StoreInv
  <2>2. CASE Unreference(b)
    <3>1. count'[b] = count[b] - 1  BY <2>2 DEF Unreference, TypeOK
    <3>2. CASE count[b] > Cardinality(Owed(b))  BY <1>5, <3>1, <3>2
    <3>3. CASE b \in short'  BY <3>3 DEF WellCounted
    <3> QED BY <2>2, <3>2, <3>3 DEF Unreference
  <2> QED BY <2>1, <2>2
<1> QED BY <1>1, <1>2, <1>3, <1>6 DEF StoreInv

LEMMA NextStore ==
  ASSUME TypeOK, StoreInv, [Next]_vars
  PROVE  StoreInv'
<1>1. CASE UNCHANGED <<store, hits>>  BY <1>1, StoreFrame
<1>2. ASSUME NEW w \in Workers, NEW o \in Ops, Apply(w, o) PROVE StoreInv'
  BY <1>2, ApplyKeepsStore
<1>3. ASSUME NEW b \in Blocks, Reference(b) \/ Unreference(b) PROVE StoreInv'
  BY <1>3, OthersKeepStore
<1>4. ASSUME NEW w \in Workers, WorkerStep(w), \A o \in Ops : ~Apply(w, o)
      PROVE  UNCHANGED <<store, hits>>
  BY <1>4 DEF WorkerStep, Receive, Reject, Claim, ReadClaim, TakeOver, Reread, Settle, Report,
              Ack, Requeue, history
<1> QED
  BY <1>1, <1>2, <1>3, <1>4
     DEF Next, Publish, Fail, Crash, Fault, GoStale, Requeue, vars, history

-----------------------------------------------------------------------------
(* The theorems. *)

LEMMA InitLedgerInv == Init => LedgerInv
<1> SUFFICES ASSUME Init PROVE LedgerInv
  OBVIOUS
<1>1. \A w \in Workers : worker[w] = Idle /\ worker[w].pc = "idle" /\ worker[w].todo = {}
  BY DEF Init, Idle
<1>2. TypeOK
  <2>1. \A b \in Blocks : Cardinality(OpsOn(b)) \in Nat
    BY OpsAssumption, FS_Subset, FS_CardinalityType DEF OpsOn
  <2> QED BY <2>1, IdleIsWorker, BoundsAssumption DEF Init, TypeOK
<1>3. \A w \in Workers : WorkerInv(w)  BY <1>1 DEF WorkerInv, Current
<1>4. \A o \in Ops : OpInv(o)
  BY <1>1 DEF Init, OpInv, Sole, Holds, Untouched, At, Terminal
<1>5. StoreInv
  <2>1. ASSUME NEW b \in Blocks PROVE Cardinality(Owed(b)) <= count[b]
    <3>1. Owed(b) = OpsOn(b)  BY DEF Init, Owed, OpsOn
    <3>2. IsFiniteSet(OpsOn(b))  BY OpsAssumption, FS_Subset DEF OpsOn
    <3>3. Cardinality(OpsOn(b)) \in Nat  BY <3>2, FS_CardinalityType
    <3> QED BY <3>1, <3>3 DEF Init
  <2> QED BY <2>1 DEF StoreInv
<1> QED BY <1>2, <1>3, <1>4, <1>5 DEF LedgerInv

LEMMA NextLedgerInv == LedgerInv /\ [Next]_vars => LedgerInv'
BY NextType, NextWorkers, NextOps, NextStore DEF LedgerInv

THEOREM LedgerInvariance == Spec => []LedgerInv
BY InitLedgerInv, NextLedgerInv, PTL DEF Spec

(* The ledger rows, the claims and the handlers' variables keep their types, *)
(* whatever is delivered again or overtaken.                                 *)
THEOREM TypeCorrect == Spec => []TypeOK
<1>1. LedgerInv => TypeOK  BY DEF LedgerInv
<1> QED BY <1>1, LedgerInvariance, PTL

(* Whatever deliveries, re-drives, takeovers and faults do to a batch, an    *)
(* operation is decremented a second time only after a holder was cut off or *)
(* overtaken between the decrement and its ledger row.                       *)
THEOREM SecondHit == Spec => []SecondHitIsALapse
<1>1. LedgerInv => SecondHitIsALapse
  <2> SUFFICES ASSUME LedgerInv, NEW o \in Ops, hits[o] > 1, o \notin lapsed PROVE FALSE
    BY DEF SecondHitIsALapse
  <2>1. hits[o] <= 1 /\ hits[o] \in Nat  BY DEF LedgerInv, OpInv, Sole, TypeOK
  <2> QED BY <2>1
<1> QED BY <1>1, LedgerInvariance, PTL

(* An operation is settled without its decrement only on a block whose count *)
(* was too low already: for any job, any faults and whatever the block's     *)
(* other users do to its count meanwhile.                                    *)
THEOREM Truthfulness == Spec => []LedgerIsTruthful
<1>1. LedgerInv => LedgerIsTruthful
  BY DEF LedgerInv, LedgerIsTruthful, OpInv, GivenBack
<1> QED BY <1>1, LedgerInvariance, PTL

(* An operation that has not lapsed has at most one handler between its      *)
(* claim and its ledger row.                                                 *)
THEOREM Exclusiveness == Spec => []ClaimIsExclusive
<1>1. LedgerInv => ClaimIsExclusive  BY DEF LedgerInv, ClaimIsExclusive, OpInv, Sole
<1> QED BY <1>1, LedgerInvariance, PTL

-----------------------------------------------------------------------------
(* Refinement. *)

LEMMA InitRefines == Init => Promise!Init
BY DEF Init, Promise!Init, Terminal

(* What an action of the workers is to the metadata service. *)
LEMMA StepRefines ==
  LedgerInv /\ LedgerInv' /\ [Next]_vars => [Promise!Next]_(Promise!vars)
<1> DEFINE requestedNow == {m.batch : m \in published}
           settledNow == {o \in Ops : status[o] \in Terminal}
<1> SUFFICES ASSUME LedgerInv, LedgerInv', [Next]_vars PROVE [Promise!Next]_(Promise!vars)
  OBVIOUS
<1>t. TypeOK /\ TypeOK'  BY DEF LedgerInv
<1>f. Forward  BY NextForward DEF LedgerInv
<1>1. CASE UNCHANGED <<published, status, reported>>
  BY <1>1 DEF Promise!vars
<1>2. ASSUME NEW m \in Messages, Publish(m) PROVE [Promise!Next]_(Promise!vars)
  <2>1. m.batch \in Batches  BY DEF Messages
  <2>2. requestedNow' = requestedNow \cup {m.batch}  BY <1>2 DEF Publish
  <2>3. UNCHANGED <<settledNow, reported>>  BY <1>2 DEF Publish, ledger
  <2>4. Promise!Request(m.batch)  BY <2>2, <2>3 DEF Promise!Request
  <2> QED BY <2>1, <2>4 DEF Promise!Next
<1>3. ASSUME NEW w \in Workers, NEW o \in Ops, Claim(w, o) \/ TakeOver(w, o)
      PROVE  [Promise!Next]_(Promise!vars)
  <2>1. UNCHANGED <<published, reported>>  BY <1>3 DEF Claim, TakeOver, broker
  <2>2. \/ UNCHANGED status
        \/ status[o] \in {"none", "claimed"} /\ Touch(o, "claimed")
    BY <1>3 DEF Claim, TakeOver, ledger, LedgerInv, WorkerInv, Believes, At
  <2>3. settledNow' = settledNow
    BY <1>t, <2>2, TouchWrites DEF Terminal
  <2> QED BY <2>1, <2>3 DEF Promise!vars
<1>4. ASSUME NEW w \in Workers, NEW o \in Ops, Settle(w, o)
      PROVE  [Promise!Next]_(Promise!vars)
  <2>1. /\ UNCHANGED <<published, reported>> /\ Touch(o, worker[w].out)
        /\ At(w, "settle", o)
    BY <1>4 DEF Settle, broker
  <2>2. worker[w].out \in Terminal  BY <2>1 DEF LedgerInv, WorkerInv, Believes, At
  <2>3. settledNow' = settledNow \cup {o}  BY <1>t, <2>1, <2>2, TouchWrites
  <2>4. BatchOf[o] \in requestedNow
    <3>1. worker[w].pc = "settle" /\ o \in worker[w].todo  BY <2>1 DEF At, Current
    <3>2. worker[w].msg \in published /\ worker[w].todo \subseteq OpsOf(worker[w].msg.batch)
      BY <3>1 DEF LedgerInv, WorkerInv
    <3> QED BY <3>1, <3>2 DEF OpsOf
  <2>5. Promise!Settle(o)  BY <2>1, <2>3, <2>4 DEF Promise!Settle
  <2> QED BY <2>5 DEF Promise!Next
<1>5. ASSUME NEW w \in Workers, Report(w) PROVE [Promise!Next]_(Promise!vars)
  <2> DEFINE b == worker[w].msg.batch
  <2>1. /\ worker[w].pc = "report" /\ reported' = reported \cup {b}
        /\ UNCHANGED <<published, status>>
    BY <1>5 DEF Report, broker, ledger
  <2>2. worker[w].msg \in published /\ worker[w].todo = {} /\ OpsOf(b) # {}
        /\ OpsOf(b) \ worker[w].todo \subseteq Settled
    BY <2>1 DEF LedgerInv, WorkerInv
  <2>3. b \in Batches /\ b \in requestedNow  BY <1>t, <2>2 DEF TypeOK, Messages
  <2>4. Promise!OpsOf(b) = OpsOf(b)  BY DEF Promise!OpsOf, OpsOf
  <2>5. Promise!OpsOf(b) \subseteq settledNow /\ Promise!OpsOf(b) # {}
    BY <2>2, <2>4 DEF Settled
  <2>6. Promise!Report(b)  BY <2>1, <2>3, <2>5 DEF Promise!Report
  <2> QED BY <2>3, <2>6 DEF Promise!Next
<1>6. ASSUME NEW w \in Workers,
             \/ \E m \in Messages : Receive(w, m) \/ Reject(w, m)
             \/ \E o \in Ops : ReadClaim(w, o) \/ Reread(w, o) \/ Apply(w, o)
             \/ Ack(w) \/ Fail(w) \/ Crash(w)
      PROVE  UNCHANGED <<published, status, reported>>
  BY <1>6 DEF Receive, Reject, ReadClaim, Reread, Apply, Outcome, Ack, Requeue, Fail, Crash, Fault,
              broker, ledger
<1>7. ASSUME \/ \E o \in Ops : GoStale(o)
             \/ \E b \in Blocks : Reference(b) \/ Unreference(b)
             \/ UNCHANGED vars
      PROVE  UNCHANGED <<published, status, reported>>
  BY <1>7 DEF GoStale, Reference, Unreference, vars, broker, ledger
<1> HIDE DEF requestedNow, settledNow
<1> QED BY <1>1, <1>2, <1>3, <1>4, <1>5, <1>6, <1>7 DEF Next, WorkerStep

(* The ledger keeps the promise the purge saga relies on: a completion only  *)
(* for a batch that was asked for and whose every operation is settled.      *)
THEOREM Refinement == Spec => KeepsPromise
<1>1. Init => Promise!Init  BY InitRefines
<1>2. LedgerInv /\ LedgerInv' /\ [Next]_vars => [Promise!Next]_(Promise!vars)
  BY StepRefines
<1> QED BY <1>1, <1>2, LedgerInvariance, PTL DEF Spec, KeepsPromise, Promise!Spec

=============================================================================
