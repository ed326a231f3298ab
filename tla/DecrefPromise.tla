--------------------------- MODULE DecrefPromise ---------------------------
(***************************************************************************)
(* What the metadata service may rely on when it asks the upload service   *)
(* to give references back (blocks.v2.decref.requested): a batch that is   *)
(* reported complete was asked for, is not empty, and has every one of its *)
(* operations settled in the ledger.  Nothing is promised about when.      *)
(*                                                                         *)
(* DecrefLedger implements it; PurgeSaga relies on it.                     *)
(***************************************************************************)

CONSTANTS
  Batches,  \* batches of all purge jobs
  Ops,      \* operations, one per reference to give back
  BatchOf   \* the batch of each operation

VARIABLES
  requested,  \* batches asked for
  settled,    \* operations that need no further work
  reported    \* batches reported complete

vars == <<requested, settled, reported>>

OpsOf(b) == {o \in Ops : BatchOf[o] = b}

Init == requested = {} /\ settled = {} /\ reported = {}

(* Asking again for a batch is harmless. *)
Request(b) ==
  /\ requested' = requested \cup {b}
  /\ UNCHANGED <<settled, reported>>

Settle(o) ==
  /\ BatchOf[o] \in requested
  /\ settled' = settled \cup {o}
  /\ UNCHANGED <<requested, reported>>

(* A batch without operations is refused and never reported. *)
Report(b) ==
  /\ b \in requested
  /\ OpsOf(b) # {}
  /\ OpsOf(b) \subseteq settled
  /\ reported' = reported \cup {b}
  /\ UNCHANGED <<requested, settled>>

Next ==
  \/ \E b \in Batches : Request(b) \/ Report(b)
  \/ \E o \in Ops : Settle(o)

Spec == Init /\ [][Next]_vars

=============================================================================
