--------------------------- MODULE BlockLifecycle ---------------------------
(***************************************************************************)
(* What the block table promises to the rest of the system, without any of *)
(* the processes that keep the promise: a content-addressed block is       *)
(* created, counted up and down while it is live, condemned only while     *)
(* nobody counts on it, and only then loses its bytes and its row.         *)
(*                                                                         *)
(* BlockStore is the detailed specification; it implements this one.       *)
(***************************************************************************)
EXTENDS Naturals

CONSTANT Blocks

VARIABLES
  state,   \* where each block is in its life
  ref,     \* its ref_count column (0 when there is no row)
  object   \* whether its bytes are in the storage backend

vars == <<state, ref, object>>

States == {"absent", "active", "deleting"}

Init ==
  /\ state = [b \in Blocks |-> "absent"]
  /\ ref = [b \in Blocks |-> 0]
  /\ object = [b \in Blocks |-> FALSE]

(* A writer may store the bytes of any block at any time. *)
Write(b) ==
  /\ object' = [object EXCEPT ![b] = TRUE]
  /\ UNCHANGED <<state, ref>>

(* A row is born with no reference (a staged block) or with one. *)
Create(b, n) ==
  /\ state[b] = "absent"
  /\ n \in {0, 1}
  /\ state' = [state EXCEPT ![b] = "active"]
  /\ ref' = [ref EXCEPT ![b] = n]
  /\ UNCHANGED object

Grant(b) ==
  /\ state[b] = "active"
  /\ ref' = [ref EXCEPT ![b] = @ + 1]
  /\ UNCHANGED <<state, object>>

Release(b) ==
  /\ state[b] = "active"
  /\ ref[b] > 0
  /\ ref' = [ref EXCEPT ![b] = @ - 1]
  /\ UNCHANGED <<state, object>>

(* The point of no return, open only while the count is zero. *)
Condemn(b) ==
  /\ state[b] = "active"
  /\ ref[b] = 0
  /\ state' = [state EXCEPT ![b] = "deleting"]
  /\ UNCHANGED <<ref, object>>

Erase(b) ==
  /\ state[b] = "deleting"
  /\ ref[b] = 0
  /\ object' = [object EXCEPT ![b] = FALSE]
  /\ UNCHANGED <<state, ref>>

Strike(b) ==
  /\ state[b] = "deleting"
  /\ ref[b] = 0
  /\ state' = [state EXCEPT ![b] = "absent"]
  /\ UNCHANGED <<ref, object>>

Next ==
  \E b \in Blocks :
    \/ Write(b)
    \/ \E n \in {0, 1} : Create(b, n)
    \/ Grant(b)
    \/ Release(b)
    \/ Condemn(b)
    \/ Erase(b)
    \/ Strike(b)

Spec == Init /\ [][Next]_vars

=============================================================================
