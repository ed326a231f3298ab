--------------------------- MODULE MCDecrefLedger ---------------------------
(* A batch of two operations on one block, a batch with a malformed          *)
(* operation, and the batch of an empty file.                                *)
EXTENDS DecrefLedger

MCBatchOf == [o \in Ops |-> IF o \in Invalid THEN 2 ELSE 1]
MCBlockOf == [o \in Ops \ Invalid |-> CHOOSE b \in Blocks : TRUE]
MCRedrives == [b \in Batches |-> IF b = 1 THEN 1 ELSE 0]

=============================================================================
