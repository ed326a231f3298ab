------------------------------ MODULE MCClients ------------------------------
(* Clients on a small instance.  An upload session is there once with two    *)
(* references taken for a chunk and once with other bytes sent for it and a  *)
(* chunk past the end; consolidation once with a reader and a fault, once    *)
(* with two sweeps.                                                          *)
EXTENDS Clients

(* The session of a behaviour about another part stays as it began.         *)
Seen == IF part = "native" THEN <<part, vars>> ELSE <<part, slots>>

(* Changes are undone in the first document, with the panels that bear on    *)
(* them: the mode's own, the redactions, none.                              *)
UndoesInTheFirst ==
  part = "pdf tools" /\ x12 # Docs!NoHistory
    => x5 = 1 /\ x3 \in {"none", "redactions", Docs!DefaultPanel[x1]}

MCReceiveHashes == <<{1}, {1}>>
MCOtherHashes == <<{1, 2}, {1}>>
MCTrashListing == <<"f", "d", "g">>
=============================================================================
