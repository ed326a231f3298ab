---------------------------- MODULE MCPurgeSaga ----------------------------
(* One job; the configurations give it batches, requests, deliveries and     *)
(* sweepers.                                                                 *)
EXTENDS PurgeSaga, TLC

(* Sound for the invariants: nothing tells the sweepers, or the requests,    *)
(* apart.                                                                    *)
Alike == Permutations(Sweepers) \cup Permutations(Requesters) \cup Permutations(Users)

(* Behaviours in which at most one of Blames has happened, a second one only *)
(* excuses more, and never "overdue": it keeps sweepers from waking, which   *)
(* they need not do anyway.                                                  *)
OneBlame == Cardinality(blame) <= 1 /\ "overdue" \notin blame

=============================================================================
