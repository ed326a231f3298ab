---------------------------- MODULE MCBlockStore ----------------------------
(* BlockStore on small instances: the symmetry of the sets of model values, *)
(* and some order of the blocks for the scan.                                *)
EXTENDS BlockStore, TLC

ActorSymmetry == Permutations(Clients) \cup Permutations(Reapers)

ScanOrder ==
  CHOOSE t \in [Blocks -> 1..Cardinality(Blocks)] :
    \A a, b \in Blocks : a # b => t[a] # t[b]

=============================================================================
