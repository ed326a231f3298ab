CONSTANTS
  Blocks = {b1}
  Clients = {c1, c2}
  Reapers = {r1, r2}
  Ops = {"chunk", "stage", "commit", "drop"}
  MaxRefs = 1
  CASAttempts = 2
  Faults = "always"
  Token <- ScanOrder
  SweepLimit = 1
  PatientGrace = FALSE
  NoBlock = NoBlock
SPECIFICATION Spec
SYMMETRY ActorSymmetry
INVARIANT TypeOK
INVARIANT FencedIsUnreferenced
INVARIANT ReaperOwnsFence
INVARIANT OwnersAreCounted
INVARIANT LiveRowHasBytes
INVARIANT LossIsExplained
INVARIANT UnreferencedIsListed
PROPERTY ReapedOnlyWhenFenced
PROPERTY ImplementsLifecycle
CHECK_DEADLOCK TRUE
