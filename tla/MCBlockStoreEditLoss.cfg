CONSTANTS
  Blocks = {b1}
  Clients = {c1, c2}
  Reapers = {r1}
  Ops = {"stage", "commit"}
  MaxRefs = 1
  CASAttempts = 2
  Faults = "none"
  Token <- ScanOrder
  SweepLimit = 1
  PatientGrace = TRUE
  NoBlock = NoBlock
SPECIFICATION Spec
INVARIANT OwnedBytesArePresent
