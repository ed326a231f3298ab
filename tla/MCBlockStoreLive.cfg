CONSTANTS
  Blocks = {b1, b2}
  Clients = {c1}
  Reapers = {r1}
  Ops = {"stage"}
  MaxRefs = 1
  CASAttempts = 2
  Faults = "cease"
  Token <- ScanOrder
  SweepLimit = 1
  PatientGrace = FALSE
  NoBlock = NoBlock
SPECIFICATION FairSpec
PROPERTY EligibleIsFenced
