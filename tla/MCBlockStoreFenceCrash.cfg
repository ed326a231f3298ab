CONSTANTS
  Blocks = {b1}
  Clients = {c1}
  Reapers = {r1}
  Ops = {"stage"}
  MaxRefs = 1
  CASAttempts = 2
  Faults = "cease"
  Token <- ScanOrder
  SweepLimit = 1
  PatientGrace = TRUE
  NoBlock = NoBlock
SPECIFICATION FairSpec
PROPERTY FencedIsReaped
