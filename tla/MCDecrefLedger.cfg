SPECIFICATION FairSpec
CONSTANTS
  Batches = {1, 2, 3}
  MaxBatches = 1
  Ops = {0, 1, 2}
  BatchOf <- MCBatchOf
  Invalid = {2}
  Blocks = {b1}
  BlockOf <- MCBlockOf
  MaxRefs = 2
  Workers = {w1, w2}
  Redrives <- MCRedrives
  MaxDeliver = 3
  MaxFaults = 1
  PromptWorkers = TRUE
  NoMsg = NoMsg
INVARIANTS TypeOK SecondHitIsALapse LedgerIsTruthful ClaimIsExclusive
PROPERTIES KeepsPromise RequestedIsReported
CHECK_DEADLOCK FALSE
