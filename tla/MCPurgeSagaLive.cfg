SPECIFICATION FairSpec
CONSTANTS
  Batches = {1}
  Requesters = {r1}
  Handlers = {h1}
  Sweepers = {s1}
  MaxAttempts = 3
  Faults = "cease"
  NoBatch = NoBatch
  NoPlace = NoPlace
  Users = {}
  Places = {here}
  Home = here
PROPERTIES ListedIsFinished
CHECK_DEADLOCK FALSE
