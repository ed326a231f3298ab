SPECIFICATION Spec
CONSTANTS
  Batches = {1, 2}
  Requesters = {r1}
  Handlers = {h1}
  Sweepers = {s1}
  MaxAttempts = 2
  Faults = "always"
  NoBatch = NoBatch
  NoPlace = NoPlace
  Users = {u1}
  Places = {here, there}
  Home = here
SYMMETRY Alike
INVARIANTS TypeOK RemovalIsEarned  UnfinishedIsListed 
CONSTRAINT OneBlame
CHECK_DEADLOCK FALSE
