SPECIFICATION Spec
CONSTANTS
  Batches = {1}
  Requesters = {r1}
  Handlers = {h1}
  Sweepers = {s1}
  MaxAttempts = 2
  Faults = "none"
  NoBatch = NoBatch
  NoPlace = NoPlace
  Users = {u1}
  Places = {here}
  Home = here
PROPERTIES OnlyTrashIsDestroyed
CHECK_DEADLOCK FALSE
