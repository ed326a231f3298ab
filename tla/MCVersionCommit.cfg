CONSTANTS
  Editors = {e1}
  Requests = {r1, r2}
  Contents = {1}
  MaxVersion = 2
  MaxFaults = 1
SPECIFICATION FairVersionSpec
PROPERTIES
  WonVersionIsReached
CHECK_DEADLOCK FALSE
