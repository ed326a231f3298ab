SPECIFICATION ConsolidationSpec
CONSTANTS
  Workers = {w1}
  Tickets = {0}
  Parked = {}
  LastVersion = 2
  MaxAttempts = 2
  MaxFailures = 1
INVARIANTS NeverServedStale
CHECK_DEADLOCK FALSE
