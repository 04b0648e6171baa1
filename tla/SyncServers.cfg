SPECIFICATION Spec
CONSTANTS
  MaxSessions = 2
  MaxStops = 2
INVARIANT ServersStopped
CHECK_DEADLOCK FALSE
