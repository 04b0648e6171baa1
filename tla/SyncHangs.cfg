SPECIFICATION LiveSpec
CONSTANTS
  MaxSessions = 2
  MaxStops = 2
PROPERTY CallsReturn
CHECK_DEADLOCK FALSE
