\* A start after a stop.
SPECIFICATION FairSpec
CONSTANTS
  MaxSessions = 5
  MaxBacklog = 2
CHECK_DEADLOCK FALSE
PROPERTY StartedServes
