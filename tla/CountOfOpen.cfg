\* The count through failed starts and closed connections.
SPECIFICATION Spec
CONSTANTS
  MaxSessions = 5
  MaxBacklog = 2
CHECK_DEADLOCK FALSE
INVARIANT CountOfOpen
