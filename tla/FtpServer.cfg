\* Five sessions: some are dropped by failed starts, the others accepted.
SPECIFICATION FairSpec
CONSTANTS
  MaxSessions = 5
  MaxBacklog = 2
CHECK_DEADLOCK FALSE
INVARIANTS
  TypeOK
  CountBalanced
  OneAcceptLoop
PROPERTY ClientsServed
