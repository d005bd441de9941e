\* Three of: two PASVs, one transfer of any kind, QUITs.
SPECIFICATION WaitingSpec
CONSTANTS
  MaxCommands = 3
  MaxTransfers = 1
  MaxPasv = 2
  MaxBacklog = 1
INVARIANT NothingOwed
PROPERTIES ControlSpec DataSpec GoneDestroysSession
CHECK_DEADLOCK FALSE
