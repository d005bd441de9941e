\* A client that sends up to three commands, back to back or one by one.
SPECIFICATION FairSpec
CONSTANT MaxCommands = 3
CHECK_DEADLOCK FALSE
INVARIANTS
  OneWrite
  RepliesInOrder
  OneRead
  ConnectionGoesOn
PROPERTIES
  StreamSpec
  RepliesSent
  QuitCloses
