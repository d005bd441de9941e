CONSTANTS
  MaxCommands = 3
SPECIFICATION Spec
INVARIANT QuitAnswered
CHECK_DEADLOCK FALSE
