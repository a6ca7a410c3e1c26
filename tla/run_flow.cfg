\* One run of either role with up to two commands, and everything that may happen to it.
SPECIFICATION PacedSpec
CONSTANTS
  Deaf = {TRUE, FALSE}
  MaxCommands = 2
CHECK_DEADLOCK FALSE
PROPERTIES WorkflowHasIt
