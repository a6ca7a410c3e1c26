\* An agent that ignores SIGTERM.
SPECIFICATION FairSpec
CONSTANTS
  Deaf = {TRUE, FALSE}
  MaxCommands = 0
CHECK_DEADLOCK FALSE
PROPERTIES TimeoutEndsAgent
