\* One run of version 0 or of either role of version 1 with up to two commands, and everything that may happen to it.
SPECIFICATION FairSessionSpec
CONSTANTS
  Deaf = {FALSE}
  MaxCommands = 2
CHECK_DEADLOCK FALSE
INVARIANTS RunTypeOK SuccessIsEarned NothingLeft InterruptedIsCancelled AnswerTellsStatus AgentAnswersFirst LogTellsAnswer ReferencesAreMet EndedRunIsWhole ForkedOnItsBase
PROPERTIES EveryRunAnswers
