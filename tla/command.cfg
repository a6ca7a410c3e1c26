\* Two tasks of this invocation, one of an earlier one, and the two workers of a batch.
SPECIFICATION FairSpec
CONSTANTS
  t1 = t1
  t2 = t2
  t3 = t3
  w1 = w1
  w2 = w2
  Own = {t1, t2}
  Others = {t3}
  Workers = {w1, w2}
  NoTask = NoTask
CHECK_DEADLOCK FALSE
INVARIANTS CommandTypeOK ExitTellsTable ConnectionsOutliveWorkers LeavesNothingBehind
PROPERTIES RemovesOnlyFinished SigintEnds
