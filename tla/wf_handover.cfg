\* One task passes between two workers; the process stops, dies, writes fail.
SPECIFICATION Spec
CONSTANTS
  Tasks = {t1}
  Workers = {w1, w2}
  a1 = a1
  a2 = a2
  a3 = a3
  Agents = {a1, a2}
  NoTask = NoTask
  NoWorker = NoWorker
  NoAgent = NoAgent
  LeaseTicks = 1
  MaxNow = 0
  MaxRuns = 3
  MaxAttempts = 3
  RunIds = {1, 2, 3}
  Reviewed = {t1}
  Verified = {t1}
  Presets = {{}}
  Capable = {a1, a2}
  RolesOf <- AllRoles
  Pools <- AnyAgent
  Disturbances = {"stop", "crash", "early", "raise", "giveup", "lost"}
SYMMETRY Symmetry
INVARIANTS OneOpenRun
PROPERTIES QueueSpec KeepsContract TerminalIsFinal ExclusionsGrow
