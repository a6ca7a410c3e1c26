\* The event after a release cannot be written.
SPECIFICATION TrailSpec
CONSTANTS
  Tasks = {t1}
  Workers = {w1}
  a1 = a1
  a2 = a2
  a3 = a3
  Agents = {a1, a2}
  NoTask = NoTask
  NoWorker = NoWorker
  NoAgent = NoAgent
  LeaseTicks = 1
  MaxNow = 0
  MaxRuns = 2
  MaxAttempts = 2
  RunIds = {1, 2}
  Reviewed = {t1}
  Verified = {}
  Presets = {{}}
  Capable = {a1, a2}
  RolesOf <- AllRoles
  Pools <- AnyAgent
  Disturbances = {"late"}
  Watched = {}
PROPERTIES TerminalIsFinal
