\* A reviewed task and an unreviewed, verified one, one agent that cannot implement, and errors after the charge.
SPECIFICATION FairSpec
CONSTANTS
  Tasks = {t1, t2}
  Workers = {w1}
  a1 = a1
  a2 = a2
  a3 = a3
  Agents = {a1, a2}
  NoTask = NoTask
  NoWorker = NoWorker
  NoAgent = NoAgent
  LeaseTicks = 1
  MaxNow = 0
  MaxRuns = 2
  MaxAttempts = 2
  RunIds = {1, 2}
  Reviewed = {t1}
  Verified = {t2}
  Presets = {{}}
  Capable = {a1, a2}
  RolesOf <- OneCoder
  Pools <- AnyAgent
  Disturbances = {"raise", "giveup"}
PROPERTIES EveryTaskSettles
