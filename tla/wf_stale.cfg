\* The two workers of a batch and a review that asks for changes.
SPECIFICATION Spec
CONSTANTS
  Tasks = {t1}
  Workers = {w1, w2}
  a1 = a1
  a2 = a2
  a3 = a3
  Agents = {a1, a2, a3}
  NoTask = NoTask
  NoWorker = NoWorker
  NoAgent = NoAgent
  LeaseTicks = 1
  MaxNow = 0
  MaxRuns = 3
  MaxAttempts = 3
  RunIds = {1, 2, 3}
  Reviewed = {t1}
  Verified = {}
  Presets = {{}}
  Capable = {a1, a2, a3}
  RolesOf <- AllRoles
  Pools <- AnyAgent
  Disturbances = {}
INVARIANTS ExcludedNeverReconsidered
