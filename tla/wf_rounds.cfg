\* Three agents and two rounds of review, with SIGINT and restarts in between, and leases that run out.
SPECIFICATION Spec
CONSTANTS
  Tasks = {t1}
  Workers = {w1, w2}
  a1 = a1
  a2 = a2
  a3 = a3
  Agents = {a1, a2, a3}
  NoTask = NoTask
  NoWorker = NoWorker
  NoAgent = NoAgent
  LeaseTicks = 1
  MaxNow = 2
  MaxRuns = 4
  MaxAttempts = 4
  RunIds = {1, 2, 3, 4}
  Reviewed = {t1}
  Verified = {t1}
  Presets = {{}}
  Capable = {a1, a2, a3}
  RolesOf <- AllRoles
  Pools <- AnyAgent
  Disturbances = {"stop"}
SYMMETRY Symmetry
INVARIANTS HolderOwnsRow RetryCarriesHandoff CleanShutdown
