\* A budget of two runs, and one worker.
SPECIFICATION Spec
CONSTANTS
  a1 = a1
  a2 = a2
  w1 = w1
  w2 = w2
  Agents = {a1, a2}
  NoAgent = NoAgent
  Workers = {w1}
  NoWorker = NoWorker
  Roles = {"implementer", "reviewer"}
  Capable = {a1, a2}
  RolesOf <- SomeRoles
  Pools <- SomePools
  Caps <- SomeCaps
  Costs <- SomeCosts
  Name <- SomeNames
  Window = 5
  LatencyCap = 10
  Entries <- SomeEntries
PROPERTIES LowIsTold
