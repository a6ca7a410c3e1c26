\* One row, everything that is ever written to it, and leases that run out while its holder works.
SPECIFICATION QueueSpec
CONSTANTS
  Tasks = {t1}
  Workers = {w1, w2, w3}
  Agents = {a1, a2}
  NoTask = NoTask
  NoWorker = NoWorker
  NoAgent = NoAgent
  LeaseTicks = 1
  MaxNow = 2
  MaxAttempts = 2
  RunIds = {1}
SYMMETRY Symmetry
INVARIANTS HolderOwnsRow
PROPERTIES TerminalIsFinal ExclusionsGrow
