\* A holder dies: what the contracts say of its lease, against the claim query.
SPECIFICATION QueueSpec
CONSTANTS
  Tasks = {t1}
  Workers = {w1, w2}
  Agents = {a1}
  NoTask = NoTask
  NoWorker = NoWorker
  NoAgent = NoAgent
  LeaseTicks = 1
  MaxNow = 2
  MaxAttempts = 1
  RunIds = {}
INVARIANTS ExpiredLeaseReclaimable
