\* The worker of a single run, whose agents need never answer, and a task that starts with an exclusion.
SPECIFICATION TrailStopSpec
CONSTANTS
  Tasks = {t1}
  Workers = {w1}
  a1 = a1
  a2 = a2
  a3 = a3
  Agents = {a1, a2, a3}
  NoTask = NoTask
  NoWorker = NoWorker
  NoAgent = NoAgent
  LeaseTicks = 1
  MaxNow = 0
  MaxRuns = 3
  MaxAttempts = 3
  RunIds = {1, 2, 3}
  Reviewed = {t1}
  Verified = {t1}
  Presets = {{a1}}
  Capable = {a1, a2, a3}
  RolesOf <- AllRoles
  Pools <- AnyAgent
  Disturbances = {"stop", "crash", "early", "giveup", "late", "cancel"}
  Watched = {"run.completed", "review.completed", "task.completed", "task.failed", "task.awaiting_human"}
INVARIANTS WorkflowTypeOK RunsWithinBudget ReviewsLatestDiff AcceptedOnLastRun ExcludedNeverReconsidered AnnouncedIsFinal AcceptanceOnRecord
PROPERTIES StopCompletes
