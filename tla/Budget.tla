------------------------------- MODULE Budget -------------------------------
(***************************************************************************)
(* The budget of one task: its row (SqliteBudgetStore) and the warnings    *)
(* about it (DefaultBudgetManager, one for each worker).                   *)
(*                                                                         *)
(* What an axis has used and its cap are whole numbers of some unit.  Caps *)
(* are positive (WorkOrderV1Schema).                                       *)
(***************************************************************************)
EXTENDS Integers, Sequences

CONSTANTS Workers, Caps

Axes == {"runs", "wall_time_ms", "cost_units"}

ASSUME BudgetAssumption == Caps \in [Axes -> Nat \ {0}]

VARIABLES budget,   \* the row of task_budget
          emitted,  \* the warnings a worker's manager holds for given
          quotaLog  \* quota.low and quota.exhausted of the task, in order

budgetVars == <<budget, emitted, quotaLog>>

Warnings == {"low", "exhausted"}
Levels   == {"absent", "ok", "soft_warning", "exhausted"}

BudgetTypeOK ==
  /\ budget \in [used : [Axes -> Nat], status : Levels]
  /\ emitted \in [Workers -> SUBSET Warnings]
  /\ quotaLog \in Seq([kind : Warnings, axis : Axes])

NoBudget == [used |-> [x \in Axes |-> 0], status |-> "absent"]

BudgetInit ==
  /\ budget = NoBudget
  /\ emitted = [w \in Workers |-> {}]
  /\ quotaLog = <<>>
-----------------------------------------------------------------------------
(* A definition named X_Y is X with the bug Y, and nothing uses it. *)

\* computeStatus()
StatusOf(used) ==
  IF \E x \in Axes : used[x] >= Caps[x] THEN "exhausted"
  ELSE IF \E x \in Axes : 5 * used[x] >= 4 * Caps[x] THEN "soft_warning"
  ELSE "ok"

Row(used) == [used |-> used, status |-> StatusOf(used)]

\* The store's init() leaves a row alone that is there.
Opened(b) == IF b.status = "absent" THEN [b EXCEPT !.status = "ok"] ELSE b

Charged(b) == Row([b.used EXCEPT !["runs"] = @ + 1])

Spent(b, wall, cost) ==
  Row([b.used EXCEPT !["wall_time_ms"] = @ + wall, !["cost_units"] = @ + cost])

\* Each side of >= is the other's ratio by the product of both caps.
Fuller(used, x, y) == used[x] * Caps[y] >= used[y] * Caps[x]

\* The first of the three that differs decides.
PickAxis_RunsFirst(used) ==
  IF Fuller(used, "runs", "wall_time_ms") THEN "runs"
  ELSE IF Fuller(used, "wall_time_ms", "cost_units") THEN "wall_time_ms"
  ELSE "cost_units"

PickAxis(used) ==
  IF Fuller(used, "runs", "wall_time_ms") /\ Fuller(used, "runs", "cost_units")
    THEN "runs"
  ELSE IF Fuller(used, "wall_time_ms", "cost_units") THEN "wall_time_ms"
  ELSE "cost_units"

\* Both warnings count as given once there is one.
Synced_Both(b) == IF b.status \in {"soft_warning", "exhausted"} THEN Warnings ELSE {}

\* syncEmitted()
Synced(b) ==
  CASE b.status = "soft_warning" -> {"low"}
    [] b.status = "exhausted"    -> Warnings
    [] OTHER                     -> {}

\* A status gives its warning as long as it lasts.
Due_EveryTime(before, after, known) ==
  CASE after.status = "soft_warning" -> {"low"}
    [] after.status = "exhausted"    -> {"exhausted"}
    [] OTHER                         -> {}

\* emitTransitionEvents(): from ok straight to exhausted there is no quota.low.
Due(before, after, known) ==
  (CASE before.status = "ok" /\ after.status = "soft_warning" -> {"low"}
     [] before.status \in {"ok", "soft_warning"} /\ after.status = "exhausted" -> {"exhausted"}
     [] OTHER -> {}) \ known

\* The row is written before its warning, which may fail: then the manager does
\* not hold it for given, and the caller gets an exception.
Update(w, before, known, after) ==
  LET due == Due(before, after, known) IN
  /\ budget' = after
  /\ quotaLog' = IF due = {} THEN quotaLog
                 ELSE Append(quotaLog, [kind |-> CHOOSE k \in due : TRUE,
                                        axis |-> PickAxis(after.used)])
  /\ emitted' = [emitted EXCEPT ![w] = known \cup due]

UpdateUntold(w, before, known, after) ==
  /\ Due(before, after, known) # {}
  /\ budget' = after
  /\ emitted' = [emitted EXCEPT ![w] = known]
  /\ UNCHANGED quotaLog

\* init() of the manager of w, with nothing after it.
OpenBudget(w) ==
  /\ budget' = Opened(budget)
  /\ emitted' = [emitted EXCEPT ![w] = @ \cup Synced(Opened(budget))]
  /\ UNCHANGED quotaLog

\* preLaunch() after init(), and postRun()
OpenedBy(w) == emitted[w] \cup Synced(Opened(budget))

PreLaunch(w)       == Update(w, Opened(budget), OpenedBy(w), Charged(Opened(budget)))
PreLaunchUntold(w) == UpdateUntold(w, Opened(budget), OpenedBy(w), Charged(Opened(budget)))

PostRun(w, wall, cost)       == Update(w, budget, emitted[w], Spent(budget, wall, cost))
PostRunUntold(w, wall, cost) == UpdateUntold(w, budget, emitted[w], Spent(budget, wall, cost))
=============================================================================
