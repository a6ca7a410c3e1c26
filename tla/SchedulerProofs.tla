-------------------------- MODULE SchedulerProofs --------------------------
(***************************************************************************)
(* Proofs about decide(), what it is asked with and how it ranks, for any  *)
(* workers, agents, profiles, pools, caps and metrics.                     *)
(***************************************************************************)
EXTENDS AgentRanking, FiniteSetTheorems, WellFoundedInduction, TLAPS

(* A budget and its warnings. *)

\* A budget that is there has the status of what is used; a manager holds only
\* warnings for given that the status calls for; and the log has only those.
BudgetInv ==
  /\ BudgetTypeOK
  /\ budget.status = "absent" => budget = NoBudget
  /\ budget.status # "absent" => budget.status = StatusOf(budget.used)
  /\ \A w \in Workers :
       /\ "low" \in emitted[w] => budget.status \in {"soft_warning", "exhausted"}
       /\ "exhausted" \in emitted[w] => budget.status = "exhausted"
  /\ budget.status \in {"absent", "ok"} => quotaLog = <<>>
  /\ budget.status = "soft_warning" =>
       quotaLog = <<>> \/ (Len(quotaLog) = 1 /\ quotaLog[1].kind = "low")
  /\ budget.status = "exhausted" =>
       \/ Len(quotaLog) <= 1
       \/ Len(quotaLog) = 2 /\ quotaLog[1].kind = "low" /\ quotaLog[2].kind = "exhausted"

LEMMA StatusOfType ==
  ASSUME NEW used \in [Axes -> Nat]
  PROVE  StatusOf(used) \in {"ok", "soft_warning", "exhausted"}
BY DEF StatusOf

\* The more is used, the worse the status (computeStatus()).
LEMMA StatusWorsens ==
  ASSUME NEW u \in [Axes -> Nat], NEW v \in [Axes -> Nat], \A x \in Axes : v[x] >= u[x]
  PROVE  /\ StatusOf(u) = "exhausted" => StatusOf(v) = "exhausted"
         /\ StatusOf(u) = "soft_warning" => StatusOf(v) \in {"soft_warning", "exhausted"}
<1>1. \A x \in Axes : Caps[x] \in Nat
  BY BudgetAssumption
<1>2. (\E x \in Axes : u[x] >= Caps[x]) => \E x \in Axes : v[x] >= Caps[x]
  BY <1>1
<1>3. (\E x \in Axes : 5 * u[x] >= 4 * Caps[x]) => \E x \in Axes : 5 * v[x] >= 4 * Caps[x]
  BY <1>1
<1> QED
  BY <1>2, <1>3 DEF StatusOf

\* A budget nobody has used is ok, since caps are positive.
LEMMA FreshIsOk == StatusOf(NoBudget.used) = "ok"
<1>1. \A x \in Axes : NoBudget.used[x] = 0 /\ Caps[x] \in Nat /\ Caps[x] > 0
  BY BudgetAssumption DEF NoBudget
<1> QED
  BY <1>1 DEF StatusOf

\* init() of the store keeps what is used and gives a new row the status ok.
LEMMA OpenedIsRow ==
  ASSUME BudgetInv
  PROVE  /\ Opened(budget) = Row(budget.used)
         /\ budget.used \in [Axes -> Nat]
         /\ Opened(budget).used = budget.used
         /\ budget.status # "absent" => Opened(budget) = budget
         /\ budget.status = "absent" => Opened(budget).status = "ok"
<1>1. budget.used \in [Axes -> Nat] /\ budget = [used |-> budget.used, status |-> budget.status]
  BY DEF BudgetInv, BudgetTypeOK
<1>2. CASE budget.status = "absent"
  <2>1. StatusOf(budget.used) = "ok"
    BY <1>2, FreshIsOk DEF BudgetInv
  <2> QED
    BY <1>1, <1>2, <2>1 DEF Opened, Row
<1>3. CASE budget.status # "absent"
  BY <1>1, <1>3 DEF BudgetInv, Opened, Row
<1> QED
  BY <1>1, <1>2, <1>3

LEMMA PickAxisType == ASSUME NEW used PROVE PickAxis(used) \in Axes
BY DEF PickAxis, Axes

\* A step from a row to one with more used: at most one warning is due, it is the
\* one the new status calls for, and nobody holds it for given.
LEMMA DueIsNew ==
  ASSUME NEW u \in [Axes -> Nat], NEW v \in [Axes -> Nat], \A x \in Axes : v[x] >= u[x],
         NEW known \in SUBSET Warnings,
         "low" \in known => StatusOf(u) \in {"soft_warning", "exhausted"},
         "exhausted" \in known => StatusOf(u) = "exhausted"
  PROVE  /\ StatusOf(v) = StatusOf(u) => Due(Row(u), Row(v), known) = {}
         /\ StatusOf(v) # StatusOf(u) =>
              \/ /\ StatusOf(u) = "ok" /\ StatusOf(v) = "soft_warning"
                 /\ Due(Row(u), Row(v), known) = {"low"}
              \/ /\ StatusOf(u) \in {"ok", "soft_warning"} /\ StatusOf(v) = "exhausted"
                 /\ Due(Row(u), Row(v), known) = {"exhausted"}
<1>1. /\ StatusOf(u) \in {"ok", "soft_warning", "exhausted"}
      /\ StatusOf(v) \in {"ok", "soft_warning", "exhausted"}
  BY StatusOfType
<1>2. Row(u).status = StatusOf(u) /\ Row(v).status = StatusOf(v)
  BY DEF Row
<1> QED
  BY <1>1, <1>2, StatusWorsens DEF Due

\* Every write of a row keeps the invariant, whether or not it is told.
LEMMA UpdateKeeps ==
  ASSUME BudgetInv, NEW w \in Workers, NEW v \in [Axes -> Nat],
         \A x \in Axes : v[x] >= budget.used[x],
         NEW known \in SUBSET Warnings,
         "low" \in known => Opened(budget).status \in {"soft_warning", "exhausted"},
         "exhausted" \in known => Opened(budget).status = "exhausted",
         \/ Update(w, Opened(budget), known, Row(v))
         \/ UpdateUntold(w, Opened(budget), known, Row(v))
  PROVE  BudgetInv'
<1> DEFINE u == budget.used
           due == Due(Row(u), Row(v), known)
           entry == [kind |-> CHOOSE k \in due : TRUE, axis |-> PickAxis(v)]
<1>1. /\ Opened(budget) = Row(u) /\ u \in [Axes -> Nat]
      /\ Row(u).status = StatusOf(u) /\ Row(v).status = StatusOf(v) /\ Row(v).used = v
  BY OpenedIsRow DEF Row
<1>2. /\ StatusOf(u) \in {"ok", "soft_warning", "exhausted"}
      /\ StatusOf(v) \in {"ok", "soft_warning", "exhausted"}
  BY <1>1, StatusOfType
<1>3. /\ StatusOf(v) = StatusOf(u) => due = {}
      /\ StatusOf(v) # StatusOf(u) =>
           \/ StatusOf(u) = "ok" /\ StatusOf(v) = "soft_warning" /\ due = {"low"}
           \/ /\ StatusOf(u) \in {"ok", "soft_warning"} /\ StatusOf(v) = "exhausted"
              /\ due = {"exhausted"}
  BY <1>1, DueIsNew
<1>4. budget' = Row(v) /\ budget'.status = StatusOf(v) /\ budget'.used = v
  BY <1>1 DEF Update, UpdateUntold
<1>5. \/ quotaLog' = quotaLog
      \/ due # {} /\ quotaLog' = Append(quotaLog, entry)
  BY <1>1 DEF Update, UpdateUntold
<1>6. emitted' \in {[emitted EXCEPT ![w] = known], [emitted EXCEPT ![w] = known \cup due]}
  BY <1>1 DEF Update, UpdateUntold
<1>7. due # {} => entry.kind \in due /\ entry \in [kind : Warnings, axis : Axes]
  <2>1. PickAxis(v) \in Axes
    BY PickAxisType
  <2>2. due # {} => (CHOOSE k \in due : TRUE) \in due /\ due \subseteq Warnings
    BY <1>3 DEF Warnings
  <2> QED
    BY <2>1, <2>2
<1> HIDE DEF due, entry
<1>8. budget.status = StatusOf(u) \/ (budget.status = "absent" /\ StatusOf(u) = "ok")
  BY <1>1, OpenedIsRow DEF BudgetInv
<1>9. BudgetTypeOK'
  <2>1. budget' \in [used : [Axes -> Nat], status : Levels]
    BY <1>2, <1>4 DEF Row, Levels
  <2>2. emitted' \in [Workers -> SUBSET Warnings]
    <3>1. due \in SUBSET Warnings
      BY <1>2, <1>3 DEF Warnings
    <3> QED
      BY <1>6, <3>1 DEF BudgetInv, BudgetTypeOK
  <2>3. quotaLog' \in Seq([kind : Warnings, axis : Axes])
    <3> DEFINE Event == [kind : Warnings, axis : Axes]
    <3>1. quotaLog \in Seq(Event)
      BY DEF BudgetInv, BudgetTypeOK
    <3>2. due # {} => entry \in Event
      BY <1>7
    <3>3. quotaLog' \in Seq(Event)
      <4> HIDE DEF Event
      <4> QED
        BY <1>5, <3>1, <3>2
    <3> QED
      BY <3>3
  <2> QED
    BY <2>1, <2>2, <2>3 DEF BudgetTypeOK
<1>10. StatusOf(u) = "exhausted" => StatusOf(v) = "exhausted"
  BY <1>1, StatusWorsens
<1>11. StatusOf(u) = "soft_warning" => StatusOf(v) \in {"soft_warning", "exhausted"}
  BY <1>1, StatusWorsens
<1>12. \A x \in Workers :
         /\ "low" \in emitted'[x] => budget'.status \in {"soft_warning", "exhausted"}
         /\ "exhausted" \in emitted'[x] => budget'.status = "exhausted"
  <2>1. ASSUME NEW x \in Workers, x # w
        PROVE  emitted'[x] = emitted[x]
    BY <1>6, <2>1 DEF BudgetInv, BudgetTypeOK
  <2>2. emitted'[w] \subseteq known \cup due
    BY <1>6 DEF BudgetInv, BudgetTypeOK
  <2> QED
    BY <1>1, <1>2, <1>3, <1>4, <1>8, <1>10, <1>11, <2>1, <2>2 DEF BudgetInv
<1>13. quotaLog \in Seq([kind : Warnings, axis : Axes])
  BY DEF BudgetInv, BudgetTypeOK
<1>14. CASE quotaLog' = quotaLog
  BY <1>2, <1>3, <1>4, <1>8, <1>9, <1>10, <1>11, <1>12, <1>13, <1>14 DEF BudgetInv
<1>15. CASE due # {} /\ quotaLog' = Append(quotaLog, entry)
  <2>1. Len(quotaLog') = Len(quotaLog) + 1 /\ quotaLog'[Len(quotaLog) + 1] = entry
    BY <1>7, <1>13, <1>15
  <2>2. Len(quotaLog) = 1 => quotaLog'[1] = quotaLog[1]
    BY <1>7, <1>13, <1>15
  <2>3. \/ StatusOf(u) = "ok" /\ StatusOf(v) = "soft_warning" /\ entry.kind = "low"
        \/ /\ StatusOf(u) \in {"ok", "soft_warning"} /\ StatusOf(v) = "exhausted"
           /\ entry.kind = "exhausted"
    BY <1>2, <1>3, <1>7, <1>15
  <2>4. Len(quotaLog) = 0 \/ (Len(quotaLog) = 1 /\ quotaLog[1].kind = "low"
                                /\ StatusOf(u) = "soft_warning")
    BY <1>8, <2>3 DEF BudgetInv
  <2>5. CASE StatusOf(v) = "soft_warning"
    <3>1. Len(quotaLog') = 1 /\ quotaLog'[1].kind = "low"
      BY <2>1, <2>3, <2>4, <2>5
    <3> QED
      BY <1>4, <1>9, <1>12, <2>5, <3>1 DEF BudgetInv
  <2>6. CASE StatusOf(v) = "exhausted"
    <3>1. \/ Len(quotaLog') <= 1
          \/ Len(quotaLog') = 2 /\ quotaLog'[1].kind = "low" /\ quotaLog'[2].kind = "exhausted"
      <4>1. CASE Len(quotaLog) = 0
        BY <2>1, <4>1
      <4>2. CASE Len(quotaLog) = 1 /\ quotaLog[1].kind = "low"
        <5>1. Len(quotaLog') = 2 /\ quotaLog'[2] = entry /\ quotaLog'[1] = quotaLog[1]
          BY <2>1, <2>2, <4>2
        <5> QED
          BY <2>3, <2>6, <4>2, <5>1
      <4> QED
        BY <2>4, <4>1, <4>2
    <3> QED
      BY <1>4, <1>9, <1>12, <2>6, <3>1 DEF BudgetInv
  <2> QED
    BY <2>3, <2>5, <2>6
<1> QED
  BY <1>5, <1>14, <1>15

\* The three ways in which a manager uses the row.
LEMMA OpenKeeps ==
  ASSUME BudgetInv, NEW w \in Workers, OpenBudget(w)
  PROVE  BudgetInv'
<1>1. /\ Opened(budget) = Row(budget.used) /\ budget.used \in [Axes -> Nat]
      /\ budget.status # "absent" => Opened(budget) = budget
      /\ budget.status = "absent" => Opened(budget).status = "ok"
  BY OpenedIsRow
<1>2. StatusOf(budget.used) \in {"ok", "soft_warning", "exhausted"}
  BY <1>1, StatusOfType
<1>3. /\ budget'.used = budget.used /\ budget'.status = StatusOf(budget.used)
      /\ budget' \in [used : [Axes -> Nat], status : Levels]
  BY <1>1, <1>2 DEF OpenBudget, Row, Levels
<1>4. emitted' = [emitted EXCEPT ![w] = @ \cup Synced(budget')]
  BY DEF OpenBudget
<1>5. /\ Synced(budget') \in SUBSET Warnings
      /\ "low" \in Synced(budget') => budget'.status \in {"soft_warning", "exhausted"}
      /\ "exhausted" \in Synced(budget') => budget'.status = "exhausted"
  BY <1>2, <1>3 DEF Synced, Warnings
<1>6. BudgetTypeOK'
  BY <1>3, <1>4, <1>5 DEF BudgetInv, BudgetTypeOK, OpenBudget
<1>7. \A x \in Workers :
        /\ "low" \in emitted'[x] => budget'.status \in {"soft_warning", "exhausted"}
        /\ "exhausted" \in emitted'[x] => budget'.status = "exhausted"
  <2>1. budget.status # "absent" => budget' = budget
    BY <1>1 DEF OpenBudget
  <2>2. \A x \in Workers : emitted'[x] \subseteq emitted[x] \cup Synced(budget')
    BY <1>4 DEF BudgetInv, BudgetTypeOK
  <2> QED
    BY <1>5, <2>1, <2>2 DEF BudgetInv
<1>8. quotaLog' = quotaLog /\ (budget.status = "absent" => budget'.status = "ok")
  BY <1>1 DEF OpenBudget
<1>9. budget.status # "absent" => budget' = budget
  BY <1>1 DEF OpenBudget
<1> QED
  BY <1>2, <1>3, <1>6, <1>7, <1>8, <1>9 DEF BudgetInv

\* What a manager holds for given once it has looked at the row.
LEMMA KnownAfterOpening ==
  ASSUME BudgetInv, NEW w \in Workers
  PROVE  /\ OpenedBy(w) \in SUBSET Warnings
         /\ "low" \in OpenedBy(w) => Opened(budget).status \in {"soft_warning", "exhausted"}
         /\ "exhausted" \in OpenedBy(w) => Opened(budget).status = "exhausted"
<1>1. /\ budget.status # "absent" => Opened(budget) = budget
      /\ budget.status = "absent" => Opened(budget).status = "ok"
  BY OpenedIsRow
<1>2. /\ Synced(Opened(budget)) \in SUBSET Warnings
      /\ "low" \in Synced(Opened(budget)) =>
           Opened(budget).status \in {"soft_warning", "exhausted"}
      /\ "exhausted" \in Synced(Opened(budget)) => Opened(budget).status = "exhausted"
  BY DEF Synced, Warnings
<1>3. emitted[w] \in SUBSET Warnings
  BY DEF BudgetInv, BudgetTypeOK
<1> QED
  BY <1>1, <1>2, <1>3 DEF OpenedBy, BudgetInv

LEMMA ChargedIsRow ==
  ASSUME BudgetInv
  PROVE  \E v \in [Axes -> Nat] : /\ Charged(Opened(budget)) = Row(v)
                                  /\ \A x \in Axes : v[x] >= budget.used[x]
<1> DEFINE v == [budget.used EXCEPT !["runs"] = @ + 1]
<1>1. budget.used \in [Axes -> Nat] /\ Opened(budget).used = budget.used
  BY OpenedIsRow
<1>2. v \in [Axes -> Nat] /\ \A x \in Axes : v[x] >= budget.used[x]
  BY <1>1 DEF Axes
<1>3. Charged(Opened(budget)) = Row(v)
  BY <1>1 DEF Charged
<1> QED
  BY <1>2, <1>3

LEMMA SpentIsRow ==
  ASSUME BudgetInv, NEW wall \in Nat, NEW cost \in Nat
  PROVE  \E v \in [Axes -> Nat] : /\ Spent(budget, wall, cost) = Row(v)
                                  /\ \A x \in Axes : v[x] >= budget.used[x]
<1> DEFINE v == [budget.used EXCEPT !["wall_time_ms"] = @ + wall, !["cost_units"] = @ + cost]
<1>1. budget.used \in [Axes -> Nat]
  BY OpenedIsRow
<1>2. v \in [Axes -> Nat] /\ \A x \in Axes : v[x] >= budget.used[x]
  BY <1>1 DEF Axes
<1>3. Spent(budget, wall, cost) = Row(v)
  BY DEF Spent
<1> QED
  BY <1>2, <1>3

LEMMA PreLaunchKeeps ==
  ASSUME BudgetInv, NEW w \in Workers, PreLaunch(w) \/ PreLaunchUntold(w)
  PROVE  BudgetInv'
<1>1. PICK v \in [Axes -> Nat] : /\ Charged(Opened(budget)) = Row(v)
                                 /\ \A x \in Axes : v[x] >= budget.used[x]
  BY ChargedIsRow
<1> QED
  BY <1>1, KnownAfterOpening, UpdateKeeps DEF PreLaunch, PreLaunchUntold

LEMMA PostRunKeeps ==
  ASSUME BudgetInv, NEW w \in Workers, NEW wall \in Nat, NEW cost \in Nat,
         budget.status # "absent",
         PostRun(w, wall, cost) \/ PostRunUntold(w, wall, cost)
  PROVE  BudgetInv'
<1>1. PICK v \in [Axes -> Nat] : /\ Spent(budget, wall, cost) = Row(v)
                                 /\ \A x \in Axes : v[x] >= budget.used[x]
  BY SpentIsRow
<1>2. Opened(budget) = budget
  BY OpenedIsRow
<1>3. /\ emitted[w] \in SUBSET Warnings
      /\ "low" \in emitted[w] => Opened(budget).status \in {"soft_warning", "exhausted"}
      /\ "exhausted" \in emitted[w] => Opened(budget).status = "exhausted"
  BY <1>2 DEF BudgetInv, BudgetTypeOK
<1> QED
  BY <1>1, <1>2, <1>3, UpdateKeeps DEF PostRun, PostRunUntold

\* The warning that belongs to a new status is the last of the log.
Told ==
  /\ Len(quotaLog') = Len(quotaLog) + 1
  /\ quotaLog'[Len(quotaLog')].kind = IF budget'.status = "exhausted" THEN "exhausted" ELSE "low"

LEMMA UpdateTells ==
  ASSUME BudgetInv, NEW w \in Workers, NEW v \in [Axes -> Nat],
         \A x \in Axes : v[x] >= budget.used[x],
         NEW known \in SUBSET Warnings,
         "low" \in known => Opened(budget).status \in {"soft_warning", "exhausted"},
         "exhausted" \in known => Opened(budget).status = "exhausted",
         Update(w, Opened(budget), known, Row(v)),
         budget'.status \in {"soft_warning", "exhausted"}, budget'.status # budget.status
  PROVE  Told
<1> DEFINE u == budget.used
           due == Due(Row(u), Row(v), known)
           entry == [kind |-> CHOOSE k \in due : TRUE, axis |-> PickAxis(v)]
<1>1. /\ Opened(budget) = Row(u) /\ u \in [Axes -> Nat]
      /\ Row(u).status = StatusOf(u) /\ Row(v).status = StatusOf(v) /\ Row(v).used = v
  BY OpenedIsRow DEF Row
<1>2. budget'.status = StatusOf(v)
  BY <1>1 DEF Update
<1>3. budget.status = StatusOf(u) \/ (budget.status = "absent" /\ StatusOf(u) = "ok")
  BY <1>1, OpenedIsRow DEF BudgetInv
<1>4. due = IF StatusOf(v) = "exhausted" THEN {"exhausted"} ELSE {"low"}
  BY <1>1, <1>2, <1>3, DueIsNew
<1>5. quotaLog' = Append(quotaLog, entry)
  BY <1>1, <1>4 DEF Update
<1>6. entry.kind = (IF StatusOf(v) = "exhausted" THEN "exhausted" ELSE "low")
      /\ entry \in [kind : Warnings, axis : Axes]
  <2>1. PickAxis(v) \in Axes
    BY PickAxisType
  <2>2. (CHOOSE k \in due : TRUE) \in due
    BY <1>4
  <2> QED
    BY <1>4, <2>1, <2>2 DEF Warnings
<1> HIDE DEF due, entry
<1>7. Len(quotaLog') = Len(quotaLog) + 1 /\ quotaLog'[Len(quotaLog')] = entry
  BY <1>5, <1>6 DEF BudgetInv, BudgetTypeOK
<1> QED
  BY <1>2, <1>6, <1>7 DEF Told

LEMMA ManagerTells ==
  ASSUME BudgetInv, NEW w \in Workers,
         \/ PreLaunch(w)
         \/ budget.status # "absent" /\ \E wall, cost \in Nat : PostRun(w, wall, cost),
         budget'.status \in {"soft_warning", "exhausted"}, budget'.status # budget.status
  PROVE  Told
<1>1. CASE PreLaunch(w)
  <2>1. PICK v \in [Axes -> Nat] : /\ Charged(Opened(budget)) = Row(v)
                                   /\ \A x \in Axes : v[x] >= budget.used[x]
    BY ChargedIsRow
  <2> QED
    BY <1>1, <2>1, KnownAfterOpening, UpdateTells DEF PreLaunch
<1>2. CASE budget.status # "absent" /\ \E wall, cost \in Nat : PostRun(w, wall, cost)
  <2>1. PICK wall \in Nat, cost \in Nat : PostRun(w, wall, cost)
    BY <1>2
  <2>2. PICK v \in [Axes -> Nat] : /\ Spent(budget, wall, cost) = Row(v)
                                   /\ \A x \in Axes : v[x] >= budget.used[x]
    BY SpentIsRow
  <2>3. Opened(budget) = budget
    BY <1>2, OpenedIsRow
  <2>4. /\ emitted[w] \in SUBSET Warnings
        /\ "low" \in emitted[w] => budget.status \in {"soft_warning", "exhausted"}
        /\ "exhausted" \in emitted[w] => budget.status = "exhausted"
    BY DEF BudgetInv, BudgetTypeOK
  <2> QED
    BY <2>1, <2>2, <2>3, <2>4, UpdateTells DEF PostRun
<1> QED
  BY <1>1, <1>2
-----------------------------------------------------------------------------
(* The axis of a warning. *)

\* Ratios are ordered like numbers: a/c >= b/d and b/d >= n/m give a/c >= n/m.
LEMMA CrossMultiplied ==
  ASSUME NEW a \in Nat, NEW b \in Nat, NEW c \in Nat \ {0}, NEW d \in Nat \ {0},
         NEW m \in Nat \ {0}, NEW n \in Nat,
         a * d >= b * c, m * b >= n * d
  PROVE  m * a >= n * c
<1>1. (m * a) * d >= m * (b * c)
  BY SMTT(30)
<1>2. m * (b * c) = (m * b) * c
  BY SMTT(30)
<1>3. (m * b) * c >= (n * d) * c
  BY SMTT(30)
<1>4. (n * d) * c = (n * c) * d
  BY SMTT(30)
<1>5. (m * a) * d >= (n * c) * d
  BY <1>1, <1>2, <1>3, <1>4, SMTT(30)
<1>6. ASSUME NEW x \in Int, NEW y \in Int, x * d >= y * d
      PROVE  x >= y
  BY <1>6, SMTT(30)
<1> QED
  BY <1>5, <1>6, SMTT(30)

LEMMA FullerIsTransitive ==
  ASSUME NEW u \in [Axes -> Nat], NEW x \in Axes, NEW y \in Axes, NEW z \in Axes,
         Fuller(u, x, y), Fuller(u, y, z)
  PROVE  Fuller(u, x, z)
<1>1. /\ u[x] \in Nat /\ u[y] \in Nat /\ u[z] \in Nat
      /\ Caps[x] \in Nat \ {0} /\ Caps[y] \in Nat \ {0} /\ Caps[z] \in Nat \ {0}
  BY BudgetAssumption
<1>2. u[x] * Caps[y] >= u[y] * Caps[x] /\ Caps[z] * u[y] >= u[z] * Caps[y]
  BY <1>1 DEF Fuller
<1>3. Caps[z] * u[x] >= u[z] * Caps[x]
  BY <1>1, <1>2, CrossMultiplied
<1> QED
  BY <1>1, <1>3 DEF Fuller

LEMMA FullerIsTotal ==
  ASSUME NEW u \in [Axes -> Nat], NEW x \in Axes, NEW y \in Axes
  PROVE  Fuller(u, x, y) \/ Fuller(u, y, x)
<1>1. u[x] * Caps[y] \in Int /\ u[y] * Caps[x] \in Int
  BY BudgetAssumption
<1> QED
  BY <1>1 DEF Fuller

\* pickAxis() finds an axis that is as full as any.
LEMMA PickAxisIsFullest ==
  ASSUME NEW u \in [Axes -> Nat]
  PROVE  \A y \in Axes : Fuller(u, PickAxis(u), y)
<1> DEFINE r == "runs"
           w == "wall_time_ms"
           c == "cost_units"
<1>1. r \in Axes /\ w \in Axes /\ c \in Axes /\ \A y \in Axes : y \in {r, w, c}
  BY DEF Axes
<1>2. Fuller(u, r, r) /\ Fuller(u, w, w) /\ Fuller(u, c, c)
  BY <1>1, FullerIsTotal
<1> HIDE DEF r, w, c
<1>3. CASE Fuller(u, r, w) /\ Fuller(u, r, c)
  BY <1>1, <1>2, <1>3 DEF PickAxis, r, w, c
<1>4. CASE ~(Fuller(u, r, w) /\ Fuller(u, r, c)) /\ Fuller(u, w, c)
  <2>1. PickAxis(u) = w
    BY <1>4 DEF PickAxis, r, w, c
  <2>2. Fuller(u, w, r)
    BY <1>1, <1>4, FullerIsTotal, FullerIsTransitive
  <2> QED
    BY <1>1, <1>2, <1>4, <2>1, <2>2
<1>5. CASE ~(Fuller(u, r, w) /\ Fuller(u, r, c)) /\ ~Fuller(u, w, c)
  <2>1. PickAxis(u) = c
    BY <1>5 DEF PickAxis, r, w, c
  <2>2. Fuller(u, c, w) /\ Fuller(u, c, r)
    BY <1>1, <1>5, FullerIsTotal, FullerIsTransitive
  <2> QED
    BY <1>1, <1>2, <2>1, <2>2
<1> QED
  BY <1>3, <1>4, <1>5

\* What a warning says of what is used.
Past(event, used) ==
  IF event.kind = "exhausted" THEN used[event.axis] >= Caps[event.axis]
  ELSE 5 * used[event.axis] >= 4 * Caps[event.axis]

AllPast == \A i \in 1..Len(quotaLog) : Past(quotaLog[i], budget.used)

LEMMA PickedIsPast ==
  ASSUME NEW u \in [Axes -> Nat]
  PROVE  /\ StatusOf(u) = "exhausted" => u[PickAxis(u)] >= Caps[PickAxis(u)]
         /\ StatusOf(u) = "soft_warning" => 5 * u[PickAxis(u)] >= 4 * Caps[PickAxis(u)]
<1>1. PICK x \in Axes : x = PickAxis(u)
  BY PickAxisType
<1>2. ASSUME NEW y \in Axes, NEW m \in Nat \ {0}, NEW n \in Nat, m * u[y] >= n * Caps[y]
      PROVE  m * u[x] >= n * Caps[x]
  <2>1. /\ u[x] \in Nat /\ u[y] \in Nat
        /\ Caps[x] \in Nat \ {0} /\ Caps[y] \in Nat \ {0}
    BY BudgetAssumption
  <2>2. u[x] * Caps[y] >= u[y] * Caps[x]
    BY <1>1, PickAxisIsFullest DEF Fuller
  <2> QED
    BY <1>2, <2>1, <2>2, CrossMultiplied
<1>3. \A y \in Axes : u[y] \in Nat /\ Caps[y] \in Nat
  BY BudgetAssumption
<1>4. CASE StatusOf(u) = "exhausted"
  <2>1. PICK y \in Axes : u[y] >= Caps[y]
    BY <1>4 DEF StatusOf
  <2>2. 1 * u[y] >= 1 * Caps[y]
    BY <1>3, <2>1
  <2>3. 1 * u[x] >= 1 * Caps[x]
    BY <1>2, <2>2
  <2> QED
    BY <1>1, <1>3, <1>4, <2>3
<1>5. CASE StatusOf(u) = "soft_warning"
  <2>1. PICK y \in Axes : 5 * u[y] >= 4 * Caps[y]
    BY <1>5 DEF StatusOf
  <2> QED
    BY <1>1, <1>2, <1>5, <2>1
<1>6. CASE StatusOf(u) = "ok"
  BY <1>6
<1> QED
  BY <1>4, <1>5, <1>6, StatusOfType

\* A warning is past its threshold when it is written, and stays so.
LEMMA UpdateNames ==
  ASSUME BudgetInv, AllPast, NEW w \in Workers, NEW v \in [Axes -> Nat],
         \A x \in Axes : v[x] >= budget.used[x],
         NEW known \in SUBSET Warnings,
         "low" \in known => Opened(budget).status \in {"soft_warning", "exhausted"},
         "exhausted" \in known => Opened(budget).status = "exhausted",
         \/ Update(w, Opened(budget), known, Row(v))
         \/ UpdateUntold(w, Opened(budget), known, Row(v))
  PROVE  AllPast'
<1> DEFINE u == budget.used
           due == Due(Row(u), Row(v), known)
           entry == [kind |-> CHOOSE k \in due : TRUE, axis |-> PickAxis(v)]
           Event == [kind : Warnings, axis : Axes]
<1>1. /\ Opened(budget) = Row(u) /\ u \in [Axes -> Nat] /\ Row(v).used = v
  BY OpenedIsRow DEF Row
<1>2. budget'.used = v
  BY <1>1 DEF Update, UpdateUntold
<1>3. \/ quotaLog' = quotaLog
      \/ due # {} /\ quotaLog' = Append(quotaLog, entry)
  BY <1>1 DEF Update, UpdateUntold
<1>4. quotaLog \in Seq(Event)
  BY DEF BudgetInv, BudgetTypeOK
<1>5. ASSUME NEW e \in Event, Past(e, u)
      PROVE  Past(e, v)
  <2>1. /\ e.axis \in Axes /\ u[e.axis] \in Nat /\ v[e.axis] \in Nat
        /\ Caps[e.axis] \in Nat /\ v[e.axis] >= u[e.axis]
    BY <1>1, BudgetAssumption
  <2> QED
    BY <1>5, <2>1 DEF Past
<1>6. ASSUME NEW i \in 1..Len(quotaLog)
      PROVE  Past(quotaLog[i], v)
  <2>1. quotaLog[i] \in Event
    <3> HIDE DEF Event
    <3> QED
      BY <1>4
  <2>2. Past(quotaLog[i], u)
    BY DEF AllPast
  <2> QED
    BY <1>5, <2>1, <2>2
<1>7. ASSUME due # {}
      PROVE  entry \in Event /\ Past(entry, v)
  <2>1. PickAxis(v) \in Axes
    BY PickAxisType
  <2>2. \/ due = {"low"} /\ StatusOf(v) = "soft_warning"
        \/ due = {"exhausted"} /\ StatusOf(v) = "exhausted"
    <3>1. Row(u).status = StatusOf(u)
      BY DEF Row
    <3> QED
      BY <1>1, <1>7, <3>1, DueIsNew
  <2>3. entry.axis = PickAxis(v) /\ entry.kind \in due
    BY <2>2
  <2>4. entry \in Event
    BY <2>1, <2>2, <2>3 DEF Warnings
  <2>5. Past(entry, v)
    BY <2>2, <2>3, PickedIsPast DEF Past
  <2> QED
    BY <2>4, <2>5
<1> HIDE DEF entry, due, Event
<1>8. \A i \in 1..Len(quotaLog') : Past(quotaLog'[i], v)
  <2>1. CASE quotaLog' = quotaLog
    BY <1>6, <2>1
  <2>2. CASE due # {} /\ quotaLog' = Append(quotaLog, entry)
    <3>1. entry \in Event /\ Past(entry, v)
      BY <1>7, <2>2
    <3>2. Len(quotaLog') = Len(quotaLog) + 1 /\ Len(quotaLog) \in Nat
      BY <1>4, <2>2, <3>1
    <3>3. ASSUME NEW i \in 1..Len(quotaLog')
          PROVE  quotaLog'[i] = IF i = Len(quotaLog) + 1 THEN entry ELSE quotaLog[i]
      BY <1>4, <2>2, <3>1, <3>2
    <3> QED
      BY <1>6, <3>1, <3>2, <3>3
  <2> QED
    BY <1>3, <2>1, <2>2
<1> QED
  BY <1>2, <1>8 DEF AllPast

LEMMA ManagerNames ==
  ASSUME BudgetInv, AllPast, NEW w \in Workers,
         \/ OpenBudget(w) \/ PreLaunch(w) \/ PreLaunchUntold(w)
         \/ /\ budget.status # "absent"
            /\ \E wall, cost \in Nat : PostRun(w, wall, cost) \/ PostRunUntold(w, wall, cost)
  PROVE  AllPast'
<1>1. CASE OpenBudget(w)
  BY <1>1, OpenedIsRow DEF OpenBudget, AllPast
<1>2. CASE PreLaunch(w) \/ PreLaunchUntold(w)
  <2>1. PICK v \in [Axes -> Nat] : /\ Charged(Opened(budget)) = Row(v)
                                   /\ \A x \in Axes : v[x] >= budget.used[x]
    BY ChargedIsRow
  <2> QED
    BY <1>2, <2>1, KnownAfterOpening, UpdateNames DEF PreLaunch, PreLaunchUntold
<1>3. CASE /\ budget.status # "absent"
           /\ \E wall, cost \in Nat : PostRun(w, wall, cost) \/ PostRunUntold(w, wall, cost)
  <2>1. PICK wall \in Nat, cost \in Nat : PostRun(w, wall, cost) \/ PostRunUntold(w, wall, cost)
    BY <1>3
  <2>2. PICK v \in [Axes -> Nat] : /\ Spent(budget, wall, cost) = Row(v)
                                   /\ \A x \in Axes : v[x] >= budget.used[x]
    BY SpentIsRow
  <2>3. Opened(budget) = budget
    BY <1>3, OpenedIsRow
  <2>4. /\ emitted[w] \in SUBSET Warnings
        /\ "low" \in emitted[w] => budget.status \in {"soft_warning", "exhausted"}
        /\ "exhausted" \in emitted[w] => budget.status = "exhausted"
    BY DEF BudgetInv, BudgetTypeOK
  <2> QED
    BY <2>1, <2>2, <2>3, <2>4, UpdateNames DEF PostRun, PostRunUntold
<1> QED
  BY <1>1, <1>2, <1>3
-----------------------------------------------------------------------------
(* Decisions. *)

\* What the five reasons of analyzeCandidates() leave: the profile fits, the
\* agent is not excluded, and its quota is not exhausted.
LEMMA EligibleExactly ==
  ASSUME NEW r \in Roles, NEW excluded, NEW out
  PROVE  EligibleAgents(r, excluded, out) =
           {a \in Agents : /\ a \in Capable /\ r \in RolesOf[a] /\ InRolePool(a, r)
                           /\ a \notin excluded /\ a \notin out}
BY DEF EligibleAgents, ExcludedReason

\* The candidates before quota are the eligible agents and those that only their
\* quota keeps out.
LEMMA BeforeQuotaExactly ==
  ASSUME NEW r \in Roles, NEW excluded, NEW out
  PROVE  BeforeQuota(r, excluded, out) =
           {a \in Agents : /\ a \in Capable /\ r \in RolesOf[a] /\ InRolePool(a, r)
                           /\ a \notin excluded}
BY DEF BeforeQuota, ExcludedReason

\* With budget left, decide() refuses exactly when no agent is eligible.
LEMMA RefusesIffNone ==
  ASSUME NEW r \in Roles, NEW excluded, NEW out, NEW s \in BOOLEAN
  PROVE  Refusal(s, r, excluded, out) = "none"
           <=> ~s /\ EligibleAgents(r, excluded, out) # {}
<1>1. NonExhausted(BeforeQuota(r, excluded, out), out) = EligibleAgents(r, excluded, out)
  BY EligibleExactly, BeforeQuotaExactly DEF NonExhausted
<1>2. BeforeQuota(r, excluded, out) = {} => EligibleAgents(r, excluded, out) = {}
  BY EligibleExactly, BeforeQuotaExactly
<1>3. (\A a \in Agents : a \notin Capable \/ r \notin RolesOf[a])
        => EligibleAgents(r, excluded, out) = {}
  BY EligibleExactly
<1> QED BY <1>1, <1>2, <1>3 DEF Refusal
-----------------------------------------------------------------------------
(* What the registries know. *)

\* An agent that is not in the shared map is healthy to everyone; for others the
\* map is never better than what a worker knows, and exhaustion is known to one.
RegistryInv ==
  /\ RegistryTypeOK
  /\ \A a \in Agents :
       /\ shared[a] = "absent" => \A w \in Workers : own[w][a] = "healthy"
       /\ \A w \in Workers : own[w][a] = "exhausted" => shared[a] = "exhausted"
       /\ shared[a] = "exhausted" => \E w \in Workers : own[w][a] = "exhausted"

\* What a worker sees, whoever it is: the map, or that the agent is healthy.
Common(a) == IF shared[a] = "absent" THEN "healthy" ELSE shared[a]

LEMMA SeenIsCommon ==
  ASSUME RegistryInv, NEW w \in Workers, NEW a \in Agents
  PROVE  /\ Seen(w, a) = Common(a) /\ Common(a) \in Healths
         /\ Common(a) = "exhausted" <=> \E v \in Workers : own[v][a] = "exhausted"
BY DEF RegistryInv, RegistryTypeOK, Seen, Common, Healths

LEMMA SeenIsCommonNext ==
  ASSUME RegistryInv', NEW w \in Workers, NEW a \in Agents
  PROVE  Seen(w, a)' = Common(a)'
BY DEF RegistryInv, RegistryTypeOK, Seen, Common, Healths

LEMMA ListedKeeps ==
  ASSUME RegistryInv, NEW w \in Workers, own' = Listed(w), UNCHANGED shared
  PROVE  RegistryInv'
<1>1. own' = [own EXCEPT ![w] = [a \in Agents |-> Common(a)]]
  <2>1. [a \in Agents |-> Seen(w, a)] = [a \in Agents |-> Common(a)]
    BY SeenIsCommon
  <2> QED
    BY <2>1 DEF Listed
<1>2. \A a \in Agents : Common(a) \in Healths
  BY SeenIsCommon
<1>3. RegistryTypeOK'
  BY <1>1, <1>2 DEF RegistryInv, RegistryTypeOK
<1>4. ASSUME NEW a \in Agents
      PROVE  /\ shared'[a] = "absent" => \A v \in Workers : own'[v][a] = "healthy"
             /\ \A v \in Workers : own'[v][a] = "exhausted" => shared'[a] = "exhausted"
             /\ shared'[a] = "exhausted" => \E v \in Workers : own'[v][a] = "exhausted"
  <2>1. own'[w][a] = Common(a)
    BY <1>1 DEF RegistryInv, RegistryTypeOK
  <2>2. \A v \in Workers : v # w => own'[v][a] = own[v][a]
    BY <1>1 DEF RegistryInv, RegistryTypeOK
  <2> QED
    BY <2>1, <2>2 DEF RegistryInv, Common
<1> QED
  BY <1>3, <1>4 DEF RegistryInv

LEMMA WorseIsWorse ==
  ASSUME NEW health \in Healths, NEW reason \in FailureReasons
  PROVE  /\ Worse(health, reason) \in Healths
         /\ Rank(Worse(health, reason)) >= Rank(health)
         /\ health = "exhausted" => Worse(health, reason) = "exhausted"
         /\ reason = "other" => Worse(health, reason) = health
BY DEF Worse, Healths, FailureReasons, Rank

\* Recording an outcome moves one agent, and never up (applyProviderFailure()).
LEMMA RecordKeeps ==
  ASSUME RegistryInv, NEW w \in Workers, NEW b \in Agents, NEW reason \in FailureReasons,
         RecordOutcome(w, b, reason)
  PROVE  /\ RegistryInv'
         /\ \A a \in Agents : Rank(Common(a)') >= Rank(Common(a))
         /\ \A a \in Agents : Common(a) = "exhausted" => Common(a)' = "exhausted"
<1> DEFINE health == Worse(Common(b), reason)
<1>1. Seen(w, b) = Common(b) /\ Common(b) \in Healths
  BY SeenIsCommon
<1>2. /\ health \in Healths /\ Rank(health) >= Rank(Common(b))
      /\ Common(b) = "exhausted" => health = "exhausted"
      /\ reason = "other" => health = Common(b)
  BY <1>1, WorseIsWorse
<1>3. shared' = IF health = Common(b) THEN shared ELSE [shared EXCEPT ![b] = health]
  BY <1>1 DEF RecordOutcome
<1>4. own' = IF reason = "other" THEN own ELSE [own EXCEPT ![w][b] = health]
  BY <1>1 DEF RecordOutcome
<1> HIDE DEF health
<1>5. RegistryTypeOK'
  BY <1>2, <1>3, <1>4 DEF RegistryInv, RegistryTypeOK
<1>6. \A a \in Agents : a # b => shared'[a] = shared[a] /\ \A v \in Workers : own'[v][a] = own[v][a]
  BY <1>3, <1>4 DEF RegistryInv, RegistryTypeOK
<1>7. Common(b)' = health
  BY <1>2, <1>3 DEF RegistryInv, RegistryTypeOK, Common, Healths
<1>8. /\ \A v \in Workers : v # w => own'[v][b] = own[v][b]
      /\ own'[w][b] = IF reason = "other" THEN own[w][b] ELSE health
  BY <1>4 DEF RegistryInv, RegistryTypeOK
<1>9. /\ shared'[b] = "absent" => \A v \in Workers : own'[v][b] = "healthy"
      /\ \A v \in Workers : own'[v][b] = "exhausted" => shared'[b] = "exhausted"
      /\ shared'[b] = "exhausted" => \E v \in Workers : own'[v][b] = "exhausted"
  <2>1. CASE health = Common(b)
    BY <1>3, <1>8, <2>1 DEF RegistryInv, Common
  <2>2. CASE health # Common(b)
    <3>1. shared'[b] = health /\ reason # "other"
      BY <1>2, <1>3, <2>2 DEF RegistryInv, RegistryTypeOK
    <3>2. Common(b) # "exhausted" /\ \A v \in Workers : own[v][b] # "exhausted"
      BY <1>2, <2>2, SeenIsCommon
    <3> QED
      BY <1>2, <1>8, <3>1, <3>2 DEF Healths
  <2> QED
    BY <2>1, <2>2
<1>10. RegistryInv'
  BY <1>5, <1>6, <1>9 DEF RegistryInv
<1>11. \A a \in Agents : a # b => Common(a)' = Common(a)
  BY <1>6 DEF Common
<1>12. \A a \in Agents : Rank(Common(a)) \in Int
  BY DEF Rank
<1> QED
  BY <1>2, <1>7, <1>10, <1>11, <1>12
-----------------------------------------------------------------------------
(* What the decisions are asked with. *)

AskedInv == AskedTypeOK /\ RegistryInv /\ BudgetInv

\* What a step of this process leaves true of any decision before it.
OnlyLess ==
  /\ role' = role /\ author' = author /\ exclude \subseteq exclude'
  /\ \A a \in Agents : Rank(Common(a)') >= Rank(Common(a))
  /\ \A a \in Agents : Common(a) = "exhausted" => Common(a)' = "exhausted"
  /\ budget.status = "exhausted" => budget'.status = "exhausted"

LEMMA ExhaustedStays ==
  ASSUME BudgetInv, NEW w \in Workers,
         \/ OpenBudget(w) \/ PreLaunch(w) \/ PreLaunchUntold(w)
         \/ \E c \in Costs : PostRun(w, c[1], c[2]) \/ PostRunUntold(w, c[1], c[2])
  PROVE  budget.status = "exhausted" => budget'.status = "exhausted"
<1> SUFFICES ASSUME budget.status = "exhausted" PROVE budget'.status = "exhausted"
  OBVIOUS
<1>1. /\ Opened(budget) = budget /\ budget.used \in [Axes -> Nat]
      /\ StatusOf(budget.used) = "exhausted"
  BY OpenedIsRow DEF BudgetInv
<1>2. ASSUME NEW v \in [Axes -> Nat], budget' = Row(v), \A x \in Axes : v[x] >= budget.used[x]
      PROVE  budget'.status = "exhausted"
  BY <1>1, <1>2, StatusWorsens DEF Row
<1>3. CASE OpenBudget(w)
  BY <1>1, <1>3 DEF OpenBudget
<1>4. CASE PreLaunch(w) \/ PreLaunchUntold(w)
  <2>1. budget' = Charged(Opened(budget))
    BY <1>4 DEF PreLaunch, PreLaunchUntold, Update, UpdateUntold
  <2> QED
    BY <1>2, <2>1, ChargedIsRow
<1>5. CASE \E c \in Costs : PostRun(w, c[1], c[2]) \/ PostRunUntold(w, c[1], c[2])
  <2>1. PICK c \in Costs : PostRun(w, c[1], c[2]) \/ PostRunUntold(w, c[1], c[2])
    BY <1>5
  <2>2. budget' = Spent(budget, c[1], c[2])
    BY <2>1 DEF PostRun, PostRunUntold, Update, UpdateUntold
  <2>3. c[1] \in Nat /\ c[2] \in Nat
    BY DecisionsAssumption
  <2> QED
    BY <1>2, <2>2, <2>3, SpentIsRow
<1> QED
  BY <1>3, <1>4, <1>5

LEMMA AskKeeps ==
  ASSUME AskedInv, NEW w \in Workers, Refuse(w) \/ TurnBack(w) \/ Launch(w)
  PROVE  AskedInv' /\ OnlyLess
<1>1. /\ own' = Listed(w) /\ UNCHANGED <<role, author, exclude, shared>> /\ run = NoRun
      /\ OpenBudget(w) \/ PreLaunch(w) \/ PreLaunchUntold(w)
  BY DEF Refuse, TurnBack, Launch, Asks
<1>2. RegistryInv'
  BY <1>1, ListedKeeps DEF AskedInv
<1>3. BudgetInv'
  BY <1>1, OpenKeeps, PreLaunchKeeps DEF AskedInv
<1>4. run' \in [worker : Workers, agent : Agents] \cup {NoRun} /\ settled' \in BOOLEAN
  <2>1. UNCHANGED run \/ \E a \in Agents : run' = [worker |-> w, agent |-> a]
    BY DEF Refuse, TurnBack, Launch, Candidates, EligibleAgents
  <2>2. settled' \in BOOLEAN
    BY DEF Refuse, TurnBack, Launch, AskedInv, AskedTypeOK
  <2>3. \A a \in Agents : [worker |-> w, agent |-> a] \in [worker : Workers, agent : Agents]
    OBVIOUS
  <2>4. run' \in [worker : Workers, agent : Agents] \cup {NoRun}
    BY <1>1, <2>1, <2>3, Zenon
  <2> QED
    BY <2>2, <2>4
<1>5. run' # NoRun => budget'.status # "absent"
  <2>1. CASE PreLaunch(w)
    <3>1. PICK v \in [Axes -> Nat] : Charged(Opened(budget)) = Row(v)
      BY ChargedIsRow DEF AskedInv
    <3> QED
      BY <2>1, <3>1, StatusOfType DEF PreLaunch, Update, Row
  <2>2. CASE ~PreLaunch(w)
    BY <1>1, <2>2 DEF Refuse, TurnBack, Launch
  <2> QED
    BY <2>1, <2>2
<1>6. AskedInv'
  BY <1>1, <1>2, <1>3, <1>4, <1>5 DEF AskedInv, AskedTypeOK, RegistryInv, BudgetInv
<1>7. \A a \in Agents : Common(a)' = Common(a) /\ Rank(Common(a)) \in Int
  BY <1>1 DEF Common, Rank
<1>8. budget.status = "exhausted" => budget'.status = "exhausted"
  BY <1>1, ExhaustedStays DEF AskedInv
<1> QED
  BY <1>1, <1>6, <1>7, <1>8 DEF OnlyLess

LEMMA AccountKeeps ==
  ASSUME AskedInv, NEW w \in Workers, Account(w)
  PROVE  AskedInv' /\ OnlyLess
<1>1. run \in [worker : Workers, agent : Agents] /\ budget.status # "absent"
  BY DecisionsAssumption DEF Account, AskedInv, AskedTypeOK, NoRun
<1>2. PICK c \in Costs : PostRun(w, c[1], c[2]) \/ PostRunUntold(w, c[1], c[2])
  BY DEF Account
<1>3. BudgetInv'
  <2>1. c[1] \in Nat /\ c[2] \in Nat
    BY DecisionsAssumption
  <2> QED
    BY <1>1, <1>2, <2>1, PostRunKeeps DEF AskedInv
<1>4. budget.status = "exhausted" => budget'.status = "exhausted"
  BY <1>2, ExhaustedStays DEF AskedInv
<1>5. /\ RegistryInv'
      /\ \A a \in Agents : Rank(Common(a)') >= Rank(Common(a))
      /\ \A a \in Agents : Common(a) = "exhausted" => Common(a)' = "exhausted"
  <2>1. CASE UNCHANGED registryVars
    BY <2>1 DEF registryVars, AskedInv, RegistryInv, RegistryTypeOK, Common, Rank
  <2>2. CASE \E reason \in FailureReasons : RecordOutcome(w, run.agent, reason)
    BY <1>1, <2>2, RecordKeeps DEF AskedInv
  <2> QED
    BY <2>1, <2>2 DEF Account
<1>6. /\ run' = NoRun /\ UNCHANGED <<role, author>> /\ settled' \in BOOLEAN
      /\ exclude \subseteq exclude' /\ exclude' \in SUBSET Agents
  BY <1>1 DEF Account, AskedInv, AskedTypeOK
<1>7. AskedInv'
  BY <1>3, <1>5, <1>6 DEF AskedInv, AskedTypeOK, RegistryInv, BudgetInv
<1> QED
  BY <1>4, <1>5, <1>6, <1>7 DEF OnlyLess

LEMMA StepKeeps ==
  ASSUME AskedInv, [Next]_asked
  PROVE  AskedInv' /\ (~Restart => OnlyLess)
<1>1. ASSUME NEW w \in Workers, Break(w) PROVE AskedInv' /\ OnlyLess
  BY <1>1 DEF Break, registryVars, budgetVars, AskedInv, AskedTypeOK, RegistryInv,
     RegistryTypeOK, BudgetInv, BudgetTypeOK, OnlyLess, Common, Rank
<1>2. ASSUME NEW w \in Workers, OtherRun(w) PROVE AskedInv' /\ OnlyLess
  <2>1. PICK a \in Agents, reason \in FailureReasons : RecordOutcome(w, a, reason)
    BY <1>2 DEF OtherRun
  <2>2. /\ RegistryInv'
        /\ \A b \in Agents : Rank(Common(b)') >= Rank(Common(b))
        /\ \A b \in Agents : Common(b) = "exhausted" => Common(b)' = "exhausted"
    BY <2>1, RecordKeeps DEF AskedInv
  <2>3. BudgetInv' /\ BudgetTypeOK'
    BY <1>2 DEF OtherRun, budgetVars, AskedInv, BudgetInv, BudgetTypeOK
  <2>4. AskedInv'
    BY <1>2, <2>2, <2>3 DEF OtherRun, budgetVars, AskedInv, AskedTypeOK, RegistryInv
  <2> QED
    BY <1>2, <2>2, <2>4 DEF OtherRun, budgetVars, OnlyLess
<1>3. CASE Restart
  <2>1. RegistryInv'
    BY <1>3 DEF Restart, RegistryInv, RegistryTypeOK, Healths
  <2>2. BudgetInv'
    BY <1>3 DEF Restart, AskedInv, BudgetInv, BudgetTypeOK
  <2> QED
    BY <1>3, <2>1, <2>2 DEF Restart, AskedInv, AskedTypeOK, RegistryInv, BudgetInv
<1>4. CASE UNCHANGED asked
  BY <1>4 DEF asked, registryVars, budgetVars, AskedInv, AskedTypeOK, RegistryInv,
     RegistryTypeOK, BudgetInv, BudgetTypeOK, OnlyLess, Common, Rank
<1> QED
  BY <1>1, <1>2, <1>3, <1>4, AskKeeps, AccountKeeps DEF Next

\* Registries, budget and log have their types and fit each other.
THEOREM AskedInvariant == Spec => []AskedInv
<1>1. Init => AskedInv
  <2> SUFFICES ASSUME Init PROVE AskedInv
    OBVIOUS
  <2>1. RegistryInv
    BY DEF Init, RegistryInit, RegistryInv, RegistryTypeOK, Healths
  <2>2. BudgetInv
    BY DEF Init, BudgetInit, BudgetInv, BudgetTypeOK, NoBudget, Levels
  <2> QED
    BY <2>1, <2>2 DEF Init, AskedInv, AskedTypeOK, RegistryInv, BudgetInv
<1>2. AskedInv /\ [Next]_asked => AskedInv'
  BY StepKeeps
<1> QED BY <1>1, <1>2, PTL DEF Spec

\* What is exhausted to one worker is to all.
LEMMA ExhaustedIsCommon ==
  ASSUME RegistryInv, NEW w \in Workers
  PROVE  Exhausted(w) = {a \in Agents : Common(a) = "exhausted"}
BY SeenIsCommon DEF Exhausted

\* decide() refuses a task whose budget is not opened yet only for want of agents.
LEMMA DecidesOnStatus ==
  ASSUME AskedInv, NEW w \in Workers
  PROVE  Decision(w) = "none" <=> budget.status # "exhausted" /\ Candidates(w) # {}
<1>1. Opened(budget).status = "exhausted" <=> budget.status = "exhausted"
  BY OpenedIsRow DEF AskedInv
<1>2. PICK s \in BOOLEAN : s <=> Opened(budget).status = "exhausted"
  OBVIOUS
<1>3. Decision(w) = Refusal(s, role, Excluded, Exhausted(w))
  BY <1>2, Zenon DEF Decision
<1>4. role \in Roles
  BY DEF AskedInv, AskedTypeOK
<1>5. Refusal(s, role, Excluded, Exhausted(w)) = "none" <=> ~s /\ Candidates(w) # {}
  BY <1>4, RefusesIffNone, Zenon DEF Candidates
<1> QED BY <1>1, <1>2, <1>3, <1>5

\* decide() never takes the best of no agents, and never refuses a task that an
\* agent could do, whatever the registry and the pools are.
THEOREM PicksWhenItCan == Spec => []PicksIffEligible
<1>1. AskedInv => PicksIffEligible
  BY DecidesOnStatus DEF PicksIffEligible
<1> QED BY <1>1, AskedInvariant, PTL

\* The agents decide() chooses from are the right ones to every worker, and a
\* reviewer is never the author.
THEOREM ChoosesFromTheRight == Spec => []EligibleAreRight
<1>1. AskedInv => EligibleAreRight
  <2> SUFFICES ASSUME AskedInv, NEW v \in Workers
               PROVE  Candidates(v) =
                        {a \in Capable : /\ role \in RolesOf[a]
                                         /\ Pools[role] = {} \/ a \in Pools[role]
                                         /\ a \notin exclude
                                         /\ \A w \in Workers : own[w][a] # "exhausted"
                                         /\ role = "reviewer" => a # author}
    BY DEF EligibleAreRight
  <2>1. Candidates(v) = {a \in Agents : /\ a \in Capable /\ role \in RolesOf[a]
                                        /\ InRolePool(a, role)
                                        /\ a \notin Excluded /\ a \notin Exhausted(v)}
    BY EligibleExactly DEF AskedInv, AskedTypeOK, Candidates
  <2>2. \A a \in Agents : a \notin Excluded
                            <=> a \notin exclude /\ (role = "reviewer" => a # author)
    BY SchedulerAssumption DEF Excluded, ExcludeSet
  <2>3. \A a \in Agents : a \notin Exhausted(v) <=> \A w \in Workers : own[w][a] # "exhausted"
    BY SeenIsCommon DEF AskedInv, Exhausted
  <2> QED BY <2>1, <2>2, <2>3, SchedulerAssumption DEF InRolePool
<1> QED BY <1>1, AskedInvariant, PTL

\* A refusal is for good: exclusions, quota and spending never make an agent
\* eligible again in this process, so that releasing the task as failed gives
\* no later choice up (handleSchedulerRefusal()).
THEOREM RefusedForGood == Spec => RefusalIsFinal
<1>1. AskedInv /\ AskedInv' /\ [Next]_asked =>
        [~Restart => \A w \in Workers : Decision(w) # "none" => Decision(w)' # "none"]_asked
  <2> SUFFICES ASSUME AskedInv, AskedInv', Next, ~Restart,
                      NEW w \in Workers, Decision(w)' = "none"
               PROVE  Decision(w) = "none"
    OBVIOUS
  <2>1. OnlyLess
    BY StepKeeps
  <2>2. (Decision(w) = "none" <=> budget.status # "exhausted" /\ Candidates(w) # {})'
    BY DecidesOnStatus, PTL
  <2>3. Exhausted(w) \subseteq Exhausted(w)'
    <3>1. Exhausted(w)' = {a \in Agents : Common(a)' = "exhausted"}
      BY SeenIsCommonNext DEF AskedInv, Exhausted
    <3> QED
      BY <2>1, <3>1, ExhaustedIsCommon DEF OnlyLess, AskedInv
  <2>4. Excluded \subseteq Excluded'
    BY <2>1 DEF OnlyLess, Excluded, ExcludeSet
  <2>5. role \in Roles /\ role' = role
    BY <2>1 DEF AskedInv, AskedTypeOK, OnlyLess
  <2>6. Candidates(w)' \subseteq Candidates(w)
    BY <2>3, <2>4, <2>5, EligibleExactly DEF Candidates
  <2> QED
    BY <2>1, <2>2, <2>6, DecidesOnStatus DEF OnlyLess
<1>2. AskedInv /\ [Next]_asked => AskedInv'
  BY StepKeeps
<1> QED BY <1>1, <1>2, AskedInvariant, PTL DEF Spec, RefusalIsFinal

\* An agent that one worker has found wanting is so to all, and does not get better
\* (syncQuotaHealth(), applyProviderFailure()).
THEOREM HealthWorsens == Spec => HealthOnlyWorsens
<1>1. AskedInv /\ AskedInv' /\ [Next]_asked =>
        [~Restart => \A v, w \in Workers, a \in Agents :
                       Rank(Seen(v, a)') >= Rank(Seen(w, a))]_asked
  <2> SUFFICES ASSUME AskedInv, AskedInv', Next, ~Restart,
                      NEW v \in Workers, NEW w \in Workers, NEW a \in Agents
               PROVE  Rank(Seen(v, a)') >= Rank(Seen(w, a))
    OBVIOUS
  <2>1. Seen(w, a) = Common(a)
    BY SeenIsCommon DEF AskedInv
  <2>2. Seen(v, a)' = Common(a)'
    BY SeenIsCommonNext DEF AskedInv
  <2> QED
    BY <2>1, <2>2, StepKeeps DEF OnlyLess
<1>2. AskedInv /\ [Next]_asked => AskedInv'
  BY StepKeeps
<1> QED BY <1>1, <1>2, AskedInvariant, PTL DEF Spec, HealthOnlyWorsens

\* A task is told of each threshold at most once, and of the lower one first, by
\* any number of managers and across invocations (emitTransitionEvents()).
THEOREM WarnsOnce == Spec => []WarnsOnceInOrder
<1>1. AskedInv => WarnsOnceInOrder
  <2> SUFFICES ASSUME AskedInv PROVE WarnsOnceInOrder
    OBVIOUS
  <2>1. Len(quotaLog) \in Nat /\ (quotaLog = <<>> => Len(quotaLog) = 0)
    BY DEF AskedInv, BudgetInv, BudgetTypeOK
  <2>2. budget.status \in {"absent", "ok", "soft_warning", "exhausted"}
    BY DEF AskedInv, BudgetInv, BudgetTypeOK, Levels
  <2>3. CASE budget.status = "exhausted"
    <3>1. \/ Len(quotaLog) <= 1
          \/ Len(quotaLog) = 2 /\ quotaLog[1].kind = "low" /\ quotaLog[2].kind = "exhausted"
      BY <2>3 DEF AskedInv, BudgetInv
    <3>2. \A n \in Nat : (n <= 1 => n <= 2 /\ n # 2) /\ (n = 2 => n <= 2)
      OBVIOUS
    <3>3. Len(quotaLog) <= 2 /\ (Len(quotaLog) <= 1 => Len(quotaLog) # 2)
      BY <2>1, <3>1, <3>2, Zenon
    <3> QED
      BY <3>1, <3>3, Zenon DEF WarnsOnceInOrder
  <2>4. CASE budget.status # "exhausted"
    <3>1. Len(quotaLog) = 0 \/ Len(quotaLog) = 1
      BY <2>1, <2>2, <2>4 DEF AskedInv, BudgetInv
    <3>2. Len(quotaLog) <= 2 /\ Len(quotaLog) # 2
      BY <3>1
    <3> QED
      BY <3>2, Zenon DEF WarnsOnceInOrder
  <2> QED
    BY <2>3, <2>4
<1> QED BY <1>1, AskedInvariant, PTL

\* A step that makes a budget's status soft_warning or exhausted warns of that
\* status, but for a log that fails (emitTransitionEvents(), syncEmitted()).
LEMMA StatusTold ==
  ASSUME AskedInv, Next,
         budget'.status \in {"soft_warning", "exhausted"}, budget'.status # budget.status
  PROVE  Told \/ LogFails
<1>1. ASSUME NEW w \in Workers PROVE ~OpenBudget(w)
  <2> SUFFICES ASSUME OpenBudget(w) PROVE FALSE
    OBVIOUS
  <2>1. budget'.status = budget.status \/ budget'.status = "ok"
    BY OpenedIsRow DEF OpenBudget, AskedInv
  <2> QED
    BY <2>1
<1>2. ASSUME NEW w \in Workers, Refuse(w) \/ TurnBack(w) \/ Launch(w)
      PROVE  Told \/ LogFails
  <2>1. PreLaunch(w) \/ PreLaunchUntold(w)
    BY <1>1, <1>2 DEF Refuse, TurnBack, Launch
  <2> QED
    BY <2>1, ManagerTells DEF AskedInv, LogFails
<1>3. ASSUME NEW w \in Workers, Account(w)
      PROVE  Told \/ LogFails
  <2>1. budget.status # "absent"
    BY <1>3, DecisionsAssumption DEF Account, AskedInv, AskedTypeOK, NoRun
  <2>2. PICK c \in Costs : PostRun(w, c[1], c[2]) \/ PostRunUntold(w, c[1], c[2])
    BY <1>3 DEF Account
  <2>3. c[1] \in Nat /\ c[2] \in Nat
    BY DecisionsAssumption
  <2> QED
    BY <2>1, <2>2, <2>3, ManagerTells DEF AskedInv, LogFails
<1>4. ASSUME NEW w \in Workers PROVE ~Break(w) /\ ~OtherRun(w)
  BY DEF Break, OtherRun, budgetVars
<1>5. ~Restart
  BY DEF Restart
<1> QED
  BY <1>2, <1>3, <1>4, <1>5 DEF Next

LEMMA ToldIsWarned ==
  ASSUME AskedInv, AskedInv', Told
  PROVE  /\ budget'.status = "exhausted" => WarnedOf("exhausted")'
         /\ budget'.status # "exhausted" => WarnedOf("low")'
<1>1. quotaLog' \in Seq([kind : Warnings, axis : Axes])
  BY DEF AskedInv, BudgetInv, BudgetTypeOK
<1>2. Len(quotaLog') \in Nat /\ DOMAIN quotaLog' = 1..Len(quotaLog')
  BY <1>1
<1>3. Len(quotaLog) \in Nat
  BY DEF AskedInv, BudgetInv, BudgetTypeOK
<1>4. Len(quotaLog') \in DOMAIN quotaLog'
  BY <1>2, <1>3 DEF Told
<1> QED
  BY <1>4 DEF Told, WarnedOf

\* Whatever uses a budget up tells of it, but for a log that fails
\* (emitTransitionEvents(), syncEmitted()).
THEOREM ExhaustionTold == Spec => ExhaustionIsTold
<1>1. AskedInv /\ AskedInv' /\ [Next]_asked =>
        [budget.status # "exhausted" /\ budget'.status = "exhausted"
         => WarnedOf("exhausted")' \/ LogFails]_asked
  <2> SUFFICES ASSUME AskedInv, AskedInv', Next,
                      budget.status # "exhausted", budget'.status = "exhausted"
               PROVE  WarnedOf("exhausted")' \/ LogFails
    OBVIOUS
  <2>1. Told \/ LogFails
    BY StatusTold
  <2> QED
    BY <2>1, ToldIsWarned
<1>2. AskedInv /\ [Next]_asked => AskedInv'
  BY StepKeeps
<1> QED BY <1>1, <1>2, AskedInvariant, PTL DEF Spec, ExhaustionIsTold

\* What is left of LowIsTold, which is not true of the code: the first crossing of
\* 80% is told of unless the same step uses the budget up, or the log fails
\* (emitTransitionEvents()).
THEOREM OnlyJumpsSkipLow ==
  Spec => [][~PastSoft /\ PastSoft'
             => WarnedOf("low")' \/ LogFails \/ budget'.status = "exhausted"]_asked
<1>1. AskedInv /\ AskedInv' /\ [Next]_asked =>
        [~PastSoft /\ PastSoft'
         => WarnedOf("low")' \/ LogFails \/ budget'.status = "exhausted"]_asked
  <2> SUFFICES ASSUME AskedInv, AskedInv', Next, ~PastSoft, PastSoft',
                      budget'.status # "exhausted"
               PROVE  WarnedOf("low")' \/ LogFails
    OBVIOUS
  <2>1. budget.status \notin {"soft_warning", "exhausted"}
    <3>1. \A x \in Axes : budget.used[x] \in Nat /\ Caps[x] \in Nat
      BY BudgetAssumption DEF AskedInv, BudgetInv, BudgetTypeOK
    <3>2. StatusOf(budget.used) = "ok"
      BY <3>1 DEF PastSoft, StatusOf
    <3> QED
      BY <3>2 DEF AskedInv, BudgetInv
  <2>2. budget'.status = "soft_warning"
    <3>1. \A x \in Axes : Caps[x] \in Nat \ {0}
      BY BudgetAssumption
    <3>2. budget'.status # "absent"
      BY <3>1 DEF AskedInv, BudgetInv, NoBudget, PastSoft
    <3>3. budget'.status = StatusOf(budget'.used)
      BY <3>2 DEF AskedInv, BudgetInv
    <3> QED
      BY <3>3 DEF PastSoft, StatusOf
  <2>3. Told \/ LogFails
    BY <2>1, <2>2, StatusTold
  <2> QED
    BY <2>2, <2>3, ToldIsWarned
<1>2. AskedInv /\ [Next]_asked => AskedInv'
  BY StepKeeps
<1> QED BY <1>1, <1>2, AskedInvariant, PTL DEF Spec

\* The axis a warning names is past the warning's threshold, now and for good, ties
\* and simultaneous crossings included (pickAxis()).
THEOREM NamesTheAxis == Spec => []WarningNamesAxis
<1>1. Init => AllPast
  BY DEF Init, BudgetInit, AllPast
<1>2. AskedInv /\ AllPast /\ [Next]_asked => AllPast'
  <2> SUFFICES ASSUME AskedInv, AllPast, [Next]_asked
               PROVE  AllPast'
    OBVIOUS
  <2>1. CASE UNCHANGED <<budget, quotaLog>>
    BY <2>1 DEF AllPast
  <2>2. ASSUME NEW w \in Workers, Refuse(w) \/ TurnBack(w) \/ Launch(w)
        PROVE  AllPast'
    BY <2>2, ManagerNames DEF Refuse, TurnBack, Launch, AskedInv
  <2>3. ASSUME NEW w \in Workers, Account(w)
        PROVE  AllPast'
    <3>1. budget.status # "absent"
      BY <2>3, DecisionsAssumption DEF Account, AskedInv, AskedTypeOK, NoRun
    <3>2. PICK c \in Costs : PostRun(w, c[1], c[2]) \/ PostRunUntold(w, c[1], c[2])
      BY <2>3 DEF Account
    <3>3. c[1] \in Nat /\ c[2] \in Nat
      BY DecisionsAssumption
    <3> QED
      BY <3>1, <3>2, <3>3, ManagerNames DEF AskedInv
  <2>4. ASSUME NEW w \in Workers, Break(w) \/ OtherRun(w)
        PROVE  UNCHANGED <<budget, quotaLog>>
    BY <2>4 DEF Break, OtherRun, budgetVars
  <2>5. Restart \/ UNCHANGED asked => UNCHANGED <<budget, quotaLog>>
    BY DEF Restart, asked, budgetVars
  <2> QED
    BY <2>1, <2>2, <2>3, <2>4, <2>5 DEF Next
<1>3. AllPast => WarningNamesAxis
  BY DEF AllPast, Past, WarningNamesAxis
<1> QED BY <1>1, <1>2, <1>3, AskedInvariant, PTL DEF Spec

-----------------------------------------------------------------------------
(* Which candidate is best.                                                *)

\* A relation that orders any two elements of a finite set has a first element.
LEMMA FiniteHasFirst ==
  ASSUME NEW S, IsFiniteSet(S), S # {}, NEW R,
         \A a, b \in S : a # b => <<a, b>> \in R \/ <<b, a>> \in R,
         \A a, b, c \in S : <<a, b>> \in R /\ <<b, c>> \in R => <<a, c>> \in R
  PROVE  \E a \in S : \A b \in S \ {a} : <<a, b>> \in R
<1> DEFINE HasFirst(X) == \E a \in X : \A b \in X \ {a} : <<a, b>> \in R
           Without == {X \in SUBSET S : X # {} /\ ~HasFirst(X)}
<1>1. Without = {}
  <2> SUFFICES ASSUME Without # {} PROVE FALSE
    OBVIOUS
  <2>1. /\ IsWellFoundedOn(StrictSubsetOrdering(S), FiniteSubsetsOf(S))
        /\ Without \subseteq FiniteSubsetsOf(S)
    BY FS_StrictSubsetOrderingWellFounded, FS_FiniteSubsetsOfFinite
  <2>2. PICK X \in Without : \A Y \in Without : <<Y, X>> \notin StrictSubsetOrdering(S)
    <3> HIDE DEF Without
    <3> QED BY <2>1, WFMin, Zenon
  <2>3. PICK x \in X : TRUE
    OBVIOUS
  <2>4. X \ {x} \notin Without
    <3>1. <<X \ {x}, X>> \in StrictSubsetOrdering(S)
      BY <2>3 DEF StrictSubsetOrdering
    <3> QED BY <2>2, <3>1
  <2>5. CASE X \ {x} = {}
    <3>1. HasFirst(X)
      BY <2>3, <2>5
    <3> QED BY <3>1
  <2>6. CASE X \ {x} # {}
    <3>1. HasFirst(X \ {x})
      BY <2>4, <2>6
    <3>2. PICK m \in X \ {x} : \A b \in (X \ {x}) \ {m} : <<m, b>> \in R
      BY <3>1
    <3>3. HasFirst(X)
      <4>1. CASE <<m, x>> \in R
        BY <3>2, <4>1
      <4>2. CASE <<x, m>> \in R
        <5>1. ASSUME NEW b \in X \ {x} PROVE <<x, b>> \in R
          BY <2>3, <3>2, <4>2, <5>1
        <5> QED BY <2>3, <5>1
      <4> QED BY <2>3, <3>2, <4>1, <4>2
    <3> QED BY <3>3
  <2> QED BY <2>5, <2>6
<1> QED BY <1>1

\* The greatest of finitely many integers.
LEMMA MaxIsGreatest ==
  ASSUME NEW S \in SUBSET Int, IsFiniteSet(S), S # {}
  PROVE  Max(S) \in S /\ \A x \in S : Max(S) >= x
<1> DEFINE R == {p \in Int \X Int : p[1] >= p[2]}
<1>1. \A x, y \in S : <<x, y>> \in R <=> x >= y
  OBVIOUS
<1>2. /\ \A a, b \in S : a # b => <<a, b>> \in R \/ <<b, a>> \in R
      /\ \A a, b, c \in S : <<a, b>> \in R /\ <<b, c>> \in R => <<a, c>> \in R
  <2>1. \A a, b \in Int : a >= b \/ b >= a
    OBVIOUS
  <2>2. \A a, b, c \in Int : a >= b /\ b >= c => a >= c
    OBVIOUS
  <2> HIDE DEF R
  <2> QED BY <1>1, <2>1, <2>2
<1>3. PICK m \in S : \A x \in S \ {m} : <<m, x>> \in R
  <2> HIDE DEF R
  <2> QED BY <1>2, FiniteHasFirst
<1>4. \A x \in S : m >= x
  <2>1. m >= m
    OBVIOUS
  <2> HIDE DEF R
  <2> QED BY <1>1, <1>3, <2>1
<1> QED BY <1>4 DEF Max

\* Of two of them.
LEMMA MaxOfTwo ==
  ASSUME NEW x \in Int, NEW y \in Int
  PROVE  Max({x, y}) = IF x >= y THEN x ELSE y
<1>1. IsFiniteSet({x, y})
  <2>1. IsFiniteSet({x}) /\ {x, y} = {x} \cup {y}
    BY FS_Singleton
  <2> QED BY <2>1, FS_AddElement
<1>2. Max({x, y}) \in {x, y} /\ Max({x, y}) >= x /\ Max({x, y}) >= y
  BY <1>1, MaxIsGreatest
<1> QED BY <1>2

-----------------------------------------------------------------------------
(* Fractions.                                                              *)

Fraction == Int \X (Nat \ {0})

LEMMA TimesIsMonotone ==
  ASSUME NEW x \in Int, NEW y \in Int, x <= y, NEW k \in Nat
  PROVE  x * k <= y * k
OBVIOUS

LEMMA TimesCancels ==
  ASSUME NEW x \in Int, NEW y \in Int, NEW k \in Nat \ {0}, x * k <= y * k
  PROVE  x <= y
OBVIOUS

\* They are compared as numbers are.
LEMMA HigherIsTransitive ==
  ASSUME NEW p \in Fraction, NEW q \in Fraction, NEW r \in Fraction,
         ~Higher(p, q), ~Higher(q, r)
  PROVE  /\ ~Higher(p, r)
         /\ ~Higher(r, p) => ~Higher(q, p) /\ ~Higher(r, q)
<1> PICK a \in Int, b \in Nat \ {0} : p = <<a, b>>
  BY DEF Fraction
<1> PICK c \in Int, d \in Nat \ {0} : q = <<c, d>>
  BY DEF Fraction
<1> PICK e \in Int, f \in Nat \ {0} : r = <<e, f>>
  BY DEF Fraction
<1>1. a * d <= c * b /\ c * f <= e * d
  BY DEF Higher
<1>2. (a * f) * d <= (c * b) * f
  <2>1. (a * d) * f <= (c * b) * f
    BY <1>1, TimesIsMonotone
  <2> QED BY <2>1
<1>3. (c * b) * f <= (e * b) * d
  <2>1. (c * f) * b <= (e * d) * b
    BY <1>1, TimesIsMonotone
  <2> QED BY <2>1
<1>4. a * f <= e * b
  <2>1. (a * f) * d <= (e * b) * d
    BY <1>2, <1>3
  <2> QED BY <2>1, TimesCancels
<1>5. ASSUME e * b <= a * f PROVE c * b <= a * d /\ e * d <= c * f
  <2>1. (e * b) * d <= (a * f) * d
    BY <1>5, TimesIsMonotone
  <2>2. (c * b) * f <= (a * d) * f
    BY <1>3, <2>1
  <2>3. (e * d) * b <= (c * f) * b
    BY <1>2, <2>1
  <2> QED BY <2>2, <2>3, TimesCancels
<1> QED BY <1>4, <1>5 DEF Higher

\* A sum of two is at most a sum of two that are at least these, and they are equal
\* when their sums are.
LEMMA PlusIsMonotone ==
  ASSUME NEW p \in Fraction, NEW q \in Fraction, NEW r \in Fraction, NEW s \in Fraction,
         ~Higher(p, q), ~Higher(r, s)
  PROVE  /\ Plus(p, r) \in Fraction /\ Plus(q, s) \in Fraction
         /\ ~Higher(Plus(p, r), Plus(q, s))
         /\ ~Higher(Plus(q, s), Plus(p, r)) => ~Higher(q, p) /\ ~Higher(s, r)
<1> PICK a \in Int, b \in Nat \ {0} : p = <<a, b>>
  BY DEF Fraction
<1> PICK c \in Int, d \in Nat \ {0} : q = <<c, d>>
  BY DEF Fraction
<1> PICK e \in Int, f \in Nat \ {0} : r = <<e, f>>
  BY DEF Fraction
<1> PICK g \in Int, h \in Nat \ {0} : s = <<g, h>>
  BY DEF Fraction
<1>1. a * d <= c * b /\ e * h <= g * f
  BY DEF Higher
<1>2. b * f \in Nat \ {0} /\ d * h \in Nat \ {0} /\ f * h \in Nat \ {0} /\ b * d \in Nat \ {0}
  OBVIOUS
<1>3. (a * d) * (f * h) <= (c * b) * (f * h) /\ (e * h) * (b * d) <= (g * f) * (b * d)
  BY <1>1, <1>2, TimesIsMonotone
<1>4. /\ (a * f + e * b) * (d * h) = (a * d) * (f * h) + (e * h) * (b * d)
      /\ (c * h + g * d) * (b * f) = (c * b) * (f * h) + (g * f) * (b * d)
  OBVIOUS
<1>5. (a * f + e * b) * (d * h) <= (c * h + g * d) * (b * f)
  BY <1>3, <1>4
<1>6. ASSUME (c * h + g * d) * (b * f) <= (a * f + e * b) * (d * h)
      PROVE  c * b <= a * d /\ g * f <= e * h
  <2>1. (c * b) * (f * h) <= (a * d) * (f * h) /\ (g * f) * (b * d) <= (e * h) * (b * d)
    BY <1>3, <1>4, <1>6
  <2> QED BY <1>2, <2>1, TimesCancels
<1>7. /\ Plus(p, r) = <<a * f + e * b, b * f>> /\ Plus(q, s) = <<c * h + g * d, d * h>>
      /\ a * f + e * b \in Int /\ c * h + g * d \in Int
  BY DEF Plus
<1> QED BY <1>2, <1>5, <1>6, <1>7 DEF Higher, Fraction

\* A positive multiple.
LEMMA MultipleIsMonotone ==
  ASSUME NEW p \in Fraction, NEW q \in Fraction, NEW k \in Nat \ {0}
  PROVE  /\ Times(k, p) \in Fraction
         /\ Higher(Times(k, p), Times(k, q)) <=> Higher(p, q)
<1> PICK a \in Int, b \in Nat \ {0} : p = <<a, b>>
  BY DEF Fraction
<1> PICK c \in Int, d \in Nat \ {0} : q = <<c, d>>
  BY DEF Fraction
<1>1. k * a * d = (a * d) * k /\ k * c * b = (c * b) * k /\ k * a \in Int
  OBVIOUS
<1>2. (a * d) * k > (c * b) * k <=> a * d > c * b
  OBVIOUS
<1> QED BY <1>1, <1>2 DEF Times, Higher, Fraction

-----------------------------------------------------------------------------
(* What a view says of an agent.                                           *)

\* What a sequence is made of.
LEMMA Elements ==
  ASSUME NEW T, NEW s \in Seq(T)
  PROVE  Len(s) \in Nat /\ \A i \in 1..Len(s) : s[i] \in T
OBVIOUS

\* Numbers up to n, if there are any, have a least one.
LEMMA HasLeast ==
  ASSUME NEW n \in Nat, NEW S \in SUBSET (0..n), S # {}
  PROVE  \E a \in S : \A b \in S : a <= b
<1> DEFINE T == {n - a : a \in S}
<1>1. IsFiniteSet(0..n) /\ T \subseteq 0..n /\ T \in SUBSET Int /\ T # {}
  <2>1. IsFiniteSet(0..n)
    BY FS_Interval
  <2>2. T # {}
    <3>1. PICK a \in S : TRUE
      OBVIOUS
    <3>2. n - a \in T
      OBVIOUS
    <3> QED BY <3>2
  <2>3. T \subseteq 0..n
    OBVIOUS
  <2> QED BY <2>1, <2>2, <2>3
<1>2. IsFiniteSet(T)
  <2> HIDE DEF T
  <2> QED BY <1>1, FS_Subset
<1>3. PICK m \in T : \A x \in T : m >= x
  <2> HIDE DEF T
  <2> QED BY <1>1, <1>2, MaxIsGreatest
<1>4. PICK a \in S : m = n - a
  OBVIOUS
<1>5. ASSUME NEW b \in S PROVE a <= b
  <2>1. n - b \in T
    OBVIOUS
  <2>2. m >= n - b
    <3> HIDE DEF T
    <3> QED BY <1>3, <2>1
  <2> QED BY <1>4, <2>2
<1> QED BY <1>5

\* The times of any rows add up: what is below the window counts for nothing.
LEMMA TotalIsInt ==
  ASSUME NEW rows \in Seq([success : BOOLEAN, time : Nat]), NEW seen \in SUBSET (1..Len(rows))
  PROVE  TotalTime(rows, seen) \in Int
<1> DEFINE Top == Len(rows)
           Added(sum, n) ==
             \A i \in 0..n : sum[i] = IF i \in seen THEN sum[i - 1] + rows[i].time ELSE 0
           Summed(n) == \E sum \in [0..n -> Int] : Added(sum, n)
           Not == {n \in 0..Top : ~Summed(n)}
<1>0. Top \in Nat /\ \A i \in 1..Top : rows[i].time \in Int
  <2>1. Len(rows) \in Nat /\ \A i \in 1..Len(rows) : rows[i] \in [success : BOOLEAN, time : Nat]
    BY Elements
  <2> QED BY <2>1
<1>2. \A n \in 0..Top : Summed(n)
  <2> SUFFICES ASSUME Not # {} PROVE FALSE
    OBVIOUS
  <2>1. PICK n \in Not : \A m \in Not : n <= m
    <3>1. Not \in SUBSET (0..Top)
      OBVIOUS
    <3> HIDE DEF Not
    <3> QED BY <1>0, <3>1, HasLeast
  <2>2. n \in 0..Top /\ ~Summed(n)
    OBVIOUS
  <2>3. CASE n = 0
    <3>1. [i \in 0..0 |-> 0] \in [0..n -> Int] /\ Added([i \in 0..0 |-> 0], n)
      BY <2>3
    <3> QED BY <2>2, <3>1
  <2>4. CASE n # 0
    <3>1. n - 1 \in 0..Top /\ ~(n <= n - 1)
      BY <1>0, <2>2, <2>4
    <3>2. Summed(n - 1)
      BY <2>1, <3>1
    <3>3. PICK sum \in [0..(n - 1) -> Int] : Added(sum, n - 1)
      BY <3>2
    <3> DEFINE more == [i \in 0..n |->
                          IF i = n THEN IF n \in seen THEN sum[n - 1] + rows[n].time ELSE 0
                          ELSE sum[i]]
    <3>4. more \in [0..n -> Int]
      BY <1>0, <2>2, <2>4
    <3>5. Added(more, n)
      <4> SUFFICES ASSUME NEW i \in 0..n
                   PROVE  more[i] = IF i \in seen THEN more[i - 1] + rows[i].time ELSE 0
        OBVIOUS
      <4>1. CASE i = n
        BY <2>2, <2>4, <4>1
      <4>2. CASE i # n
        <5>1. i \in 0..(n - 1) /\ more[i] = sum[i] /\ (i \in seen => more[i - 1] = sum[i - 1])
          BY <1>0, <2>2, <2>4, <4>2
        <5> QED BY <3>3, <5>1
      <4> QED BY <4>1, <4>2
    <3> QED BY <2>2, <3>4, <3>5
  <2> QED BY <2>3, <2>4
<1> DEFINE Sum(f) == f = [i \in 0..Top |-> IF i \in seen THEN f[i - 1] + rows[i].time ELSE 0]
<1>3. \E f : Sum(f)
  <2>1. PICK f \in [0..Top -> Int] : Added(f, Top)
    <3>1. Top \in 0..Top
      BY <1>0
    <3> HIDE DEF Added, Top
    <3> QED BY <1>2, <3>1
  <2>2. \A i \in 0..Top : f[i] = IF i \in seen THEN f[i - 1] + rows[i].time ELSE 0
    BY <2>1
  <2>3. DOMAIN f = 0..Top /\ f = [i \in 0..Top |-> f[i]]
    BY <2>1
  <2>4. Sum(f)
    BY <2>2, <2>3, Zenon
  <2> QED BY <2>4
<1>4. Sum(CHOOSE f : Sum(f))
  <2> HIDE DEF Sum
  <2> QED BY <1>3
<1> PICK f : f = CHOOSE g : Sum(g)
  OBVIOUS
<1>5. Sum(f)
  <2> HIDE DEF Sum
  <2> QED BY <1>4
<1> DEFINE Odd == {n \in 0..Top : f[n] \notin Int}
<1>6. Odd = {}
  <2> SUFFICES ASSUME Odd # {} PROVE FALSE
    OBVIOUS
  <2>1. PICK n \in Odd : \A m \in Odd : n <= m
    <3>1. Odd \in SUBSET (0..Top)
      OBVIOUS
    <3> HIDE DEF Odd
    <3> QED BY <1>0, <3>1, HasLeast
  <2>2. n \in 0..Top /\ f[n] \notin Int
    OBVIOUS
  <2>3. n \in seen /\ f[n] = f[n - 1] + rows[n].time
    <3>1. f[n] = IF n \in seen THEN f[n - 1] + rows[n].time ELSE 0
      BY <1>5, <2>2, Zenon
    <3> QED BY <2>2, <3>1
  <2>4. n - 1 \in 0..Top /\ ~(n <= n - 1)
    BY <1>0, <2>2, <2>3
  <2>5. f[n - 1] \in Int
    BY <2>1, <2>4
  <2> QED BY <1>0, <2>2, <2>3, <2>5
<1>7. TotalTime(rows, seen) = f[Top]
  BY DEF TotalTime
<1> QED BY <1>0, <1>6, <1>7

\* The measures of an agent are fractions.
LEMMA MetricsTypes ==
  ASSUME NEW e \in Entries
  PROVE  /\ Metrics(e).latency \in Int /\ Metrics(e).runs \in Nat
         /\ Reliability(e) \in Fraction
<1>1. /\ e.rows \in Seq([success : BOOLEAN, time : Nat])
      /\ e.time \in Nat /\ e.rate \in 0..10
  BY RankingAssumption
<1>2. CASE e.rows = <<>>
  BY <1>1, <1>2 DEF Metrics, Reliability, Fraction
<1>3. CASE e.rows # <<>>
  <2> DEFINE rows == e.rows
             seen == Max({1, Len(rows) - Window + 1})..Len(rows)
             won  == {i \in seen : rows[i].success}
  <2>1. Len(rows) \in Nat /\ Len(rows) # 0
    BY <1>1, <1>3
  <2>2. /\ Max({1, Len(rows) - Window + 1}) \in Int
        /\ 1 <= Max({1, Len(rows) - Window + 1})
        /\ Max({1, Len(rows) - Window + 1}) <= Len(rows)
    BY <2>1, MaxOfTwo, RankingAssumption
  <2>3. /\ IsFiniteSet(seen) /\ seen \in SUBSET (1..Len(rows))
        /\ Cardinality(seen) = Len(rows) - Max({1, Len(rows) - Window + 1}) + 1
    <3> PICK first \in Int : first = Max({1, Len(rows) - Window + 1})
      BY <2>2
    <3> PICK last \in Int : last = Len(rows)
      BY <2>1
    <3>1. 1 <= first /\ first <= last
      BY <2>2
    <3>2. /\ IsFiniteSet(first..last)
          /\ Cardinality(first..last) = IF first > last THEN 0 ELSE last - first + 1
      BY FS_Interval
    <3>3. first..last \in SUBSET (1..last)
      BY <3>1
    <3>4. seen = first..last
      OBVIOUS
    <3>5. Cardinality(first..last) = last - first + 1
      BY <3>1, <3>2
    <3> HIDE DEF seen, rows
    <3>6. IsFiniteSet(seen) /\ seen \in SUBSET (1..last) /\ Cardinality(seen) = last - first + 1
      BY <3>2, <3>3, <3>4, <3>5
    <3> QED BY <3>6
  <2>4. Cardinality(seen) \in Nat \ {0}
    BY <2>1, <2>2, <2>3
  <2>5. Cardinality(won) \in Nat
    <3>1. won \in SUBSET seen
      OBVIOUS
    <3> HIDE DEF won, seen
    <3> QED BY <2>3, <3>1, FS_Subset, FS_CardinalityType
  <2>6. TotalTime(rows, seen) \in Int
    <3> HIDE DEF rows, seen
    <3> QED BY <1>1, <2>3, TotalIsInt DEF rows
  <2>7. Metrics(e) = [runs    |-> Cardinality(seen),
                      wins    |-> Cardinality(won),
                      latency |-> (2 * TotalTime(rows, seen) + Cardinality(seen))
                                    \div (2 * Cardinality(seen))]
    BY <1>3 DEF Metrics, Rolling
  <2>8. ASSUME NEW x \in Int, NEW n \in Nat \ {0} PROVE (2 * x + n) \div (2 * n) \in Int
    OBVIOUS
  <2> HIDE DEF seen, won, rows
  <2>9. /\ Metrics(e).latency \in Int /\ Metrics(e).runs \in Nat \ {0}
        /\ Metrics(e).wins \in Nat
    BY <2>4, <2>5, <2>6, <2>7, <2>8
  <2> QED BY <1>1, <2>9 DEF Reliability, Fraction
<1> QED BY <1>2, <1>3

\* One who is as fast has a score that is as high, and it is the other way round as
\* well when the scores are the same.
LEMMA FastScoresHigh ==
  ASSUME NEW e \in Entries, NEW f \in Entries, AsFast(Metrics(f), Metrics(e))
  PROVE  /\ LatencyScore(e) \in Fraction /\ LatencyScore(f) \in Fraction
         /\ ~Higher(LatencyScore(e), LatencyScore(f))
         /\ ~Higher(LatencyScore(f), LatencyScore(e)) => AsFast(Metrics(e), Metrics(f))
<1> PICK x \in Int : x = Metrics(e).latency
  BY MetricsTypes
<1> PICK y \in Int : y = Metrics(f).latency
  BY MetricsTypes
<1> PICK c \in Nat \ {0} : c = LatencyCap
  BY RankingAssumption
<1> DEFINE Left(z) == IF c - z <= 0 THEN 0 ELSE c - z
           Of(z)   == IF z = 0 THEN <<1, 2>> ELSE <<Left(z), c>>
<1>1. \A z \in Int : Max({0, c - z}) = Left(z)
  BY MaxOfTwo
<1>2. LatencyScore(e) = Of(x) /\ LatencyScore(f) = Of(y)
  BY <1>1 DEF LatencyScore
<1>3. \A z \in Int : Left(z) \in Int /\ Of(z) \in Fraction
  BY DEF Fraction
<1>4. y = x \/ (0 < y /\ y < x) \/ (c <= y /\ c <= x)
  BY DEF AsFast
<1>5. CASE y = x
  <2>1. LatencyScore(e) = LatencyScore(f) /\ ~Higher(Of(x), Of(x))
    <3>1. \A p \in Fraction : ~Higher(p, p)
      BY DEF Higher, Fraction
    <3>2. Of(x) \in Fraction
      BY <1>3
    <3>3. Of(x) = Of(y)
      BY <1>5
    <3> HIDE DEF Of
    <3> QED BY <1>2, <3>1, <3>2, <3>3
  <2>2. AsFast(Metrics(e), Metrics(f))
    BY <1>5 DEF AsFast
  <2> QED BY <1>2, <1>3, <2>1, <2>2
<1>6. CASE y # x
  <2>1. x # 0 /\ y # 0 /\ Left(x) <= Left(y) /\ Left(x) \in Int /\ Left(y) \in Int
    BY <1>4, <1>6
  <2>2. Left(y) <= Left(x) => c <= y /\ c <= x
    BY <1>4, <1>6
  <2>3. Higher(Of(x), Of(y)) <=> Left(x) > Left(y)
    <3>1. Left(x) * c > Left(y) * c <=> Left(x) > Left(y)
      <4> HIDE DEF Left
      <4>1. Left(x) > Left(y) => Left(x) * c > Left(y) * c
        BY <2>1
      <4>2. Left(x) * c > Left(y) * c => Left(x) > Left(y)
        BY <2>1
      <4> QED BY <4>1, <4>2
    <3> QED BY <2>1, <3>1 DEF Higher
  <2>4. Higher(Of(y), Of(x)) <=> Left(y) > Left(x)
    <3>1. Left(y) * c > Left(x) * c <=> Left(y) > Left(x)
      <4> HIDE DEF Left
      <4>1. Left(y) > Left(x) => Left(y) * c > Left(x) * c
        BY <2>1
      <4>2. Left(y) * c > Left(x) * c => Left(y) > Left(x)
        BY <2>1
      <4> QED BY <4>1, <4>2
    <3> QED BY <2>1, <3>1 DEF Higher
  <2>5. c <= y /\ c <= x => AsFast(Metrics(e), Metrics(f))
    BY DEF AsFast
  <2> HIDE DEF Left, Of
  <2> QED BY <1>2, <1>3, <2>1, <2>2, <2>3, <2>4, <2>5
<1> QED BY <1>5, <1>6

\* So has one with as much quota left.
LEMMA HealthyScoresHigh ==
  ASSUME NEW h \in Healths, NEW g \in Healths, Rank(g) <= Rank(h)
  PROVE  /\ HealthScore(h) \in Fraction /\ HealthScore(g) \in Fraction
         /\ ~Higher(HealthScore(h), HealthScore(g))
         /\ ~Higher(HealthScore(g), HealthScore(h)) => Rank(h) <= Rank(g)
BY DEF HealthScore, Fraction, Higher, Rank, Healths

\* And one that costs no more, of several.
LEMMA CheapScoresHigh ==
  ASSUME NEW C \in SUBSET Agents, NEW a \in C, NEW b \in C \ {a}, NEW view \in Views,
         view[b].cost <= view[a].cost
  PROVE  /\ CostEfficiency(a, C, view) \in Fraction /\ CostEfficiency(b, C, view) \in Fraction
         /\ ~Higher(CostEfficiency(a, C, view), CostEfficiency(b, C, view))
         /\ ~Higher(CostEfficiency(b, C, view), CostEfficiency(a, C, view)) =>
              view[a].cost <= view[b].cost
<1> DEFINE costs == {view[x].cost : x \in C}
<1>1. \A x \in C : view[x].cost \in Nat
  BY RankingAssumption DEF Views
<1>2. IsFiniteSet(costs)
  <2>1. IsFiniteSet(C)
    BY RankingAssumption, FS_Subset
  <2>2. [x \in C |-> view[x].cost] \in Surjection(C, costs)
    BY DEF Surjection
  <2> HIDE DEF costs
  <2> QED BY <2>1, <2>2, FS_Surjection
<1>3. MaxCost(C, view) \in Nat /\ \A x \in C : view[x].cost <= MaxCost(C, view)
  <2>1. costs \in SUBSET Int /\ costs # {} /\ costs \subseteq Nat
    BY <1>1
  <2>2. \A x \in C : view[x].cost \in costs
    OBVIOUS
  <2>3. Max(costs) \in costs /\ \A c \in costs : Max(costs) >= c
    <3> HIDE DEF costs
    <3> QED BY <1>2, <2>1, MaxIsGreatest
  <2>4. Max(costs) = MaxCost(C, view)
    BY DEF MaxCost
  <2> HIDE DEF costs
  <2> QED BY <1>1, <2>1, <2>2, <2>3, <2>4
<1> PICK m \in Nat : m = MaxCost(C, view)
  BY <1>3
<1> PICK x \in Nat : x = view[a].cost
  BY <1>1
<1> PICK y \in Nat : y = view[b].cost
  BY <1>1
<1>4. y <= x /\ x <= m /\ C # {a} /\ C # {b}
  BY <1>3
<1>5. CASE m = 0
  <2>1. CostEfficiency(a, C, view) = <<1, 1>> /\ CostEfficiency(b, C, view) = <<1, 1>>
    BY <1>5 DEF CostEfficiency
  <2> QED BY <1>4, <1>5, <2>1 DEF Higher, Fraction
<1>6. CASE m # 0
  <2>1. /\ CostEfficiency(a, C, view) = <<m - x, m>>
        /\ CostEfficiency(b, C, view) = <<m - y, m>>
    BY <1>4, <1>6 DEF CostEfficiency
  <2>2. /\ (m - x) * m <= (m - y) * m
        /\ (m - y) * m <= (m - x) * m => m - y <= m - x
    BY <1>4, <1>6, TimesIsMonotone, TimesCancels
  <2> QED BY <1>4, <1>6, <2>1, <2>2 DEF Higher, Fraction
<1> QED BY <1>5, <1>6

-----------------------------------------------------------------------------
(* The best candidate.                                                     *)

\* The four measures that differ from one candidate to another.
Measured(w, a, view) ==
  /\ CostEfficiency(a, Candidates(w), view) \in Fraction
  /\ HealthScore(Seen(w, a)) \in Fraction
  /\ Reliability(view[a]) \in Fraction
  /\ LatencyScore(view[a]) \in Fraction

\* One that is as good in everything has a score that is as high, and the other is
\* as good as it when the scores are the same.
LEMMA GoodScoresHigh ==
  ASSUME RegistryTypeOK, NEW w \in Workers, NEW view \in Views,
         NEW a \in Candidates(w), NEW b \in Candidates(w) \ {a}, AsGood(b, a, w, view)
  PROVE  LET score(c) == Score(c, Candidates(w), Seen(w, c), view)
         IN  /\ ~Higher(score(a), score(b))
             /\ ~Higher(score(b), score(a)) => AsGood(a, b, w, view)
<1> DEFINE C == Candidates(w)
           cost(c)   == CostEfficiency(c, C, view)
           health(c) == HealthScore(Seen(w, c))
           rely(c)   == Reliability(view[c])
           fast(c)   == LatencyScore(view[c])
           first(c)  == Plus(Times(2, cost(c)), Times(2, health(c)))
           second(c) == Plus(Times(1, rely(c)), Times(1, fast(c)))
           both(c)   == Plus(first(c), second(c))
           score(c)  == Plus(<<4, 1>>, both(c))
<1>1. C \in SUBSET Agents /\ a \in Agents /\ b \in Agents
  BY DEF Candidates, EligibleAgents
<1>2. /\ view[a] \in Entries /\ view[b] \in Entries
      /\ Seen(w, a) \in Healths /\ Seen(w, b) \in Healths
  BY <1>1 DEF Views, RegistryTypeOK, Seen, Healths
<1>3. /\ cost(a) \in Fraction /\ cost(b) \in Fraction /\ ~Higher(cost(a), cost(b))
      /\ ~Higher(cost(b), cost(a)) => view[a].cost <= view[b].cost
  BY <1>1, CheapScoresHigh DEF AsGood
<1>4. /\ health(a) \in Fraction /\ health(b) \in Fraction /\ ~Higher(health(a), health(b))
      /\ ~Higher(health(b), health(a)) => Rank(Seen(w, a)) <= Rank(Seen(w, b))
  BY <1>2, HealthyScoresHigh DEF AsGood
<1>5. /\ rely(a) \in Fraction /\ rely(b) \in Fraction /\ ~Higher(rely(a), rely(b))
  BY <1>2, MetricsTypes DEF AsGood
<1>6. /\ fast(a) \in Fraction /\ fast(b) \in Fraction /\ ~Higher(fast(a), fast(b))
      /\ ~Higher(fast(b), fast(a)) => AsFast(Metrics(view[a]), Metrics(view[b]))
  BY <1>2, FastScoresHigh DEF AsGood
<1>7. \A c \in Agents : Score(c, C, Seen(w, c), view) = score(c)
  BY DEF Score, Weight
<1> HIDE DEF C, cost, health, rely, fast
<1>8. /\ first(a) \in Fraction /\ first(b) \in Fraction /\ ~Higher(first(a), first(b))
      /\ ~Higher(first(b), first(a)) => ~Higher(cost(b), cost(a)) /\ ~Higher(health(b), health(a))
  <2>1. /\ Times(2, cost(a)) \in Fraction /\ Times(2, cost(b)) \in Fraction
        /\ Times(2, health(a)) \in Fraction /\ Times(2, health(b)) \in Fraction
        /\ ~Higher(Times(2, cost(a)), Times(2, cost(b)))
        /\ ~Higher(Times(2, health(a)), Times(2, health(b)))
        /\ ~Higher(Times(2, cost(b)), Times(2, cost(a))) => ~Higher(cost(b), cost(a))
        /\ ~Higher(Times(2, health(b)), Times(2, health(a))) => ~Higher(health(b), health(a))
    BY <1>3, <1>4, MultipleIsMonotone
  <2> QED BY <2>1, PlusIsMonotone
<1>9. /\ second(a) \in Fraction /\ second(b) \in Fraction /\ ~Higher(second(a), second(b))
      /\ ~Higher(second(b), second(a)) => ~Higher(rely(b), rely(a)) /\ ~Higher(fast(b), fast(a))
  <2>1. /\ Times(1, rely(a)) \in Fraction /\ Times(1, rely(b)) \in Fraction
        /\ Times(1, fast(a)) \in Fraction /\ Times(1, fast(b)) \in Fraction
        /\ ~Higher(Times(1, rely(a)), Times(1, rely(b)))
        /\ ~Higher(Times(1, fast(a)), Times(1, fast(b)))
        /\ ~Higher(Times(1, rely(b)), Times(1, rely(a))) => ~Higher(rely(b), rely(a))
        /\ ~Higher(Times(1, fast(b)), Times(1, fast(a))) => ~Higher(fast(b), fast(a))
    BY <1>5, <1>6, MultipleIsMonotone
  <2> QED BY <2>1, PlusIsMonotone
<1> HIDE DEF first, second
<1>10. /\ both(a) \in Fraction /\ both(b) \in Fraction /\ ~Higher(both(a), both(b))
       /\ ~Higher(both(b), both(a)) => ~Higher(first(b), first(a)) /\ ~Higher(second(b), second(a))
  BY <1>8, <1>9, PlusIsMonotone
<1> HIDE DEF both
<1>11. <<4, 1>> \in Fraction /\ ~Higher(<<4, 1>>, <<4, 1>>)
  BY DEF Fraction, Higher
<1>12. /\ ~Higher(score(a), score(b))
       /\ ~Higher(score(b), score(a)) => ~Higher(both(b), both(a))
  BY <1>10, <1>11, PlusIsMonotone
<1> HIDE DEF score
<1>13. ~Higher(score(b), score(a)) => AsGood(a, b, w, view)
  <2>1. ~Higher(score(b), score(a)) =>
          /\ view[a].cost <= view[b].cost /\ Rank(Seen(w, a)) <= Rank(Seen(w, b))
          /\ ~Higher(rely(b), rely(a)) /\ AsFast(Metrics(view[a]), Metrics(view[b]))
    BY <1>3, <1>4, <1>6, <1>8, <1>9, <1>10, <1>12
  <2> QED BY <2>1 DEF AsGood, rely
<1> QED BY <1>1, <1>7, <1>12, <1>13 DEF C

\* Scores are fractions.
LEMMA ScoreType ==
  ASSUME RegistryTypeOK, NEW w \in Workers, NEW view \in Views, NEW a \in Candidates(w)
  PROVE  Score(a, Candidates(w), Seen(w, a), view) \in Fraction
<1> DEFINE C == Candidates(w)
<1>1. a \in Agents /\ C \in SUBSET Agents /\ view[a] \in Entries /\ Seen(w, a) \in Healths
  BY DEF Candidates, EligibleAgents, Views, RegistryTypeOK, Seen, Healths
<1>2. /\ Reliability(view[a]) \in Fraction /\ HealthScore(Seen(w, a)) \in Fraction
      /\ LatencyScore(view[a]) \in Fraction
  <2>1. AsFast(Metrics(view[a]), Metrics(view[a]))
    BY DEF AsFast
  <2> QED BY <1>1, <2>1, MetricsTypes, FastScoresHigh, HealthyScoresHigh DEF Rank
<1>3. CostEfficiency(a, C, view) \in Fraction
  <2>1. CASE C = {a}
    BY <2>1 DEF CostEfficiency, Fraction
  <2>2. CASE C # {a}
    <3>1. PICK b \in C : b # a
      BY <2>2
    <3>2. view[b].cost \in Nat /\ view[a].cost \in Nat
      BY <1>1, <3>1, RankingAssumption DEF Views
    <3>3. view[b].cost <= view[a].cost \/ view[a].cost <= view[b].cost
      BY <3>2
    <3> QED BY <1>1, <3>1, <3>3, CheapScoresHigh
  <2> QED BY <2>1, <2>2
<1>4. \A p \in Fraction, q \in Fraction : Plus(p, q) \in Fraction
  <2> SUFFICES ASSUME NEW p \in Fraction, NEW q \in Fraction PROVE Plus(p, q) \in Fraction
    OBVIOUS
  <2>1. ~Higher(p, p) /\ ~Higher(q, q)
    BY DEF Higher, Fraction
  <2> QED BY <2>1, PlusIsMonotone
<1>5. \A p \in Fraction, k \in Nat \ {0} : Times(k, p) \in Fraction
  BY MultipleIsMonotone
<1>6. <<4, 1>> \in Fraction
  BY DEF Fraction
<1> HIDE DEF C
<1>7. Score(a, C, Seen(w, a), view) \in Fraction
  BY <1>2, <1>3, <1>4, <1>5, <1>6 DEF Score, Weight
<1> QED BY <1>7 DEF C

\* decide() finds one candidate that is ahead of every other, by its score or, when
\* the scores are the same, by its name.
LEMMA BestIsAhead ==
  ASSUME RegistryTypeOK, NEW w \in Workers, NEW view \in Views, Candidates(w) # {}
  PROVE  LET score(c) == Score(c, Candidates(w), Seen(w, c), view)
         IN  /\ Best(w, view) \in Candidates(w)
             /\ \A b \in Candidates(w) \ {Best(w, view)} :
                  \/ Higher(score(Best(w, view)), score(b))
                  \/ /\ ~Higher(score(b), score(Best(w, view)))
                     /\ Name[Best(w, view)] < Name[b]
<1> DEFINE C == Candidates(w)
           score == [c \in C |-> Score(c, C, Seen(w, c), view)]
           Ahead(a, b) == \/ Higher(score[a], score[b])
                          \/ ~Higher(score[b], score[a]) /\ Name[a] < Name[b]
           R == {p \in C \X C : Ahead(p[1], p[2])}
<1>1. C \in SUBSET Agents /\ IsFiniteSet(C) /\ C # {}
  <2>1. C \in SUBSET Agents
    BY DEF Candidates, EligibleAgents
  <2> HIDE DEF C
  <2>2. IsFiniteSet(C)
    BY <2>1, RankingAssumption, FS_Subset
  <2> QED BY <2>1, <2>2 DEF C
<1>2. \A c \in C : score[c] \in Fraction
  BY ScoreType
<1>3. \A a, b \in C : /\ Name[a] \in Nat /\ Name[b] \in Nat
                      /\ a # b => Name[a] < Name[b] \/ Name[b] < Name[a]
  BY <1>1, RankingAssumption
<1>4. \A p, q \in Fraction : Higher(p, q) => ~Higher(q, p)
  BY DEF Higher, Fraction
<1> HIDE DEF C, score
<1>5. \A a, b \in C : <<a, b>> \in R <=> Ahead(a, b)
  OBVIOUS
<1>6. \A a, b \in C : a # b => Ahead(a, b) \/ Ahead(b, a)
  BY <1>2, <1>3, <1>4
<1>7. ASSUME NEW a \in C, NEW b \in C, NEW c \in C, Ahead(a, b), Ahead(b, c) PROVE Ahead(a, c)
  <2>1. ~Higher(score[b], score[a]) /\ ~Higher(score[c], score[b])
    BY <1>2, <1>4, <1>7
  <2>2. /\ ~Higher(score[c], score[a])
        /\ ~Higher(score[a], score[c]) => ~Higher(score[a], score[b]) /\ ~Higher(score[b], score[c])
    BY <1>2, <2>1, HigherIsTransitive
  <2>3. ~Higher(score[a], score[c]) => Name[a] < Name[c]
    BY <1>3, <1>7, <2>2
  <2> QED BY <2>2, <2>3
<1> HIDE DEF Ahead
<1>8. \E a \in C : \A b \in C \ {a} : Ahead(a, b)
  <2>1. /\ \A a, b \in C : a # b => <<a, b>> \in R \/ <<b, a>> \in R
        /\ \A a, b, c \in C : <<a, b>> \in R /\ <<b, c>> \in R => <<a, c>> \in R
    <3> HIDE DEF R
    <3> QED BY <1>5, <1>6, <1>7
  <2>2. PICK a \in C : \A b \in C \ {a} : <<a, b>> \in R
    <3> HIDE DEF R
    <3> QED BY <1>1, <2>1, FiniteHasFirst
  <2> QED BY <1>5, <2>2
<1>9. Best(w, view) = CHOOSE a \in C : \A b \in C \ {a} : Ahead(a, b)
  BY DEF Best, C, score, Ahead
<1> PICK best : best = Best(w, view)
  OBVIOUS
<1>10. best \in C /\ \A b \in C \ {best} : Ahead(best, b)
  BY <1>8, <1>9
<1>11. \A c \in C : score[c] = Score(c, C, Seen(w, c), view)
  BY DEF score
<1> QED BY <1>10, <1>11 DEF Ahead, C

\* Still decide() never passes a better one over.
LEMMA NoneIsPassedOver == RegistryInv /\ AskedTypeOK => NoBetterPassedOver
<1> SUFFICES ASSUME RegistryTypeOK, AskedTypeOK, NEW w \in Workers, NEW view \in Views,
                    Decision(w) = "none",
                    NEW b \in Candidates(w) \ {Best(w, view)}, AsGood(b, Best(w, view), w, view)
             PROVE  AsGood(Best(w, view), b, w, view) /\ Name[Best(w, view)] < Name[b]
  BY DEF NoBetterPassedOver, RegistryInv
<1> DEFINE score(c) == Score(c, Candidates(w), Seen(w, c), view)
<1> PICK a : a = Best(w, view)
  OBVIOUS
<1>1. /\ a \in Candidates(w)
      /\ Higher(score(a), score(b)) \/ (~Higher(score(b), score(a)) /\ Name[a] < Name[b])
  BY BestIsAhead
<1>2. /\ ~Higher(score(a), score(b))
      /\ ~Higher(score(b), score(a)) => AsGood(a, b, w, view)
  BY <1>1, GoodScoresHigh
<1> QED BY <1>1, <1>2

\* The agent decide() picks is never one that another candidate of its pool matches
\* or beats on every measure and in the order of the names (the scores and the sort of
\* decide()), whatever the prices, the rows of metrics, the window and the cap.
THEOREM PicksTheBest == Spec => []NoBetterPassedOver
<1>1. AskedInv => NoBetterPassedOver
  BY NoneIsPassedOver DEF AskedInv
<1> QED BY <1>1, AskedInvariant, PTL
=============================================================================
