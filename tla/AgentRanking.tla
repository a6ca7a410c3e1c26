---------------------------- MODULE AgentRanking ----------------------------
(***************************************************************************)
(* Which of several eligible agents decide() picks: the score of           *)
(* src/src/scheduling/scheduler.ts, from the rolling metrics each worker's *)
(* registry keeps of the table agent_metrics.                              *)
(*                                                                         *)
(* A worker reads an agent's metrics when it loads its registry and when   *)
(* it records an outcome of that agent itself.  What others have recorded  *)
(* since is missing from its entry: nothing relates what a worker knows of *)
(* one agent to what it knows of another, and a view gives each agent any  *)
(* history.                                                                *)
(*                                                                         *)
(* Scores are exact fractions.  Two that differ by less than a rounding    *)
(* error are compared here by their values, in the code by their doubles.  *)
(***************************************************************************)
EXTENDS SchedulerDecisions, FiniteSets, FiniteSetsExt

CONSTANTS Name,        \* the place of an agent's id in the order of ids
          Window,      \* rollingWindowSize
          LatencyCap,  \* 600_000 ms, in the unit of all times here
          Entries      \* what a worker's registry may have of an agent: the profile's
                       \* estimated cost, success rate (in tenths) and average time,
                       \* and the rows of agent_metrics it has read, oldest first

ASSUME RankingAssumption ==
  /\ IsFiniteSet(Agents)
  /\ Name \in [Agents -> Nat]
  /\ \A a, b \in Agents : Name[a] = Name[b] => a = b
  /\ Window \in Nat \ {0} /\ LatencyCap \in Nat \ {0}
  /\ Entries \subseteq [cost : Nat, rate : 0..10, time : Nat,
                       rows : Seq([success : BOOLEAN, time : Nat])]

Views == [Agents -> Entries]
-----------------------------------------------------------------------------
\* The times of the rows in a window at the end, added up from the oldest.
TotalTime(rows, seen) ==
  LET sum[i \in 0..Len(rows)] == IF i \in seen THEN sum[i - 1] + rows[i].time ELSE 0
  IN sum[Len(rows)]

\* rollingFor(): the last rows, and the average of their times rounded.
Rolling(rows) ==
  LET seen == Max({1, Len(rows) - Window + 1})..Len(rows)
      n    == Cardinality(seen)
  IN [runs    |-> n,
      wins    |-> Cardinality({i \in seen : rows[i].success}),
      latency |-> (2 * TotalTime(rows, seen) + n) \div (2 * n)]

\* load() and refreshEntryMetrics(): the profile's word while there are no rows.
Metrics(entry) ==
  IF entry.rows = <<>> THEN [runs |-> 0, wins |-> 0, latency |-> entry.time]
  ELSE Rolling(entry.rows)

\* Fractions <<n, d>> with d > 0.
Plus(p, q)   == <<p[1] * q[2] + q[1] * p[2], p[2] * q[2]>>
Times(k, p)  == <<k * p[1], p[2]>>
Higher(p, q) == p[1] * q[2] > q[1] * p[2]

MaxCost(eligible, view) == Max({view[b].cost : b \in eligible})

\* A definition named X_Y is X with the bug Y, and nothing uses it.
CostEfficiency_Share(a, eligible, view) ==
  IF MaxCost(eligible, view) = 0 THEN <<1, 1>>
  ELSE <<view[a].cost, MaxCost(eligible, view)>>

\* Relative to the dearest candidate; of a single one, or for free, it does not matter.
CostEfficiency(a, eligible, view) ==
  IF eligible = {a} \/ MaxCost(eligible, view) = 0 THEN <<1, 1>>
  ELSE <<MaxCost(eligible, view) - view[a].cost, MaxCost(eligible, view)>>

HealthScore(health) ==
  CASE health = "healthy" -> <<1, 1>> [] health = "low" -> <<1, 2>> [] OTHER -> <<0, 1>>

\* What the agent did counts from its fifth run on.
Reliability(entry) ==
  LET m == Metrics(entry) IN
  IF m.runs >= 5 THEN <<m.wins, m.runs>> ELSE <<entry.rate, 10>>

\* Zero stands for a time that is not known.
LatencyScore(entry) ==
  LET latency == Metrics(entry).latency IN
  IF latency = 0 THEN <<1, 2>> ELSE <<Max({0, LatencyCap - latency}), LatencyCap>>

\* SCHEDULER_WEIGHTS, in tenths.
Weight == [capability_match |-> 4, cost_efficiency |-> 2, quota_health |-> 2,
           reliability |-> 1, latency_score |-> 1]

\* Candidates have every capability, so that the first of the five is 1 for each.
Score(a, eligible, health, view) ==
  Plus(<<Weight.capability_match, 1>>,
       Plus(Plus(Times(Weight.cost_efficiency, CostEfficiency(a, eligible, view)),
                 Times(Weight.quota_health, HealthScore(health))),
            Plus(Times(Weight.reliability, Reliability(view[a])),
                 Times(Weight.latency_score, LatencyScore(view[a])))))

\* scored[0], of the candidates worker w has in front of it.
Best(w, view) ==
  LET score == [a \in Candidates(w) |-> Score(a, Candidates(w), Seen(w, a), view)]
  IN CHOOSE a \in Candidates(w) :
       \A b \in Candidates(w) \ {a} :
         \/ Higher(score[a], score[b])
         \/ ~Higher(score[b], score[a]) /\ Name[a] < Name[b]
-----------------------------------------------------------------------------
\* b takes no longer than a: both times are known, and beyond the cap all are alike.
AsFast(b, a) ==
  \/ b.latency = a.latency
  \/ 0 < b.latency /\ b.latency < a.latency
  \/ LatencyCap <= b.latency /\ LatencyCap <= a.latency

\* b costs no more, has no less quota left, is as successful as far as either is
\* known, and is as fast.
AsGood(b, a, w, view) ==
  /\ view[b].cost <= view[a].cost
  /\ Rank(Seen(w, b)) <= Rank(Seen(w, a))
  /\ ~Higher(Reliability(view[a]), Reliability(view[b]))
  /\ AsFast(Metrics(view[b]), Metrics(view[a]))

\* Five measures of different kinds are added up, one of them relative to the other
\* candidates, one that new agents have from their profile, one that may not be known:
\* still the agent picked is never one to which another candidate is preferable in
\* something and inferior in nothing, nor the later named of two that are alike,
\* however old the metrics are from which the worker decides (decide()).
NoBetterPassedOver ==
  run = NoRun /\ ~settled =>
    \A w \in Workers, view \in Views :
      Decision(w) = "none" =>
        LET a == Best(w, view) IN
        \A b \in Candidates(w) \ {a} :
          AsGood(b, a, w, view) => AsGood(a, b, w, view) /\ Name[a] < Name[b]
=============================================================================
