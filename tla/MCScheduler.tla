---------------------------- MODULE MCScheduler ----------------------------
(* Decisions of two workers about two agents with different profiles. *)
EXTENDS AgentRanking, TLC

CONSTANTS a1, a2, w1, w2

WorkerSymmetry == Permutations(Workers)

\* Both could do both, but a1 is not in the pool of reviewers.
SomeRoles == [a \in Agents |-> Roles]
SomePools == [r \in Roles |-> IF r = "reviewer" THEN {a2} ELSE {}]

\* Two runs exhaust the budget, and so may one.
SomeCaps  == [x \in Axes |-> IF x = "runs" THEN 2 ELSE 5]
SomeCosts == {<<0, 0>>, <<1, 4>>, <<5, 1>>}

SomeNames == [a \in Agents |-> IF a = a1 THEN 1 ELSE 2]

Rows(n, success, time) == [i \in 1..n |-> [success |-> success, time |-> time]]

\* A new agent; failures at once that do not count yet; a first row that is out of the
\* window; two that are slower than the cap; two that differ in cost only.
SomeEntries ==
  {[cost |-> 1, rate |-> 8, time |-> 0, rows |-> <<>>],
   [cost |-> 1, rate |-> 8, time |-> 3, rows |-> Rows(4, FALSE, 0)],
   [cost |-> 3, rate |-> 5, time |-> 0, rows |-> Rows(1, FALSE, 12) \o Rows(5, TRUE, 1)],
   [cost |-> 0, rate |-> 5, time |-> 0, rows |-> Rows(5, TRUE, 12)],
   [cost |-> 0, rate |-> 5, time |-> 0, rows |-> Rows(5, TRUE, 11)],
   [cost |-> 1, rate |-> 5, time |-> 0, rows |-> Rows(3, TRUE, 3) \o Rows(2, FALSE, 2)],
   [cost |-> 3, rate |-> 5, time |-> 0, rows |-> Rows(3, TRUE, 3) \o Rows(2, FALSE, 2)]}
=============================================================================
