----------------------------- MODULE Scheduler -----------------------------
(***************************************************************************)
(* The choice of an agent for a run: analyzeCandidates() and decide() of   *)
(* src/src/scheduling/scheduler.ts.                                        *)
(*                                                                         *)
(* Pure operators.  A work order's requirements are constants: which       *)
(* agents have its capabilities, the roles of each agent's profile and the *)
(* pool of each role.  What changes from one decision to the next is a     *)
(* parameter: the role, the exclusions the caller passes, the agent of the *)
(* implementation under review, the agents whose quota is exhausted and    *)
(* whether the task's budget is.  Scores are abstracted: decide() picks    *)
(* some eligible agent.                                                    *)
(***************************************************************************)
EXTENDS Integers

CONSTANTS Agents,   \* agents of the registry
          NoAgent,  \* no implementation is under review
          Roles,    \* "implementer" and "reviewer"
          Capable,  \* agents with every required capability
          RolesOf,  \* [Agents -> SUBSET Roles]: capabilities.roles
          Pools     \* [Roles -> SUBSET Agents]: implementer_pool, reviewer_pool

ASSUME SchedulerAssumption ==
  /\ NoAgent \notin Agents
  /\ Roles = {"implementer", "reviewer"}
  /\ Capable \subseteq Agents
  /\ RolesOf \in [Agents -> SUBSET Roles]
  /\ Pools \in [Roles -> SUBSET Agents]
-----------------------------------------------------------------------------
\* A definition named X_Y is X with the bug Y, and nothing uses it.
ExcludeSet_Caller(role, exclude, author) == exclude

\* The effective exclusions: a reviewer is never the agent under review.
ExcludeSet(role, exclude, author) ==
  exclude \cup (IF role = "reviewer" THEN {author} \ {NoAgent} ELSE {})

\* An empty pool restricts nothing.
InRolePool(a, role) == Pools[role] = {} \/ a \in Pools[role]

\* The first reason that applies to an agent, in analyzeCandidates()'s order.
ExcludedReason(a, role, excluded, exhausted) ==
  IF a \in excluded            THEN "excluded_agent"
  ELSE IF a \notin Capable     THEN "capability_mismatch"
  ELSE IF role \notin RolesOf[a] THEN "role_mismatch"
  ELSE IF ~InRolePool(a, role) THEN "not_in_role_pool"
  ELSE IF a \in exhausted      THEN "quota_exhausted"
  ELSE "eligible"

EligibleAgents(role, excluded, exhausted) ==
  {a \in Agents : ExcludedReason(a, role, excluded, exhausted) = "eligible"}

\* Agents outside the role's pool count as candidates.
BeforeQuota_AnyPool(role, excluded, exhausted) ==
  {a \in Capable : role \in RolesOf[a] /\ a \notin excluded}

\* Candidates that only their quota may keep out.
BeforeQuota(role, excluded, exhausted) ==
  {a \in Agents : /\ a \in Capable
                  /\ role \in RolesOf[a]
                  /\ ExcludedReason(a, role, excluded, exhausted)
                        \in {"eligible", "quota_exhausted"}}

\* An exhausted agent that is no candidate counts as one that is left.
NonExhausted_Registry(candidates, exhausted) ==
  (candidates \ exhausted) \cup (exhausted \ candidates)

NonExhausted(candidates, exhausted) == candidates \ exhausted

\* decide()'s refusals, in the order it checks them.
Refusal(budgetExhausted, role, excluded, exhausted) ==
  IF budgetExhausted THEN "task_budget_exhausted"
  ELSE IF \A a \in Agents : a \notin Capable \/ role \notin RolesOf[a]
    THEN "no_agent_matches_capability"
  ELSE IF BeforeQuota(role, excluded, exhausted) = {}
    THEN "all_candidates_excluded"
  ELSE IF NonExhausted(BeforeQuota(role, excluded, exhausted), exhausted) = {}
    THEN "all_candidates_quota_exhausted"
  ELSE "none"
=============================================================================
