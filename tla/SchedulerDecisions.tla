------------------------- MODULE SchedulerDecisions -------------------------
(***************************************************************************)
(* The decisions the workers of a pool ask the scheduler for about one     *)
(* task in one role: from their registries and the task's budget, which    *)
(* change with its runs and those of other tasks.                          *)
(***************************************************************************)
EXTENDS Scheduler, Budget

CONSTANTS NoWorker,
          Costs    \* <<wall time, cost>> a run may take

ASSUME DecisionsAssumption ==
  /\ NoWorker \notin Workers
  /\ Costs \subseteq Nat \X Nat

VARIABLES role,      \* the role of the next run
          author,    \* agent of the implementation under review
          exclude,   \* exclude_agent_ids of the work order
          run,       \* the task's run that is under way: worker and agent
          settled,   \* the task is failed, accepted or awaits a human
          shared, own

INSTANCE AgentRegistry

registryVars == <<shared, own>>
asked == <<role, author, exclude, run, settled, registryVars, budgetVars>>

NoRun == [worker |-> NoWorker, agent |-> NoAgent]

AskedTypeOK ==
  /\ role \in Roles
  /\ author \in Agents \cup {NoAgent}
  /\ exclude \in SUBSET Agents
  /\ run \in [worker : Workers, agent : Agents] \cup {NoRun}
  /\ settled \in BOOLEAN
  /\ RegistryTypeOK /\ BudgetTypeOK
  /\ run # NoRun => budget.status # "absent"

\* A reviewer is asked for when there is an author, an implementer when not.
Init ==
  /\ role \in Roles
  /\ author \in IF role = "reviewer" THEN Agents ELSE {NoAgent}
  /\ exclude \in SUBSET Agents
  /\ run = NoRun
  /\ settled = FALSE
  /\ RegistryInit /\ BudgetInit
-----------------------------------------------------------------------------
Excluded     == ExcludeSet(role, exclude, author)
Exhausted(w) == {a \in Agents : Seen(w, a) = "exhausted"}

\* decide(), given what init() of the budget returns and list() of the registry.
Decision(w) ==
  Refusal(Opened(budget).status = "exhausted", role, Excluded, Exhausted(w))
Candidates(w) == EligibleAgents(role, Excluded, Exhausted(w))

\* A worker has the task and no run of it yet.
Asks(w) ==
  /\ run = NoRun /\ ~settled
  /\ own' = Listed(w)
  /\ UNCHANGED <<role, author, exclude, shared>>

Refuse(w) ==
  /\ Asks(w) /\ Decision(w) # "none"
  /\ OpenBudget(w)
  /\ settled' = TRUE
  /\ UNCHANGED run

\* The abort, or a write that fails, between decide() and preLaunch().
TurnBack(w) ==
  /\ Asks(w)
  /\ OpenBudget(w)
  /\ UNCHANGED <<run, settled>>

Launch(w) ==
  /\ Asks(w) /\ Decision(w) = "none"
  /\ \/ PreLaunch(w) /\ \E a \in Candidates(w) : run' = [worker |-> w, agent |-> a]
     \/ PreLaunchUntold(w) /\ UNCHANGED run
  /\ UNCHANGED settled

\* runTaskOnce() throws: the task is queued again or fails, and nothing is accounted.
Break(w) ==
  /\ run.worker = w
  /\ run' = NoRun /\ settled' \in BOOLEAN
  /\ UNCHANGED <<role, author, exclude, registryVars, budgetVars>>

\* postRun() and recordOutcome() of a run that is over, then what the handler makes
\* of it: it may exclude the agent, or the author it reviewed.
Account(w) ==
  /\ run.worker = w
  /\ run' = NoRun
  /\ \E c \in Costs :
       \/ /\ PostRunUntold(w, c[1], c[2])
          /\ UNCHANGED <<exclude, settled, registryVars>>
       \/ /\ PostRun(w, c[1], c[2])
          /\ \E reason \in FailureReasons : RecordOutcome(w, run.agent, reason)
          /\ \E more \in SUBSET ({run.agent, author} \ {NoAgent}) :
               exclude' = exclude \cup more
          /\ settled' \in BOOLEAN
  /\ UNCHANGED <<role, author>>

\* A run of another task, by a worker that does not have this one.
OtherRun(w) ==
  /\ run.worker # w
  /\ \E a \in Agents, reason \in FailureReasons : RecordOutcome(w, a, reason)
  /\ UNCHANGED <<role, author, exclude, run, settled, budgetVars>>

\* Another invocation, after this one has ended in whatever way: registries and
\* managers are new.
Restart ==
  /\ run' = NoRun
  /\ shared' = [a \in Agents |-> "absent"]
  /\ own' = [w \in Workers |-> [a \in Agents |-> "healthy"]]
  /\ emitted' = [w \in Workers |-> {}]
  /\ UNCHANGED <<role, author, exclude, settled, budget, quotaLog>>

Next ==
  \/ \E w \in Workers : \/ Refuse(w) \/ TurnBack(w) \/ Launch(w)
                        \/ Break(w) \/ Account(w) \/ OtherRun(w)
  \/ Restart

Spec == Init /\ [][Next]_asked
-----------------------------------------------------------------------------
\* decide() takes the best of the eligible agents, scored[0], without looking
\* whether there is one: the refusals before it leave no case out, and refuse
\* no case in which there is one.
PicksIffEligible ==
  \A w \in Workers :
    Decision(w) = "none" <=> budget.status # "exhausted" /\ Candidates(w) # {}

\* The chain of reasons lets exactly the right agents through: with the
\* capabilities, the role and a place in the pool, not excluded, not known to any
\* worker to have no quota left, and never the author of what is to be reviewed.
EligibleAreRight ==
  \A v \in Workers :
    Candidates(v) = {a \in Capable : /\ role \in RolesOf[a]
                                     /\ Pools[role] = {} \/ a \in Pools[role]
                                     /\ a \notin exclude
                                     /\ \A w \in Workers : own[w][a] # "exhausted"
                                     /\ role = "reviewer" => a # author}

\* Exclusions, quota and budget only take agents away: in the process that refused
\* it, a task would never be picked for later, so that failing it at once (the
\* release in handleSchedulerRefusal()) gives no later choice up.
RefusalIsFinal ==
  [][~Restart => \A w \in Workers : Decision(w) # "none" => Decision(w)' # "none"]_asked

Rank(health) == CASE health = "healthy" -> 0 [] health = "low" -> 1 [] OTHER -> 2

\* Whatever a worker learns about an agent, every worker sees it no better than
\* any did before: a rate limit that one worker meets late does not bring back an
\* agent whose quota another found exhausted (applyProviderFailure()).
HealthOnlyWorsens ==
  [][~Restart => \A v, w \in Workers, a \in Agents :
                   Rank(Seen(v, a)') >= Rank(Seen(w, a))]_asked

\* A task is told of each threshold at most once and in order, by whichever of the
\* managers and invocations takes it past (emitTransitionEvents(), syncEmitted()).
WarnsOnceInOrder ==
  /\ Len(quotaLog) <= 2
  /\ Len(quotaLog) = 2 => quotaLog[1].kind = "low" /\ quotaLog[2].kind = "exhausted"

\* The row is written and the warning about it cannot be.
LogFails == \E w \in Workers : \/ PreLaunchUntold(w)
                               \/ \E c \in Costs : PostRunUntold(w, c[1], c[2])

WarnedOf(kind) == \E i \in DOMAIN quotaLog : quotaLog[i].kind = kind

\* A budget that is used up is told of, by the step that uses it up, unless the log
\* fails in it: no manager holds that warning for given, by what it read in init()
\* or wrote itself, before it is (syncEmitted(), emitTransitionEvents()).
ExhaustionIsTold ==
  [][budget.status # "exhausted" /\ budget'.status = "exhausted"
     => WarnedOf("exhausted")' \/ LogFails]_asked

\* Some axis is at 80% of its cap, or past it.
PastSoft == \E x \in Axes : 5 * budget.used[x] >= 4 * Caps[x]

\* What the docs say of the lower threshold: the first time any axis crosses 0.80
\* quota.low is written, whatever status the budget has then; here, unless the log
\* fails in it (emitTransitionEvents(), where a jump to exhausted returns first).
LowIsTold == [][~PastSoft /\ PastSoft' => WarnedOf("low")' \/ LogFails]_asked

\* A warning names an axis that has gone past its threshold (pickAxis()).
WarningNamesAxis ==
  \A i \in 1..Len(quotaLog) :
    LET x == quotaLog[i].axis IN
    IF quotaLog[i].kind = "exhausted" THEN budget.used[x] >= Caps[x]
    ELSE 5 * budget.used[x] >= 4 * Caps[x]
=============================================================================
