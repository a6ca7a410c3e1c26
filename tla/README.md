# A verification of agentflow

TLA+ modules, TLC runs and TLAPS proofs about `agentflow`, the TypeScript program
under `src/src` that hands coding tasks to command-line LLM agents: a task is
implemented by one agent, verified by commands, reviewed by another agent, and
retried, accepted, failed or handed to a human, within a budget. `PROJECT.json`
lists runs, mutants, theorems, hazards and findings, and maps each definition to
the lines it stands for.

- [The system](#the-system): an inventory of its parts
- [Modules](#modules): which module models what, and how
- [Runs](#runs): what TLC checks, with which bounds and fairness
- [Proofs](#proofs): what holds for all values of the constants, and why
- [Findings](#findings): where the code does not do what its docs say
- [Plan](#plan): what comes next
- [Not modelled](#not-modelled)

## The system

`agentflow run` submits one task and starts a pool of one worker, `agentflow batch`
submits a directory of tasks and starts up to 16 workers. The workers are
coroutines of one process, each with its own database connection to one SQLite
file, its own services and its own caches. Agents and verification commands are
child processes.

    command line --enqueue--> task_queue <--claim, release-- worker loop --signal--> handler
         |                                                        ^                     |
         +--start, SIGINT, stop--> worker pool -------------------+                     |
                                                                                        v
    task_review contexts, exclusions, packets <---- handler ----> scheduler, budget, registry
                                                       |
                                                       v
                                runTaskOnce(): agent_runs, worktree, agent, verifier, verdict

| Part | State it keeps | Operations | What is hard | What makes it correct |
| --- | --- | --- | --- | --- |
| Task queue (`queue/task-queue.ts`, `storage/queue-store.ts`) | rows of `task_queue`: status, next role, owner, lease, attempts, work order with its exclusions, review context, packet; a map of work orders per worker | enqueue, claim, release, setReviewContext, addWorkOrderExcludeAgentIds, setHandoffPacketUri, getWorkOrder | claims that compete, leases that run out during work, a cache per worker, a dead owner | one holder, a holder's copy is fresh, terminal rows stay, exclusions grow |
| Worker loop (`queue/worker.ts`) | stopRequested, the abort controller of the current handler | start, loop, stop(grace), requeue of a failed handler's task | the abort arrives once, at any wait of the handler; the requeue after a failure may itself fail | stop completes, nothing is held afterwards |
| Handler (`queue/worker-task-handler.ts`) | locals of one handle(): entry, decision, outcome | decide, charge, run, account, then one of eight ends | six writes in a row without a transaction, around two waits | budget, review by another agent, packets, the life cycle of a task |
| Run execution (`core/orchestrator-v1.ts`, `storage/run-store.ts`) | rows of `agent_runs` | create, running, finished, cancelled | three nested ways to fail, an abort inside each wait | one run at a time, every run is closed |
| Scheduler (`scheduling/scheduler.ts`) | none | decide | two chains of conditions (reasons, refusals) that must agree; a score of ratios of different kinds over metrics of any age | picks exactly when someone is eligible, and nobody to whom another is preferable |
| Budget (`scheduling/budget-manager.ts`, `storage/budget-store.ts`) | a row per task: runs, wall time and cost used, status; per worker's manager the events it holds for written | init, preLaunch, postRun | three axes, thresholds, charged before and after a run, several managers over one row, an event that fails | max_runs caps what is started; one warning per threshold, about an axis past it |
| Agent registry (`scheduling/agent-registry.ts`, `storage/metrics-store.ts`) | profiles, rolling metrics, quota health shared by the workers | load, recordOutcome, list | shared map, private entries | exhausted for one is exhausted for all |
| Handoff (`scheduling/handoff-manager.ts`) | packets as artifacts | build, persist, attachToBrief | whose attempt a packet is about | the next implementer gets the packet of the attempt before it |
| Worker pool (`queue/worker-pool.ts`) | workers, started, stopped | start(1..16), waitForAllTerminal, stop | a start that fails half way, a second stop, SIGINT at the end | no worker outlives stop, services are closed once |
| Command line (`cli/run-command.ts`) | databases of workers, the monitor | run, batch, SIGINT, cleanup, exit code | SIGINT racing the last task, cleanup that fails | exit code tells what happened |
| Agent process (`adapters/official-cli-adapter.ts`) | timer, killed, aborting | run | close, error, timeout and abort in any order | one answer |
| Verification (`verification/verification-runner.ts`) | the current command | run | the same, per command | passed only if every command passed |
| Session (`session/*`) | none, reads the tables | get, reconstruct | three reads without a transaction, between the writes of other processes; which diff to fork from | what is referred to is there, base and diff belong together |
| Events (`core/events.ts`, `storage/event-log.ts`) | `task_events`, append-only | append, listByRun | an append that fails, or a process that dies, after a write it reports | the log never tells of what is not so |
| Run execution v0 (`core/orchestrator.ts`) | one run | runWorkOrder | verifies what a failed agent left; errors on the way out | the answer is earned, row and log agree with it |
| Artifacts, workspaces, schemas, migrations, YAML | files, worktrees, tables | save, prepare, apply, diff, parse | file system and git | - |

## Modules

### TaskQueue

The table and the wrappers in front of it, and the discipline their clients keep.

| State | In the code |
| --- | --- |
| `rows[t]` | the row of `task_queue`: `status`, `next_role`, `current_owner_run_id`, `lease_expires_at`, `attempts`, `enqueued_at` (`at`), `agent.exclude_agent_ids` of the stored work order (`excl`), `review_context_json` (`ctx`), `handoff_packet_uri` (`packet`) |
| `now` | the clock, in ticks |
| `cache[w][t]` | `workOrders` of worker w's `DefaultTaskQueue`, as far as its exclusions go |
| `held[w]` | the entry a worker's loop has in hand between its claim and its release |

The actions are the operations of the store and its wrapper: `Enqueue`, `Claim`
(with `FillCache`, the look at the work order that works out the lease),
`Release`, `SetReviewContext`, `AddExcludes`, `SetPacket`; the loop that gives an
entry up (`Abandon`), the end of the process (`Forget`), and the clock (`Tick`).
`QueueNext` adds who may do what: a worker that holds an entry annotates it and
releases it once, with the attempts it read or one more. A claim is one step since
`claim()` runs in one SQLite transaction, and nothing yields between it and the
computation of the lease.

Runs of a task are numbered; `ctx` and `packet` name the implementer run they
describe instead of carrying URIs. The queue through which the command line
submits tasks and waits for them has a map of its own that nobody else reads; it
is left out.

### Scheduler, Budget, AgentRegistry, SchedulerDecisions, AgentRanking

`Scheduler` holds `analyzeCandidates()` and `decide()` as operators of the role,
the exclusions, the author under review, the exhausted agents and the budget.
What a work order requires is constant. `ExcludedReason` keeps the order of the
chain of reasons and `Refusal` the order of the refusals, which overlap: that is
what the properties are about. Some eligible agent is picked; which one is in `AgentRanking`.

| State | In the code |
| --- | --- |
| `budget` | the row of `task_budget`: used on each axis, status (`absent` before the first `init()`) |
| `emitted[w]` | what the set `emitted` of worker w's `DefaultBudgetManager` has of this task |
| `quotaLog` | the events `quota.low` and `quota.exhausted` about the task |
| `shared`, `own[w]` | the map `sharedQuotaHealth`; `quota_health` in the entries of worker w's `SqliteAgentRegistry` |
| `role`, `author`, `exclude` | of the next run of the task |
| `run`, `settled` | the run under way, if any; whether the task is failed, accepted or left to a human |

`Budget` has `init()`, `preLaunch()`, `postRun()` and the warnings they give
(`Due`, `Synced`). Ratios are compared as products of whole numbers; at 0.8 and 1 the
floating-point quotients of the code agree with that, and two axes whose ratios
differ only by a rounding error may swap in `PickAxis`. `...Untold` is a step whose row
is written and whose event is not. `AgentRegistry` has the health of agents: `Seen` is
`syncQuotaHealth()`, `Worse` is `applyProviderFailure()`.

`SchedulerDecisions` composes the three into the questions about one task in one
role, asked by whichever worker has it: `Refuse`, `TurnBack` (an abort or a failed
write after the decision), `Launch`, `Break` (`runTaskOnce()` throws), `Account`
(`postRun()`, `recordOutcome()`, exclusions), runs of other tasks (`OtherRun`) and new
invocations (`Restart`).

`AgentRanking` adds the scores: `Rolling` is `rollingFor()` over the last `Window` rows with
its rounded average, `Metrics` is `refreshEntryMetrics()`, and `CostEfficiency`, `HealthScore`,
`Reliability`, `LatencyScore`, `Weight`, `Score` and `Best` are the functions of `scheduler.ts`, as
exact fractions. A worker's entry of an agent has the rows of `agent_metrics` as they were
when that worker loaded its registry or last ran that agent; nothing relates the age of one
entry to that of another. So `NoBetterPassedOver` is about every `view` a worker may have, any
rows for any agent, in every state in which it may ask.

### TaskContract

The life of a task as its submitter sees it: new, to do, coded by an author,
accepted (signed by another agent, if a review was asked for), failed or awaiting
a human, in at most `MaxTries` tries. No queue, worker, run or process. It is the
specification `TaskWorkflow` implements.

### TaskWorkflow

The pool of workers at work. It EXTENDS `TaskQueue`, uses `Scheduler`, and adds:

| State | In the code |
| --- | --- |
| `used`, `spent` | `task_budget`: `runs_used`, and whether wall time or cost is at its cap |
| `opened`, `runs` | the rows of `agent_runs` of a task, oldest first: status, role, agent, `parent_run_id`, packet, and the verdict the reviewer's run published |
| `out` | agents whose `quota_health` is `exhausted` in the map the workers share |
| `pc[w]`, `job[w]` | how far worker w is, and the locals of its handler |
| `aborted[w]` | the abort signal of w's handler |
| `stopping` | `stop()` of the pool was called |

One handler, action by action:

| `pc` | Action | Code |
| --- | --- | --- |
| `idle` | `ClaimTask`, `Halt` | `worker.ts` loop |
| `claimed` | `Refuse`, `PreLaunch` | `decide()`, `handleSchedulerRefusal()`, `preLaunch()` |
| `charged` | `OpenRun` | the insert of `createRunContext()` |
| `opened` | `LaunchAgent`, `PrepareFails` | the rest of it, and `applyDiff()` of a review |
| `agent` | `ImplementerDone`, `ReviewerDone`, `Interrupt` | `adapter.run()` answers or rejects |
| `verifying` | `VerifierDone`, `Interrupt` | `verifier.run()` answers or rejects |
| `ran` | `Account` | packet used up, `postRun()`, `recordOutcome()` |
| `accounted` | `SaveReviewContext`, `ExcludeOrigin`, `Settle` | the ends of `handleImplementerSuccess()`, `handleImplementerFailure()`, `handleReviewerOutcome()` |
| `excluded` | `AttachPacket` | `setHandoffPacketUri()` |
| `persisted` | `Settle` | `release()` |
| `released` | `Done` (and `LateRequeue` of `TaskTrail`) | the event after the release, the return |
| `claimed` to `verifying` | `GiveUp` | the handler fails the task: the packet or the diff cannot be read, or `runTaskOnce()` rejects |
| `claimed`, `charged`, `ran` to `persisted` | `Raise` | the handler rejects |
| `raised` | `Requeue`, `LoseTask` | `releaseAfterHandlerFailure()` |

A handler yields only at `agent` and `verifying`. The model lets others go on at
every `pc`: the database is written statement by statement and a process may die
between any two, so that the intermediate states are states of the table anyway.
The one place where this would add behaviours of a living process is between a release and
the event that tells of it, or, if that cannot be written, `LateRequeue`: there is no await in between, and
the `catch` of the loop runs before any other worker's timer. `TaskTrail`, which has the events and that
step, lets nobody else claim the row until then (`Apart`).

Seven outcomes of a run stand for the fifteen of the code, one per way the handler
treats them (`Outcomes` says which). `Account` leaves the quota state `low` out,
which no decision depends on but through scores. Whether time or cost reaches its
cap is a free choice after each run. `SchedulerDecisions` has both in detail.

`Disturbances` says what may go wrong beside agents and verifiers:

| Disturbance | What it is | What follows |
| --- | --- | --- |
| `stop` | SIGINT | `Stop` before every task is terminal |
| `crash` | the process dies | rows stay as they are, what it knew is gone |
| `early` | a read or write before the charge fails | the task is put back, nothing was spent |
| `raise` | a write between the charge and the release fails | the task is put back, a run of the budget was spent |
| `giveup` | a packet or a diff cannot be read, or `finishRun()` fails twice | the task fails, its run may stay open or keep a status it was not told of |
| `late` | the event after the release fails | the task is put back although it was released |
| `cancel` | an interrupted or unprepared run cannot be closed | it stays open, or is failed without being told of |
| `lost` | putting a task back fails as well | it stays dispatched |

`Start` may follow any stop or crash, with the same tasks. In the program a new
invocation brings at least one new task (the primary key refuses an old one) and
its workers then take up the queued tasks of earlier ones; the new task need not
be among `Tasks`. Likewise `Stop` is free under `stop`, since the monitor of an
invocation only counts its own tasks.

Definitions named `X_Y` are the definition `X` with the bug `Y`. No specification
uses them; `PROJECT.json` names, for every property of a passing run, one that
breaks it.

### ChildProcess, AgentProcess, VerificationRunner, RunExecution

What `TaskWorkflow` takes as one choice, in detail: `runTaskOnce()` from the insert of
the run to its answer.

| State | In the code |
| --- | --- |
| `child` | the latest child process: alive, exited or closed, its exit code, whether it ignores SIGTERM, whether what it started still holds its output, and what it was sent. External: the operating system and node |
| `signal` | the abort signal of the handler |
| `adapter` | `timer`, the registration of `abortHandler`, `timedOut`, `killed`, `aborting` of `ChildProcessOfficialCliAdapter.run()` |
| `plan`, `command`, `results` | how many commands the work order has, the locals of `runSingleCommand()`, `commandResults` |
| `pc`, `role`, `run`, `outcome` | where `runTaskOnce()` waits, its role, the row of the run with its last events, the answer |

`ChildProcess` has what a process does by itself (`Exit`, `Die`, `HelpersEnd`); `close` is
only delivered once it has exited and nothing holds its output. `AgentProcess` has
the handlers of the adapter, `VerificationRunner` those of the verifier, and
`RunExecution` puts them into the control of `runTaskOnce()`: `Prepare`, `PrepareFails`
(`createRunContext()`), `BriefFails`, `DiffRefused`, `Launch`, `LaunchFails` (up to the
agent), `AgentEnds`, `AgentPasses`, `CommandEnds`, `CommandPasses` and the two
`...Interrupted` (after `close`), `Abort` and the timeouts. Between two waits nothing
yields, so that each of these is one step however many writes it makes; that one of
them fails is a disjunct of it. `Finished` is `finishRun()` with its two writes,
`Conclude` is a finish whose failure the `catch` answers by finishing again, `Caught` is
that `catch`, `Rejected` and `Interrupted` are the one of `runTaskOnce()`.

The signal can be aborted while the adapter looks its working directory up
(`pc = "stat"`), while the agent or a command runs, and at no other time. What an agent
wrote decides between reasons and verdicts and is a choice. An event `error` is
either a failed start (`LaunchFails`; a shell that cannot be started is one that dies at
once without an exit code) or concerns a process that could not be killed and
changes nothing.

### RunInWorkflow

The two views of a run, joined: one worker that has one task in hand, for its first implementation or for
the review of it, from the charge to the answer. `RunExecution` is the detailed specification and
`TaskWorkflow` the abstract one (`Workflow == INSTANCE TaskWorkflow WITH ...`): each variable of the workflow is an expression over
the run. `Place` is the handler's `pc`, `OwnRow` the run's row, `Told` the outcome as the handler treats it (several
reasons are one to it), and `GivenUp` what the `catch` around `runTaskOnce()` makes of a rejection: without an abort the task fails, with one
the loop puts it back. `RunExecution` prepares a run in one step and `TaskWorkflow` in two, `OpenRun` and `LaunchAgent`;
the variable `at` takes them one after the other before the step itself (`Advance`, `Reached`), changes nothing else
and holds nothing up, so that a run with it does what it does without.
`WorkflowHasIt` says that every step is one of the nine actions that a handler has for a run, or changes nothing the workflow sees.
What the workflow does before the charge and after the answer is no part of a run. `WorkflowHasIt` is proved (see
[A run in the workflow](#proofs)); `run_flow.cfg` checks it with TLC on up to two commands, 2820 states, when the module is changed.

### OrchestratorV0

`runWorkOrderWithServices()`, next to `runTaskOnce()` and over the same `AgentProcess` and
`VerificationRunner`: `flow` says which of the two was called, `agentCode` is
`agentResult.exitCode`, which version 0 keeps until the commands are done. Its steps are `V0Prepare`,
`V0PrepareFails`, `V0LaunchFails`, `V0Launch`, `V0AgentEnds`, `V0AgentDone`, `V0CommandPasses` and
`V0CommandEnds`; `V0Reason` and `V0Ends` are its steps 14 and 15, `V0Throws` its `catch`. It has no
signal, no queue and no reviews, runs the commands whatever became of the agent, and
throws on what it caught (`gave_up` of the model). One module has both since they must promise the same:
the properties of `RunExecution` are checked of both.

### SessionSnapshot

A session is read by another process while a run goes on. `RunExecution` takes as one step what
nothing in its process can interrupt; a reader of the database sees between any two
writes. `journal` is the order of those writes of a version 1 run, and of what its
handler saves because of it: statuses of the row, artifacts, references in the task's row. Each
step of `RunExecution` appends the writes it makes, all or up to one that fails (`Saves`, `Ends`,
`Breaks`, `Writes`). Artifacts are told apart by their place in the journal (`In`), since no two of a run share
a file name. Since nothing in it is taken back, what a reader finds is three prefixes of
it, for the task, the runs and the artifacts, each no shorter than the one before (`Snapshots`); no reader needs to take steps.
`Fork` is what `reconstructWorktreeFromSessionSnapshot()` makes of one: `SelectRun` and
`SelectUri` pick the diff, `Base` the commit it is put on.

### TaskTrail

`TaskWorkflow` with `log`, the events of each task. `Told` is what a handler tells before its next
step, `RunEnds` what a run tells when it ends, `Detours` what it may have told before an error. Each
action of `TaskWorkflow` is taken with the events before or after it; a handler that
rejects and a process that dies have told any part of what they were about to (`Cut`).
`Watched` are the types that are followed: events nothing is claimed about would only multiply the
states, so that `Say` leaves them out where they are told. When the process dies each task is told of any part of what a
handler of it was about to tell (`LastWords`). `LateRequeue` is the step after an event that fails behind a release,
and `Apart` says that nobody takes the row before either.

### Command

`agentflow batch`, and `agentflow run` as the case of one task and one worker, from
the command line to the exit code. A handler is taken as what it does to the status
of its task.

| State | In the code |
| --- | --- |
| `phase` | how far `runBatchV1()` is: `waiting` in `waitForV1PoolTerminalOrInterrupt()`, and in `stop()` after a SIGINT (`interrupting`), the last terminal task (`stopping`) or a monitor that cannot read (`failing`) |
| `task` | statuses of the rows; `orphaned` is a row left dispatched that no handler has |
| `loop[w]`, `hand[w]` | where `DefaultWorker.loop()` is, and its entry |
| `db[w]` | the connection made for worker w's services |
| `grace` | the timer of `stop(graceMs)` |
| `trees` | tasks with worktrees that cleanup would find |
| `code` | the exit code |

The actions before the workers start are `Refuse`, `Enqueue`, `EnqueueFails`,
`StartPool` and `StartFails`; those of workers `Claim`, `Handled`, `Rest`; then
`AllTerminal`, `Sigint` and `MonitorFails`, which exclude each other since the first of them
removes the listener and the poll in the same turn of the event loop; and the ends
`Finish`, `CleanupFails`, `Interrupted`, `Failed`, which all go through the `finally` blocks
(`Leave`). A second SIGINT, or one outside the wait, has no listener and ends the
process (`Killed`).

## Runs

All run with `tlc -config <run>.cfg <module>.tla`.

| Run | Module | States | What it shows |
| --- | --- | --- | --- |
| `scheduler` | `MCScheduler` | 61 k | two workers ask about one task and two agents, with a pool of reviewers that one of them is not in; runs of three costs, two of which suffice to exhaust a budget; failures of the providers, other tasks, new invocations, events that fail; 49 views of the agents' prices and metrics: `PicksIffEligible`, `EligibleAreRight`, `NoBetterPassedOver`, `RefusalIsFinal`, `WarnsOnceInOrder`, `ExhaustionIsTold` |
| `command` | `Command` | 30 k | a batch of two tasks, two workers, one task of an earlier invocation in any state, with SIGINT, a failing monitor, a failing start, a failing cleanup and the end of the process at any time: `ExitTellsTable`, `ConnectionsOutliveWorkers`, `LeavesNothingBehind`, `RemovesOnlyFinished`, `SigintEnds`, types |
| `run` | `SessionSnapshot` | 5 k | one run of version 0, or of either role of version 1, with up to two commands, a child that exits, crashes, times out, leaves helpers behind, an abort at any time, any write that fails, and a reader between any two writes: `SuccessIsEarned`, `NothingLeft`, `InterruptedIsCancelled`, `AnswerTellsStatus`, `AgentAnswersFirst`, `LogTellsAnswer`, `ReferencesAreMet`, `EndedRunIsWhole`, `ForkedOnItsBase`, `EveryRunAnswers`, types |
| `wf_handover` | `MCTaskWorkflow` | 753 k | a reviewed, verified task and two workers, three runs, SIGINT, crashes, writes that fail before a release: `OneOpenRun`, the discipline of the queue (`QueueSpec`), the contract (`KeepsContract`), `TerminalIsFinal`, `ExclusionsGrow` |
| `wf_rounds` | `MCTaskWorkflow` | 1301 k | three agents and four runs, hence two rounds of review, two workers, a lease of one tick and a clock that passes it while its holder works, with SIGINT and restarts: `HolderOwnsRow`, `RetryCarriesHandoff`, `CleanShutdown` |
| `wf_single` | `MCTaskTrail` | 959 k | the one worker of `agentflow run` with its log, faults at once, agents that need never answer, an exclusion in the work order: `RunsWithinBudget`, `ReviewsLatestDiff`, `AcceptedOnLastRun`, `ExcludedNeverReconsidered`, `AnnouncedIsFinal`, `AcceptanceOnRecord`, `StopCompletes`, types |
| `wf_settles` | `MCTaskWorkflow` | 395 k | a reviewed and an unreviewed, verified task that share a worker and two agents, one of which cannot implement, with errors anywhere between the charge and the release: `EveryTaskSettles` |
| `queue_lease`, `quota_low`, `run_deaf`, `wf_late`, `wf_stale` | `MCTaskQueue`, `MCScheduler`, `RunExecution`, `MCTaskTrail`, `MCTaskWorkflow` | - | the [findings](#findings) |

The discipline of the queue by itself, with clients that do anything it allows, is what `TaskQueueProofs` is about, for any
number of rows, workers and leases. `queue.cfg` checks it with TLC on one row and three workers that die or drop the task while leases
run out, 65 k states, when `TaskQueue` is changed; the runs above have the workers themselves instead.

**Bounds.** Two workers are what a race needs, and every worker's code is the same.
Three runs make implement, review, implement again with an exhausted budget at the
end; four make the second review and the retry after it. Two agents suffice for
"another agent", three for a retry by a third one after a second was excluded.
`scheduler` has the smallest budget whose axes cross 0.8 and 1 separately and at once (caps of two runs
and of five units; a run takes 0, 1, 4 or 5 of them), so that ties between axes, a jump from ok to
exhausted and a warning on one axis after another occur. A mismatch of capabilities is
left to the proofs, which have any profiles, and so is one of roles (`wf_settles` has an agent that cannot
implement). Its agents may each have one of seven entries: a new agent, one with failures that do
not count yet, one whose first row is out of the window, two on either side of each other beyond ten
minutes, two that differ in their price only. A view gives each agent any of them, so that ties, an unknown time and every order of
the two in each measure occur. `command` has one task more than its own because a pool
also takes up what others left, and two of its own because the exit code ranks
their statuses.
`MaxNow` ends the clock of `wf_rounds` once a lease has run out. Rows touch each other only in the order of claims, and
`wf_settles` has two. In the workflow only `wf_rounds` has a clock that moves: no decision reads it but the claim, whose lease condition
plays no part, as `OwnedWhileDispatched` proves. `MaxRuns` is a parameter of the
program; `MaxAttempts` and `RunIds` follow from it in the workflow. `run` has up to two
commands: one to pass and one after it. It needs no other bound, and the invariants
of `RunExecution` are proved for any number of commands.

**Disturbances** are divided up, since all of them at once are too many states and each property is
endangered by some. `wf_handover` has all that a process may do before a release, and death: this is what
discipline and contract have to withstand. `wf_single` has those that leave something behind for later (a run that
stays open, a row that was released and comes back, a death between two writes) and an abort, which are
what budget, reviews, acceptance and the log depend on; it takes `early` and not `raise`, which would be too many states with
the rest and is left to `wf_handover` and `wf_settles`. `wf_rounds` has
SIGINT alone, which is what a clean shutdown is about: after a crash or a write that
fails nothing is clean. `wf_settles` has `raise` and `giveup`, see below.

**Symmetry** over workers, and over agents where no constant tells them apart
(not in `wf_settles`, `wf_single` and the violations), with invariants and
`[]`-properties only. It is not used for liveness. `scheduler` has it for the workers,
which no property names.

**Deadlock** is checked everywhere but in `run`, which is over when it is answered
(`EveryRunAnswers` says that it is), and in `command`, which is when it has exited.
The workflow never stops by itself since a new invocation may always follow.

**Fairness.** `StopSpec`: the command starts its pool and stops it when every task is
terminal, the event loop runs what is runnable (`Step` of each worker), and the
timer of `stop()` goes off (`Abort`). `FairSpec` adds that agents and verifiers
answer (`Answer`): the adapter kills an agent after its timeout (a default of the
adapter when neither budget nor profile has one), the verifier kills a command
after its own. This is what `EveryRunAnswers` checks in detail, from weaker
assumptions: timers go off, what is told to die dies, what it left behind ends some
day, and nothing else need ever happen. A process that ignores SIGTERM (`Deaf`) is
the exception, see [findings](#findings). `HelpersEnd` has to be assumed as well: only the
shell of a command is killed (`verification-runner.ts:76`), and `close` waits for what it
started. Nothing is assumed of disturbances: they may happen at every turn. `EveryTaskSettles` holds in spite of errors after
the charge, in a handler or in what runs the agent, because each attempt is charged
and `max_runs` ends them. It does not hold with `early` or `late`: an exception before the charge
spends nothing, and one behind the release of a task that is refused comes back to the same
refusal, so that the loop may try for ever and, with one worker, starve the other tasks. `stop`, `crash` and `lost`
leave a task to the next invocation, which need not come.

`FairSessionSpec` is the same for `run`, over both versions. `TrailStopSpec` is `StopSpec` with one
`WF` per worker for its next statement or the timer of `stop()`, which is weaker.

`FairSpec` of `command` assumes less: the grace of `stop()` ends, resting workers and the
one who awaits `stop()` go on, and a handler comes to an end once it is aborted. That
it does is what `StopCompletes` of `wf_single` shows. Agents need never
answer, and a batch nobody interrupts may wait for ever.

Under `StopSpec` one `WF` per worker over all its steps is enough: a worker has at
most one kind of step enabled at a time, but for `ClaimTask` of idle workers
competing for a task, and then some worker gets it.

## Proofs

`TaskQueueProofs`, `SchedulerProofs` (with the budget), `TaskWorkflowProofs`, `TaskTrailProofs`, `RunExecutionProofs`
(of both versions), `RunInWorkflowProofs`, `SessionSnapshotProofs` and `CommandProofs`, checked
by TLAPS, from the named assumptions on constants: `QueueAssumption`, `SchedulerAssumption`,
`BudgetAssumption` (caps are positive, as `WorkOrderV1Schema` demands), `DecisionsAssumption`,
`WorkflowAssumption`, `CommandsAssumption`, `DeafAssumption`, `CommandAssumption`. Any number of tasks, workers,
agents and commands, any lease, any profiles, pools and caps, runs of any cost, children that heed
SIGTERM or do not, any disturbances. Four theorems about the workflow, three about its refinements and one about its log assume
more, see there.

**The queue.** `OneHolder` is not inductive: it says nothing of the rows. `QueueInv`
adds to the types that a holder owns its row, which is dispatched
(`HolderOwnsRow`), and that owner and lease are set exactly while a row is
dispatched (`OwnedIffDispatched`). With them a claim can only take a row nobody
holds (`ClaimableIsFree`: `now` does not matter, because no queued row has a
lease), a release concerns a row only its worker holds, and an annotation
(`AnnotateKeeps`) touches nothing the queue goes by. From `QueueInv` follow
`Exclusive` (`[]OneHolder`), `TypeCorrect`, `HolderIsOwner`,
`OwnedWhileDispatched`. `MapInv` adds that absent rows exclude nobody; then no step takes
an exclusion away or touches a terminal row (`RowSteps`), which gives
`TerminalStays`, `ExclusionsStay`, and `MapsLagOnly`: a worker's map is a lower
bound of the table.

`TerminalStays` is about the discipline of `QueueSpec`. The workers keep it as long as the event after every
release can be written (`DisciplineWithoutLate`), and `wf_late` shows that they do not otherwise.

**The workflow.** What becomes of a row or a run is decided by the handler that has the task in hand, over
several steps, so that no property of tasks is inductive. `FlowInv` adds two things. `WorkerInv` is what a
handler relies on at each `pc`: the entry in its hand is that of its task (`InHand`), the charge is ahead of
the row of the run and that row ahead of the attempt (`Ahead`), its run is the last one of the task and is as
the handler remembers it (`OwnRun`, `Knows`), its agent is not the author of what it reviews (`Picked`). `TaskInv` is
true of a task whoever has it, or nobody after a crash: attempts are at most the runs, these at most the charges,
these at most `MaxRuns` (`WithinBudget`); a row to review names the latest implementation and its author
(`ReviewReady`), as do the runs that were reviews (`ReviewsOf`); an accepted row has its reason in the last
run (`AcceptedFor`). A crash clears the hands and leaves `TaskInv` alone, and the claim afterwards needs nothing else.
`QueueStep` shows that every step is one of the queue's, so that `OneHolder` and
all of `TaskQueueProofs` hold, and a lemma per kind of step then keeps `FlowInv` (`FlowNext`). From it follow
`WorkflowTypes`, `BudgetIsKept`, `AcceptedForAReason`, `ReviewsAreOfTheLatest`, and the refinements `FollowsQueue` and
`ContractIsKept`, for any disturbances that `TaskWorkflow` has. It has no step for an event that fails after a release: that is
`LateRequeue` of `TaskTrail`, which breaks the two refinements and not the others. What is true of the whole program is
below, under [the log](#proofs).

Four more need an invariant of their own next to it, and a hypothesis, each of which some run of the program meets
and without which the property fails. They are about `TaskWorkflow`, so that the event after every release is written:

- `AtMostOneOpenRun`: an open run is the last of its task, which is dispatched or was given up, and whoever has
  it in hand is still at that run (`OpenInv`). Not with `cancel`: a run that cannot be closed stays open for good, and the next is a second one.
- `CleanAfterStop`: with `OpenInv`, a dispatched task is in somebody's hand (`InProgress`). Without `crash`, `lost`, `giveup`
  and `cancel`, which each leave something behind on purpose or for want of a write; `raise`, `early` and SIGINT at any time are allowed.
- `OneWorkerNeverReconsiders`: a map that knows a task has exactly its exclusions (`MapsAgree`). For one worker, which is
  every `agentflow run`; `wf_stale` refutes it for two.
- `RetriesCarryHandoff`: `PacketInv` follows the packet from the run it is about through the hands of the reviewer (the author's
  run, not the reviewer's, has it) to the row, and from there to the next implementer. Without
  `raise` and `cancel`: an attempt whose packet could not be written, or whose end was not recorded, is retried without one.

**The log.** Every step of `TaskTrail` but `LateRequeue` is a step of the workflow (`TrailIsFlow`), and that one keeps `FlowInv` as well
(`LateKeepsFlow`): the row it puts back has nobody's hand on it, and no handler relies on what the status of a row that is not dispatched
was. Hence `LateReleasesKeepPromises`.

`OnlyLateDeparts` says what that step does cost: it is the only one that is not both a step of the queue's discipline and one of a task's
contract (or one that shows nothing). So a row that has ended is only ever written again by the worker that released it and could not tell of it
(`OnlyLateReopens`), and no exclusion is taken back even then (`ExclusionsSurvive`). Under the hypothesis that no event after a release fails,
`"late" \notin Disturbances`, the whole program implements both specifications and what has ended stays (`DisciplineWithoutLate`,
`SettledWithoutLate`, `ContractWithoutLate`). The hypothesis is needed: `wf_late` has the trace without it.

`MoveTells` sorts the steps by what they tell: of the handler's run and nothing that ends
a task (`Harmless`), the event of a release, or nothing. That an end which was told is not taken back says nothing of the step
before it is told. `EndsInv` adds that a released task has a row that is not dispatched, and one worker that still has it in mind (`JustReleased`),
and that a log with an end belongs to a row that no such worker has (`EndsLast`). Then only the row of an untold release can come back, and
`TheLastWord` follows.

`AcceptancesAreOnRecord` needs the way of an approval through the program, which `ApprovalInv` follows: the completion of an
implementation goes from the log (`Coded`) to the handler, from there to the row that asks for a review (`ReviewOnRecord`),
with the review's verdict to its handler (`Approved`, `HasTold`) and with the release into the log (`EndOnRecord`). In between the log may
only get completions of reviews (`OfReviews`), which is so because the handler that has the task in hand has a row whose role says reviewer.
A crash may cut it off anywhere, and what is on record then is still right for the next process. Its hypothesis is that `run.completed` and `review.completed`
are among the types that are followed: without them there is nothing to find in `log`.

**The scheduler.** `EligibleExactly` and `BeforeQuotaExactly` turn the chain of reasons into
sets, `RefusesIffNone` compares the chain of refusals with them. What decisions are asked
with is the invariant `AskedInv`, of three parts. `RegistryInv`: an agent that is not in the shared map
is healthy to every worker, and exhausted in the map exactly when some worker found it so;
hence all workers see the same (`SeenIsCommon`), although their entries differ.
`BudgetInv`: the row has the status of what is used, a manager holds for written only what the status
calls for, and the log has at most that. `StatusWorsens` (more use is never a better status) and
`DueIsNew` (at most one warning is due, and then nobody holds it for written) carry
it through every write (`UpdateKeeps`). The third part is the types. `StepKeeps` also shows that
every step but a new invocation leaves less to choose from (`OnlyLess`). From these follow `PicksWhenItCan`,
`ChoosesFromTheRight`, `RefusedForGood`, `HealthWorsens`, `WarnsOnce` and `ExhaustionTold`.
`LowIsTold` is not true of the code; what is left of it is `OnlyJumpsSkipLow`: the first crossing of 80% is told of unless the same step uses the
budget up, or the log fails.
`NamesTheAxis` needs that ratios compared by products are ordered (`CrossMultiplied`), so that `pickAxis()` finds
an axis as full as any (`PickAxisIsFullest`), which is past a threshold as soon as one is (`PickedIsPast`), and stays so.

**The best candidate.** `PicksTheBest` is `NoBetterPassedOver` for any finite set of agents, prices, rows, window and cap, in three parts.
A fraction with a positive denominator is placed like its number: `Higher` is transitive (`HigherIsTransitive`), and sums and multiples
keep the order and, if they come out equal, their parts were equal (`PlusIsMonotone`, `MultipleIsMonotone`). Each measure of one who is as good is as high, and as
high only if the other is as good as well (`FastScoresHigh`, `HealthyScoresHigh`, `CheapScoresHigh`; `GoodScoresHigh` adds
them up). And `decide()`'s order has a first candidate (`BestIsAhead`), because a relation that orders any two elements of
a finite set has one (`FiniteHasFirst`): among the subsets without, one would have no smaller one below it, as strict inclusion is well
founded on finite sets. That is the library's theorem about minimal elements, which needs no operator as a parameter, and the same way the
sum of a window is an integer (`TotalIsInt`): the first index at which it is not has one before it.

**A run.** What is promised of a run that is answered says nothing of one that is not,
so that it is not inductive. `RunInv` adds what holds at each wait: before the agent
nothing is started (`NotStartedYet`); until the answer there is none and the row is
running (`UnderWay`); an abort has been heard by the one that is waited for, unless its
timeout was first (`SignalHeard`); while commands run the agent and the commands
before have passed and are off (`PassedSoFar`). `ConcludeEnds`, `CaughtEnds` and
`InterruptedEnds` say once what every way to end a run leaves in the row, and `EndsWell`
and `GoesOn` reduce a step to what it changes; then there is one lemma per step.
`OnlyEarnedSuccess`, `LeavesNothing`, `AbortIsNoResult`, `AnswerAgrees` and `RunTypeCorrect`
follow. They hold for deaf agents too: `TimeoutEndsAgent` fails by waiting, not by a
wrong answer.

**A run in the workflow.** `RunsAreTheWorkflows` is the refinement, step by step. `PacedInv` adds to `RunInv` how far the preparation
is, and that an agent or a command is only interrupted after an abort. What a step does has to be turned into the workflow's assignments:
`RunIsSet`, `RowIsSet`, `HandlerMoves` and `RestIsSame` do that once, and `RunIsFinished`, `RunIsPassedOn` and `RunIsGivenUp` for the three
ways a run ends. `CaughtTells` and `ConcludeTells` say which status a run that rejects may keep (`Rejects`); that it is
cancelled only after an abort, and that a run which had succeeded was not aborted (`SignalHeard`), decides between `Interrupt` and `GiveUp` (`RunRejects`). Then there is one lemma per step. The
workflow's `Failures` after an abort are right because `SignalHeard` leaves an agent that was not interrupted only its timeout.

**Version 0.** `RunInv` is not an invariant of `FlowSpec`: commands run after an agent that failed. `V0Inv` has what version 0
knows instead: nobody can interrupt it (`V0Alone`), nothing is told before the end (`V0Untold`), and while
commands run those before have passed (`V0Kept`). `EitherInv` is the one or the other; the lemmas about the adapter and the
verifier serve both. `AgentComesFirst` and `LogAgrees` follow, and `EitherKeepsPromises` has the five properties of a run for both versions.

**What a reader sees.** A snapshot is made of prefixes of the journal, so that all has to be said of its order
(`JournalOK`): statuses come in ranks (`Ranked`), nothing but a packet is saved after an end (`Settled`), there is one diff at most and it
comes after the base it applies to (`DiffOK`), and the task refers to what was written before (`RefersBack`). `Journal` ties it to the run: what can have been written
where `runTaskOnce()` waits. The last status of a prefix exists, and grows with the prefix, because ranks are bounded
(`LastStatusIs`), which needs no induction on its length. Each list of writes of the module is shown to keep `JournalOK`, cut off anywhere
(`SavedKeeps`, `EndKeeps`, `BeginningKeeps`). Then `ReferencesMet`, `EndedIsComplete` and `ForkFindsItsBase` relate three prefixes i <= j <= k, and
`SessionKeepsPromises` carries over what is proved of the run.

**A command.** `ExitTellsTable` says nothing before the end. `CommandInv` adds that a task is dispatched exactly
while one worker has it (`Handed`), that nothing runs before the start (`NotStarted`), that the tasks
of this invocation stay terminal once the pool stops because of them (`OwnAreTerminal`: the
workers that still work have tasks of others), and what an end leaves (`Over`). `LeaveKeeps` says once what
the `finally` blocks do. `CodeTellsTable`, `ConnectionsLast`, `NothingBehind`, `OnlyFinishedGo` and
`CommandTypeCorrect` follow, for any number of tasks and workers.

`HealthWorsens`, `NamesTheAxis`, `Exclusive`, `OwnedWhileDispatched` and `MapsLagOnly` prove what TLC agreed with
once and no run repeats.

**What the proofs changed.** `TaskWorkflow` lacked two ends of a run that `RunExecution` has, which the refinement brought up: a preparation that
fails and cannot be closed may leave the run as `running`, not only as `preparing`; and a run whose failure was written but not its event, and is then aborted, goes
back to the queue as `failed`. `SessionSnapshot` let a preparation that fails give the row its own status once more, or `none`: `Ends` of a row
that has not ended is now nothing. `TaskTrail` filtered logs that were already joined, of which nothing can be proved without induction: events
are now left out where they are told. Its `LateRequeue` was guarded against a claim by another worker that its row's status alone does not show, a task that was
claimed, run and released again in between; `Apart` says what the code ensures, and without it TLC refutes `AnnouncedIsFinal` for two workers. `AgentRanking` cut windows
out of sequences and folded over them; now a window is a set of indices, counted and added up by a recursive function whose equation can be proved, and `Agents` is finite. Cases that overlapped with the same answer in `OrchestratorV0`, `SessionSnapshot` and `TaskTrail` are disjoint now.

**Only model-checked**, on the instances above:

- Liveness (`StopCompletes`, `EveryTaskSettles`, `EveryRunAnswers`, `SigintEnds`): TLAPS does not handle `ENABLED`.

## Findings

1. *A stale map of exclusions* (`wf_stale`). Worker 1 implements, worker 2 reviews, asks for
   changes and excludes the author in the table and in its own map; worker 1 takes the retry
   and schedules from the copy of the work order it cached for the first run
   (`task-queue.ts:178`). The author may be picked again. The contracts
   (`docs/contracts/v1-machine-readable-contracts.md:351`) say it is never
   reconsidered. With one worker it holds (`wf_single`).
2. *Leases do not free a task* (`queue_lease`). A row has a lease only while dispatched, and
   the claim requires `queued` (`queue-store.ts:59`; `OwnedWhileDispatched` proves the first
   for all instances). A task whose worker died stays dispatched, against
   `docs/contracts/v1-machine-readable-contracts.md:293`.
3. *A terminal task may come back* (`wf_late`). If the event after a release cannot be
   appended, the loop puts the row back in the queue without looking at it
   (`worker.ts:133`), against `docs/implementation/v1-module-breakdown.md:306`. Nothing else does (`OnlyLateReopens`).
4. *A timeout that does not end an agent* (`run_deaf`). The adapter sends SIGTERM when the timeout
   passes, and nothing after it, not for a later abort either (`official-cli-adapter.ts:194` and 170).
   An agent that ignores the signal keeps its worker, and `stop()` waits for it, against
   `docs/implementation/v1-module-breakdown.md:579`.
5. *A budget that is never told to be low* (`quota_low`). A budget that goes from ok straight to exhausted gets
   `quota.exhausted` alone (`budget-manager.ts:134`), and nothing later writes `quota.low`. A single run that costs enough does it, and
   so does the last run of every budget of at most four, on that axis: three of four is 0.75. The spec
   (`docs/implementation/v1-development-spec.md:287`) has `quota.low` the first time any axis crosses 0.80, the contracts
   (`docs/contracts/v1-machine-readable-contracts.md:269`) when any axis crosses 80% of its cap. The test at
   `tests/unit/budget-manager.test.ts:398` is called "also emits quota.low before quota.exhausted when jumping from ok to
   exhausted", and asserts that it is not. `OnlyJumpsSkipLow` proves that there is no other way to miss it while the log can be written.

Smaller observations, which no run is about. A run whose `task.edge_selected` cannot
be written gets both `run.completed` and `run.failed` (`Conclude`). If two writes fail in a
row, a run may stay open while its task is queued again, and the next run is the
second open one: `OneOpenRun` is therefore checked without the disturbance `cancel`. A second SIGINT, or one
before or after the wait, finds no listener: the process ends at once with its tasks dispatched, as after a crash
(`Killed`). A claim that throws rejects `loop()`, which nobody awaits before `stop()`, and ends the
process as well. A warning of a budget that cannot be written is not tried again: `ExhaustionIsTold` and `LowIsTold` leave
the steps out in which the log fails (`LogFails`).

Of the log: `agent.spawned` is appended with pid 0 before there is a process. A run that was cancelled has no
event of its end. `run.completed` may be followed by `run.failed` of the same run, when a later event of it
cannot be written, and its row says `succeeded` for that long (`Detours`, `Succeeds`). A process that dies between
a release and its event leaves a row that is over and a log that is not: `AnnouncedIsFinal` goes the one way only.

Of scores: the times of failed runs count as well, so that an agent that fails at once looks fast, and one that is
cheap and never succeeds may be ahead of one that is dear and always does (0.2 against 0.1). One whose average is
zero gets 0.5, per agent, where `docs/implementation/v1-module-breakdown.md:199` gives it to all candidates of a pool
whose average is unknown.

Of sessions: the row of a version 0 run has no task in `task_queue`, so that nothing of it can be read as a session. The
diff a reviewer was given is an artifact of the reviewer's run and is put on that run's base. Artifacts are not unique by
their URI: a packet that is persisted twice for a run leaves two rows, the earlier one with the checksum of what was there before.

## Plan

Done: `TaskQueue`, `Scheduler` with `Budget`, `AgentRegistry` and `AgentRanking`, `TaskContract`, `TaskWorkflow`, `TaskTrail`, `RunExecution`,
`RunInWorkflow`, `OrchestratorV0`, `SessionSnapshot`, `Command`, and proofs about all of them.

What is left: `Command` as the environment of `TaskWorkflow`, its `Start`, `Stop` and `Crash` shown to be those of a command.

## Not modelled

- The text of prompts, capsules, briefs, packets and reports; files of artifacts and their checksums;
  worktrees and git; validation of inputs; migrations: no control flow of the workflow depends on
  them but on whether they succeed, which is a choice.
- Payloads of events, and the checks `append()` makes of types, ids and payloads before it writes: what they accept is
  a table, and an event they refuse is one that cannot be written. The events about artifacts, verification and
  edges of a version 1 run.
- The record of all candidates' scores that a decision carries; loading of profiles.
- `setStatus()` of the queue, `candidatesFor()` and `refreshQuotaHealth()` of the registry, `listByRun()` of the log, which nothing calls. The handler's answers to a missing
  work order, review context or picked agent: no state reaches them.
- Two processes with workers on one database at a time. Their claims are safe for the same reason as those of two
  workers (one transaction), but quota health is not shared between them. (A reader in another process is modelled.)
- Wall-clock time beyond leases, and what runs cost beyond the budget's axes.
