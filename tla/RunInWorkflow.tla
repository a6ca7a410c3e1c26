---------------------------- MODULE RunInWorkflow ----------------------------
(***************************************************************************)
(* A run as TaskWorkflow has it.  There the handler of a worker takes a few *)
(* steps from the charge to the answer of runTaskOnce(), with any of the    *)
(* outcomes that a run of that kind may have; here these steps are shown to *)
(* be what RunExecution does, step by step: one worker that has one task in *)
(* hand, for its first implementation or for the review of it.              *)
(*                                                                          *)
(* RunExecution prepares a run in one step, TaskWorkflow in two; the        *)
(* variable at takes them one after the other, and changes nothing else.    *)
(***************************************************************************)
EXTENDS RunExecution, Integers

VARIABLE at   \* how far createRunContext() is, as TaskWorkflow's pc has it

pacedVars == <<vars, at>>

Worker == "worker"
Task   == IF plan > 0 THEN "checked" ELSE "plain"
Author == "author"
Agent  == "agent"
Number == IF role = "reviewer" THEN 2 ELSE 1   \* of the run, among those of the task

\* The row that the worker has claimed.
Claimed ==
  [status |-> "dispatched", role |-> role, owner |-> Worker, lease |-> 1,
   attempts |-> Number - 1, at |-> 0, excl |-> {},
   ctx |-> IF role = "reviewer" THEN [run |-> 1, agent |-> Author]
           ELSE [run |-> 0, agent |-> "nobody"],
   packet |-> 0]

Absent == [status |-> "absent", role |-> "implementer", owner |-> "nobody", lease |-> -1,
           attempts |-> 0, at |-> 0, excl |-> {},
           ctx |-> [run |-> 0, agent |-> "nobody"], packet |-> 0]

\* The catch around runTaskOnce(): a run that rejects is passed on to the loop if the
\* signal is aborted, and else fails the task.
GivenUp == outcome = "gave_up" /\ ~signal

Row == IF GivenUp
       THEN [Claimed EXCEPT !.status = "failed", !.owner = "nobody", !.lease = -1]
       ELSE Claimed

Entry   == [task |-> Task, role |-> role, attempts |-> Number - 1]
NoEntry == [task |-> "none", role |-> "implementer", attempts |-> 0]

NoRow == [status |-> "none", role |-> "implementer", agent |-> "nobody", parent |-> 0,
          packet |-> 0, verdict |-> "none"]

\* The run in agent_runs, and the implementation that a review is about.
OwnRow ==
  IF at = "charged" THEN NoRow
  ELSE [status |-> IF pc # "called" THEN run.status
                   ELSE IF at = "opened" THEN "preparing" ELSE "running",
        role |-> role, agent |-> Agent, parent |-> Number - 1, packet |-> 0,
        verdict |-> IF outcome \in Verdicts THEN outcome ELSE "none"]

Before == [status |-> "succeeded", role |-> "implementer", agent |-> Author, parent |-> 0,
           packet |-> 0, verdict |-> "none"]

RunsOfTask == [n \in {1, 2} |-> IF n = Number THEN OwnRow
                                ELSE IF n < Number THEN Before ELSE NoRow]

\* Where the handler is.
Place == CASE pc = "called"                                -> at
           [] pc \in {"stat", "agent"}                     -> "agent"
           [] pc = "verify"                                -> "verifying"
           [] pc = "done" /\ GivenUp                       -> "released"
           [] pc = "done" /\ ~GivenUp
                /\ outcome \in {"interrupted", "gave_up"}  -> "raised"
           [] OTHER                                        -> "ran"

\* What it is told: the outcomes that it treats alike are one in TaskWorkflow.
Told == CASE outcome = "agent_timed_out"                      -> "agent_nonzero_exit"
          [] outcome \in {"spawn_failed", "context_failed"}   -> "internal_error"
          [] outcome \in {"interrupted", "gave_up"}           -> "none"
          [] OTHER                                            -> outcome

Job == [task |-> Task, role |-> role, agent |-> Agent,
        run |-> IF at = "charged" THEN 0 ELSE Number, outcome |-> Told]

Kinds  == {"plain", "checked"}
Agents == {Agent, Author}
Of(mine, others) == [t \in Kinds |-> IF t = Task THEN mine ELSE others]
Alone(value)     == [w \in {Worker} |-> value]

Rows    == Of(Row, Absent)
Cache   == Alone(Of([known |-> TRUE, excl |-> {}], [known |-> FALSE, excl |-> {}]))
Held    == Alone(IF GivenUp THEN NoEntry ELSE Entry)
Used    == Of(Number, 0)
Spent   == [t \in Kinds |-> FALSE]
Opened  == Of(IF at = "charged" THEN Number - 1 ELSE Number, 0)
Runs    == Of(RunsOfTask, [n \in {1, 2} |-> NoRow])
Places  == Alone(Place)
Jobs    == Alone(Job)
Aborted == Alone(signal)

Workflow == INSTANCE TaskWorkflow WITH
  Tasks <- Kinds, Workers <- {Worker}, Agents <- Agents,
  NoTask <- "none", NoWorker <- "nobody", NoAgent <- "nobody",
  LeaseTicks <- 1, MaxNow <- 0, MaxAttempts <- 2, RunIds <- {1, 2}, MaxRuns <- 2,
  Reviewed <- Kinds, Verified <- {"checked"}, Presets <- {{}},
  Capable <- Agents, RolesOf <- [a \in Agents |-> {"implementer", "reviewer"}],
  Pools <- [r \in {"implementer", "reviewer"} |-> {}],
  Disturbances <- {"stop", "giveup", "cancel"},
  rows <- Rows, now <- 0, cache <- Cache, held <- Held,
  used <- Used, spent <- Spent, opened <- Opened, runs <- Runs, out <- {},
  pc <- Places, job <- Jobs, aborted <- Aborted, stopping <- TRUE
-----------------------------------------------------------------------------
PacedInit == Init /\ at = "charged"

\* The row is written; the workspace is there and the run is under way.
Advance ==
  /\ pc = "called"
  /\ \/ at = "charged" /\ at' = "opened"
     \/ at = "opened" /\ at' = "agent"
  /\ UNCHANGED vars

\* How far it came when the step that runTaskOnce() takes from "called" is taken.
Reached ==
  IF run'.status = "none" THEN "charged"
  ELSE IF run'.status = "preparing" \/ outcome' \in {"context_failed", "diff_apply_failed"}
  THEN "opened" ELSE "agent"

Move == Next /\ (pc = "called" => at = Reached) /\ at' = at

PacedNext == Advance \/ Move

PacedSpec == PacedInit /\ [][PacedNext]_pacedVars
-----------------------------------------------------------------------------
(* Property. *)

RunStep ==
  \/ Workflow!OpenRun(Worker) \/ Workflow!LaunchAgent(Worker) \/ Workflow!PrepareFails(Worker)
  \/ Workflow!ImplementerDone(Worker) \/ Workflow!VerifierDone(Worker) \/ Workflow!ReviewerDone(Worker)
  \/ Workflow!Interrupt(Worker) \/ Workflow!Abort(Worker) \/ Workflow!GiveUp(Worker)

\* Whatever the agent, the commands, the signal and the failures of the file system
\* and the database make of a run, the workflow has it: the row, the answer and what
\* the handler does with a rejection (runTaskOnce() and the catch around it).
WorkflowHasIt == [][RunStep]_(Workflow!vars)
=============================================================================
