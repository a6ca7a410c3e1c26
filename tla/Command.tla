------------------------------ MODULE Command ------------------------------
(***************************************************************************)
(* agentflow batch, and agentflow run with one task and one worker         *)
(* (runBatchV1(), runWorkOrderV1(), waitForV1PoolTerminalOrInterrupt() in  *)
(* run-command.ts, DefaultWorkerPool, the loop and stop() of               *)
(* DefaultWorker): from the enqueuing of its tasks to its exit code, with  *)
(* SIGINT at any time.  What a handler does is taken as its result, the    *)
(* status of the task it was given; TaskWorkflow has the details.          *)
(***************************************************************************)
CONSTANTS Own,      \* the tasks of this invocation
          Others,   \* those that earlier ones left in the database
          Workers,
          NoTask

Tasks == Own \cup Others

ASSUME CommandAssumption ==
  /\ Own # {} /\ Own \cap Others = {}
  /\ NoTask \notin Tasks

VARIABLES phase,   \* how far the command is
          task,    \* the status of each task's row
          loop,    \* where each worker's loop is
          hand,    \* the task a worker's handler has
          db,      \* the connection of each worker
          grace,   \* the timer in stop(graceMs)
          trees,   \* tasks with worktrees of their runs
          code     \* the exit code

vars == <<phase, task, loop, hand, db, grace, trees, code>>

Terminal  == {"accepted", "failed", "awaiting_human"}
Statuses  == {"absent", "queued", "dispatched", "orphaned"} \cup Terminal
ExitCodes == {"0", "1", "2", "3", "130"}

CommandTypeOK ==
  /\ phase \in {"new", "enqueued", "waiting", "interrupting", "stopping", "failing",
               "exited"}
  /\ task \in [Tasks -> Statuses]
  /\ loop \in [Workers -> {"none", "idle", "busy", "off"}]
  /\ hand \in [Workers -> Tasks \cup {NoTask}]
  /\ db \in [Workers -> {"none", "open", "closed"}]
  /\ grace \in {"none", "running", "over"}
  /\ trees \in SUBSET Tasks
  /\ code \in ExitCodes \cup {"none", "killed"}
  /\ \A w \in Workers : loop[w] = "busy" <=> hand[w] # NoTask

\* The row of an "orphaned" task says dispatched as well, but no handler has it.
\* Earlier invocations may leave such tasks, queued ones and some for a human.
Init ==
  /\ phase = "new"
  /\ \E left \in [Others -> {"queued", "orphaned", "awaiting_human"}] :
       task = [t \in Tasks |-> IF t \in Own THEN "absent" ELSE left[t]]
  /\ loop = [w \in Workers |-> "none"]
  /\ hand = [w \in Workers |-> NoTask]
  /\ db = [w \in Workers |-> "none"]
  /\ grace = "none"
  /\ trees \in SUBSET Others
  /\ code = "none"

poolVars == <<loop, hand, db, grace>>

\* stop() of the pool was called, which asks every worker to stop.
StopRequested == phase \in {"interrupting", "stopping", "failing"}

AllOff == \A w \in Workers : loop[w] = "off"
-----------------------------------------------------------------------------
(* Before the workers start. *)

\* The finally block: stop() returns at once when it was called before, and every
\* connection is closed.
Leave(c) ==
  /\ phase' = "exited" /\ code' = c
  /\ db' = [w \in Workers |-> IF db[w] = "open" THEN "closed" ELSE db[w]]
  /\ UNCHANGED <<loop, hand, grace>>

\* The agent profiles cannot be loaded, or none fits.
Refuse == phase = "new" /\ Leave("2") /\ UNCHANGED <<task, trees>>

Queued(S) == [t \in Tasks |-> IF t \in S THEN "queued" ELSE task[t]]

\* emitTaskEnqueued() for each task.
Enqueue ==
  /\ phase = "new"
  /\ phase' = "enqueued"
  /\ task' = Queued(Own)
  /\ UNCHANGED <<poolVars, trees, code>>

\* A row or its event cannot be written: the tasks before stay in the queue.
EnqueueFails ==
  /\ phase = "new"
  /\ \E S \in SUBSET Own : task' = Queued(S)
  /\ Leave("1")
  /\ UNCHANGED trees

\* start(): services for all workers, then all loops.
StartPool ==
  /\ phase = "enqueued"
  /\ phase' = "waiting"
  /\ loop' = [w \in Workers |-> "idle"]
  /\ db' = [w \in Workers |-> "open"]
  /\ UNCHANGED <<task, hand, grace, trees, code>>

\* What was made before stays open.
StartFails_NotClosed ==
  /\ phase = "enqueued"
  /\ phase' = "exited" /\ code' = "1"
  /\ \E S \in SUBSET Workers : db' = [w \in Workers |-> IF w \in S THEN "open" ELSE "none"]
  /\ UNCHANGED <<task, loop, hand, grace, trees>>

\* One worker's services cannot be made: no loop is started, and the connections
\* there are get closed (cleanupAfterStartFailure(), the finally block).
StartFails ==
  /\ phase = "enqueued"
  /\ phase' = "exited" /\ code' = "1"
  /\ \E S \in SUBSET Workers : db' = [w \in Workers |-> IF w \in S THEN "closed" ELSE "none"]
  /\ UNCHANGED <<task, loop, hand, grace, trees>>
-----------------------------------------------------------------------------
(* The workers. *)

\* Claims that find nothing are handled, too.
Claim_NullEntry(w) ==
  /\ loop[w] = "idle" /\ ~StopRequested
  /\ \/ \E t \in Tasks :
          /\ task[t] = "queued"
          /\ task' = [task EXCEPT ![t] = "dispatched"]
          /\ hand' = [hand EXCEPT ![w] = t]
     \/ /\ \A t \in Tasks : task[t] # "queued"
        /\ UNCHANGED <<task, hand>>
  /\ loop' = [loop EXCEPT ![w] = "busy"]
  /\ UNCHANGED <<phase, db, grace, trees, code>>

Claim(w) ==
  /\ loop[w] = "idle" /\ ~StopRequested
  /\ \E t \in Tasks :
       /\ task[t] = "queued"
       /\ task' = [task EXCEPT ![t] = "dispatched"]
       /\ hand' = [hand EXCEPT ![w] = t]
  /\ loop' = [loop EXCEPT ![w] = "busy"]
  /\ UNCHANGED <<phase, db, grace, trees, code>>

\* The handler returns or rejects: the task is terminal or queued again, but for a
\* handler that rejects before any release and whose task cannot be put back either
\* (releaseAfterHandlerFailure()).
Handled(w) ==
  /\ loop[w] = "busy"
  /\ \E s \in Terminal \cup {"queued", "orphaned"} : task' = [task EXCEPT ![hand[w]] = s]
  /\ hand' = [hand EXCEPT ![w] = NoTask]
  /\ loop' = [loop EXCEPT ![w] = IF StopRequested THEN "off" ELSE "idle"]
  /\ trees' \in {trees, trees \cup {hand[w]}}
  /\ UNCHANGED <<phase, db, grace, code>>

\* stop() wakes a worker that has nothing to do.
Rest(w) ==
  /\ loop[w] = "idle" /\ StopRequested
  /\ loop' = [loop EXCEPT ![w] = "off"]
  /\ UNCHANGED <<phase, task, hand, db, grace, trees, code>>

\* The handlers that are still at work are aborted.
GraceEnds ==
  /\ grace = "running"
  /\ grace' = "over"
  /\ UNCHANGED <<phase, task, loop, hand, db, trees, code>>
-----------------------------------------------------------------------------
(* The end. *)

\* The first poll that finds all tasks of this invocation terminal; the handler of
\* SIGINT is removed, and stop() called without a grace, in the same turn of the
\* event loop.
AllTerminal ==
  /\ phase = "waiting"
  /\ \A t \in Own : task[t] \in Terminal
  /\ phase' = "stopping"
  /\ UNCHANGED <<task, poolVars, trees, code>>

\* The monitor cannot read the table: the finally blocks dispose of the handler of
\* SIGINT and call stop() without a grace.
MonitorFails ==
  /\ phase = "waiting"
  /\ phase' = "failing"
  /\ UNCHANGED <<task, poolVars, trees, code>>

\* stop() is called without a grace.
Sigint_NoGrace ==
  /\ phase = "waiting"
  /\ phase' = "interrupting"
  /\ UNCHANGED <<task, poolVars, trees, code>>

\* SIGINT while there is a handler for it, which is called once.
Sigint ==
  /\ phase = "waiting"
  /\ phase' = "interrupting" /\ grace' = "running"
  /\ UNCHANGED <<task, loop, hand, db, trees, code>>

\* SIGINT at any other time, or anything else that ends the process.
Killed ==
  /\ phase # "exited"
  /\ phase' = "exited" /\ code' = "killed"
  /\ task' = [t \in Tasks |-> IF task[t] = "dispatched" THEN "orphaned" ELSE task[t]]
  /\ loop' = [w \in Workers |-> "off"]
  /\ hand' = [w \in Workers |-> NoTask]
  /\ db' = [w \in Workers |-> "closed"]
  /\ UNCHANGED <<grace, trees>>

\* The interrupt is answered without awaiting stop().
Interrupted_NotAwaited ==
  /\ phase = "interrupting"
  /\ Leave("130")
  /\ UNCHANGED <<task, trees>>

\* stop() is awaited, then the connections are closed.
Interrupted ==
  /\ phase = "interrupting" /\ AllOff
  /\ Leave("130")
  /\ UNCHANGED <<task, trees>>

\* stop() is awaited here, too.
Failed ==
  /\ phase = "failing" /\ AllOff
  /\ Leave("1")
  /\ UNCHANGED <<task, trees>>

\* Every terminal task.
Candidates_AllTasks == {t \in trees : task[t] \in {"accepted", "failed", "awaiting_human"}}

\* listCleanupCandidates(): worktrees of tasks that need nobody any more.
Candidates == {t \in Own \cap trees : task[t] \in {"accepted", "failed"}}

\* A task that awaits a human outranks one that failed.
Verdict_HumanFirst ==
  IF \E t \in Own : task[t] = "awaiting_human" THEN "3"
  ELSE IF \E t \in Own : task[t] = "failed" THEN "1" ELSE "0"

Verdict ==
  IF \E t \in Own : task[t] = "failed" THEN "1"
  ELSE IF \E t \in Own : task[t] = "awaiting_human" THEN "3" ELSE "0"

\* All workers have stopped: cleanupV1TerminalWorktrees(), buildBatchResult(), and
\* the exit code of runCli().
Finish ==
  /\ phase = "stopping" /\ AllOff
  /\ trees' = trees \ Candidates
  /\ Leave(Verdict)
  /\ UNCHANGED task

\* A worktree cannot be removed, or the event about it not be written.
CleanupFails ==
  /\ phase = "stopping" /\ AllOff /\ Candidates # {}
  /\ \E S \in SUBSET Candidates : trees' = trees \ S
  /\ Leave("1")
  /\ UNCHANGED task
-----------------------------------------------------------------------------
Next ==
  \/ Refuse \/ Enqueue \/ EnqueueFails \/ StartPool \/ StartFails
  \/ AllTerminal \/ MonitorFails \/ Sigint \/ GraceEnds \/ Killed
  \/ Interrupted \/ Failed \/ Finish \/ CleanupFails
  \/ \E w \in Workers : Claim(w) \/ Handled(w) \/ Rest(w)

Spec == Init /\ [][Next]_vars

\* The event loop runs what is runnable and timers go off, but a handler need only
\* ever come to an end once it is aborted.
FairSpec ==
  /\ Spec
  /\ WF_vars(GraceEnds) /\ WF_vars(Interrupted)
  /\ \A w \in Workers : WF_vars(Rest(w)) /\ WF_vars(grace = "over" /\ Handled(w))
-----------------------------------------------------------------------------
(* Properties. *)

\* The exit code tells what the table says of the tasks of this invocation, and
\* of nobody else's; 0 and 3 also say that what could be cleaned up is gone
\* (runCli(), buildBatchResult(), cleanupV1TerminalWorktrees()).
ExitTellsTable ==
  /\ code \in {"0", "3"} =>
       /\ \A t \in Own : task[t] \in {"accepted", "awaiting_human"}
       /\ Candidates = {}
  /\ code = "0" => \A t \in Own : task[t] = "accepted"
  /\ code = "3" => \E t \in Own : task[t] = "awaiting_human"

\* No worker uses a connection that is closed or was never opened: neither a
\* second stop() that returns at once, nor a start that failed half way, nor an
\* interrupt closes one too early (stop(), cleanupAfterStartFailure()).
ConnectionsOutliveWorkers ==
  \A w \in Workers :
    loop[w] \in {"idle", "busy"} => db[w] = "open"

\* A command that gives an exit code leaves no task with a handler, no worker running
\* and no connection open, so that any later invocation can take up what is queued.
LeavesNothingBehind ==
  code \in ExitCodes =>
    /\ \A t \in Tasks : task[t] # "dispatched"
    /\ \A w \in Workers : loop[w] \in {"none", "off"} /\ db[w] # "open"

\* A worktree is only ever removed when its task is done with: never under a
\* worker, never one a human is to look at, and never one of an earlier
\* invocation, which may be all that is left of its work (listCleanupCandidates()).
RemovesOnlyFinished ==
  [][\A t \in trees \ trees' :
       /\ t \in Own /\ task[t] \in {"accepted", "failed"}
       /\ \A w \in Workers : loop[w] = "off"]_vars

\* The first SIGINT ends the command though no agent ever answers (stop(graceMs)).
SigintEnds == phase = "interrupting" ~> phase = "exited"
=============================================================================
