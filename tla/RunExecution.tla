---------------------------- MODULE RunExecution ----------------------------
(***************************************************************************)
(* runTaskOnce() (orchestrator-v1.ts): one run of an agent for a task, with *)
(* the adapter and the verifier it waits for, a signal that may be aborted  *)
(* at any time, and a database and a file system that may fail at every     *)
(* write.  TaskWorkflow takes a run as an atomic choice between outcomes;   *)
(* here is what they are made of (RunInWorkflow shows that it is so).       *)
(***************************************************************************)
EXTENDS AgentProcess, VerificationRunner

VARIABLES pc,       \* where runTaskOnce() waits
          role,     \* the role of the run
          run,      \* its row in agent_runs, and its run.* events that end it
          outcome   \* what runTaskOnce() answers, or how it rejects

vars == <<child, signal, adapter, plan, command, results, pc, role, run, outcome>>

Open     == {"preparing", "running"}
Verdicts == {"approved", "changes_requested", "rejected"}

Run == [status : Open \cup {"none", "succeeded", "failed", "cancelled"},
        events : SUBSET {"run.completed", "run.failed"}]

\* "context_failed" is answered as an internal_error; the last two are
\* rejections, with OperationAbortedError and with another error.
Outcomes == {"none", "succeeded", "verification_failed", "diff_apply_failed",
             "reviewer_unusable", "agent_timed_out", "agent_nonzero_exit",
             "quota", "spawn_failed", "internal_error", "context_failed",
             "interrupted", "gave_up"} \cup Verdicts

RunTypeOK ==
  /\ ChildTypeOK /\ AdapterTypeOK /\ VerifierTypeOK
  /\ pc \in {"called", "stat", "agent", "verify", "done"}
  /\ role \in {"implementer", "reviewer"}
  /\ run \in Run
  /\ outcome \in Outcomes

Init ==
  /\ child = NoChild /\ signal = FALSE /\ adapter = NoAgentYet
  /\ plan \in 0..MaxCommands /\ command = NoCommand /\ results = <<>>
  /\ pc = "called"
  /\ role \in {"implementer", "reviewer"}
  /\ run = [status |-> "none", events |-> {}]
  /\ outcome = "none"

waitVars == <<child, adapter, command, results>>
-----------------------------------------------------------------------------
(* How a run ends. *)

Answer(r, o) == run' = r /\ outcome' = o /\ pc' = "done"

EndEvent(status) == IF status = "succeeded" THEN "run.completed" ELSE "run.failed"

\* finishRun(): the status and then the event, or it throws before or between.
Finished(r, status) ==
  {[run |-> [status |-> status, events |-> r.events \cup {EndEvent(status)}], ok |-> TRUE],
   [run |-> [r EXCEPT !.status = status], ok |-> FALSE],
   [run |-> r, ok |-> FALSE]}

\* cancelInterruptedRun(), or it throws.
Cancelled(r) ==
  IF r.status \in Open THEN {r, [r EXCEPT !.status = "cancelled"]} ELSE {r}

\* The catch of runTaskOnce(), and how it rejects.
Interrupted  == \E r \in Cancelled(run) : Answer(r, "interrupted")
Rejected(r)  == \E q \in IF signal THEN Cancelled(r) ELSE {r} : Answer(q, "gave_up")

\* The error is answered, and the run left as it is.
Caught_NotFinished(r) == Answer(r, "internal_error")

\* The catch of runImplementer() and runReviewer(), with the run as it is then.
Caught(r) ==
  \E f \in Finished(r, "failed") :
    IF f.ok THEN Answer(f.run, "internal_error") ELSE Rejected(f.run)

\* The run is finished and outcome o answered.  When finishRun() throws, or a
\* write after it does, which only a success has, the catch finishes it again.
Conclude(status, o) ==
  \E f \in Finished(run, status) :
    \/ f.ok /\ Answer(f.run, o)
    \/ (f.ok => status = "succeeded") /\ Caught(f.run)
-----------------------------------------------------------------------------
(* Before the agent. *)

Running == [run EXCEPT !.status = "running"]

\* createRunContext() has given the run a row, a workspace and the status
\* "running"; then the brief is written (for a review the diff is applied first)
\* and adapter.run() looks its working directory up.
Prepare ==
  /\ pc = "called"
  /\ run' = Running
  /\ pc' = "stat"
  /\ UNCHANGED <<signal, waitVars, plan, role, outcome>>

\* The row or one of its first events cannot be written; or something else
\* cannot, and the catch of createRunContext() does what it can to fail the run.
PrepareFails ==
  /\ pc = "called"
  /\ \/ \E s \in {"none", "preparing"} : Answer([run EXCEPT !.status = s], "gave_up")
     \/ \E s \in Open \cup {"failed"}, events \in SUBSET {"run.failed"} :
          Answer([status |-> s, events |-> events], "context_failed")
  /\ UNCHANGED <<signal, waitVars, plan, role>>

\* The brief or an artifact of it cannot be written.
BriefFails ==
  /\ pc = "called"
  /\ Caught(Running)
  /\ UNCHANGED <<signal, waitVars, plan, role>>

\* runReviewer() before its try block: the diff does not apply, or applyDiff()
\* or a write around it throws.
DiffRefused ==
  /\ pc = "called" /\ role = "reviewer"
  /\ \/ \E f \in Finished(Running, "failed") :
          \/ f.ok /\ Answer(f.run, "diff_apply_failed")
          \/ Rejected(f.run)
     \/ Rejected(Running)
  /\ UNCHANGED <<signal, waitVars, plan, role>>

\* adapter.run(): the agent starts.
Launch ==
  /\ pc = "stat"
  /\ StartAgent
  /\ pc' = "agent"
  /\ UNCHANGED <<signal, command, results, plan, role, run, outcome>>

\* There is no working directory, which is found before the signal is looked at;
\* or the agent cannot be started, and the signal decides what that means.
LaunchFails ==
  /\ pc = "stat"
  /\ \/ Conclude("failed", "spawn_failed")
     \/ signal /\ Interrupted
  /\ UNCHANGED <<signal, waitVars, plan, role>>
-----------------------------------------------------------------------------
(* While the agent or a command runs. *)

\* The worker aborts the signal, and the listener registered with it is called.
Abort ==
  /\ ~signal
  /\ pc \in {"stat", "agent", "verify"}
  /\ signal' = TRUE
  /\ CASE pc = "stat"   -> UNCHANGED waitVars
       [] pc = "agent"  -> AgentAborts /\ UNCHANGED <<command, results>>
       [] pc = "verify" -> CommandAborts /\ UNCHANGED <<adapter, results>>
  /\ UNCHANGED <<plan, pc, role, run, outcome>>

AgentTimesOut ==
  /\ pc = "agent"
  /\ AgentTimeout
  /\ UNCHANGED <<signal, command, results, plan, pc, role, run, outcome>>

CommandTimesOut ==
  /\ pc = "verify"
  /\ CommandTimeout
  /\ UNCHANGED <<signal, adapter, plan, pc, role, run, outcome>>

ownVars == <<signal, adapter, command, results, plan, pc, role, run, outcome>>

\* The agent or the command ends by itself; or it is ended, or what it left
\* behind ends.
ChildExits == Exit /\ UNCHANGED ownVars
ChildEnds  == (Die \/ HelpersEnd) /\ UNCHANGED ownVars

AgentInterrupted ==
  /\ pc = "agent" /\ adapter.aborting
  /\ AgentClose
  /\ Interrupted
  /\ UNCHANGED <<signal, command, results, plan, role>>

\* What the adapter answers when the event "close" comes now.
AgentResult == [code |-> child.code, timedOut |-> adapter.timedOut]

\* The output and the diff cannot be saved; or the agent has failed; or, in a
\* review, there is a verdict or none; or, else, there is nothing to verify.
AgentEnds ==
  /\ pc = "agent" /\ ~adapter.aborting
  /\ AgentClose
  /\ \/ Caught(run)
     \/ /\ Failed(AgentResult)
        /\ \E reason \in Reasons(AgentResult) : Conclude("failed", reason)
     \/ /\ ~Failed(AgentResult) /\ role = "reviewer"
        /\ \/ Conclude("failed", "reviewer_unusable")
           \/ \E verdict \in Verdicts : Conclude("succeeded", verdict)
     \/ /\ ~Failed(AgentResult) /\ role = "implementer" /\ plan = 0
        /\ Conclude("succeeded", "succeeded")
  /\ UNCHANGED <<signal, command, results, plan, role>>

\* The first command is started; its shell takes the place of the agent.
AgentPasses ==
  /\ pc = "agent" /\ ~adapter.aborting
  /\ CloseReady /\ ~Failed(AgentResult) /\ role = "implementer" /\ plan > 0
  /\ adapter' = [adapter EXCEPT !.timer = FALSE, !.listening = FALSE, !.killed = TRUE]
  /\ StartCommand
  /\ pc' = "verify"
  /\ UNCHANGED <<signal, results, plan, role, run, outcome>>

CommandInterrupted ==
  /\ pc = "verify" /\ command.aborted
  /\ CommandClose
  /\ Interrupted
  /\ UNCHANGED <<signal, adapter, results, plan, role>>

\* The last command, or one that failed: the verifier answers, and the answer
\* may not be saved.
CommandEnds ==
  /\ pc = "verify" /\ ~command.aborted
  /\ CommandClose
  /\ results' = Append(results, CommandResult)
  /\ \/ /\ Passed(results')
        /\ Conclude("succeeded", "succeeded") \/ Caught(run)
     \/ /\ ~Good(CommandResult)
        /\ Conclude("failed", "verification_failed") \/ Caught(run)
  /\ UNCHANGED <<signal, adapter, plan, role>>

\* One command too many.
CommandPasses_OffByOne ==
  /\ pc = "verify" /\ ~command.aborted
  /\ CloseReady
  /\ results' = Append(results, CommandResult)
  /\ Good(CommandResult) /\ Len(results') <= plan
  /\ StartCommand
  /\ UNCHANGED <<signal, adapter, plan, pc, role, run, outcome>>

\* A command passed and the next one is started.
CommandPasses ==
  /\ pc = "verify" /\ ~command.aborted
  /\ CloseReady
  /\ results' = Append(results, CommandResult)
  /\ Good(CommandResult) /\ Len(results') < plan
  /\ StartCommand
  /\ UNCHANGED <<signal, adapter, plan, pc, role, run, outcome>>
-----------------------------------------------------------------------------
Step == \/ Prepare \/ PrepareFails \/ BriefFails \/ DiffRefused
        \/ Launch \/ LaunchFails
        \/ AgentInterrupted \/ AgentEnds \/ AgentPasses
        \/ CommandInterrupted \/ CommandEnds \/ CommandPasses

Timeout == AgentTimesOut \/ CommandTimesOut

Next == Step \/ Timeout \/ Abort \/ ChildExits \/ ChildEnds

Spec == Init /\ [][Next]_vars

\* Timers go off, what is told to die dies unless it is deaf, and what it left
\* behind ends some day.  Nothing else need ever end.
FairSpec ==
  Spec /\ WF_vars(Step) /\ WF_vars(Timeout) /\ WF_vars(ChildEnds)
-----------------------------------------------------------------------------
(* Properties. *)

\* Only work that was done counts: a run that is answered as a success, or as a
\* verdict, had an agent that exited with 0 before its timeout, and every command
\* of its work order did as well (classifyOfficialCliFailure(), run() of the
\* verifier, runImplementer()).
SuccessIsEarned ==
  outcome \in Verdicts \cup {"succeeded"} =>
    /\ ~adapter.timedOut /\ ~adapter.aborting
    /\ child.code = "zero"
    /\ outcome = "succeeded" => Len(results) = plan /\ \A i \in 1..plan : Good(results[i])

\* When a run has ended nothing of it is still at work in its workspace, so that
\* the diff is final and the next run of the task is alone, and no timer and no
\* listener of it is left to fire at a later process (the handlers of "close" and of
\* the timeout).
NothingLeft ==
  pc = "done" => /\ child.state \in {"none", "closed"} /\ ~child.helpers
                 /\ ~adapter.timer /\ ~adapter.listening
                 /\ ~command.timer /\ ~command.listening

\* A run that is interrupted is never answered as one that succeeded or failed,
\* which would cost the task an attempt and its agent the task: unless the agent
\* had timed out before, or there was nothing to start (abortHandler, the second
\* look at the signal, the catch of runTaskOnce()).
InterruptedIsCancelled ==
  signal /\ pc = "done" =>
    \/ outcome \in {"interrupted", "gave_up"}
    \/ outcome = "agent_timed_out" /\ ~adapter.aborting
    \/ outcome = "spawn_failed" /\ adapter = NoAgentYet
    \/ outcome = "internal_error" /\ ~adapter.aborting /\ ~command.aborted

\* The answer and the row agree, so that the handler and a later reader of
\* agent_runs draw the same conclusion, even when writes failed in between
\* (finishRun(), the catch blocks, cancelInterruptedRun()).
AnswerTellsStatus ==
  /\ outcome \in Verdicts \cup {"succeeded"} => run.status = "succeeded"
  /\ outcome = "interrupted" => run.status \in {"running", "cancelled"}
  /\ outcome \in {"verification_failed", "diff_apply_failed", "reviewer_unusable",
                  "agent_timed_out", "agent_nonzero_exit", "quota",
                  "spawn_failed", "internal_error"} => run.status = "failed"

\* Whatever the agent and the commands do, the run is answered; an agent that
\* never ends is ended by its timeout.
EveryRunAnswers == <>(pc = "done")

\* An agent whose timeout has passed does not keep its worker.
TimeoutEndsAgent == adapter.timedOut ~> pc # "agent"
=============================================================================
