--------------------------- MODULE OrchestratorV0 ---------------------------
(***************************************************************************)
(* runWorkOrderWithServices() (orchestrator.ts): the run of a version 0    *)
(* work order, next to runTaskOnce() of RunExecution.  Both drive the same *)
(* adapter and verifier and promise the same of their answers.  A version  *)
(* 0 run has no queue behind it and no signal, verifies the work of an     *)
(* agent that failed as well, and decides at the end.                      *)
(***************************************************************************)
EXTENDS RunExecution

VARIABLES flow,       \* which of the two functions was called
          agentCode   \* agentResult.exitCode, once the agent has ended

v0Vars   == <<flow, agentCode>>
flowVars == <<vars, v0Vars>>

V0 == flow = "v0"
V1 == flow = "v1"

\* Version 0 has no reviews; its row has no role.
FlowInit ==
  /\ Init
  /\ flow \in {"v0", "v1"}
  /\ V0 => role = "implementer"
  /\ agentCode = "null"

(* How a version 0 run ends. *)

\* The catch: the status and the event, each if it can be written, and the error
\* is thrown on.
V0Throws(r) ==
  \E s \in {r.status} \cup IF r.status = "none" THEN {} ELSE {"failed"},
     told \in {{}, {"run.failed"}} :
       Answer([status |-> s, events |-> r.events \cup told], "gave_up")

\* The event before the status.
V0Ends_EventFirst(status, o) ==
  \/ Answer([status |-> status, events |-> {EndEvent(status)}], o)
  \/ V0Throws(run)
  \/ V0Throws([run EXCEPT !.events = {EndEvent(status)}])

\* The status and then the event; or it throws before or between.
V0Ends(status, o) ==
  \/ Answer([status |-> status, events |-> {EndEvent(status)}], o)
  \/ V0Throws(run)
  \/ V0Throws([run EXCEPT !.status = status])

\* The verifier has the last word.
V0Reason_VerifierOnly(code, rs) ==
  IF Passed(rs) THEN "succeeded"
  ELSE IF adapter.timedOut THEN "agent_timed_out"
  ELSE IF code # "zero"    THEN "agent_nonzero_exit"
  ELSE "verification_failed"

\* The agent is looked at before the verifier.
V0Reason(code, rs) ==
  IF adapter.timedOut      THEN "agent_timed_out"
  ELSE IF code # "zero"    THEN "agent_nonzero_exit"
  ELSE IF Passed(rs) THEN "succeeded" ELSE "verification_failed"

\* 14. Determine final status
V0Decides(code, rs) ==
  LET reason == V0Reason(code, rs)
  IN  V0Ends(IF reason = "succeeded" THEN "succeeded" ELSE "failed", reason)
-----------------------------------------------------------------------------
(* The steps of a version 0 run. *)

\* Up to run.started, after which adapter.run() looks its directory up.
V0Prepare == pc = "called" /\ run' = Running /\ pc' = "stat" /\ UNCHANGED outcome

\* Something of that fails, task.created first of all, which comes before the row.
V0PrepareFails ==
  /\ pc = "called"
  /\ \E s \in Open \cup {"none"} : V0Throws([run EXCEPT !.status = s])

\* There is no working directory, or nothing to start in it.
V0LaunchFails == pc = "stat" /\ V0Throws(run)

V0Starts ==
  /\ \/ V0Prepare \/ V0PrepareFails \/ V0LaunchFails
  /\ UNCHANGED <<waitVars, agentCode>>

\* adapter.run() without a signal: no listener.
V0Launch ==
  /\ pc = "stat"
  /\ child' \in NewChildren
  /\ adapter' = [NoAgentYet EXCEPT !.timer = TRUE]
  /\ pc' = "agent"
  /\ UNCHANGED <<command, results, run, outcome, agentCode>>

\* Output, diff, report and usage are saved, or one of them is not; without
\* commands that is all.
V0AgentEnds ==
  /\ pc = "agent"
  /\ AgentClose
  /\ agentCode' = child.code
  /\ \/ plan = 0 /\ V0Decides(child.code, results)
     \/ V0Throws(run)
  /\ UNCHANGED <<command, results>>

\* A shell and its timer, without a listener.
V0StartCommand ==
  /\ child' \in NewChildren
  /\ command' = [NoCommand EXCEPT !.timer = TRUE]

\* The first command is started, whatever became of the agent.
V0AgentDone ==
  /\ pc = "agent" /\ plan > 0
  /\ CloseReady
  /\ agentCode' = child.code
  /\ adapter' = [adapter EXCEPT !.timer = FALSE, !.killed = TRUE]
  /\ V0StartCommand
  /\ pc' = "verify"
  /\ UNCHANGED <<results, run, outcome>>

\* The last command or one that is not good; its output may not be saved.
V0CommandEnds ==
  /\ pc = "verify"
  /\ CommandClose
  /\ results' = Append(results, CommandResult)
  /\ Passed(results') \/ ~Good(CommandResult)
  /\ V0Decides(agentCode, results') \/ V0Throws(run)
  /\ UNCHANGED <<adapter, agentCode>>

V0CommandPasses ==
  /\ pc = "verify"
  /\ CloseReady
  /\ results' = Append(results, CommandResult)
  /\ Good(CommandResult) /\ Len(results') < plan
  /\ V0StartCommand
  /\ UNCHANGED <<adapter, pc, run, outcome, agentCode>>
-----------------------------------------------------------------------------
V0Step ==
  /\ V0
  /\ \/ V0Starts \/ V0Launch
     \/ V0AgentEnds \/ V0AgentDone \/ V0CommandEnds \/ V0CommandPasses
  /\ UNCHANGED <<signal, plan, role, flow>>

V1Step == V1 /\ Step /\ UNCHANGED v0Vars

\* Nobody has a signal to abort a version 0 run with.
V1Abort == V1 /\ Abort /\ UNCHANGED v0Vars

FlowTimeout   == Timeout /\ UNCHANGED v0Vars
FlowChildEnds == ChildEnds /\ UNCHANGED v0Vars

FlowNext == \/ V0Step \/ V1Step \/ V1Abort
            \/ FlowTimeout \/ FlowChildEnds
            \/ ChildExits /\ UNCHANGED v0Vars

FlowSpec == FlowInit /\ [][FlowNext]_flowVars

\* As for RunExecution: timers go off, what is told to die dies, nothing else
\* need ever end.
FairFlowSpec ==
  /\ FlowSpec
  /\ WF_flowVars(V0Step \/ V1Step)
  /\ WF_flowVars(FlowTimeout) /\ WF_flowVars(FlowChildEnds)
-----------------------------------------------------------------------------
(* Properties. *)

\* A version 0 run verifies what a failed agent left, and a good verification
\* must not hide the failure, nor a bad one the agent's part in it: it is called
\* a success, or blamed on the commands, only if the agent itself was done in time
\* (steps 13 and 14 of runWorkOrderWithServices()).
AgentAnswersFirst ==
  V0 /\ outcome \in {"succeeded", "verification_failed"} =>
    /\ agentCode = "zero" /\ ~adapter.timedOut
    /\ outcome = "verification_failed" <=> \E i \in DOMAIN results : ~Good(results[i])

\* The log never tells of an end that was not answered: run.completed is there
\* exactly for a success, and whoever replays the log of a run that rejected
\* sees a failure or no end at all, whichever writes failed (the order of
\* updateStatus() and append(), the catch).
LogTellsAnswer ==
  V0 /\ pc = "done" =>
    /\ "run.completed" \in run.events <=> outcome = "succeeded"
    /\ outcome = "gave_up" \/ run.events = {EndEvent(run.status)}
=============================================================================
