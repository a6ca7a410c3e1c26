------------------------- MODULE RunExecutionProofs -------------------------
(***************************************************************************)
(* Proofs about a run, for any number of commands, whether or not children *)
(* heed SIGTERM: of RunExecution, and after them of OrchestratorV0.        *)
(*                                                                         *)
(* RunInv is the inductive invariant.  What a run promises when it ends    *)
(* follows from what holds while it waits: an abort has been heard by the  *)
(* one it waits for (SignalHeard), the agent and the commands before have  *)
(* passed and are off (PassedSoFar), and the row is running (UnderWay).    *)
(*                                                                         *)
(* It is not an invariant of version 0, which runs commands after an agent *)
(* that failed and decides at the end from what it kept of both: V0Inv     *)
(* says what it keeps (V0Kept), that nobody can interrupt it (V0Alone),    *)
(* and that nothing is told before the end (V0Untold).                     *)
(***************************************************************************)
EXTENDS OrchestratorV0, TLAPS

\* Nothing has been started before the agent, and no command before it is over.
NotStartedYet ==
  /\ pc \in {"called", "stat"} => child = NoChild /\ adapter = NoAgentYet
  /\ pc \in {"called", "stat", "agent"} => command = NoCommand /\ results = <<>>

\* A run that is under way has not been answered, and its row says so.
UnderWay ==
  /\ pc # "done" => outcome = "none"
  /\ pc = "called" => run = [status |-> "none", events |-> {}]
  /\ pc \in {"stat", "agent", "verify"} => run.status = "running"

\* Whoever is waited for has heard of the abort, unless a timeout was first.
SignalHeard ==
  /\ pc = "called" => ~signal
  /\ pc = "agent" /\ (signal \/ adapter.killed) => adapter.aborting \/ adapter.timedOut
  /\ pc = "verify" /\ signal => command.aborted

\* While commands run the agent has passed, and so have those before.
PassedSoFar ==
  pc = "verify" =>
    /\ role = "implementer"
    /\ ~adapter.timer /\ ~adapter.listening
    /\ ~adapter.aborting /\ ~adapter.timedOut
    /\ Len(results) < plan
    /\ \A i \in 1..Len(results) : Good(results[i])

\* What is known of a run that has ended.
RunGuarantees ==
  /\ SuccessIsEarned /\ NothingLeft
  /\ InterruptedIsCancelled /\ AnswerTellsStatus

\* The inductive invariant.
RunInv ==
  /\ RunTypeOK /\ NotStartedYet /\ UnderWay /\ SignalHeard /\ PassedSoFar
  /\ RunGuarantees
-----------------------------------------------------------------------------
\* A run that could not be finished is a run all the same (finishRun()).
LEMMA FinishedIsRun ==
  ASSUME NEW r \in Run, NEW status \in {"succeeded", "failed"},
         NEW f \in Finished(r, status)
  PROVE  f.run \in Run /\ (f.ok => f.run.status = status)
BY DEF Finished, Run, EndEvent, Open

\* However a run is cancelled it stays a run, and one that was running is running
\* or cancelled (cancelInterruptedRun()).
LEMMA CancelledIsRun ==
  ASSUME NEW r \in Run, NEW q \in Cancelled(r)
  PROVE  q \in Run /\ (r.status = "running" => q.status \in {"running", "cancelled"})
BY DEF Cancelled, Run, Open

\* runTaskOnce() rejects with an error that is no abort.
LEMMA RejectedEnds ==
  ASSUME NEW r \in Run, Rejected(r)
  PROVE  pc' = "done" /\ run' \in Run /\ outcome' = "gave_up"
BY CancelledIsRun DEF Rejected, Answer

\* An error in a run is answered once the run has failed, or else thrown on.
LEMMA CaughtEnds ==
  ASSUME NEW r \in Run, Caught(r)
  PROVE  /\ pc' = "done" /\ run' \in Run
         /\ \/ outcome' = "internal_error" /\ run'.status = "failed"
            \/ outcome' = "gave_up"
<1>1. PICK f \in Finished(r, "failed") :
        IF f.ok THEN Answer(f.run, "internal_error") ELSE Rejected(f.run)
  BY DEF Caught
<1>2. f.run \in Run /\ (f.ok => f.run.status = "failed")
  BY FinishedIsRun
<1>3. CASE f.ok
  BY <1>1, <1>2, <1>3 DEF Answer
<1>4. CASE ~f.ok
  BY <1>1, <1>2, <1>4, RejectedEnds
<1> QED BY <1>3, <1>4

\* An answer is given with the status it tells, or the run has failed, or the
\* error is thrown on.
LEMMA ConcludeEnds ==
  ASSUME run \in Run, NEW status \in {"succeeded", "failed"}, NEW o, Conclude(status, o)
  PROVE  /\ pc' = "done" /\ run' \in Run
         /\ \/ outcome' = o /\ run'.status = status
            \/ outcome' = "internal_error" /\ run'.status = "failed"
            \/ outcome' = "gave_up"
<1>1. PICK f \in Finished(run, status) :
        \/ f.ok /\ Answer(f.run, o)
        \/ (f.ok => status = "succeeded") /\ Caught(f.run)
  BY DEF Conclude
<1>2. f.run \in Run /\ (f.ok => f.run.status = status)
  BY FinishedIsRun
<1>3. CASE f.ok /\ Answer(f.run, o)
  BY <1>2, <1>3 DEF Answer
<1>4. CASE Caught(f.run)
  BY <1>2, <1>4, CaughtEnds
<1> QED BY <1>1, <1>3, <1>4

\* An interrupted run is answered as such, and cancelled if that can be written.
LEMMA InterruptedEnds ==
  ASSUME run \in Run, run.status = "running", Interrupted
  PROVE  /\ pc' = "done" /\ run' \in Run /\ outcome' = "interrupted"
         /\ run'.status \in {"running", "cancelled"}
BY CancelledIsRun DEF Interrupted, Answer
-----------------------------------------------------------------------------
\* A new child is one, and runs.
LEMMA NewChildIsChild ==
  ASSUME NEW c \in NewChildren
  PROVE  c \in Child /\ c.state = "alive"
BY DeafAssumption DEF NewChildren, NoChild, Child, Codes

\* A child that is sent a signal is a child.
LEMMA SignalledIsChild ==
  ASSUME NEW c \in Child, NEW s \in {"SIGTERM", "SIGKILL"}
  PROVE  Signalled(c, s) \in Child
BY DEF Signalled, Child

\* The event "close" changes nothing of a child but that it is over.
LEMMA ClosedIsChild ==
  ASSUME NEW c \in Child
  PROVE  /\ Closed(c) \in Child /\ Closed(c).state = "closed"
         /\ Closed(c).helpers = c.helpers /\ Closed(c).code = c.code
BY DEF Closed, Child

\* The invariant holds before runTaskOnce() is called.
LEMMA RunInit == Init => RunInv
<1> SUFFICES ASSUME Init PROVE RunInv
  OBVIOUS
<1>1. NoChild \in Child /\ NoAgentYet \in Adapter /\ NoCommand \in Command
  BY DEF NoChild, Child, Codes, NoAgentYet, Adapter, NoCommand, Command
<1>2. [status |-> "none", events |-> {}] \in Run
  BY DEF Run
<1>3. RunTypeOK
  <2>1. VerifierTypeOK
    <3>1. results \in Seq(Result) /\ Len(results) = 0
      BY DEF Init
    <3>2. plan \in 0..MaxCommands
      BY DEF Init
    <3> QED BY <1>1, <3>1, <3>2, CommandsAssumption DEF Init, VerifierTypeOK
  <2> QED
    BY <1>1, <1>2, <2>1 DEF Init, RunTypeOK, ChildTypeOK, AdapterTypeOK, Outcomes
<1>4. NotStartedYet /\ UnderWay /\ SignalHeard /\ PassedSoFar
  BY DEF Init, NotStartedYet, UnderWay, SignalHeard, PassedSoFar
<1>5. RunGuarantees
  BY DEF Init, RunGuarantees, SuccessIsEarned, NothingLeft,
         InterruptedIsCancelled, AnswerTellsStatus, Verdicts
<1> QED BY <1>3, <1>4, <1>5 DEF RunInv
-----------------------------------------------------------------------------
(* Before the agent. *)

\* The run gets its row and workspace, and its agent is started.
LEMMA BeforeKeeps ==
  ASSUME RunInv, Prepare \/ Launch
  PROVE  RunInv'
<1> USE DEF RunInv, RunTypeOK
<1>1. CASE Prepare
  <2>1. run' \in Run /\ run'.status = "running"
    BY <1>1 DEF Prepare, Running, Run, Open
  <2>2. RunTypeOK'
    BY <1>1, <2>1 DEF Prepare, waitVars, ChildTypeOK, AdapterTypeOK, VerifierTypeOK
  <2> QED
    BY <1>1, <2>1, <2>2
    DEF Prepare, waitVars, NotStartedYet, UnderWay, SignalHeard, PassedSoFar,
        RunGuarantees, SuccessIsEarned, NothingLeft,
        InterruptedIsCancelled, AnswerTellsStatus, Verdicts
<1>2. CASE Launch
  <2>1. child' \in Child
    BY <1>2, NewChildIsChild, SignalledIsChild DEF Launch, StartAgent
  <2>2. adapter' \in Adapter
    BY <1>2 DEF Launch, StartAgent, NoAgentYet, Adapter, ChildTypeOK
  <2>3. RunTypeOK'
    BY <1>2, <2>1, <2>2 DEF Launch, ChildTypeOK, AdapterTypeOK, VerifierTypeOK
  <2>4. SignalHeard'
    BY <1>2 DEF Launch, StartAgent, NoAgentYet, SignalHeard
  <2> QED
    BY <1>2, <2>3, <2>4
    DEF Launch, NotStartedYet, UnderWay, PassedSoFar,
        RunGuarantees, SuccessIsEarned, NothingLeft,
        InterruptedIsCancelled, AnswerTellsStatus, Verdicts
<1> QED BY <1>1, <1>2
-----------------------------------------------------------------------------
(* The ends of a run that has not got as far as an agent or a command. *)

\* A run that ends with nothing at work, nothing armed, and an answer that is
\* earned and fits its row and the signal, satisfies the invariant.
LEMMA EndsWell ==
  ASSUME RunInv, pc' = "done", run' \in Run, UNCHANGED <<signal, plan, role>>,
         ChildTypeOK', AdapterTypeOK', VerifierTypeOK',
         child'.state \in {"none", "closed"}, ~child'.helpers,
         ~adapter'.timer, ~adapter'.listening, ~command'.timer, ~command'.listening,
         outcome' \in Outcomes, SuccessIsEarned',
         AnswerTellsStatus', InterruptedIsCancelled'
  PROVE  RunInv'
<1>1. RunTypeOK'
  BY DEF RunInv, RunTypeOK, ChildTypeOK, AdapterTypeOK, VerifierTypeOK
<1>2. RunGuarantees'
  BY DEF RunGuarantees, NothingLeft
<1> QED
  BY <1>1, <1>2
  DEF RunInv, NotStartedYet, UnderWay, SignalHeard, PassedSoFar

\* An answer that is no success need not be earned.
LEMMA EndsQuietly ==
  ASSUME RunInv, pc' = "done", run' \in Run, UNCHANGED <<signal, plan, role>>,
         ChildTypeOK', AdapterTypeOK', VerifierTypeOK',
         child'.state \in {"none", "closed"}, ~child'.helpers,
         ~adapter'.timer, ~adapter'.listening, ~command'.timer, ~command'.listening,
         outcome' \in Outcomes \ (Verdicts \cup {"succeeded"}),
         AnswerTellsStatus', InterruptedIsCancelled'
  PROVE  RunInv'
<1>1. SuccessIsEarned'
  BY DEF SuccessIsEarned
<1> QED BY <1>1, EndsWell

\* Whatever fails before the agent runs, the invariant holds when the run is
\* answered (the catch blocks of createRunContext(), runImplementer(), runTaskOnce()).
LEMMA EarlyEndKeeps ==
  ASSUME RunInv, PrepareFails \/ BriefFails \/ DiffRefused \/ LaunchFails
  PROVE  RunInv'
<1> USE DEF RunInv
<1>1. /\ child = NoChild /\ adapter = NoAgentYet /\ command = NoCommand
      /\ pc = "called" => ~signal
      /\ run \in Run
  BY DEF PrepareFails, BriefFails, DiffRefused, LaunchFails, NotStartedYet,
         SignalHeard, RunTypeOK
<1>2. /\ UNCHANGED <<signal, plan, role>>
      /\ UNCHANGED <<child, adapter, command, results>>
      /\ pc = "called" \/ pc = "stat"
  BY DEF PrepareFails, BriefFails, DiffRefused, LaunchFails, waitVars
<1>3. /\ ChildTypeOK' /\ AdapterTypeOK' /\ VerifierTypeOK'
      /\ child'.state = "none" /\ ~child'.helpers
      /\ ~adapter'.timer /\ ~adapter'.listening /\ ~command'.timer /\ ~command'.listening
  <2>1. /\ NoChild.state = "none" /\ ~NoChild.helpers
        /\ ~NoAgentYet.timer /\ ~NoAgentYet.listening
        /\ ~NoCommand.timer /\ ~NoCommand.listening
    BY DEF NoChild, NoAgentYet, NoCommand
  <2> QED
    BY <1>1, <1>2, <2>1 DEF RunTypeOK, ChildTypeOK, AdapterTypeOK, VerifierTypeOK
<1>4. Running \in Run /\ Running.status = "running"
  BY <1>1 DEF Running, Run, Open
<1>5. CASE PrepareFails
  <2>1. /\ pc' = "done" /\ run' \in Run
        /\ outcome' = "gave_up" \/ outcome' = "context_failed"
    BY <1>1, <1>5 DEF PrepareFails, Answer, Run, Open
  <2>2. ~signal' /\ outcome' \in Outcomes \ (Verdicts \cup {"succeeded"})
    BY <1>1, <1>2, <1>5, <2>1 DEF PrepareFails, Outcomes, Verdicts
  <2>3. AnswerTellsStatus' /\ InterruptedIsCancelled'
    BY <2>1, <2>2 DEF AnswerTellsStatus, InterruptedIsCancelled, Verdicts
  <2> QED BY <1>2, <1>3, <2>1, <2>2, <2>3, EndsQuietly
<1>6. CASE BriefFails
  <2>1. /\ pc' = "done" /\ run' \in Run
        /\ \/ outcome' = "internal_error" /\ run'.status = "failed"
           \/ outcome' = "gave_up"
    BY <1>4, <1>6, CaughtEnds DEF BriefFails
  <2>2. ~signal' /\ outcome' \in Outcomes \ (Verdicts \cup {"succeeded"})
    BY <1>1, <1>2, <1>6, <2>1 DEF BriefFails, Outcomes, Verdicts
  <2>3. AnswerTellsStatus' /\ InterruptedIsCancelled'
    BY <2>1, <2>2 DEF AnswerTellsStatus, InterruptedIsCancelled, Verdicts
  <2> QED BY <1>2, <1>3, <2>1, <2>2, <2>3, EndsQuietly
<1>7. CASE DiffRefused
  <2>1. /\ pc' = "done" /\ run' \in Run
        /\ \/ outcome' = "diff_apply_failed" /\ run'.status = "failed"
           \/ outcome' = "gave_up"
    <3>1. CASE Rejected(Running)
      BY <1>4, <3>1, RejectedEnds
    <3>2. CASE \E f \in Finished(Running, "failed") :
                 \/ f.ok /\ Answer(f.run, "diff_apply_failed")
                 \/ Rejected(f.run)
      BY <1>4, <3>2, FinishedIsRun, RejectedEnds DEF Answer
    <3> QED BY <1>7, <3>1, <3>2 DEF DiffRefused
  <2>2. ~signal' /\ outcome' \in Outcomes \ (Verdicts \cup {"succeeded"})
    BY <1>1, <1>2, <1>7, <2>1 DEF DiffRefused, Outcomes, Verdicts
  <2>3. AnswerTellsStatus' /\ InterruptedIsCancelled'
    BY <2>1, <2>2 DEF AnswerTellsStatus, InterruptedIsCancelled, Verdicts
  <2> QED BY <1>2, <1>3, <2>1, <2>2, <2>3, EndsQuietly
<1>8. CASE LaunchFails
  <2>1. run.status = "running"
    BY <1>8 DEF LaunchFails, UnderWay
  <2>2. /\ pc' = "done" /\ run' \in Run
        /\ \/ outcome' = "spawn_failed" /\ run'.status = "failed"
           \/ outcome' = "internal_error" /\ run'.status = "failed"
           \/ outcome' = "gave_up"
           \/ outcome' = "interrupted" /\ run'.status \in {"running", "cancelled"}
    <3>1. CASE Conclude("failed", "spawn_failed")
      BY <1>1, <3>1, ConcludeEnds
    <3>2. CASE Interrupted
      BY <1>1, <2>1, <3>2, InterruptedEnds
    <3> QED BY <1>8, <3>1, <3>2 DEF LaunchFails
  <2>3. outcome' \in Outcomes \ (Verdicts \cup {"succeeded"})
    BY <2>2 DEF Outcomes, Verdicts
  <2>4. ~adapter'.aborting /\ ~command'.aborted /\ adapter' = NoAgentYet
    BY <1>1, <1>2 DEF NoAgentYet, NoCommand
  <2>5. AnswerTellsStatus' /\ InterruptedIsCancelled'
    BY <2>2, <2>4 DEF AnswerTellsStatus, InterruptedIsCancelled, Verdicts
  <2> QED BY <1>2, <1>3, <2>2, <2>3, <2>5, EndsQuietly
<1> QED BY <1>5, <1>6, <1>7, <1>8-----------------------------------------------------------------------------
(* While an agent or a command runs. *)

\* A step after which the run still goes on has nothing to guarantee yet.
LEMMA GoesOn ==
  ASSUME RunTypeOK', NotStartedYet', UnderWay', SignalHeard', PassedSoFar', pc' # "done"
  PROVE  RunInv'
BY DEF RunInv, UnderWay, RunGuarantees, SuccessIsEarned, NothingLeft, InterruptedIsCancelled, AnswerTellsStatus, Verdicts

\* A child remains one whatever it does; it only does something while it runs or
\* has left something behind.
LEMMA ChildMoves ==
  ASSUME child \in Child, Exit \/ Die \/ HelpersEnd
  PROVE  child' \in Child /\ (child.state = "alive" \/ child.helpers)
BY DEF Exit, Die, HelpersEnd, ExitWith, Child, Codes

\* What a child does by itself concerns its run only while it is waited for.
LEMMA ChildStepKeeps ==
  ASSUME RunInv, ChildExits \/ ChildEnds
  PROVE  RunInv'
<1> USE DEF RunInv
<1>1. /\ child \in Child
      /\ Exit \/ Die \/ HelpersEnd
      /\ UNCHANGED ownVars
  BY DEF RunTypeOK, ChildTypeOK, ChildExits, ChildEnds
<1>2. child' \in Child /\ (child.state = "alive" \/ child.helpers)
  BY <1>1, ChildMoves
<1>3. pc \in {"agent", "verify"}
  <2>1. NoChild.state = "none" /\ ~NoChild.helpers
    BY DEF NoChild
  <2> QED
    BY <1>2, <2>1 DEF RunTypeOK, NotStartedYet, RunGuarantees, NothingLeft
<1>4. RunTypeOK'
  BY <1>1, <1>2 DEF ownVars, RunTypeOK, ChildTypeOK, AdapterTypeOK, VerifierTypeOK
<1> QED
  BY <1>1, <1>3, <1>4, GoesOn
  DEF ownVars, NotStartedYet, UnderWay, SignalHeard, PassedSoFar

\* A timeout is noted and does not end the run.
LEMMA TimeoutKeeps ==
  ASSUME RunInv, Timeout
  PROVE  RunInv'
<1> USE DEF RunInv
<1>1. child \in Child /\ adapter \in Adapter /\ command \in Command
  BY DEF RunTypeOK, ChildTypeOK, AdapterTypeOK, VerifierTypeOK
<1>2. CASE AgentTimesOut
  <2>1. adapter' \in Adapter /\ child' \in Child /\ adapter'.timedOut
    BY <1>1, <1>2, SignalledIsChild DEF AgentTimesOut, AgentTimeout, Adapter
  <2>2. RunTypeOK'
    BY <1>2, <2>1 DEF AgentTimesOut, RunTypeOK, ChildTypeOK, AdapterTypeOK, VerifierTypeOK
  <2> QED
    BY <1>2, <2>1, <2>2, GoesOn
    DEF AgentTimesOut, NotStartedYet, UnderWay, SignalHeard, PassedSoFar
<1>3. CASE CommandTimesOut
  <2>1. /\ command' \in Command /\ child' \in Child
        /\ command'.aborted = command.aborted
    BY <1>1, <1>3, SignalledIsChild DEF CommandTimesOut, CommandTimeout, Command
  <2>2. RunTypeOK'
    BY <1>3, <2>1
    DEF CommandTimesOut, CommandTimeout, RunTypeOK, ChildTypeOK, AdapterTypeOK, VerifierTypeOK
  <2> QED
    BY <1>3, <2>1, <2>2, GoesOn
    DEF CommandTimesOut, CommandTimeout, NotStartedYet, UnderWay, SignalHeard, PassedSoFar
<1> QED BY <1>2, <1>3 DEF Timeout

\* An abort reaches whoever is waited for, and does not end the run.
LEMMA AbortKeeps ==
  ASSUME RunInv, Abort
  PROVE  RunInv'
<1> USE DEF RunInv
<1>1. child \in Child /\ adapter \in Adapter /\ command \in Command
  BY DEF RunTypeOK, ChildTypeOK, AdapterTypeOK, VerifierTypeOK
<1>2. /\ signal' = TRUE /\ pc \in {"stat", "agent", "verify"}
      /\ UNCHANGED <<plan, pc, role, run, outcome, results>>
      /\ pc = "stat" => UNCHANGED waitVars
      /\ pc = "agent" => AgentAborts /\ UNCHANGED <<command, results>>
      /\ pc = "verify" => CommandAborts /\ UNCHANGED <<adapter, results>>
  BY DEF Abort, waitVars
<1>3. CASE pc = "stat"
  <2>1. UNCHANGED <<child, adapter, command, results>>
    BY <1>2, <1>3 DEF waitVars
  <2>2. RunTypeOK'
    BY <1>2, <2>1 DEF RunTypeOK, ChildTypeOK, AdapterTypeOK, VerifierTypeOK
  <2> QED
    BY <1>2, <1>3, <2>1, <2>2, GoesOn DEF NotStartedYet, UnderWay, SignalHeard, PassedSoFar
<1>4. CASE pc = "agent"
  <2>1. /\ adapter' \in Adapter /\ child' \in Child
        /\ adapter'.aborting \/ adapter'.timedOut
    <3>1. CASE adapter.killed
      BY <1>1, <1>2, <1>4, <3>1 DEF AgentAborts, Adapter, SignalHeard
    <3>2. CASE ~adapter.killed
      BY <1>1, <1>2, <1>4, <3>2, SignalledIsChild DEF AgentAborts, Adapter
    <3> QED BY <3>1, <3>2
  <2>2. RunTypeOK'
    BY <1>2, <1>4, <2>1 DEF RunTypeOK, ChildTypeOK, AdapterTypeOK, VerifierTypeOK
  <2> QED
    BY <1>2, <1>4, <2>1, <2>2, GoesOn DEF NotStartedYet, UnderWay, SignalHeard, PassedSoFar
<1>5. CASE pc = "verify"
  <2>1. command' \in Command /\ child' \in Child /\ command'.aborted
    BY <1>1, <1>2, <1>5, SignalledIsChild DEF CommandAborts, Command
  <2>2. RunTypeOK'
    BY <1>2, <1>5, <2>1 DEF RunTypeOK, ChildTypeOK, AdapterTypeOK, VerifierTypeOK
  <2> QED
    BY <1>2, <1>5, <2>1, <2>2, GoesOn DEF NotStartedYet, UnderWay, SignalHeard, PassedSoFar
<1> QED BY <1>2, <1>3, <1>4, <1>5-----------------------------------------------------------------------------
(* After the agent, and after a command. *)

\* What the handler of "close" leaves behind.
LEMMA AgentCloseLeaves ==
  ASSUME RunInv, AgentClose
  PROVE  /\ child' \in Child /\ child'.state = "closed" /\ ~child'.helpers
         /\ child'.code = child.code
         /\ AdapterTypeOK' /\ ~adapter'.timer /\ ~adapter'.listening
         /\ adapter'.timedOut = adapter.timedOut /\ adapter'.aborting = adapter.aborting
<1>1. child \in Child /\ adapter \in Adapter
  BY DEF RunInv, RunTypeOK, ChildTypeOK, AdapterTypeOK
<1> QED
  BY <1>1, ClosedIsChild DEF AgentClose, CloseReady, AdapterTypeOK, Adapter

\* The same of the handler in runSingleCommand().
LEMMA CommandCloseLeaves ==
  ASSUME RunInv, CommandClose
  PROVE  /\ child' \in Child /\ child'.state = "closed" /\ ~child'.helpers
         /\ child'.code = child.code
         /\ command' \in Command /\ ~command'.timer /\ ~command'.listening
         /\ command'.aborted = command.aborted
<1>1. child \in Child /\ command \in Command
  BY DEF RunInv, RunTypeOK, ChildTypeOK, VerifierTypeOK
<1> QED
  BY <1>1, ClosedIsChild DEF CommandClose, CloseReady, Command

\* An interrupted agent makes an interrupted run.
LEMMA AgentInterruptedKeeps ==
  ASSUME RunInv, AgentInterrupted
  PROVE  RunInv'
<1>1. /\ pc = "agent" /\ AgentClose /\ Interrupted
      /\ UNCHANGED <<signal, command, results, plan, role>>
  BY DEF AgentInterrupted
<1>2. run \in Run /\ run.status = "running" /\ command = NoCommand
  BY <1>1 DEF RunInv, RunTypeOK, UnderWay, NotStartedYet
<1>3. /\ pc' = "done" /\ run' \in Run /\ outcome' = "interrupted"
      /\ run'.status \in {"running", "cancelled"}
  BY <1>1, <1>2, InterruptedEnds
<1>4. ChildTypeOK' /\ VerifierTypeOK' /\ ~command'.timer /\ ~command'.listening
  BY <1>1, <1>2, AgentCloseLeaves
  DEF RunInv, RunTypeOK, ChildTypeOK, VerifierTypeOK, NoCommand
<1>5. outcome' \in Outcomes \ (Verdicts \cup {"succeeded"})
  BY <1>3 DEF Outcomes, Verdicts
<1>6. AnswerTellsStatus' /\ InterruptedIsCancelled'
  BY <1>3 DEF AnswerTellsStatus, InterruptedIsCancelled, Verdicts
<1> QED BY <1>1, <1>3, <1>4, <1>5, <1>6, AgentCloseLeaves, EndsQuietly

\* So does an interrupted command.
LEMMA CommandInterruptedKeeps ==
  ASSUME RunInv, CommandInterrupted
  PROVE  RunInv'
<1>1. /\ pc = "verify" /\ CommandClose /\ Interrupted
      /\ UNCHANGED <<signal, adapter, results, plan, role>>
  BY DEF CommandInterrupted
<1>2. /\ run \in Run /\ run.status = "running"
      /\ ~adapter.timer /\ ~adapter.listening
  BY <1>1 DEF RunInv, RunTypeOK, UnderWay, PassedSoFar
<1>3. /\ pc' = "done" /\ run' \in Run /\ outcome' = "interrupted"
      /\ run'.status \in {"running", "cancelled"}
  BY <1>1, <1>2, InterruptedEnds
<1>4. ChildTypeOK' /\ AdapterTypeOK' /\ VerifierTypeOK'
  BY <1>1, CommandCloseLeaves
  DEF RunInv, RunTypeOK, ChildTypeOK, AdapterTypeOK, VerifierTypeOK
<1>5. outcome' \in Outcomes \ (Verdicts \cup {"succeeded"})
  BY <1>3 DEF Outcomes, Verdicts
<1>6. AnswerTellsStatus' /\ InterruptedIsCancelled'
  BY <1>3 DEF AnswerTellsStatus, InterruptedIsCancelled, Verdicts
<1> QED BY <1>1, <1>2, <1>3, <1>4, <1>5, <1>6, CommandCloseLeaves, EndsQuietly
\* The agent has ended and the run with it: a success or a verdict is earned, and an
\* aborted run has at most its timeout to report.
LEMMA AgentEndsKeeps ==
  ASSUME RunInv, AgentEnds
  PROVE  RunInv'
<1>1. /\ pc = "agent" /\ ~adapter.aborting /\ AgentClose
      /\ UNCHANGED <<signal, command, results, plan, role>>
  BY DEF AgentEnds
<1>2. /\ run \in Run /\ command = NoCommand /\ results = <<>>
      /\ child.code \in Codes
      /\ signal => adapter.timedOut
  BY <1>1
  DEF RunInv, RunTypeOK, ChildTypeOK, Child, NotStartedYet, SignalHeard
<1>3. /\ child'.state = "closed" /\ ~child'.helpers /\ child'.code = child.code
      /\ ~adapter'.timer /\ ~adapter'.listening /\ ~adapter'.aborting
      /\ adapter'.timedOut = adapter.timedOut
      /\ ~command'.timer /\ ~command'.listening /\ ~command'.aborted
      /\ AdapterTypeOK'
  BY <1>1, <1>2, AgentCloseLeaves DEF NoCommand
<1>4. ChildTypeOK' /\ VerifierTypeOK'
  BY <1>1, <1>2, AgentCloseLeaves DEF RunInv, RunTypeOK, ChildTypeOK, VerifierTypeOK
\* What the answer may be.
<1>5. /\ pc' = "done" /\ run' \in Run
      /\ \/ outcome' = "gave_up"
         \/ outcome' = "internal_error" /\ run'.status = "failed"
         \/ outcome' = "reviewer_unusable" /\ run'.status = "failed" /\ ~signal
         \/ /\ outcome' \in {"agent_timed_out", "agent_nonzero_exit", "quota"}
            /\ run'.status = "failed"
            /\ signal => outcome' = "agent_timed_out"
         \/ /\ outcome' \in Verdicts \cup {"succeeded"} /\ run'.status = "succeeded"
            /\ ~Failed(AgentResult)
            /\ outcome' = "succeeded" => plan = 0
  <2>1. CASE Caught(run)
    BY <1>2, <2>1, CaughtEnds
  <2>2. CASE Failed(AgentResult) /\ \E reason \in Reasons(AgentResult) :
                                       Conclude("failed", reason)
    <3>1. PICK reason \in Reasons(AgentResult) : Conclude("failed", reason)
      BY <2>2
    <3>2. /\ reason \in {"agent_timed_out", "agent_nonzero_exit", "quota"}
          /\ signal => reason = "agent_timed_out"
      BY <1>2 DEF Reasons, AgentResult
    <3> QED BY <1>2, <3>1, <3>2, ConcludeEnds
  <2>3. ~Failed(AgentResult) => ~signal
    BY <1>2 DEF Failed, AgentResult
  <2>4. CASE ~Failed(AgentResult) /\ Conclude("failed", "reviewer_unusable")
    BY <1>2, <2>3, <2>4, ConcludeEnds
  <2>5. CASE ~Failed(AgentResult) /\ \E verdict \in Verdicts : Conclude("succeeded", verdict)
    <3>1. PICK verdict \in Verdicts : Conclude("succeeded", verdict)
      BY <2>5
    <3>2. verdict # "succeeded"
      BY DEF Verdicts
    <3> QED BY <1>2, <2>5, <3>1, <3>2, ConcludeEnds
  <2>6. CASE ~Failed(AgentResult) /\ plan = 0 /\ Conclude("succeeded", "succeeded")
    BY <1>2, <2>6, ConcludeEnds
  <2> QED BY <2>1, <2>2, <2>4, <2>5, <2>6 DEF AgentEnds
<1>6. outcome' \in Outcomes
  BY <1>5 DEF Outcomes, Verdicts
<1>7. SuccessIsEarned'
  <2>1. outcome' \in Verdicts \cup {"succeeded"} =>
          ~Failed(AgentResult) /\ (outcome' = "succeeded" => plan = 0)
    BY <1>5 DEF Verdicts
  <2>2. ~Failed(AgentResult) => ~adapter.timedOut /\ child.code = "zero"
    BY DEF Failed, AgentResult
  <2>3. Len(results') = 0 /\ plan' = plan
    BY <1>1, <1>2
  <2> QED BY <1>3, <2>1, <2>2, <2>3 DEF SuccessIsEarned
<1>8. AnswerTellsStatus'
  BY <1>5 DEF AnswerTellsStatus, Verdicts
<1>9. InterruptedIsCancelled'
  <2>1. signal' => ~(outcome' \in Verdicts \cup {"succeeded"})
    BY <1>1, <1>2, <1>5 DEF Failed, AgentResult, Verdicts
  <2> QED BY <1>1, <1>3, <1>5, <2>1 DEF InterruptedIsCancelled
<1> QED BY <1>1, <1>3, <1>4, <1>5, <1>6, <1>7, <1>8, <1>9, EndsWell

\* The agent has passed, and the commands begin with nothing of it armed.
LEMMA AgentPassesKeeps ==
  ASSUME RunInv, AgentPasses
  PROVE  RunInv'
<1>1. /\ pc = "agent" /\ pc' = "verify" /\ role = "implementer" /\ plan > 0
      /\ ~adapter.aborting /\ ~adapter.timedOut
      /\ UNCHANGED <<signal, results, plan, role, run, outcome>>
  BY DEF AgentPasses, Failed, AgentResult
<1>2. ~signal /\ results = <<>> /\ adapter \in Adapter
  BY <1>1 DEF RunInv, RunTypeOK, AdapterTypeOK, SignalHeard, NotStartedYet
<1>3. /\ adapter' \in Adapter /\ ~adapter'.timer /\ ~adapter'.listening
      /\ ~adapter'.aborting /\ ~adapter'.timedOut
  BY <1>1, <1>2 DEF AgentPasses, Adapter
<1>4. child' \in Child /\ command' \in Command
  BY NewChildIsChild DEF AgentPasses, StartCommand, NoCommand, Command
<1>5. RunTypeOK'
  BY <1>1, <1>3, <1>4
  DEF RunInv, RunTypeOK, ChildTypeOK, AdapterTypeOK, VerifierTypeOK
<1>6. PassedSoFar'
  BY <1>1, <1>2, <1>3 DEF PassedSoFar
<1>7. NotStartedYet' /\ UnderWay' /\ SignalHeard'
  BY <1>1, <1>2 DEF RunInv, NotStartedYet, UnderWay, SignalHeard
<1> QED BY <1>1, <1>5, <1>6, <1>7, GoesOn
\* One more result is one more, the last one.
LEMMA ResultAppended ==
  ASSUME RunInv, results' = Append(results, CommandResult)
  PROVE  /\ results' \in Seq(Result) /\ Len(results') = Len(results) + 1
         /\ results'[Len(results')] = CommandResult
         /\ \A i \in 1..Len(results) : results'[i] = results[i]
<1>1. /\ results \in Seq(Result)
      /\ CommandResult \in Result
  BY DEF RunInv, RunTypeOK, VerifierTypeOK, ChildTypeOK, Child, Command, Result,
         CommandResult
<1> QED BY <1>1

\* The last command, or one that failed, ends the run.
LEMMA CommandEndsKeeps ==
  ASSUME RunInv, CommandEnds
  PROVE  RunInv'
<1>1. /\ pc = "verify" /\ ~command.aborted /\ CommandClose
      /\ results' = Append(results, CommandResult)
      /\ UNCHANGED <<signal, adapter, plan, role>>
  BY DEF CommandEnds
<1>2. /\ run \in Run /\ ~signal /\ Len(results) < plan /\ plan \in Nat
      /\ ~adapter.timer /\ ~adapter.listening
      /\ ~adapter.aborting /\ ~adapter.timedOut
  BY <1>1, CommandsAssumption
  DEF RunInv, RunTypeOK, VerifierTypeOK, SignalHeard, PassedSoFar
<1>3. /\ results' \in Seq(Result) /\ Len(results') = Len(results) + 1
      /\ results'[Len(results')] = CommandResult
  BY <1>1, ResultAppended
<1>4. /\ child' \in Child /\ child'.state = "closed" /\ ~child'.helpers
      /\ child'.code = child.code
      /\ command' \in Command /\ ~command'.timer /\ ~command'.listening
  BY <1>1, CommandCloseLeaves
<1>5. Len(results) \in Nat
  BY DEF RunInv, RunTypeOK, VerifierTypeOK
<1>6. ChildTypeOK' /\ AdapterTypeOK' /\ VerifierTypeOK'
  BY <1>1, <1>2, <1>3, <1>4, <1>5
  DEF RunInv, RunTypeOK, ChildTypeOK, AdapterTypeOK, VerifierTypeOK
<1>7. /\ pc' = "done" /\ run' \in Run
      /\ \/ outcome' = "gave_up"
         \/ outcome' \in {"internal_error", "verification_failed"} /\ run'.status = "failed"
         \/ outcome' = "succeeded" /\ run'.status = "succeeded" /\ Passed(results')
  <2>1. CASE Caught(run)
    BY <1>2, <2>1, CaughtEnds
  <2>2. CASE Passed(results') /\ Conclude("succeeded", "succeeded")
    BY <1>2, <2>2, ConcludeEnds
  <2>3. CASE Conclude("failed", "verification_failed")
    BY <1>2, <2>3, ConcludeEnds
  <2> QED BY <2>1, <2>2, <2>3 DEF CommandEnds
<1>8. outcome' \in Outcomes
  BY <1>7 DEF Outcomes
<1>9. SuccessIsEarned'
  <2>1. outcome' \in Verdicts \cup {"succeeded"} => outcome' = "succeeded" /\ Passed(results')
    BY <1>7 DEF Verdicts
  <2>2. ASSUME Passed(results') PROVE child.code = "zero"
    <3>1. Len(results') \in 1..plan
      BY <1>2, <1>3, <1>5, <2>2 DEF Passed
    <3>2. Good(results'[Len(results')])
      BY <2>2, <3>1 DEF Passed
    <3> QED BY <1>3, <3>2 DEF Good, CommandResult
  <2>3. plan' = plan /\ adapter' = adapter
    BY <1>1
  <2> QED
    BY <1>2, <1>4, <2>1, <2>2, <2>3 DEF SuccessIsEarned, Passed
<1>10. AnswerTellsStatus' /\ InterruptedIsCancelled'
  BY <1>1, <1>2, <1>7 DEF AnswerTellsStatus, InterruptedIsCancelled, Verdicts
<1> QED BY <1>1, <1>2, <1>4, <1>6, <1>7, <1>8, <1>9, <1>10, EndsWell

\* A command has passed and another one is left.
LEMMA CommandPassesKeeps ==
  ASSUME RunInv, CommandPasses
  PROVE  RunInv'
<1>1. /\ pc = "verify" /\ pc' = "verify" /\ ~command.aborted
      /\ results' = Append(results, CommandResult)
      /\ Good(CommandResult) /\ Len(results') < plan
      /\ UNCHANGED <<signal, adapter, plan, role, run, outcome>>
  BY DEF CommandPasses
<1>2. /\ results' \in Seq(Result) /\ Len(results') = Len(results) + 1
      /\ results'[Len(results')] = CommandResult
      /\ \A i \in 1..Len(results) : results'[i] = results[i]
  BY <1>1, ResultAppended
<1>3. child' \in Child /\ command' \in Command
  BY NewChildIsChild DEF CommandPasses, StartCommand, NoCommand, Command
<1>4. /\ Len(results) \in Nat /\ plan \in Nat
      /\ \A i \in 1..Len(results) : Good(results[i])
  BY <1>1, CommandsAssumption DEF RunInv, RunTypeOK, VerifierTypeOK, PassedSoFar
<1>5. RunTypeOK'
  BY <1>1, <1>2, <1>3, <1>4
  DEF RunInv, RunTypeOK, ChildTypeOK, AdapterTypeOK, VerifierTypeOK
<1>6. PassedSoFar'
  <2>1. \A i \in 1..Len(results') : Good(results'[i])
    BY <1>1, <1>2, <1>4
  <2> QED BY <1>1, <2>1 DEF RunInv, PassedSoFar
<1>7. NotStartedYet' /\ UnderWay' /\ SignalHeard'
  BY <1>1 DEF RunInv, NotStartedYet, UnderWay, SignalHeard
<1> QED BY <1>1, <1>5, <1>6, <1>7, GoesOn
-----------------------------------------------------------------------------
\* No step breaks the invariant.
LEMMA RunNext == RunInv /\ [Next]_vars => RunInv'
<1> SUFFICES ASSUME RunInv, [Next]_vars PROVE RunInv'
  OBVIOUS
<1>1. CASE UNCHANGED vars
  BY <1>1
  DEF vars, RunInv, RunTypeOK, ChildTypeOK, AdapterTypeOK, VerifierTypeOK, NotStartedYet,
      UnderWay, SignalHeard, PassedSoFar, RunGuarantees, SuccessIsEarned,
      NothingLeft, InterruptedIsCancelled, AnswerTellsStatus
<1>2. CASE Next
  BY <1>2, BeforeKeeps, EarlyEndKeeps, ChildStepKeeps, TimeoutKeeps, AbortKeeps,
     AgentInterruptedKeeps, AgentEndsKeeps, AgentPassesKeeps,
     CommandInterruptedKeeps, CommandEndsKeeps, CommandPassesKeeps
  DEF Next, Step
<1> QED BY <1>1, <1>2

\* The inductive invariant: what a run promises when it is answered, and what
\* ties the agent, the verifier, the signal and the row together before.
THEOREM RunInvariant == Spec => []RunInv
BY RunInit, RunNext, PTL DEF Spec

\* The locals of run() and runSingleCommand(), the row and the answer have their
\* types, and the verifier never has more results than commands.
THEOREM RunTypeCorrect == Spec => []RunTypeOK
<1>1. RunInv => RunTypeOK
  BY DEF RunInv
<1> QED BY <1>1, RunInvariant, PTL

\* A success or a verdict always had an agent and commands that exited with 0 in
\* time, for any number of commands and any order of timeouts, aborts and exits.
THEOREM OnlyEarnedSuccess == Spec => []SuccessIsEarned
<1>1. RunInv => SuccessIsEarned
  BY DEF RunInv, RunGuarantees
<1> QED BY <1>1, RunInvariant, PTL

\* A run that is answered has left no process, no timer and no listener behind.
THEOREM LeavesNothing == Spec => []NothingLeft
<1>1. RunInv => NothingLeft
  BY DEF RunInv, RunGuarantees
<1> QED BY <1>1, RunInvariant, PTL

\* An abort is never answered as a success, nor as a failure of the agent but by
\* a timeout that was first.
THEOREM AbortIsNoResult == Spec => []InterruptedIsCancelled
<1>1. RunInv => InterruptedIsCancelled
  BY DEF RunInv, RunGuarantees
<1> QED BY <1>1, RunInvariant, PTL

\* Answer and row agree, whichever writes fail.
THEOREM AnswerAgrees == Spec => []AnswerTellsStatus
<1>1. RunInv => AnswerTellsStatus
  BY DEF RunInv, RunGuarantees
<1> QED BY <1>1, RunInvariant, PTL
-----------------------------------------------------------------------------
(* Version 0. *)

\* Without a signal nobody listens and nobody is interrupted.
V0Alone ==
  /\ ~signal /\ role = "implementer"
  /\ ~adapter.listening /\ ~adapter.aborting
  /\ ~command.listening /\ ~command.aborted

\* The log knows of no end before there is one.
V0Untold == pc # "done" => run.events = {}

\* While commands run the agent is off, and those before have passed.
V0Kept ==
  pc = "verify" => /\ ~adapter.timer
                   /\ Len(results) < plan
                   /\ \A i \in 1..Len(results) : Good(results[i])

\* What is known of a version 0 run that has ended.
V0Guarantees == RunGuarantees /\ AgentAnswersFirst /\ LogTellsAnswer

V0Inv ==
  /\ RunTypeOK /\ agentCode \in Codes
  /\ NotStartedYet /\ UnderWay
  /\ V0Alone /\ V0Untold /\ V0Kept
  /\ V0Guarantees

\* The inductive invariant of both.
EitherInv ==
  /\ flow \in {"v0", "v1"}
  /\ V1 => RunInv
  /\ V0 => V0Inv
-----------------------------------------------------------------------------
(* How a version 0 run ends. *)

\* Thrown on, with a failure in the log at most (the catch).
LEMMA V0ThrowsEnds ==
  ASSUME NEW r \in Run, "run.completed" \notin r.events, V0Throws(r)
  PROVE  /\ pc' = "done" /\ run' \in Run /\ outcome' = "gave_up"
         /\ "run.completed" \notin run'.events
BY DEF V0Throws, Answer, Run, Open

\* Answered with the status and the event of it, or thrown on.
LEMMA V0EndsEnds ==
  ASSUME run \in Run, run.events = {}, NEW status \in {"succeeded", "failed"}, NEW o,
         V0Ends(status, o)
  PROVE  /\ pc' = "done" /\ run' \in Run
         /\ \/ /\ outcome' = o /\ run'.status = status /\ run'.events = {EndEvent(status)}
            \/ outcome' = "gave_up" /\ "run.completed" \notin run'.events
<1>1. CASE Answer([status |-> status, events |-> {EndEvent(status)}], o)
  BY <1>1 DEF Answer, Run, EndEvent
<1>2. CASE V0Throws(run)
  BY <1>2, V0ThrowsEnds
<1>3. CASE V0Throws([run EXCEPT !.status = status])
  <2>1. /\ [run EXCEPT !.status = status] \in Run
        /\ [run EXCEPT !.status = status].events = {}
    BY DEF Run
  <2> QED BY <1>3, <2>1, V0ThrowsEnds
<1> QED BY <1>1, <1>2, <1>3 DEF V0Ends

\* Steps 13 and 14: the agent is looked at first, and then the results rs.
LEMMA V0DecidesEnds ==
  ASSUME run \in Run, run.events = {}, NEW code, NEW rs, V0Decides(code, rs)
  PROVE  /\ pc' = "done" /\ run' \in Run
         /\ \/ /\ outcome' = V0Reason(code, rs)
               /\ run'.status = IF outcome' = "succeeded" THEN "succeeded" ELSE "failed"
               /\ run'.events = {EndEvent(run'.status)}
            \/ outcome' = "gave_up" /\ "run.completed" \notin run'.events
<1> PICK reason : reason = V0Reason(code, rs)
  OBVIOUS
<1> PICK status \in {"succeeded", "failed"} :
           status = IF reason = "succeeded" THEN "succeeded" ELSE "failed"
  OBVIOUS
<1>1. V0Ends(status, reason)
  BY DEF V0Decides
<1> QED BY <1>1, V0EndsEnds

\* The four ends a version 0 run may be given.
LEMMA V0Reasons ==
  ASSUME NEW code, NEW rs
  PROVE  /\ V0Reason(code, rs) \in {"succeeded", "verification_failed",
                                    "agent_timed_out", "agent_nonzero_exit"}
         /\ V0Reason(code, rs) \in {"succeeded", "verification_failed"} =>
              code = "zero" /\ ~adapter.timedOut
         /\ V0Reason(code, rs) = "succeeded" => Passed(rs)
         /\ V0Reason(code, rs) = "verification_failed" => ~Passed(rs)
<1> PICK good \in BOOLEAN : good <=> Passed(rs)
  OBVIOUS
<1> QED BY DEF V0Reason

\* Nothing is at work or armed when the run ends, and its answer and its log are those
\* of a decision or of an error.
LEMMA V0EndsWell ==
  ASSUME V0Inv, pc' = "done", run' \in Run, UNCHANGED <<signal, plan, role>>,
         ChildTypeOK', AdapterTypeOK', VerifierTypeOK', agentCode' \in Codes, V0Alone',
         child'.state \in {"none", "closed"}, ~child'.helpers,
         ~adapter'.timer, ~command'.timer,
         \/ outcome' = "gave_up" /\ "run.completed" \notin run'.events
         \/ /\ outcome' \in {"succeeded", "verification_failed",
                             "agent_timed_out", "agent_nonzero_exit"}
            /\ run'.status = IF outcome' = "succeeded" THEN "succeeded" ELSE "failed"
            /\ run'.events = {EndEvent(run'.status)}
            /\ SuccessIsEarned' /\ AgentAnswersFirst'
  PROVE  V0Inv'
<1>1. RunTypeOK'
  BY DEF V0Inv, RunTypeOK, Outcomes
<1>2. NotStartedYet' /\ UnderWay' /\ V0Untold' /\ V0Kept'
  BY DEF NotStartedYet, UnderWay, V0Untold, V0Kept
<1>3. NothingLeft' /\ InterruptedIsCancelled'
  BY DEF NothingLeft, InterruptedIsCancelled, V0Alone
<1>4. AnswerTellsStatus'
  BY DEF AnswerTellsStatus, Verdicts
<1>5. SuccessIsEarned' /\ AgentAnswersFirst'
  BY DEF SuccessIsEarned, AgentAnswersFirst, Verdicts
<1>6. LogTellsAnswer'
  BY DEF LogTellsAnswer, EndEvent
<1> QED BY <1>1, <1>2, <1>3, <1>4, <1>5, <1>6 DEF V0Inv, V0Guarantees, RunGuarantees

\* A step after which the run still goes on has nothing to guarantee yet.
LEMMA V0GoesOn ==
  ASSUME RunTypeOK', agentCode' \in Codes, NotStartedYet', UnderWay', V0Alone',
         V0Untold', V0Kept', pc' # "done"
  PROVE  V0Inv'
BY DEF V0Inv, UnderWay, V0Guarantees, RunGuarantees, SuccessIsEarned, NothingLeft,
       InterruptedIsCancelled, AnswerTellsStatus, AgentAnswersFirst, LogTellsAnswer, Verdicts
-----------------------------------------------------------------------------
(* The steps of a version 0 run. *)

\* Up to the agent, whatever of it fails.
LEMMA V0StartsKeeps ==
  ASSUME V0Inv, V0Starts, UNCHANGED <<signal, plan, role, flow>>
  PROVE  V0Inv'
<1> USE DEF V0Inv
<1>1. /\ child = NoChild /\ adapter = NoAgentYet /\ command = NoCommand
      /\ run \in Run /\ run.events = {} /\ run.status \in {"none", "running"}
      /\ pc \in {"called", "stat"}
  BY DEF V0Starts, V0Prepare, V0PrepareFails, V0LaunchFails, NotStartedYet, RunTypeOK,
         V0Untold, UnderWay
<1>2. UNCHANGED <<child, adapter, command, results, agentCode>>
  BY DEF V0Starts, waitVars
<1>3. ChildTypeOK' /\ AdapterTypeOK' /\ VerifierTypeOK' /\ V0Alone'
  BY <1>2 DEF RunTypeOK, ChildTypeOK, AdapterTypeOK, VerifierTypeOK, V0Alone
<1>4. CASE V0Prepare
  <2>1. run' \in Run /\ run'.status = "running" /\ run'.events = {}
    BY <1>1, <1>4 DEF V0Prepare, Running, Run, Open
  <2> QED BY <1>1, <1>2, <1>3, <1>4, <2>1, V0GoesOn
      DEF V0Prepare, RunTypeOK, NotStartedYet, UnderWay, V0Untold, V0Kept
<1>5. CASE V0PrepareFails \/ V0LaunchFails
  <2>1. /\ pc' = "done" /\ run' \in Run /\ outcome' = "gave_up"
        /\ "run.completed" \notin run'.events
    <3>1. CASE V0PrepareFails
      <4>1. PICK s \in Open \cup {"none"} : V0Throws([run EXCEPT !.status = s])
        BY <3>1 DEF V0PrepareFails
      <4>2. [run EXCEPT !.status = s] \in Run /\ [run EXCEPT !.status = s].events = {}
        BY <1>1 DEF Run, Open
      <4> QED BY <4>1, <4>2, V0ThrowsEnds
    <3>2. CASE V0LaunchFails
      BY <1>1, <3>2, V0ThrowsEnds DEF V0LaunchFails
    <3> QED BY <1>5, <3>1, <3>2
  <2>2. /\ child'.state = "none" /\ ~child'.helpers /\ ~adapter'.timer /\ ~command'.timer
    BY <1>1, <1>2 DEF NoChild, NoAgentYet, NoCommand
  <2> QED BY <1>2, <1>3, <2>1, <2>2, V0EndsWell
<1> QED BY <1>4, <1>5 DEF V0Starts

\* adapter.run() without a signal.
LEMMA V0LaunchKeeps ==
  ASSUME V0Inv, V0Launch, UNCHANGED <<signal, plan, role, flow>>
  PROVE  V0Inv'
<1>1. /\ pc = "stat" /\ pc' = "agent"
      /\ UNCHANGED <<signal, plan, role, command, results, run, outcome, agentCode>>
  BY DEF V0Launch
<1>2. /\ child' \in Child /\ adapter' \in Adapter
      /\ ~adapter'.listening /\ ~adapter'.aborting
  BY NewChildIsChild DEF V0Launch, NoAgentYet, Adapter
<1>3. RunTypeOK'
  BY <1>1, <1>2 DEF V0Inv, RunTypeOK, ChildTypeOK, AdapterTypeOK, VerifierTypeOK
<1> QED BY <1>1, <1>2, <1>3, V0GoesOn
    DEF V0Inv, NotStartedYet, UnderWay, V0Alone, V0Untold, V0Kept

\* The handler of "close" leaves nothing of the agent armed.
LEMMA V0AgentCloses ==
  ASSUME RunTypeOK, V0Alone, AgentClose
  PROVE  /\ child' \in Child /\ child'.state = "closed" /\ ~child'.helpers
         /\ child'.code = child.code
         /\ adapter' \in Adapter /\ ~adapter'.timer /\ ~adapter'.listening
         /\ ~adapter'.aborting /\ adapter'.timedOut = adapter.timedOut
<1>1. child \in Child /\ adapter \in Adapter
  BY DEF RunTypeOK, ChildTypeOK, AdapterTypeOK
<1> QED BY <1>1, ClosedIsChild DEF AgentClose, CloseReady, Adapter, V0Alone

\* Nor of a command.
LEMMA V0CommandCloses ==
  ASSUME RunTypeOK, V0Alone, CommandClose
  PROVE  /\ child' \in Child /\ child'.state = "closed" /\ ~child'.helpers
         /\ child'.code = child.code
         /\ command' \in Command /\ ~command'.timer /\ ~command'.listening
         /\ ~command'.aborted
<1>1. child \in Child /\ command \in Command
  BY DEF RunTypeOK, ChildTypeOK, VerifierTypeOK
<1> QED BY <1>1, ClosedIsChild DEF CommandClose, CloseReady, Command, V0Alone

\* The agent of a run without commands decides alone.
LEMMA V0AgentEndsKeeps ==
  ASSUME V0Inv, V0AgentEnds, UNCHANGED <<signal, plan, role, flow>>
  PROVE  V0Inv'
<1>1. /\ pc = "agent" /\ AgentClose /\ agentCode' = child.code
      /\ UNCHANGED <<signal, plan, role, command, results>>
      /\ \/ plan = 0 /\ V0Decides(child.code, results)
         \/ V0Throws(run)
  BY DEF V0AgentEnds
<1>2. /\ run \in Run /\ run.events = {} /\ RunTypeOK /\ V0Alone
      /\ command = NoCommand /\ results = <<>> /\ child.code \in Codes
  BY <1>1 DEF V0Inv, RunTypeOK, ChildTypeOK, Child, V0Untold, NotStartedYet
<1>3. /\ child' \in Child /\ child'.state = "closed" /\ ~child'.helpers
      /\ child'.code = child.code
      /\ adapter' \in Adapter /\ ~adapter'.timer /\ ~adapter'.listening
      /\ ~adapter'.aborting /\ adapter'.timedOut = adapter.timedOut
  BY <1>1, <1>2, V0AgentCloses
<1>4. /\ ChildTypeOK' /\ AdapterTypeOK' /\ VerifierTypeOK' /\ V0Alone'
      /\ agentCode' \in Codes /\ ~command'.timer
  BY <1>1, <1>2, <1>3
  DEF RunTypeOK, ChildTypeOK, AdapterTypeOK, VerifierTypeOK, V0Alone, NoCommand
<1>5. CASE V0Throws(run)
  <2>1. /\ pc' = "done" /\ run' \in Run /\ outcome' = "gave_up"
        /\ "run.completed" \notin run'.events
    BY <1>2, <1>5, V0ThrowsEnds
  <2> QED BY <1>1, <1>3, <1>4, <2>1, V0EndsWell
<1>6. CASE plan = 0 /\ V0Decides(child.code, results)
  <2> PICK reason : reason = V0Reason(child.code, results)
    OBVIOUS
  <2>1. /\ pc' = "done" /\ run' \in Run
        /\ \/ /\ outcome' = reason
              /\ run'.status = IF outcome' = "succeeded" THEN "succeeded" ELSE "failed"
              /\ run'.events = {EndEvent(run'.status)}
           \/ outcome' = "gave_up" /\ "run.completed" \notin run'.events
    BY <1>2, <1>6, V0DecidesEnds
  <2>2. /\ reason \in {"succeeded", "agent_timed_out", "agent_nonzero_exit"}
        /\ reason = "succeeded" => child.code = "zero" /\ ~adapter.timedOut
    <3>1. Passed(results)
      BY <1>2, <1>6 DEF Passed
    <3> QED BY <3>1, V0Reasons
  <2>3. SuccessIsEarned' /\ AgentAnswersFirst'
    BY <1>1, <1>2, <1>3, <1>6, <2>1, <2>2
    DEF SuccessIsEarned, AgentAnswersFirst, Verdicts
  <2> QED BY <1>1, <1>3, <1>4, <2>1, <2>2, <2>3, V0EndsWell
<1> QED BY <1>1, <1>5, <1>6

\* The first command is started, whatever became of the agent.
LEMMA V0AgentDoneKeeps ==
  ASSUME V0Inv, V0AgentDone, UNCHANGED <<signal, plan, role, flow>>
  PROVE  V0Inv'
<1>1. /\ pc = "agent" /\ pc' = "verify" /\ plan > 0 /\ agentCode' = child.code
      /\ adapter' = [adapter EXCEPT !.timer = FALSE, !.killed = TRUE]
      /\ UNCHANGED <<signal, plan, role, results, run, outcome>>
  BY DEF V0AgentDone
<1>2. /\ results = <<>> /\ adapter \in Adapter /\ child.code \in Codes
  BY <1>1 DEF V0Inv, RunTypeOK, ChildTypeOK, Child, AdapterTypeOK, NotStartedYet
<1>3. /\ adapter' \in Adapter /\ ~adapter'.timer
      /\ adapter'.listening = adapter.listening /\ adapter'.aborting = adapter.aborting
  BY <1>1, <1>2 DEF Adapter
<1>4. /\ child' \in Child /\ command' \in Command
      /\ ~command'.listening /\ ~command'.aborted
  BY NewChildIsChild DEF V0AgentDone, V0StartCommand, NoCommand, Command
<1>5. RunTypeOK'
  BY <1>1, <1>3, <1>4 DEF V0Inv, RunTypeOK, ChildTypeOK, AdapterTypeOK, VerifierTypeOK
<1> QED BY <1>1, <1>2, <1>3, <1>4, <1>5, V0GoesOn
    DEF V0Inv, NotStartedYet, UnderWay, V0Alone, V0Untold, V0Kept

\* One more result is the last one.
LEMMA V0ResultAppended ==
  ASSUME RunTypeOK, results' = Append(results, CommandResult)
  PROVE  /\ results' \in Seq(Result) /\ Len(results') = Len(results) + 1
         /\ Len(results) \in Nat
         /\ results'[Len(results')] = CommandResult
         /\ \A i \in 1..Len(results) : results'[i] = results[i]
<1>1. results \in Seq(Result) /\ CommandResult \in Result
  BY DEF RunTypeOK, VerifierTypeOK, ChildTypeOK, Child, Command, Result, CommandResult
<1> QED BY <1>1

\* After the last command, or a bad one, agent and results decide.
LEMMA V0CommandEndsKeeps ==
  ASSUME V0Inv, V0CommandEnds, UNCHANGED <<signal, plan, role, flow>>
  PROVE  V0Inv'
<1>1. /\ pc = "verify" /\ CommandClose
      /\ results' = Append(results, CommandResult)
      /\ Passed(results') \/ ~Good(CommandResult)
      /\ V0Decides(agentCode, results') \/ V0Throws(run)
      /\ UNCHANGED <<signal, plan, role, adapter, agentCode>>
  BY DEF V0CommandEnds
<1>2. /\ run \in Run /\ run.events = {} /\ RunTypeOK /\ V0Alone /\ agentCode \in Codes
      /\ Len(results) < plan /\ plan \in Nat /\ ~adapter.timer
      /\ \A i \in 1..Len(results) : Good(results[i])
  BY <1>1, CommandsAssumption DEF V0Inv, RunTypeOK, VerifierTypeOK, V0Untold, V0Kept
<1>3. /\ results' \in Seq(Result) /\ Len(results') = Len(results) + 1 /\ Len(results) \in Nat
      /\ results'[Len(results')] = CommandResult
      /\ \A i \in 1..Len(results) : results'[i] = results[i]
  BY <1>1, <1>2, V0ResultAppended
<1>4. /\ child' \in Child /\ child'.state = "closed" /\ ~child'.helpers
      /\ child'.code = child.code
      /\ command' \in Command /\ ~command'.timer /\ ~command'.listening /\ ~command'.aborted
  BY <1>1, <1>2, V0CommandCloses
<1>5. /\ ChildTypeOK' /\ AdapterTypeOK' /\ VerifierTypeOK' /\ V0Alone'
      /\ agentCode' \in Codes /\ ~adapter'.timer
  BY <1>1, <1>2, <1>3, <1>4
  DEF RunTypeOK, ChildTypeOK, AdapterTypeOK, VerifierTypeOK, V0Alone
<1>6. CASE V0Throws(run)
  <2>1. /\ pc' = "done" /\ run' \in Run /\ outcome' = "gave_up"
        /\ "run.completed" \notin run'.events
    BY <1>2, <1>6, V0ThrowsEnds
  <2> QED BY <1>1, <1>4, <1>5, <2>1, V0EndsWell
<1>7. CASE V0Decides(agentCode, results')
  <2> PICK reason : reason = V0Reason(agentCode, results')
    OBVIOUS
  <2>1. /\ pc' = "done" /\ run' \in Run
        /\ \/ /\ outcome' = reason
              /\ run'.status = IF outcome' = "succeeded" THEN "succeeded" ELSE "failed"
              /\ run'.events = {EndEvent(run'.status)}
           \/ outcome' = "gave_up" /\ "run.completed" \notin run'.events
    BY <1>2, <1>7, V0DecidesEnds
  <2>2. /\ reason \in {"succeeded", "verification_failed",
                       "agent_timed_out", "agent_nonzero_exit"}
        /\ reason \in {"succeeded", "verification_failed"} =>
             agentCode = "zero" /\ ~adapter.timedOut
        /\ reason = "succeeded" => Passed(results')
        /\ reason = "verification_failed" => ~Passed(results')
    BY V0Reasons
\* The last result is a bad one, or all of them are good.
  <2>3. /\ Passed(results') => child.code = "zero"
        /\ Passed(results') => \A i \in DOMAIN results' : Good(results'[i])
        /\ ~Passed(results') => \E i \in DOMAIN results' : ~Good(results'[i])
    <3>1. DOMAIN results' = 1..Len(results') /\ Len(results') \in DOMAIN results'
      BY <1>3
    <3>2. Passed(results') => Len(results') = plan /\ \A i \in 1..plan : Good(results'[i])
      BY DEF Passed
    <3>3. ~Passed(results') => ~Good(results'[Len(results')])
      BY <1>1, <1>3
    <3>4. Good(results'[Len(results')]) => child.code = "zero"
      BY <1>3 DEF Good, CommandResult
    <3> QED BY <3>1, <3>2, <3>3, <3>4
  <2>4. SuccessIsEarned'
    <3>1. outcome' \in Verdicts \cup {"succeeded"} => outcome' = "succeeded" /\ reason = outcome'
      BY <2>1, <2>2 DEF Verdicts
    <3>2. Passed(results') =>
            Len(results') = plan' /\ \A i \in 1..plan' : Good(results'[i])
      BY <1>1 DEF Passed
    <3> QED BY <1>1, <1>2, <1>4, <2>2, <2>3, <3>1, <3>2 DEF SuccessIsEarned, V0Alone
  <2>5. AgentAnswersFirst'
    <3>1. outcome' \in {"succeeded", "verification_failed"} => outcome' = reason
      BY <2>1
    <3> QED BY <1>1, <2>2, <2>3, <3>1 DEF AgentAnswersFirst
  <2> QED BY <1>1, <1>4, <1>5, <2>1, <2>2, <2>4, <2>5, V0EndsWell
<1> QED BY <1>1, <1>6, <1>7

\* A command has passed and another one is left.
LEMMA V0CommandPassesKeeps ==
  ASSUME V0Inv, V0CommandPasses, UNCHANGED <<signal, plan, role, flow>>
  PROVE  V0Inv'
<1>1. /\ pc = "verify" /\ pc' = "verify"
      /\ results' = Append(results, CommandResult)
      /\ Good(CommandResult) /\ Len(results') < plan
      /\ UNCHANGED <<signal, adapter, plan, role, run, outcome, agentCode>>
  BY DEF V0CommandPasses
<1>2. /\ RunTypeOK /\ plan \in Nat /\ ~adapter.timer
      /\ \A i \in 1..Len(results) : Good(results[i])
  BY <1>1, CommandsAssumption DEF V0Inv, RunTypeOK, VerifierTypeOK, V0Kept
<1>3. /\ results' \in Seq(Result) /\ Len(results') = Len(results) + 1 /\ Len(results) \in Nat
      /\ results'[Len(results')] = CommandResult
      /\ \A i \in 1..Len(results) : results'[i] = results[i]
  BY <1>1, <1>2, V0ResultAppended
<1>4. /\ child' \in Child /\ command' \in Command
      /\ ~command'.listening /\ ~command'.aborted
  BY NewChildIsChild DEF V0CommandPasses, V0StartCommand, NoCommand, Command
<1>5. RunTypeOK'
  BY <1>1, <1>2, <1>3, <1>4 DEF RunTypeOK, ChildTypeOK, AdapterTypeOK, VerifierTypeOK
<1>6. V0Kept'
  <2>1. \A i \in 1..Len(results') : Good(results'[i])
    BY <1>1, <1>2, <1>3
  <2> QED BY <1>1, <1>2, <2>1 DEF V0Kept
<1> QED BY <1>1, <1>4, <1>5, <1>6, V0GoesOn
    DEF V0Inv, NotStartedYet, UnderWay, V0Alone, V0Untold
-----------------------------------------------------------------------------
(* What befalls a run of either version. *)

\* A timeout is noted and does not end a version 0 run.
LEMMA V0TimeoutKeeps ==
  ASSUME V0Inv, FlowTimeout
  PROVE  V0Inv'
<1> USE DEF V0Inv
<1>1. /\ child \in Child /\ adapter \in Adapter /\ command \in Command
      /\ agentCode' = agentCode
  BY DEF RunTypeOK, ChildTypeOK, AdapterTypeOK, VerifierTypeOK, FlowTimeout, v0Vars
<1>2. CASE AgentTimesOut
  <2>1. /\ adapter' \in Adapter /\ child' \in Child
        /\ adapter'.listening = adapter.listening /\ adapter'.aborting = adapter.aborting
    BY <1>1, <1>2, SignalledIsChild DEF AgentTimesOut, AgentTimeout, Adapter
  <2>2. RunTypeOK'
    BY <1>2, <2>1 DEF AgentTimesOut, RunTypeOK, ChildTypeOK, AdapterTypeOK, VerifierTypeOK
  <2> QED BY <1>1, <1>2, <2>1, <2>2, V0GoesOn
      DEF AgentTimesOut, NotStartedYet, UnderWay, V0Alone, V0Untold, V0Kept
<1>3. CASE CommandTimesOut
  <2>1. /\ command' \in Command /\ child' \in Child
        /\ command'.listening = command.listening /\ command'.aborted = command.aborted
    BY <1>1, <1>3, SignalledIsChild DEF CommandTimesOut, CommandTimeout, Command
  <2>2. RunTypeOK'
    BY <1>3, <2>1
    DEF CommandTimesOut, CommandTimeout, RunTypeOK, ChildTypeOK, AdapterTypeOK, VerifierTypeOK
  <2> QED BY <1>1, <1>3, <2>1, <2>2, V0GoesOn
      DEF CommandTimesOut, CommandTimeout, NotStartedYet, UnderWay, V0Alone, V0Untold, V0Kept
<1> QED BY <1>2, <1>3 DEF FlowTimeout, Timeout

\* What a child does by itself concerns its run only while it is waited for.
LEMMA V0ChildStepKeeps ==
  ASSUME V0Inv, ChildExits \/ ChildEnds, UNCHANGED v0Vars
  PROVE  V0Inv'
<1> USE DEF V0Inv
<1>1. /\ child \in Child /\ (Exit \/ Die \/ HelpersEnd)
      /\ UNCHANGED ownVars /\ agentCode' = agentCode
  BY DEF RunTypeOK, ChildTypeOK, ChildExits, ChildEnds, v0Vars
<1>2. child' \in Child /\ (child.state = "alive" \/ child.helpers)
  BY <1>1, ChildMoves
<1>3. pc \in {"agent", "verify"}
  <2>1. NoChild.state = "none" /\ ~NoChild.helpers
    BY DEF NoChild
  <2> QED BY <1>2, <2>1
      DEF RunTypeOK, NotStartedYet, V0Guarantees, RunGuarantees, NothingLeft
<1>4. RunTypeOK'
  BY <1>1, <1>2 DEF ownVars, RunTypeOK, ChildTypeOK, AdapterTypeOK, VerifierTypeOK
<1> QED BY <1>1, <1>3, <1>4, V0GoesOn
    DEF ownVars, NotStartedYet, UnderWay, V0Alone, V0Untold, V0Kept

\* Whichever function was called, its run has not begun.
LEMMA EitherInit == FlowInit => EitherInv
<1> SUFFICES ASSUME FlowInit PROVE EitherInv
  OBVIOUS
<1>1. Init /\ flow \in {"v0", "v1"} /\ (V0 => role = "implementer") /\ agentCode = "null"
  BY DEF FlowInit
<1>2. RunInv
  BY <1>1, RunInit
<1>3. ASSUME V0 PROVE V0Inv
  <2>1. V0Alone
    BY <1>1, <1>3 DEF V0Alone, Init, NoAgentYet, NoCommand
  <2>2. V0Untold /\ V0Kept
    BY <1>1 DEF V0Untold, V0Kept, Init
  <2>3. AgentAnswersFirst /\ LogTellsAnswer
    BY <1>1 DEF AgentAnswersFirst, LogTellsAnswer, Init
  <2> QED BY <1>1, <1>2, <2>1, <2>2, <2>3 DEF V0Inv, V0Guarantees, RunInv, Codes
<1> QED BY <1>1, <1>2, <1>3 DEF EitherInv

\* No step of either breaks what is promised of it.
LEMMA EitherNext == EitherInv /\ [FlowNext]_flowVars => EitherInv'
<1> SUFFICES ASSUME EitherInv, [FlowNext]_flowVars PROVE EitherInv'
  OBVIOUS
<1>1. flow' = flow
  BY DEF FlowNext, V0Step, V1Step, V1Abort, FlowTimeout, FlowChildEnds, flowVars, v0Vars
<1>2. ASSUME V1 PROVE RunInv'
  <2>1. [Next]_vars
    BY <1>2 DEF FlowNext, V0Step, V1Step, V1Abort, FlowTimeout, FlowChildEnds, flowVars,
        Next, V0, V1
  <2> QED BY <1>2, <2>1, RunNext DEF EitherInv
<1>3. ASSUME V0 PROVE V0Inv'
  <2>0. V0Inv
    BY <1>3 DEF EitherInv
  <2>1. CASE V0Step
    BY <2>0, <2>1, V0StartsKeeps, V0LaunchKeeps, V0AgentEndsKeeps, V0AgentDoneKeeps,
       V0CommandEndsKeeps, V0CommandPassesKeeps DEF V0Step
  <2>2. CASE FlowTimeout
    BY <2>0, <2>2, V0TimeoutKeeps
  <2>3. CASE FlowChildEnds
    BY <2>0, <2>3, V0ChildStepKeeps DEF FlowChildEnds
  <2>4. CASE ChildExits /\ UNCHANGED v0Vars
    BY <2>0, <2>4, V0ChildStepKeeps
  <2>5. CASE flowVars' = flowVars
    <3>1. /\ UNCHANGED <<child, signal, adapter, plan, command, results>>
          /\ UNCHANGED <<pc, role, run, outcome, flow, agentCode>>
      BY <2>5 DEF flowVars, vars, v0Vars
    <3>2. RunTypeOK' /\ NotStartedYet' /\ UnderWay' /\ V0Alone' /\ V0Untold' /\ V0Kept'
      BY <2>0, <3>1
      DEF V0Inv, RunTypeOK, ChildTypeOK, AdapterTypeOK, VerifierTypeOK, NotStartedYet,
          UnderWay, V0Alone, V0Untold, V0Kept
    <3>3. RunGuarantees'
      BY <2>0, <3>1
      DEF V0Inv, V0Guarantees, RunGuarantees, SuccessIsEarned, NothingLeft,
          InterruptedIsCancelled, AnswerTellsStatus
    <3>4. AgentAnswersFirst' /\ LogTellsAnswer'
      BY <2>0, <3>1 DEF V0Inv, V0Guarantees, AgentAnswersFirst, LogTellsAnswer, V0
    <3> QED BY <2>0, <3>1, <3>2, <3>3, <3>4 DEF V0Inv, V0Guarantees
  <2>6. CASE FlowNext
    <3>1. ~V1Step /\ ~V1Abort
      BY <1>3 DEF V1Step, V1Abort, V0, V1
    <3>2. V0Step \/ FlowTimeout \/ FlowChildEnds \/ (ChildExits /\ UNCHANGED v0Vars)
      BY <2>6, <3>1 DEF FlowNext
    <3> QED BY <2>1, <2>2, <2>3, <2>4, <3>2
  <2> QED BY <2>5, <2>6
<1> QED BY <1>1, <1>2, <1>3 DEF EitherInv, V0, V1

\* The inductive invariant of both.
LEMMA EitherInvariant == FlowSpec => []EitherInv
BY EitherInit, EitherNext, PTL DEF FlowSpec

\* A version 0 run is called a success, or its failure blamed on the commands, only
\* if the agent itself was done in time and with 0, for any number of commands
\* (steps 13 and 14 of runWorkOrderWithServices()).
THEOREM AgentComesFirst == FlowSpec => []AgentAnswersFirst
<1>1. EitherInv => AgentAnswersFirst
  BY DEF EitherInv, V0Inv, V0Guarantees, AgentAnswersFirst, V0, V1
<1> QED BY <1>1, EitherInvariant, PTL

\* The log of a version 0 run tells of a success exactly when one was answered,
\* whichever writes failed (the order of updateStatus() and append(), the catch).
THEOREM LogAgrees == FlowSpec => []LogTellsAnswer
<1>1. EitherInv => LogTellsAnswer
  BY DEF EitherInv, V0Inv, V0Guarantees, LogTellsAnswer, V0, V1
<1> QED BY <1>1, EitherInvariant, PTL

\* What is promised of a version 1 run is true of either: success is earned, nothing
\* is left behind, an abort is no result, and answer and row agree
\* (runWorkOrderWithServices(), runTaskOnce()).
THEOREM EitherKeepsPromises ==
  FlowSpec => [](/\ RunTypeOK /\ SuccessIsEarned /\ NothingLeft
                 /\ InterruptedIsCancelled /\ AnswerTellsStatus)
<1>1. EitherInv => /\ RunTypeOK /\ SuccessIsEarned /\ NothingLeft
                   /\ InterruptedIsCancelled /\ AnswerTellsStatus
  BY DEF EitherInv, RunInv, V0Inv, V0Guarantees, RunGuarantees, V0, V1
<1> QED BY <1>1, EitherInvariant, PTL
=============================================================================
