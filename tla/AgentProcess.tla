---------------------------- MODULE AgentProcess ----------------------------
(***************************************************************************)
(* ChildProcessOfficialCliAdapter.run() (official-cli-adapter.ts): one     *)
(* agent, its timeout, and the abort signal, in whatever order they come.  *)
(***************************************************************************)
EXTENDS ChildProcess

VARIABLE adapter   \* the locals of run()

agentVars == <<child, adapter>>

Adapter    == [timer : BOOLEAN, listening : BOOLEAN, timedOut : BOOLEAN,
               killed : BOOLEAN, aborting : BOOLEAN]
NoAgentYet == [timer |-> FALSE, listening |-> FALSE, timedOut |-> FALSE,
               killed |-> FALSE, aborting |-> FALSE]

AdapterTypeOK == adapter \in Adapter

\* An agent that was killed already is not killed again, and its end is no abort.
\* The listener is registered once.
AgentAborts ==
  IF adapter.killed
  THEN /\ adapter' = [adapter EXCEPT !.listening = FALSE]
       /\ UNCHANGED child
  ELSE /\ adapter' = [adapter EXCEPT !.listening = FALSE, !.aborting = TRUE,
                                     !.killed = TRUE]
       /\ child' = Signalled(child, "SIGTERM")

\* The signal is only listened to, and the listener is never called if it was
\* aborted while the working directory was looked up.
StartAgent_NoRecheck ==
  /\ child' \in NewChildren
  /\ adapter' = [NoAgentYet EXCEPT !.timer = TRUE, !.listening = TRUE]

\* spawn(), the timer, the listener, and a second look at the signal.
StartAgent ==
  \E c \in NewChildren :
    /\ child' = IF signal THEN Signalled(c, "SIGTERM") ELSE c
    /\ adapter' = [NoAgentYet EXCEPT !.timer = TRUE, !.listening = TRUE,
                                     !.aborting = signal, !.killed = signal]

\* The timeout is noted and the agent left alone.
AgentTimeout_NoKill ==
  /\ adapter.timer
  /\ adapter' = [adapter EXCEPT !.timer = FALSE, !.timedOut = TRUE, !.killed = TRUE]
  /\ UNCHANGED child

AgentTimeout ==
  /\ adapter.timer
  /\ adapter' = [adapter EXCEPT !.timer = FALSE, !.timedOut = TRUE, !.killed = TRUE]
  /\ child' = Signalled(child, "SIGTERM")

\* The event "exit" is awaited instead of "close".
AgentClose_OnExit ==
  /\ child.state = "exited"
  /\ adapter' = [adapter EXCEPT !.timer = FALSE, !.listening = FALSE, !.killed = TRUE]
  /\ child' = Closed(child)

\* The event "close": the promise is rejected if adapter.aborting, else it gives
\* the exit code and whether there was a timeout.
AgentClose ==
  /\ CloseReady
  /\ adapter' = [adapter EXCEPT !.timer = FALSE, !.listening = FALSE, !.killed = TRUE]
  /\ child' = Closed(child)

\* An exit code of null passes for zero.
Failed_NullIsZero(result) == result.timedOut \/ result.code = "nonzero"

\* classifyOfficialCliFailure() finds a reason.
Failed(result) == result.timedOut \/ result.code # "zero"

\* The reasons it may find; what the agent wrote decides between the last two.
\* "quota" stands for provider_quota_exhausted and provider_auth_failed, and
\* "agent_nonzero_exit" for provider_rate_limited as well.
Reasons(result) ==
  IF result.timedOut THEN {"agent_timed_out"} ELSE {"agent_nonzero_exit", "quota"}
=============================================================================
