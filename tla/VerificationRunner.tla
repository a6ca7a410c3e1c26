------------------------- MODULE VerificationRunner -------------------------
(***************************************************************************)
(* ShellVerificationRunner.run() (verification-runner.ts): the commands of *)
(* a work order one after the other, each a shell with a timeout and the   *)
(* abort signal of the run.                                                *)
(***************************************************************************)
EXTENDS ChildProcess, Naturals, Sequences

CONSTANT MaxCommands   \* the most commands a work order has

ASSUME CommandsAssumption == MaxCommands \in Nat

VARIABLES plan,      \* the number of commands of the work order
          command,   \* the locals of runSingleCommand()
          results    \* commandResults

verifierVars == <<child, command, results>>

Command   == [timer : BOOLEAN, listening : BOOLEAN, timedOut : BOOLEAN, aborted : BOOLEAN]
NoCommand == [timer |-> FALSE, listening |-> FALSE, timedOut |-> FALSE, aborted |-> FALSE]

Result == [code : Codes, timedOut : BOOLEAN]

VerifierTypeOK ==
  /\ plan \in 0..MaxCommands
  /\ command \in Command
  /\ results \in Seq(Result) /\ Len(results) <= plan

\* What runSingleCommand() answers when the event "close" comes now.
CommandResult == [code |-> child.code, timedOut |-> command.timedOut]

Good(result) == result.code = "zero" /\ ~result.timedOut

\* passed: there is a result for each command, and all are good.
Passed(rs) == Len(rs) = plan /\ \A i \in 1..plan : Good(rs[i])

\* The next command, unless one failed: a shell, its timer and its listener.  The
\* signal is not aborted here, run() has just looked.  A shell that cannot be
\* started has a result without an exit code, as one that dies at once.
StartCommand ==
  /\ child' \in NewChildren
  /\ command' = [NoCommand EXCEPT !.timer = TRUE, !.listening = TRUE]

CommandAborts ==
  /\ command' = [command EXCEPT !.listening = FALSE, !.aborted = TRUE]
  /\ child' = Signalled(child, "SIGKILL")

\* Only the shell is killed.
CommandTimeout ==
  /\ command.timer
  /\ command' = [command EXCEPT !.timer = FALSE, !.timedOut = TRUE]
  /\ child' = Signalled(child, "SIGKILL")
  /\ UNCHANGED results

\* The event "close": the promise is rejected if command.aborted.
CommandClose ==
  /\ CloseReady
  /\ command' = [command EXCEPT !.timer = FALSE, !.listening = FALSE]
  /\ child' = Closed(child)
=============================================================================
