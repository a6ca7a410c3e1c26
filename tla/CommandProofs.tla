--------------------------- MODULE CommandProofs ---------------------------
(***************************************************************************)
(* What a command leaves behind and what its exit code tells, for any      *)
(* tasks and any number of workers.                                        *)
(***************************************************************************)
EXTENDS Command, TLAPS

\* A task is dispatched exactly while one worker has it.
Handed ==
  /\ \A w \in Workers : hand[w] # NoTask => task[hand[w]] = "dispatched"
  /\ \A t \in Tasks : task[t] = "dispatched" => \E w \in Workers : hand[w] = t
  /\ \A v, w \in Workers : hand[v] = hand[w] /\ hand[v] # NoTask => v = w

NotStarted ==
  phase \in {"new", "enqueued"} => \A w \in Workers : loop[w] = "none" /\ db[w] = "none"

\* The workers that are still at it have tasks of earlier invocations.
OwnAreTerminal == phase = "stopping" => \A t \in Own : task[t] \in Terminal

Over ==
  /\ code = "none" <=> phase # "exited"
  /\ phase = "exited" => \A w \in Workers : loop[w] \in {"none", "off"} /\ db[w] # "open"

CommandInv ==
  /\ CommandTypeOK /\ Handed /\ NotStarted /\ OwnAreTerminal /\ Over
  /\ ExitTellsTable /\ ConnectionsOutliveWorkers
-----------------------------------------------------------------------------
\* Every way out through the finally block: when no worker has a task or a loop,
\* what is left to show is what the code says.
LEMMA LeaveKeeps ==
  ASSUME CommandInv, NEW c \in ExitCodes, Leave(c), UNCHANGED <<task, grace>>,
         phase # "exited", trees' \in SUBSET Tasks,
         \A w \in Workers : loop[w] \in {"none", "off"},
         ExitTellsTable'
  PROVE  CommandInv'
  BY DEF CommandInv, CommandTypeOK, Handed, NotStarted, OwnAreTerminal, Over,
     ConnectionsOutliveWorkers, Leave, ExitCodes

\* Steps that leave phase and code alone before the end.
LEMMA ClaimKeeps ==
  ASSUME CommandInv, NEW w \in Workers, Claim(w)
  PROVE  CommandInv'
<1> USE CommandAssumption DEF CommandInv
<1>1. PICK t \in Tasks :
        /\ task[t] = "queued"
        /\ task' = [task EXCEPT ![t] = "dispatched"]
        /\ hand' = [hand EXCEPT ![w] = t]
  BY DEF Claim
<1>2. hand[w] = NoTask /\ phase # "exited" /\ t # NoTask
  BY DEF Claim, CommandTypeOK, Over
<1>3. CommandTypeOK'
  BY <1>1, <1>2 DEF Claim, CommandTypeOK, Statuses
<1>4. Handed'
  <2>1. \A v \in Workers : hand'[v] # NoTask => task'[hand'[v]] = "dispatched"
    BY <1>1, <1>2 DEF Handed, CommandTypeOK
  <2>2. ASSUME NEW u \in Tasks, task'[u] = "dispatched"
        PROVE  \E v \in Workers : hand'[v] = u
    <3>1. CASE u = t
      BY <1>1, <3>1 DEF CommandTypeOK
    <3>2. CASE u # t
      <4>1. PICK v \in Workers : hand[v] = u
        BY <1>1, <2>2, <3>2 DEF Handed, CommandTypeOK
      <4>2. v # w
        BY <1>2, <4>1, u # NoTask
      <4> QED
        BY <1>1, <4>1, <4>2 DEF CommandTypeOK
    <3> QED
      BY <3>1, <3>2
  <2>3. \A v \in Workers : v # w => hand[v] # t
    BY <1>1, <1>2 DEF Handed
  <2>4. \A u, v \in Workers : hand'[u] = hand'[v] /\ hand'[u] # NoTask => u = v
    BY <1>1, <2>3 DEF Handed, CommandTypeOK
  <2> QED
    BY <2>1, <2>2, <2>4 DEF Handed
<1>5. NotStarted' /\ Over' /\ ConnectionsOutliveWorkers'
  BY <1>2 DEF Claim, NotStarted, Over, ConnectionsOutliveWorkers, CommandTypeOK
<1>6. OwnAreTerminal' /\ ExitTellsTable'
  BY <1>2 DEF Claim, OwnAreTerminal, ExitTellsTable, StopRequested, Over
<1> QED
  BY <1>3, <1>4, <1>5, <1>6

LEMMA HandledKeeps ==
  ASSUME CommandInv, NEW w \in Workers, Handled(w)
  PROVE  CommandInv'
<1> USE CommandAssumption DEF CommandInv
<1>1. PICK s \in Terminal \cup {"queued", "orphaned"} :
        task' = [task EXCEPT ![hand[w]] = s]
  BY DEF Handled
<1>2. hand[w] \in Tasks /\ hand[w] # NoTask /\ phase # "exited"
  BY DEF Handled, CommandTypeOK, Over
<1>3. s \in Statuses /\ s # "dispatched"
  BY DEF Statuses, Terminal
<1>4. CommandTypeOK'
  BY <1>1, <1>2, <1>3 DEF Handled, CommandTypeOK
<1>5. Handed'
  <2>1. \A v \in Workers : v # w /\ hand[v] # NoTask => hand[v] # hand[w]
    BY <1>2 DEF Handed
  <2>2. \A v \in Workers : hand'[v] # NoTask => task'[hand'[v]] = "dispatched"
    BY <1>1, <2>1 DEF Handed, Handled, CommandTypeOK
  <2>3. ASSUME NEW u \in Tasks, task'[u] = "dispatched"
        PROVE  \E v \in Workers : hand'[v] = u
    <3>1. u # hand[w] /\ task[u] = "dispatched"
      BY <1>1, <1>2, <1>3, <2>3 DEF CommandTypeOK
    <3>2. PICK v \in Workers : hand[v] = u
      BY <3>1 DEF Handed
    <3> QED
      BY <3>1, <3>2 DEF Handled, CommandTypeOK
  <2>4. \A u, v \in Workers : hand'[u] = hand'[v] /\ hand'[u] # NoTask => u = v
    BY DEF Handed, Handled, CommandTypeOK
  <2> QED
    BY <2>2, <2>3, <2>4 DEF Handed
<1>6. NotStarted' /\ Over' /\ ConnectionsOutliveWorkers'
  BY <1>2 DEF Handled, NotStarted, Over, ConnectionsOutliveWorkers, CommandTypeOK
<1>7. OwnAreTerminal'
  BY <1>1, <1>2 DEF Handled, OwnAreTerminal, Handed, Terminal, CommandTypeOK, Tasks
<1>8. ExitTellsTable'
  BY <1>2 DEF Handled, ExitTellsTable, Over
<1> QED
  BY <1>4, <1>5, <1>6, <1>7, <1>8
-----------------------------------------------------------------------------
LEMMA CommandInit == Init => CommandInv
<1> SUFFICES ASSUME Init PROVE CommandInv
  OBVIOUS
<1> USE CommandAssumption
<1>1. PICK left \in [Others -> {"queued", "orphaned", "awaiting_human"}] :
        task = [t \in Tasks |-> IF t \in Own THEN "absent" ELSE left[t]]
  BY DEF Init
<1>2. \A t \in Tasks : task[t] \in Statuses \ {"dispatched"}
  BY <1>1 DEF Statuses, Terminal, Tasks
<1>3. CommandTypeOK
  BY <1>1, <1>2 DEF Init, CommandTypeOK, Tasks
<1>4. Handed /\ NotStarted /\ OwnAreTerminal /\ Over
  BY <1>2 DEF Init, Handed, NotStarted, OwnAreTerminal, Over
<1>5. ExitTellsTable /\ ConnectionsOutliveWorkers
  BY DEF Init, ExitTellsTable, ConnectionsOutliveWorkers
<1> QED
  BY <1>3, <1>4, <1>5 DEF CommandInv

LEMMA CommandStep == CommandInv /\ [Next]_vars => CommandInv'
<1> SUFFICES ASSUME CommandInv, [Next]_vars PROVE CommandInv'
  OBVIOUS
<1> USE CommandAssumption
<1>1. CASE Refuse
  <2>1. ExitTellsTable'
    BY <1>1 DEF Refuse, Leave, ExitTellsTable
  <2> QED
    BY <1>1, <2>1, LeaveKeeps
       DEF Refuse, Leave, CommandInv, CommandTypeOK, NotStarted, ExitCodes
<1>2. CASE Enqueue
  BY <1>2 DEF Enqueue, Queued, poolVars, CommandInv, CommandTypeOK, Handed, NotStarted,
     OwnAreTerminal, Over, ExitTellsTable, ConnectionsOutliveWorkers, Statuses
<1>3. CASE EnqueueFails
  BY <1>3 DEF EnqueueFails, Leave, Queued, CommandInv, CommandTypeOK, Handed, NotStarted,
     OwnAreTerminal, Over, ExitTellsTable, ConnectionsOutliveWorkers, Statuses, ExitCodes
<1>4. CASE StartPool
  BY <1>4 DEF StartPool, CommandInv, CommandTypeOK, Handed, NotStarted,
     OwnAreTerminal, Over, ExitTellsTable, ConnectionsOutliveWorkers
<1>5. CASE StartFails
  BY <1>5 DEF StartFails, CommandInv, CommandTypeOK, Handed, NotStarted,
     OwnAreTerminal, Over, ExitTellsTable, ConnectionsOutliveWorkers, ExitCodes
<1>6. CASE AllTerminal
  BY <1>6 DEF AllTerminal, poolVars, CommandInv, CommandTypeOK, Handed, NotStarted,
     OwnAreTerminal, Over, ExitTellsTable, Candidates, ConnectionsOutliveWorkers
<1>7. CASE MonitorFails
  BY <1>7 DEF MonitorFails, poolVars, CommandInv, CommandTypeOK, Handed, NotStarted,
     OwnAreTerminal, Over, ExitTellsTable, Candidates, ConnectionsOutliveWorkers
<1>8. CASE Sigint
  BY <1>8 DEF Sigint, CommandInv, CommandTypeOK, Handed, NotStarted,
     OwnAreTerminal, Over, ExitTellsTable, Candidates, ConnectionsOutliveWorkers
<1>9. CASE GraceEnds
  BY <1>9 DEF GraceEnds, CommandInv, CommandTypeOK, Handed, NotStarted,
     OwnAreTerminal, Over, ExitTellsTable, Candidates, ConnectionsOutliveWorkers
<1>10. CASE Killed
  BY <1>10 DEF Killed, CommandInv, CommandTypeOK, Handed, NotStarted,
     OwnAreTerminal, Over, ExitTellsTable, ConnectionsOutliveWorkers, Statuses
<1>11. CASE Interrupted \/ Failed
  <2>1. ExitTellsTable'
    BY <1>11 DEF Interrupted, Failed, Leave, ExitTellsTable
  <2>2. trees' \in SUBSET Tasks
    BY <1>11 DEF Interrupted, Failed, CommandInv, CommandTypeOK
  <2> QED
    BY <1>11, <2>1, <2>2, LeaveKeeps DEF Interrupted, Failed, Leave, AllOff, ExitCodes
<1>12. CASE Finish
  <2>1. Verdict \in ExitCodes
    BY DEF Verdict, ExitCodes
  <2>2. ExitTellsTable'
    <3>1. Candidates' = {}
      BY <1>12 DEF Finish, Candidates
    <3> QED
      BY <1>12, <3>1 DEF Finish, Leave, Verdict, ExitTellsTable, CommandInv, OwnAreTerminal,
         Terminal
  <2>3. trees' \in SUBSET Tasks
    BY <1>12 DEF Finish, CommandInv, CommandTypeOK
  <2> QED
    BY <1>12, <2>1, <2>2, <2>3, LeaveKeeps DEF Finish, Leave, AllOff
<1>13. CASE CleanupFails
  <2>1. ExitTellsTable'
    BY <1>13 DEF CleanupFails, Leave, ExitTellsTable
  <2>2. trees' \in SUBSET Tasks
    BY <1>13 DEF CleanupFails, CommandInv, CommandTypeOK
  <2> QED
    BY <1>13, <2>1, <2>2, LeaveKeeps DEF CleanupFails, Leave, AllOff, ExitCodes
<1>14. ASSUME NEW w \in Workers, Rest(w) PROVE CommandInv'
  BY <1>14 DEF Rest, CommandInv, CommandTypeOK, Handed, NotStarted, StopRequested,
     OwnAreTerminal, Over, ExitTellsTable, Candidates, ConnectionsOutliveWorkers
<1>15. CASE UNCHANGED vars
  BY <1>15 DEF vars, CommandInv, CommandTypeOK, Handed, NotStarted,
     OwnAreTerminal, Over, ExitTellsTable, Candidates, ConnectionsOutliveWorkers
<1> QED
  BY <1>1, <1>2, <1>3, <1>4, <1>5, <1>6, <1>7, <1>8, <1>9, <1>10, <1>11, <1>12, <1>13,
     <1>14, <1>15, ClaimKeeps, HandledKeeps DEF Next

\* The strengthening of what follows, for every number of workers.
THEOREM CommandInvariant == Spec => []CommandInv
  BY CommandInit, CommandStep, PTL DEF Spec

\* Every variable has its type, and a worker is busy exactly while it has a task.
THEOREM CommandTypeCorrect == Spec => []CommandTypeOK
<1>1. CommandInv => CommandTypeOK
  BY DEF CommandInv
<1> QED
  BY <1>1, CommandInvariant, PTL

\* The exit code agrees with the table (runCli(), buildBatchResult()).
THEOREM CodeTellsTable == Spec => []ExitTellsTable
<1>1. CommandInv => ExitTellsTable
  BY DEF CommandInv
<1> QED
  BY <1>1, CommandInvariant, PTL

\* No loop runs on a connection that is not open (stop(), cleanupAfterStartFailure()).
THEOREM ConnectionsLast == Spec => []ConnectionsOutliveWorkers
<1>1. CommandInv => ConnectionsOutliveWorkers
  BY DEF CommandInv
<1> QED
  BY <1>1, CommandInvariant, PTL

\* An exit code other than that of a killed process means that nothing is left at
\* work (the finally blocks of runBatchV1() and runWorkOrderV1()).
THEOREM NothingBehind == Spec => []LeavesNothingBehind
<1>1. CommandInv => LeavesNothingBehind
  <2> SUFFICES ASSUME CommandInv, code \in ExitCodes PROVE LeavesNothingBehind
    BY DEF LeavesNothingBehind
  <2>1. \A w \in Workers : loop[w] \in {"none", "off"} /\ db[w] # "open"
    BY DEF CommandInv, Over, ExitCodes
  <2>2. \A w \in Workers : hand[w] = NoTask
    BY <2>1 DEF CommandInv, CommandTypeOK
  <2>3. \A t \in Tasks : task[t] # "dispatched"
    BY <2>2, CommandAssumption DEF CommandInv, Handed
  <2> QED
    BY <2>1, <2>3 DEF LeavesNothingBehind
<1> QED
  BY <1>1, CommandInvariant, PTL

\* Worktrees go when their tasks are done with and all workers have stopped
\* (cleanupV1TerminalWorktrees()).
THEOREM OnlyFinishedGo == Spec => RemovesOnlyFinished
<1>1. [Next]_vars => [\A t \in trees \ trees' :
                       /\ t \in Own /\ task[t] \in {"accepted", "failed"}
                       /\ \A w \in Workers : loop[w] = "off"]_vars
  <2> SUFFICES ASSUME Next, NEW t \in trees \ trees'
               PROVE  /\ t \in Own /\ task[t] \in {"accepted", "failed"}
                      /\ \A w \in Workers : loop[w] = "off"
    OBVIOUS
  <2>1. Finish \/ CleanupFails
    BY DEF Next, Refuse, Enqueue, EnqueueFails, StartPool, StartFails, AllTerminal,
       MonitorFails, Sigint, GraceEnds, Killed, Interrupted, Failed, Claim, Handled, Rest
  <2> QED
    BY <2>1 DEF Finish, CleanupFails, Candidates, AllOff
<1> QED
  BY <1>1, PTL DEF Spec, RemovesOnlyFinished
=============================================================================
