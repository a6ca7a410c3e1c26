------------------------ MODULE RunInWorkflowProofs ------------------------
(***************************************************************************)
(* That every step of a run is one that TaskWorkflow has, for any number of *)
(* commands, whether or not children heed SIGTERM.                          *)
(*                                                                          *)
(* RunInv says what runTaskOnce() can have done where it waits, and         *)
(* PacedInv how far the preparation is.  The lemmas of the first part turn  *)
(* what a step does to the run, its answer and its place into the           *)
(* assignments of TaskWorkflow; those of the second say how a run may end   *)
(* (RunEnds), and there is one lemma per step of RunExecution after them.   *)
(***************************************************************************)
EXTENDS RunInWorkflow, RunExecutionProofs

PacedInv ==
  /\ RunInv
  /\ at \in {"charged", "opened", "agent"}
  /\ pc \in {"stat", "agent", "verify"} => at = "agent"
  /\ adapter.aborting \/ command.aborted => signal

\* What no step of a run changes.
SameRun == role' = role /\ plan' = plan

\* The task is one of the two, and the run is one of its first two.
LEMMA Numbers ==
  ASSUME PacedInv
  PROVE  /\ role \in {"implementer", "reviewer"} /\ plan \in Nat
         /\ Task \in Kinds /\ Number \in {1, 2}
         /\ Task = "checked" <=> plan > 0
BY CommandsAssumption DEF PacedInv, RunInv, RunTypeOK, VerifierTypeOK, Task, Kinds, Number

\* The task and the number of its run are the same after a step.
LEMMA SameNumbers ==
  ASSUME SameRun
  PROVE  Task' = Task /\ Number' = Number /\ Claimed' = Claimed /\ Entry' = Entry
BY DEF SameRun, Task, Number, Claimed, Entry

\* The run gets another status and its verdict.
LEMMA RunIsSet ==
  ASSUME PacedInv, SameRun, at # "charged", NEW s, NEW v,
         OwnRow' = [OwnRow EXCEPT !.status = s, !.verdict = v]
  PROVE  Workflow!SetRun(Worker, s, v)
<1>1. Task \in Kinds /\ Number \in {1, 2} /\ Task' = Task /\ Number' = Number
  BY Numbers, SameNumbers
<1>2. RunsOfTask' = [RunsOfTask EXCEPT ![Number].status = s, ![Number].verdict = v]
  BY <1>1 DEF RunsOfTask
<1>3. Runs' = [Runs EXCEPT ![Task][Number].status = s, ![Task][Number].verdict = v]
  BY <1>1, <1>2 DEF Runs, Of
<1>4. Jobs[Worker].task = Task /\ Jobs[Worker].run = Number
  BY DEF Jobs, Alone, Job
<1> QED BY <1>3, <1>4 DEF Workflow!SetRun

\* Nothing else of its row changes.
LEMMA RowIsSet ==
  ASSUME SameRun, at # "charged", at' = at, NEW s, NEW v, OwnRow'.status = s, OwnRow'.verdict = v
  PROVE  OwnRow' = [OwnRow EXCEPT !.status = s, !.verdict = v]
<1> DEFINE n == Number - 1
           Stated == [OwnRow EXCEPT !.status = s]
<1>1. PICK x, y : OwnRow = [status |-> x, role |-> role, agent |-> Agent,
                            parent |-> n, packet |-> 0, verdict |-> y]
  BY DEF OwnRow
<1>2. PICK z : OwnRow' = [status |-> s, role |-> role, agent |-> Agent,
                          parent |-> n, packet |-> 0, verdict |-> z]
  BY SameNumbers DEF OwnRow, SameRun, Agent
<1> HIDE DEF n
<1>3. z = v
  BY <1>2
<1>4. Stated = [status |-> s, role |-> role, agent |-> Agent,
                 parent |-> n, packet |-> 0, verdict |-> y]
  BY <1>1
<1>5. OwnRow' = [Stated EXCEPT !.verdict = v]
  <2> HIDE DEF Stated
  <2> QED BY <1>2, <1>3, <1>4
<1> QED BY <1>5

\* It does not.
LEMMA RunIsSame ==
  ASSUME SameRun, OwnRow' = OwnRow
  PROVE  Runs' = Runs
BY SameNumbers DEF Runs, Of, RunsOfTask

\* The handler is at another place; it has an answer, or has not.
LEMMA HandlerMoves ==
  ASSUME NEW label, Place' = label
  PROVE  Workflow!Goto(Worker, label)
BY DEF Places, Alone, Workflow!Goto

LEMMA JobIsSet ==
  ASSUME NEW o, Job' = [Job EXCEPT !.outcome = o]
  PROVE  Jobs' = [Jobs EXCEPT ![Worker].outcome = o]
BY DEF Jobs, Alone

\* What a run leaves alone as long as it does not fail its task.
LEMMA RestIsSame ==
  ASSUME SameRun
  PROVE  /\ Cache' = Cache /\ Used' = Used /\ Spent' = Spent
         /\ (GivenUp' <=> GivenUp) => Rows' = Rows /\ Held' = Held
         /\ at' = at => Opened' = Opened
         /\ signal' = signal => Aborted' = Aborted
BY SameNumbers DEF Cache, Used, Spent, Rows, Held, Opened, Aborted, Of, Alone, Row
-----------------------------------------------------------------------------
(* How a run ends. *)

\* A run is answered and has status s: finishRun(), or the like.
LEMMA RunIsFinished ==
  ASSUME PacedInv, SameRun, pc # "done", at # "charged", at' = at, signal' = signal,
         pc' = "done", outcome' \in Outcomes \ {"none", "interrupted", "gave_up"}
  PROVE  /\ Workflow!Finish(Worker, run'.status, Told')
         /\ UNCHANGED <<Rows, Cache, Held, Used, Spent, Opened, Aborted>>
<1>1. outcome = "none" /\ ~GivenUp /\ ~GivenUp'
  BY DEF PacedInv, RunInv, UnderWay, GivenUp
<1>2. Place' = "ran"
  BY <1>1 DEF Place
<1>3. /\ Told' \in Verdicts <=> outcome' \in Verdicts
      /\ outcome' \in Verdicts => Told' = outcome'
  BY DEF Told, Verdicts
<1>4. OwnRow'.status = run'.status
      /\ OwnRow'.verdict = IF Told' \in Verdicts THEN Told' ELSE "none"
  BY <1>3 DEF OwnRow
<1>5. Workflow!SetRun(Worker, run'.status, IF Told' \in Verdicts THEN Told' ELSE "none")
  BY <1>4, RowIsSet, RunIsSet
<1>6. Job' = [Job EXCEPT !.outcome = Told']
  BY SameNumbers DEF Job, SameRun
<1>7. Workflow!Verdicts = Verdicts
  BY DEF Workflow!Verdicts, Verdicts
<1>8. UNCHANGED <<Rows, Cache, Held, Used, Spent, Opened, Aborted>>
  BY <1>1, RestIsSame
<1>9. Jobs' = [Jobs EXCEPT ![Worker].outcome = Told'] /\ Workflow!Goto(Worker, "ran")
  BY <1>2, <1>6, JobIsSet, HandlerMoves
<1> QED BY <1>5, <1>7, <1>8, <1>9 DEF Workflow!Finish

\* It is interrupted, or rejects after the abort: the handler passes it on.
LEMMA RunIsPassedOn ==
  ASSUME PacedInv, SameRun, pc \in {"stat", "agent", "verify"}, at' = at, signal, signal' = signal,
         pc' = "done", outcome' \in {"interrupted", "gave_up"},
         run'.status \in {"running", "cancelled", "failed"}
  PROVE  Workflow!Interrupt(Worker)
<1>1. outcome = "none" /\ ~GivenUp /\ ~GivenUp' /\ at = "agent" /\ run.status = "running"
  BY DEF PacedInv, RunInv, UnderWay, GivenUp
<1>2. Place' = "raised" /\ Place \in {"agent", "verifying"}
  BY <1>1 DEF Place
<1>3. /\ OwnRow.status = "running" /\ OwnRow.verdict = "none"
      /\ OwnRow'.status = run'.status /\ OwnRow'.verdict = "none"
  BY <1>1 DEF OwnRow, Verdicts
<1>4. Workflow!SetRun(Worker, run'.status, "none")
  BY <1>1, <1>3, RowIsSet, RunIsSet
<1>5. run'.status = "running" => Runs' = Runs
  <2>1. run'.status = "running" => OwnRow' = OwnRow
    BY <1>1, <1>3, SameNumbers DEF OwnRow, SameRun, Agent
  <2> QED BY <2>1, RunIsSame
<1>6. Jobs' = Jobs
  BY <1>1, SameNumbers DEF Jobs, Alone, Job, SameRun, Told
<1>7. UNCHANGED <<Rows, Cache, Held, Used, Spent, Opened, Aborted>>
  BY <1>1, RestIsSame
<1>8. Workflow!Goto(Worker, "raised")
  BY <1>2, HandlerMoves
<1>9. Places[Worker] \in {"agent", "verifying"} /\ Aborted[Worker]
  BY <1>2 DEF Places, Aborted, Alone
<1> QED BY <1>4, <1>5, <1>6, <1>7, <1>8, <1>9 DEF Workflow!Interrupt, Workflow!queueVars

\* It rejects without an abort: the handler fails the task.
LEMMA RunIsGivenUp ==
  ASSUME PacedInv, SameRun, at' = at, pc # "done", ~signal, signal' = signal,
         pc' = "done", outcome' = "gave_up",
         \/ pc = "called" /\ at = "charged" /\ run'.status = "none"
         \/ pc = "called" /\ at = "opened" /\ run'.status = "preparing"
         \/ pc = "called" /\ at = "agent" /\ run'.status \in {"running", "failed"}
         \/ pc # "called" /\ run'.status \in {"running", "failed", "succeeded"}
  PROVE  Workflow!GiveUp(Worker)
<1>1. /\ outcome = "none" /\ ~GivenUp /\ GivenUp'
      /\ pc \in {"called", "stat", "agent", "verify"}
      /\ pc # "called" => run.status = "running" /\ at = "agent"
  BY DEF PacedInv, RunInv, UnderWay, GivenUp, RunTypeOK
<1>2. /\ Place' = "released"
      /\ Place \in {"charged", "opened", "agent", "verifying"}
      /\ at = "agent" => Place \in {"agent", "verifying"}
      /\ at # "agent" => Place = at
  BY <1>1 DEF Place, PacedInv
<1>3. \/ Runs' = Runs
      \/ at = "agent" /\ \E s \in {"failed", "succeeded"} : Workflow!SetRun(Worker, s, "none")
  <2>1. CASE at = "charged"
    <3>1. OwnRow' = OwnRow
      BY <2>1 DEF OwnRow
    <3> QED BY <3>1, RunIsSame
  <2>2. CASE at # "charged"
    <3>1. /\ OwnRow'.status = run'.status /\ OwnRow'.verdict = "none"
          /\ OwnRow.status = IF at = "opened" THEN "preparing" ELSE "running"
          /\ OwnRow.verdict = "none"
      BY <1>1, <2>2 DEF OwnRow, Verdicts, PacedInv
    <3>2. CASE run'.status \in {"preparing", "running"}
      <4>1. OwnRow' = OwnRow
        BY <1>1, <2>2, <3>1, <3>2, SameNumbers DEF OwnRow, SameRun, Agent
      <4> QED BY <4>1, RunIsSame
    <3>3. CASE run'.status \notin {"preparing", "running"}
      <4>1. at = "agent" /\ run'.status \in {"failed", "succeeded"}
        BY <1>1, <2>2, <3>3
      <4>2. Workflow!SetRun(Worker, run'.status, "none")
        BY <2>2, <3>1, RowIsSet, RunIsSet
      <4> QED BY <4>1, <4>2
    <3> QED BY <3>2, <3>3
  <2> QED BY <2>1, <2>2
<1>4. Workflow!Release(Worker, "failed", Jobs[Worker].role, Held[Worker].attempts)
  <2>1. Held[Worker] = Entry /\ Jobs[Worker].role = role /\ Entry.task = Task /\ Task # "none"
    BY <1>1 DEF Held, Jobs, Alone, Job, Entry, Task
  <2>2. Held' = [Held EXCEPT ![Worker] = Workflow!NoEntry]
    BY <1>1 DEF Held, Alone, Workflow!NoEntry, NoEntry
  <2>3. Row' = Workflow!Released(Claimed, "failed", role, Number - 1) /\ Row = Claimed
    <3>1. Row = Claimed
      BY <1>1 DEF Row
    <3>2. Row' = [Claimed EXCEPT !.status = "failed", !.owner = "nobody", !.lease = -1]
      BY <1>1, SameNumbers DEF Row
    <3>3. Workflow!NoLease = -1
      BY DEF Workflow!NoLease
    <3>4. Workflow!Released(Claimed, "failed", role, Number - 1) =
            [Claimed EXCEPT !.status = "failed", !.role = role, !.attempts = Number - 1,
                            !.owner = "nobody", !.lease = -1]
      BY <3>3 DEF Workflow!Released
    <3> DEFINE Failing == [Claimed EXCEPT !.status = "failed"]
    <3>5. /\ [Failing EXCEPT !.role = role] = Failing
          /\ [Failing EXCEPT !.attempts = Number - 1] = Failing
      <4> DEFINE n == Number - 1
      <4>1. PICK c : Claimed = [status |-> "dispatched", role |-> role, owner |-> Worker,
                                lease |-> 1, attempts |-> n, at |-> 0, excl |-> {},
                                ctx |-> c, packet |-> 0]
        BY DEF Claimed
      <4> HIDE DEF n
      <4>2. Failing = [status |-> "failed", role |-> role, owner |-> Worker,
                       lease |-> 1, attempts |-> n, at |-> 0, excl |-> {},
                       ctx |-> c, packet |-> 0]
        BY <4>1
      <4> HIDE DEF Failing
      <4>3. [Failing EXCEPT !.role = role] = Failing
        BY <4>2
      <4>4. [Failing EXCEPT !.attempts = n] = Failing
        BY <4>2
      <4> QED BY <4>3, <4>4 DEF n
    <3>6. [Claimed EXCEPT !.status = "failed", !.owner = "nobody", !.lease = -1] =
          [Claimed EXCEPT !.status = "failed", !.role = role, !.attempts = Number - 1,
                          !.owner = "nobody", !.lease = -1]
      BY <3>5, Zenon
    <3> QED BY <3>1, <3>2, <3>4, <3>6
  <2>4. Rows' = [Rows EXCEPT ![Task] = Workflow!Released(Rows[Task], "failed", role, Number - 1)]
    BY <1>1, <2>3, SameNumbers, Numbers DEF Rows, Of
  <2>5. Entry.attempts = Number - 1 /\ Cache' = Cache
    BY RestIsSame DEF Entry
  <2> QED BY <2>1, <2>2, <2>4, <2>5 DEF Workflow!Release
<1>5. Jobs' = Jobs
  BY <1>1, SameNumbers DEF Jobs, Alone, Job, SameRun, Told
<1>6. UNCHANGED <<Cache, Used, Spent, Opened, Aborted>>
  BY RestIsSame
<1>7. Workflow!Goto(Worker, "released") /\ Places[Worker] = Place /\ ~Aborted[Worker]
  BY <1>2, HandlerMoves DEF Places, Aborted, Alone
<1> QED
  BY <1>2, <1>3, <1>4, <1>5, <1>6, <1>7 DEF Workflow!GiveUp, Workflow!Waiting

-----------------------------------------------------------------------------
(* What is left of a run that rejects. *)

\* An error is thrown on, and the run is running, has the given status, has failed
\* or, only after an abort, is cancelled.
Rejects(status) ==
  /\ outcome' = "gave_up"
  /\ run'.status \in {"running", status, "failed"} \/ (signal /\ run'.status = "cancelled")

LEMMA RejectedTells ==
  ASSUME NEW status, NEW r \in Run, r.status \in {"running", status, "failed"}, Rejected(r)
  PROVE  pc' = "done" /\ Rejects(status)
BY DEF Rejected, Rejects, Cancelled, Answer, Run, Open

LEMMA CaughtTells ==
  ASSUME NEW status, NEW r \in Run, r.status \in {"running", status, "failed"}, Caught(r)
  PROVE  /\ pc' = "done"
         /\ \/ outcome' = "internal_error" /\ run'.status = "failed"
            \/ Rejects(status)
<1>1. PICK f \in Finished(r, "failed") :
        IF f.ok THEN Answer(f.run, "internal_error") ELSE Rejected(f.run)
  BY DEF Caught
<1>2. f.run \in Run /\ (f.ok => f.run.status = "failed")
  BY FinishedIsRun
<1>3. CASE f.ok
  BY <1>1, <1>2, <1>3 DEF Answer
<1>4. CASE ~f.ok
  <2>1. f.run.status \in {"running", status, "failed"}
    BY <1>4 DEF Finished, Run
  <2> QED BY <1>1, <1>2, <1>4, <2>1, RejectedTells
<1> QED BY <1>3, <1>4

LEMMA ConcludeTells ==
  ASSUME run \in Run, run.status = "running", NEW status \in {"succeeded", "failed"},
         NEW o, Conclude(status, o)
  PROVE  /\ pc' = "done"
         /\ \/ outcome' = o /\ run'.status = status
            \/ outcome' = "internal_error" /\ run'.status = "failed"
            \/ Rejects(status)
<1>1. PICK f \in Finished(run, status) :
        \/ f.ok /\ Answer(f.run, o)
        \/ (f.ok => status = "succeeded") /\ Caught(f.run)
  BY DEF Conclude
<1>2. f.run \in Run /\ (f.ok => f.run.status = status)
  BY FinishedIsRun
<1>3. CASE f.ok /\ Answer(f.run, o)
  BY <1>2, <1>3 DEF Answer
<1>4. CASE Caught(f.run)
  <2>1. f.run.status \in {"running", status, "failed"}
    BY DEF Finished, Run
  <2> QED BY <1>2, <1>4, <2>1, CaughtTells
<1> QED BY <1>1, <1>3, <1>4

\* The handler passes a rejection on, or fails the task; a run that had succeeded
\* was not aborted.
LEMMA RunRejects ==
  ASSUME PacedInv, SameRun, at' = at, signal' = signal, pc # "done", at = "agent",
         pc' = "done", NEW status, Rejects(status),
         status = "failed" \/ (status = "succeeded" /\ ~signal /\ pc # "called")
  PROVE  Workflow!Interrupt(Worker) \/ Workflow!GiveUp(Worker)
<1>1. /\ outcome' = "gave_up" /\ (pc = "called" => ~signal)
      /\ pc \in {"called", "stat", "agent", "verify"} /\ signal \in BOOLEAN
  BY DEF Rejects, PacedInv, RunInv, RunTypeOK, ChildTypeOK, SignalHeard
<1>2. CASE signal
  <2>1. run'.status \in {"running", "failed", "cancelled"}
    BY <1>2 DEF Rejects
  <2> QED BY <1>1, <1>2, <2>1, RunIsPassedOn
<1>3. CASE ~signal
  <2>1. /\ run'.status \in {"running", "failed", "succeeded"}
        /\ pc = "called" => run'.status \in {"running", "failed"}
    BY <1>3 DEF Rejects
  <2> QED BY <1>1, <1>3, <2>1, RunIsGivenUp
<1> QED BY <1>1, <1>2, <1>3

\* What no step of a run does to the workflow.
LEMMA RunUnseen ==
  ASSUME SameRun, UNCHANGED <<at, signal, Place, OwnRow, Told>>, GivenUp' <=> GivenUp
  PROVE  UNCHANGED Workflow!vars
<1>1. UNCHANGED <<Rows, Cache, Held, Used, Spent, Opened, Aborted, Runs>>
  BY RestIsSame, RunIsSame
<1>2. Places' = Places
  BY DEF Places, Alone
<1>3. Jobs' = Jobs
  BY SameNumbers DEF Jobs, Alone, Job, SameRun, Agent
<1> QED BY <1>1, <1>2, <1>3 DEF Workflow!vars, Workflow!queueVars, Workflow!flowVars

\* The run waits, and still has no answer.
LEMMA WaitUnseen ==
  ASSUME PacedInv, SameRun, UNCHANGED <<at, signal, run, outcome>>,
         pc' = pc \/ (pc = "stat" /\ pc' = "agent")
  PROVE  UNCHANGED Workflow!vars
<1>1. GivenUp' <=> GivenUp
  BY DEF GivenUp
<1>2. Told' = Told
  BY DEF Told
<1>3. Place' = Place
  BY <1>1 DEF Place
<1>4. OwnRow' = OwnRow
  BY SameNumbers DEF OwnRow, SameRun, Agent
<1> QED BY <1>1, <1>2, <1>3, <1>4, RunUnseen
-----------------------------------------------------------------------------
(* The steps, one after the other.  First those of the preparation. *)

\* A new row of agent_runs, from the one that is absent.
LEMMA NewRow ==
  ASSUME NEW r, NEW a, NEW n
  PROVE  [Workflow!AbsentRun EXCEPT !.status = "preparing", !.role = r, !.agent = a,
                                    !.parent = n, !.packet = 0] =
         [status |-> "preparing", role |-> r, agent |-> a, parent |-> n, packet |-> 0,
          verdict |-> "none"]
<1> DEFINE R1 == [Workflow!AbsentRun EXCEPT !.status = "preparing"]
           R2 == [R1 EXCEPT !.role = r]
           R3 == [R2 EXCEPT !.agent = a]
           R4 == [R3 EXCEPT !.parent = n]
           R5 == [R4 EXCEPT !.packet = 0]
<1>1. R1 = [status |-> "preparing", role |-> "implementer", agent |-> "nobody",
            parent |-> 0, packet |-> 0, verdict |-> "none"]
  BY DEF Workflow!AbsentRun, Workflow!NoRun
<1> HIDE DEF R1
<1>2. R2 = [status |-> "preparing", role |-> r, agent |-> "nobody",
            parent |-> 0, packet |-> 0, verdict |-> "none"]
  BY <1>1
<1> HIDE DEF R2
<1>3. R3 = [status |-> "preparing", role |-> r, agent |-> a,
            parent |-> 0, packet |-> 0, verdict |-> "none"]
  BY <1>2
<1> HIDE DEF R3
<1>4. R4 = [status |-> "preparing", role |-> r, agent |-> a,
            parent |-> n, packet |-> 0, verdict |-> "none"]
  BY <1>3
<1> HIDE DEF R4
<1>5. R5 = [status |-> "preparing", role |-> r, agent |-> a,
            parent |-> n, packet |-> 0, verdict |-> "none"]
  BY <1>4
<1> QED BY <1>5, Zenon DEF R1, R2, R3, R4

\* createRunContext(): the row, and then the workspace.
LEMMA AdvanceMoves ==
  ASSUME PacedInv, Advance
  PROVE  Workflow!OpenRun(Worker) \/ Workflow!LaunchAgent(Worker)
<1>1. /\ SameRun /\ pc = "called" /\ pc' = "called" /\ signal' = signal
      /\ run' = run /\ outcome' = "none" /\ outcome = "none"
      /\ ~GivenUp /\ ~GivenUp'
  BY DEF Advance, vars, SameRun, PacedInv, RunInv, UnderWay, GivenUp
<1>2. /\ UNCHANGED <<Rows, Cache, Held, Used, Spent, Aborted>>
      /\ Place = at /\ Place' = at'
  BY <1>1, RestIsSame DEF Place
<1>3. Told = "none" /\ Told' = "none"
  BY <1>1 DEF Told
<1>4. /\ Task \in Kinds /\ Number \in {1, 2} /\ Task' = Task /\ Number' = Number
      /\ role' = role /\ role \in {"implementer", "reviewer"}
  BY <1>1, Numbers, SameNumbers DEF SameRun
<1>5. CASE at = "charged" /\ at' = "opened"
  <2>1. /\ Jobs[Worker].task = Task /\ Jobs[Worker].role = role
        /\ Jobs[Worker].agent = Agent /\ Jobs' = [Jobs EXCEPT ![Worker].run = Number]
    BY <1>3, <1>4, <1>5 DEF Jobs, Alone, Job
  <2>2. Opened[Task] + 1 = Number /\ Opened' = [Opened EXCEPT ![Task] = Number]
    <3>1. Opened = [t \in Kinds |-> IF t = Task THEN Number - 1 ELSE 0]
      BY <1>5 DEF Opened, Of
    <3>2. Opened' = [t \in Kinds |-> IF t = Task THEN Number ELSE 0]
      BY <1>4, <1>5 DEF Opened, Of
    <3>3. Opened[Task] = Number - 1
      BY <1>4, <3>1
    <3>4. Opened' = [Opened EXCEPT ![Task] = Number]
      <4> DEFINE n == Number - 1
      <4>1. Opened = [t \in Kinds |-> IF t = Task THEN n ELSE 0]
        BY <3>1
      <4> HIDE DEF n
      <4> QED BY <1>4, <3>2, <4>1
    <3> QED BY <1>4, <3>3, <3>4
  <2>3. Rows[Task].ctx.run = Number - 1 \/ role = "implementer"
    BY <1>1, <1>4 DEF Rows, Of, Row, Claimed, Number
  <2>4. Rows[Task].packet = 0
    BY <1>1, <1>4 DEF Rows, Of, Row, Claimed
  <2>5. OwnRow' = [status |-> "preparing", role |-> role, agent |-> Agent,
                   parent |-> Number - 1, packet |-> 0, verdict |-> "none"]
    BY <1>1, <1>4, <1>5 DEF OwnRow, Verdicts
  <2>6. Runs' = [Runs EXCEPT ![Task][Number] = OwnRow']
    <3>1. RunsOfTask' = [RunsOfTask EXCEPT ![Number] = OwnRow']
      BY <1>4 DEF RunsOfTask
    <3> QED BY <1>4, <3>1 DEF Runs, Of
  <2> DEFINE parent == IF role = "reviewer" THEN Rows[Task].ctx.run ELSE 0
             packet == IF role = "implementer" THEN Rows[Task].packet ELSE 0
             new    == [Workflow!AbsentRun EXCEPT !.status = "preparing", !.role = role,
                          !.agent = Agent, !.parent = parent, !.packet = packet]
  <2>7. parent = Number - 1 /\ packet = 0
    BY <1>4, <2>3, <2>4 DEF Number
  <2>8. new = OwnRow'
    <3> HIDE DEF parent, packet
    <3> QED BY <2>5, <2>7, NewRow
  <2>9. Runs' = [Runs EXCEPT ![Task][Number] = new]
    <3> HIDE DEF new
    <3> QED BY <2>6, <2>8
  <2>10. Workflow!Goto(Worker, "opened") /\ Places[Worker] = "charged"
    BY <1>2, <1>5, HandlerMoves DEF Places, Alone
  <2>11. Workflow!NoRun = 0
    BY DEF Workflow!NoRun
  <2> QED
    BY <1>2, <2>1, <2>2, <2>9, <2>10, <2>11 DEF Workflow!OpenRun, Workflow!queueVars
<1>6. CASE at = "opened" /\ at' = "agent"
  <2>1. /\ OwnRow = [status |-> "preparing", role |-> role, agent |-> Agent,
                     parent |-> Number - 1, packet |-> 0, verdict |-> "none"]
        /\ OwnRow' = [status |-> "running", role |-> role, agent |-> Agent,
                      parent |-> Number - 1, packet |-> 0, verdict |-> "none"]
    BY <1>1, <1>4, <1>6 DEF OwnRow, Verdicts
  <2>2. OwnRow' = [OwnRow EXCEPT !.status = "running", !.verdict = "none"]
    <3> DEFINE R1 == [OwnRow EXCEPT !.status = "running"]
    <3>1. R1 = OwnRow'
      BY <2>1
    <3>2. OwnRow' = [R1 EXCEPT !.verdict = "none"]
      <4> HIDE DEF R1
      <4> QED BY <2>1, <3>1
    <3> QED BY <3>2
  <2>3. Workflow!SetRun(Worker, "running", "none")
    BY <1>1, <1>6, <2>2, RunIsSet
  <2>4. Jobs' = Jobs /\ Opened' = Opened
    BY <1>3, <1>4, <1>6 DEF Jobs, Alone, Job, Opened, Of
  <2>5. Workflow!Goto(Worker, "agent") /\ Places[Worker] = "opened"
    BY <1>2, <1>6, HandlerMoves DEF Places, Alone
  <2> QED
    BY <1>2, <2>3, <2>4, <2>5 DEF Workflow!LaunchAgent, Workflow!queueVars
<1> QED BY <1>5, <1>6 DEF Advance

\* The run is under way, which TaskWorkflow has seen already.
LEMMA PrepareMoves ==
  ASSUME PacedInv, SameRun, at' = at, at = Reached, Prepare
  PROVE  UNCHANGED Workflow!vars
<1>1. /\ pc = "called" /\ pc' = "stat" /\ signal' = signal /\ at = "agent"
      /\ outcome' = "none" /\ outcome = "none" /\ run'.status = "running"
  BY DEF Prepare, Reached, PacedInv, RunInv, UnderWay, Running, RunTypeOK, Run
<1>2. GivenUp' <=> GivenUp
  BY <1>1 DEF GivenUp
<1>3. Place' = Place /\ Told' = Told
  BY <1>1, <1>2 DEF Place, Told
<1>4. OwnRow' = OwnRow
  BY <1>1, SameNumbers DEF OwnRow, SameRun, Agent
<1> QED BY <1>1, <1>2, <1>3, <1>4, RunUnseen

\* createRunContext() fails.
LEMMA PrepareFailsMoves ==
  ASSUME PacedInv, SameRun, at' = at, at = Reached, PrepareFails
  PROVE  Workflow!PrepareFails(Worker) \/ Workflow!GiveUp(Worker)
<1>1. pc = "called" /\ pc' = "done" /\ signal' = signal /\ ~signal
  BY DEF PrepareFails, Answer, PacedInv, RunInv, SignalHeard
<1>2. CASE outcome' = "gave_up"
  <2>1. run'.status \in {"none", "preparing"}
    BY <1>2 DEF PrepareFails, Answer, PacedInv, RunInv, RunTypeOK, Run
  <2>2. at = IF run'.status = "none" THEN "charged" ELSE "opened"
    BY <1>2, <2>1 DEF Reached
  <2> QED BY <1>1, <1>2, <2>1, <2>2, RunIsGivenUp
<1>3. CASE outcome' = "context_failed"
  <2>1. run'.status \in {"preparing", "running", "failed"}
    BY <1>3 DEF PrepareFails, Answer, Open
  <2>2. at = "opened" /\ Told' = "internal_error"
    BY <1>3, <2>1 DEF Reached, Told
  <2>3. /\ Workflow!Finish(Worker, run'.status, "internal_error")
        /\ UNCHANGED <<Rows, Cache, Held, Used, Spent, Opened, Aborted>>
    BY <1>1, <1>3, <2>2, RunIsFinished DEF Outcomes
  <2>4. Places[Worker] = "opened"
    BY <1>1, <2>2 DEF Places, Alone, Place
  <2>5. CASE run'.status = "failed"
    BY <2>3, <2>4, <2>5 DEF Workflow!PrepareFails, Workflow!queueVars
  <2>6. CASE run'.status \in {"preparing", "running"}
    <3>1. /\ Workflow!SetRun(Worker, run'.status, "none")
          /\ Jobs' = [Jobs EXCEPT ![Worker].outcome = "internal_error"]
          /\ Workflow!Goto(Worker, "ran")
      BY <2>3 DEF Workflow!Finish, Workflow!Verdicts
    <3>2. run'.status \in Workflow!OpenStatuses
      BY <2>6 DEF Workflow!OpenStatuses
    <3> QED
      BY <2>3, <2>4, <3>1, <3>2 DEF Workflow!PrepareFails, Workflow!queueVars
  <2> QED BY <2>1, <2>5, <2>6
<1> QED BY <1>2, <1>3 DEF PrepareFails, Answer

-----------------------------------------------------------------------------
(* From the brief to the agent. *)

\* Where the handler is, and what it was told of the signal, as TaskWorkflow has it.
LEMMA AtTheAgent ==
  ASSUME PacedInv, at = "agent", pc \in {"called", "stat", "agent"}
  PROVE  /\ Places[Worker] = "agent"
         /\ Jobs[Worker].task = Task /\ Jobs[Worker].role = role
         /\ Aborted[Worker] = signal
BY DEF Places, Jobs, Aborted, Alone, Place, Job

\* An agent that failed, in the one role or the other.
LEMMA AgentFailed ==
  ASSUME PacedInv, SameRun, at' = at, at = "agent", signal' = signal,
         pc \in {"called", "stat", "agent"}, pc' = "done", run'.status = "failed",
         \/ outcome' \in {"agent_timed_out", "agent_nonzero_exit", "spawn_failed", "internal_error"}
         \/ outcome' = "quota" /\ ~signal
  PROVE  Workflow!ImplementerDone(Worker) \/ Workflow!ReviewerDone(Worker)
<1>1. /\ Workflow!Finish(Worker, "failed", Told')
      /\ UNCHANGED <<Rows, Cache, Held, Used, Spent, Opened, Aborted>>
  BY RunIsFinished DEF Outcomes
<1>2. Told' \in Workflow!Failures(Worker)
  BY AtTheAgent DEF Told, Workflow!Failures, Workflow!AgentFailures
<1>3. role \in {"implementer", "reviewer"}
  BY Numbers
<1> QED
  BY <1>1, <1>2, <1>3, AtTheAgent
  DEF Workflow!ImplementerDone, Workflow!ReviewerDone, Workflow!queueVars

\* The brief cannot be written.
LEMMA BriefFailsMoves ==
  ASSUME PacedInv, SameRun, at' = at, at = Reached, BriefFails
  PROVE  RunStep
<1>1. /\ pc = "called" /\ signal' = signal /\ Caught(Running) /\ run \in Run
  BY DEF BriefFails, PacedInv, RunInv, RunTypeOK
<1>2. Running \in Run /\ Running.status = "running"
  BY <1>1 DEF Running, Run, Open
<1>3. /\ pc' = "done"
      /\ \/ outcome' = "internal_error" /\ run'.status = "failed"
         \/ Rejects("failed")
  BY <1>1, <1>2, CaughtTells
<1>4. at = "agent"
  <2>1. ~signal
    BY <1>1 DEF PacedInv, RunInv, SignalHeard
  <2> QED BY <1>3, <2>1 DEF Reached, Rejects
<1>5. CASE outcome' = "internal_error" /\ run'.status = "failed"
  BY <1>1, <1>3, <1>4, <1>5, AgentFailed DEF RunStep
<1>6. CASE Rejects("failed")
  BY <1>1, <1>3, <1>4, <1>6, RunRejects DEF RunStep
<1> QED BY <1>3, <1>5, <1>6

\* The diff under review is refused.
LEMMA DiffRefusedMoves ==
  ASSUME PacedInv, SameRun, at' = at, at = Reached, DiffRefused
  PROVE  RunStep
<1>1. /\ pc = "called" /\ signal' = signal /\ ~signal /\ run \in Run /\ role = "reviewer"
  BY DEF DiffRefused, PacedInv, RunInv, RunTypeOK, SignalHeard
<1>2. Running \in Run /\ Running.status = "running"
  BY <1>1 DEF Running, Run, Open
<1>3. /\ pc' = "done"
      /\ \/ outcome' = "diff_apply_failed" /\ run'.status = "failed"
         \/ Rejects("failed")
  <2>1. CASE Rejected(Running)
    BY <1>2, <2>1, RejectedTells
  <2>2. ASSUME NEW f \in Finished(Running, "failed"),
               (f.ok /\ Answer(f.run, "diff_apply_failed")) \/ Rejected(f.run)
        PROVE  /\ pc' = "done"
               /\ \/ outcome' = "diff_apply_failed" /\ run'.status = "failed"
                  \/ Rejects("failed")
    <3>1. /\ f.run \in Run /\ (f.ok => f.run.status = "failed")
          /\ f.run.status \in {"running", "failed"}
      <4>1. f.run \in Run /\ (f.ok => f.run.status = "failed")
        BY <1>2, FinishedIsRun
      <4>2. f.run.status \in {"running", "failed"}
        BY <1>2 DEF Finished, Run
      <4> QED BY <4>1, <4>2
    <3>2. CASE f.ok /\ Answer(f.run, "diff_apply_failed")
      BY <3>1, <3>2 DEF Answer
    <3>3. CASE Rejected(f.run)
      BY <3>1, <3>3, RejectedTells
    <3> QED BY <2>2, <3>2, <3>3
  <2> QED BY <2>1, <2>2 DEF DiffRefused
<1>4. CASE outcome' = "diff_apply_failed" /\ run'.status = "failed"
  <2>1. at = "opened" /\ Told' = "diff_apply_failed"
    BY <1>4 DEF Reached, Told
  <2>2. /\ Workflow!Finish(Worker, "failed", "diff_apply_failed")
        /\ UNCHANGED <<Rows, Cache, Held, Used, Spent, Opened, Aborted>>
    BY <1>1, <1>3, <1>4, <2>1, RunIsFinished DEF Outcomes
  <2>3. Places[Worker] = "opened" /\ Jobs[Worker].role = "reviewer"
    BY <1>1, <2>1 DEF Places, Jobs, Job, Alone, Place
  <2> QED BY <2>2, <2>3 DEF Workflow!PrepareFails, Workflow!queueVars, RunStep
<1>5. CASE Rejects("failed")
  <2>1. at = "agent"
    BY <1>1, <1>5 DEF Rejects, Reached
  <2> QED BY <1>1, <1>3, <1>5, <2>1, RunRejects DEF RunStep
<1> QED BY <1>3, <1>4, <1>5

\* There is nothing to start.
LEMMA LaunchFailsMoves ==
  ASSUME PacedInv, SameRun, at' = at, LaunchFails
  PROVE  RunStep
<1>1. /\ pc = "stat" /\ signal' = signal /\ run \in Run /\ run.status = "running"
      /\ at = "agent" /\ signal \in BOOLEAN
  BY DEF LaunchFails, PacedInv, RunInv, RunTypeOK, UnderWay, ChildTypeOK
<1>2. CASE Conclude("failed", "spawn_failed")
  <2>1. /\ pc' = "done"
        /\ \/ outcome' \in {"spawn_failed", "internal_error"} /\ run'.status = "failed"
           \/ Rejects("failed")
    BY <1>1, <1>2, ConcludeTells
  <2>2. CASE outcome' \in {"spawn_failed", "internal_error"} /\ run'.status = "failed"
    BY <1>1, <2>1, <2>2, AgentFailed DEF RunStep
  <2>3. CASE Rejects("failed")
    BY <1>1, <2>1, <2>3, RunRejects DEF RunStep
  <2> QED BY <2>1, <2>2, <2>3
<1>3. CASE signal /\ Interrupted
  <2>1. pc' = "done" /\ outcome' = "interrupted" /\ run'.status \in {"running", "cancelled"}
    BY <1>1, <1>3, InterruptedEnds
  <2> QED BY <1>1, <1>3, <2>1, RunIsPassedOn DEF RunStep
<1> QED BY <1>2, <1>3 DEF LaunchFails
-----------------------------------------------------------------------------
(* The ends of an agent and of a command. *)

\* Either of them is interrupted.
LEMMA InterruptedMoves ==
  ASSUME PacedInv, SameRun, at' = at, AgentInterrupted \/ CommandInterrupted
  PROVE  RunStep
<1>1. /\ pc \in {"agent", "verify"} /\ signal /\ signal' = signal
      /\ run \in Run /\ run.status = "running" /\ Interrupted
  BY DEF AgentInterrupted, CommandInterrupted, PacedInv, RunInv, RunTypeOK, UnderWay
<1>2. pc' = "done" /\ outcome' = "interrupted" /\ run'.status \in {"running", "cancelled"}
  BY <1>1, InterruptedEnds
<1> QED BY <1>1, <1>2, RunIsPassedOn DEF RunStep

\* The agent ends, and the run with it.
LEMMA AgentEndsMoves ==
  ASSUME PacedInv, SameRun, at' = at, AgentEnds
  PROVE  RunStep
<1>1. /\ pc = "agent" /\ at = "agent" /\ signal' = signal /\ signal \in BOOLEAN
      /\ run \in Run /\ run.status = "running"
      /\ role \in {"implementer", "reviewer"}
  BY Numbers DEF AgentEnds, PacedInv, RunInv, RunTypeOK, UnderWay, ChildTypeOK
<1>2. signal => Failed(AgentResult) /\ Reasons(AgentResult) = {"agent_timed_out"}
  <2>1. signal => adapter.timedOut
    BY <1>1 DEF AgentEnds, PacedInv, RunInv, SignalHeard
  <2> QED BY <2>1 DEF Failed, Reasons, AgentResult
<1>3. ASSUME outcome' = "internal_error", run'.status = "failed", pc' = "done"
      PROVE  RunStep
  BY <1>1, <1>3, AgentFailed DEF RunStep
<1>4. CASE Caught(run)
  <2>1. /\ pc' = "done"
        /\ \/ outcome' = "internal_error" /\ run'.status = "failed"
           \/ Rejects("failed")
    BY <1>1, <1>4, CaughtTells
  <2> QED BY <1>1, <1>3, <2>1, RunRejects DEF RunStep
<1>5. ASSUME NEW reason \in Reasons(AgentResult), Conclude("failed", reason)
      PROVE  RunStep
  <2>1. /\ pc' = "done"
        /\ \/ outcome' = reason /\ run'.status = "failed"
           \/ outcome' = "internal_error" /\ run'.status = "failed"
           \/ Rejects("failed")
    BY <1>1, <1>5, ConcludeTells
  <2>2. /\ reason \in {"agent_timed_out", "agent_nonzero_exit", "quota"}
        /\ signal => reason = "agent_timed_out"
    BY <1>2 DEF Reasons
  <2>3. CASE outcome' = reason /\ run'.status = "failed"
    BY <1>1, <2>1, <2>2, <2>3, AgentFailed DEF RunStep
  <2> QED BY <1>1, <1>3, <2>1, <2>3, RunRejects DEF RunStep
<1>6. ASSUME ~signal, NEW status \in {"succeeded", "failed"}, NEW o, Conclude(status, o),
             \/ role = "reviewer" /\ status = "failed" /\ o = "reviewer_unusable"
             \/ role = "reviewer" /\ status = "succeeded" /\ o \in Verdicts
             \/ role = "implementer" /\ plan = 0 /\ status = "succeeded" /\ o = "succeeded"
      PROVE  RunStep
  <2>1. /\ pc' = "done"
        /\ \/ outcome' = o /\ run'.status = status
           \/ outcome' = "internal_error" /\ run'.status = "failed"
           \/ Rejects(status)
    BY <1>1, <1>6, ConcludeTells
  <2>2. CASE outcome' = o /\ run'.status = status
    <3>1. o \in Outcomes \ {"none", "interrupted", "gave_up"} /\ Told' = o
      BY <1>6, <2>2 DEF Outcomes, Verdicts, Told
    <3>2. /\ Workflow!Finish(Worker, status, o)
          /\ UNCHANGED <<Rows, Cache, Held, Used, Spent, Opened, Aborted>>
      BY <1>1, <2>1, <2>2, <3>1, RunIsFinished
    <3>3. /\ Places[Worker] = "agent" /\ Jobs[Worker].role = role
          /\ Jobs[Worker].task = Task /\ ~Aborted[Worker]
      BY <1>1, <1>6, AtTheAgent
    <3>4. CASE role = "reviewer"
      BY <1>6, <3>2, <3>3, <3>4
      DEF Workflow!ReviewerDone, Workflow!Verdicts, Verdicts, Workflow!queueVars, RunStep
    <3>5. CASE role = "implementer"
      <4>1. status = "succeeded" /\ o = "succeeded" /\ Task # "checked"
        BY <1>6, <3>5, Numbers DEF Task
      <4> QED
        BY <3>2, <3>3, <3>5, <4>1 DEF Workflow!ImplementerDone, Workflow!queueVars, RunStep
    <3> QED BY <1>1, <3>4, <3>5
  <2> QED BY <1>1, <1>3, <1>6, <2>1, <2>2, RunRejects DEF RunStep
<1>7. CASE ~Failed(AgentResult)
  <2>1. ~signal
    BY <1>2, <1>7
  <2> QED BY <1>4, <1>6, <1>7, <2>1 DEF AgentEnds
<1> QED BY <1>4, <1>5, <1>7 DEF AgentEnds

\* The agent has done its work and the first command starts.
LEMMA AgentPassesMoves ==
  ASSUME PacedInv, SameRun, at' = at, AgentPasses
  PROVE  RunStep
<1>1. /\ pc = "agent" /\ pc' = "verify" /\ at = "agent" /\ UNCHANGED <<signal, run, outcome>>
      /\ outcome = "none" /\ role = "implementer" /\ plan > 0 /\ ~signal
  BY DEF AgentPasses, PacedInv, RunInv, UnderWay, SignalHeard, Failed, AgentResult
<1>2. ~GivenUp /\ ~GivenUp' /\ Told' = Told /\ Place' = "verifying"
  BY <1>1 DEF GivenUp, Told, Place
<1>3. OwnRow' = OwnRow
  BY <1>1, SameNumbers DEF OwnRow, SameRun, Agent
<1>4. UNCHANGED <<Rows, Cache, Held, Used, Spent, Opened, Aborted, Runs>>
  BY <1>1, <1>2, <1>3, RestIsSame, RunIsSame
<1>5. Jobs' = Jobs
  BY <1>2, SameNumbers DEF Jobs, Alone, Job, SameRun, Agent
<1>6. Workflow!Goto(Worker, "verifying") /\ Task = "checked"
  BY <1>1, <1>2, HandlerMoves DEF Task
<1>7. /\ Places[Worker] = "agent" /\ Jobs[Worker].role = "implementer"
      /\ Jobs[Worker].task = Task /\ ~Aborted[Worker]
  BY <1>1, AtTheAgent
<1> QED
  BY <1>4, <1>5, <1>6, <1>7 DEF Workflow!ImplementerDone, Workflow!queueVars, RunStep

\* The last command ends, or one that failed.
LEMMA CommandEndsMoves ==
  ASSUME PacedInv, SameRun, at' = at, CommandEnds
  PROVE  RunStep
<1>1. /\ pc = "verify" /\ at = "agent" /\ signal' = signal /\ ~signal
      /\ run \in Run /\ run.status = "running"
  BY DEF CommandEnds, PacedInv, RunInv, RunTypeOK, UnderWay, SignalHeard
<1>2. \/ Conclude("succeeded", "succeeded")
      \/ Conclude("failed", "verification_failed")
      \/ Caught(run)
  BY DEF CommandEnds
<1>3. /\ pc' = "done"
      /\ \/ outcome' = "succeeded" /\ run'.status = "succeeded"
         \/ outcome' \in {"verification_failed", "internal_error"} /\ run'.status = "failed"
         \/ Rejects("succeeded") \/ Rejects("failed")
  <2>1. CASE Conclude("succeeded", "succeeded")
    BY <1>1, <2>1, ConcludeTells
  <2>2. CASE Conclude("failed", "verification_failed")
    BY <1>1, <2>2, ConcludeTells
  <2>3. CASE Caught(run)
    BY <1>1, <2>3, CaughtTells
  <2> QED BY <1>2, <2>1, <2>2, <2>3
<1>4. CASE Rejects("succeeded") \/ Rejects("failed")
  BY <1>1, <1>3, <1>4, RunRejects DEF RunStep
<1>5. CASE outcome' \in {"succeeded", "verification_failed", "internal_error"}
  <2>1. /\ outcome' \in Outcomes \ {"none", "interrupted", "gave_up"} /\ Told' = outcome'
    BY <1>5 DEF Outcomes, Told
  <2>2. /\ Workflow!Finish(Worker, run'.status, outcome')
        /\ UNCHANGED <<Rows, Cache, Held, Used, Spent, Opened, Aborted>>
    BY <1>1, <1>3, <2>1, RunIsFinished
  <2>3. Places[Worker] = "verifying" /\ ~Aborted[Worker]
    BY <1>1 DEF Places, Aborted, Alone, Place
  <2>4. \/ outcome' = "succeeded" /\ run'.status = "succeeded"
        \/ outcome' \in {"verification_failed", "internal_error"} /\ run'.status = "failed"
    BY <1>3, <1>5 DEF Rejects
  <2> QED BY <2>2, <2>3, <2>4 DEF Workflow!VerifierDone, Workflow!queueVars, RunStep
<1> QED BY <1>3, <1>4, <1>5
-----------------------------------------------------------------------------
\* The worker aborts the signal.
LEMMA AbortMoves ==
  ASSUME PacedInv, SameRun, at' = at, Abort
  PROVE  RunStep
<1>1. /\ pc \in {"stat", "agent", "verify"} /\ pc' = pc /\ at = "agent"
      /\ run' = run /\ outcome' = outcome /\ outcome = "none" /\ ~signal /\ signal' = TRUE
  BY DEF Abort, PacedInv, RunInv, UnderWay
<1>2. ~GivenUp /\ ~GivenUp' /\ Told' = Told /\ Place' = Place
  BY <1>1 DEF GivenUp, Told, Place
<1>3. OwnRow' = OwnRow
  BY <1>1, SameNumbers DEF OwnRow, SameRun, Agent
<1>4. UNCHANGED <<Rows, Cache, Held, Used, Spent, Opened, Runs>>
  BY <1>1, <1>2, <1>3, RestIsSame, RunIsSame
<1>5. Jobs' = Jobs /\ Places' = Places
  BY <1>2, SameNumbers DEF Jobs, Places, Alone, Job, SameRun, Agent
<1>6. Aborted' = [Aborted EXCEPT ![Worker] = TRUE] /\ ~Aborted[Worker]
  BY <1>1 DEF Aborted, Alone
<1>7. Places[Worker] \in {"agent", "verifying"}
  BY <1>1 DEF Places, Alone, Place
<1> QED
  BY <1>4, <1>5, <1>6, <1>7 DEF Workflow!Abort, Workflow!Waiting, Workflow!queueVars, RunStep

\* The agent starts, a timer goes off, a child ends, a command follows another.
LEMMA WaitMoves ==
  ASSUME PacedInv, SameRun, at' = at,
         Launch \/ Timeout \/ ChildExits \/ ChildEnds \/ CommandPasses
  PROVE  UNCHANGED Workflow!vars
<1>1. UNCHANGED <<signal, run, outcome>> /\ (pc' = pc \/ (pc = "stat" /\ pc' = "agent"))
  BY DEF Launch, Timeout, AgentTimesOut, CommandTimesOut, ChildExits, ChildEnds,
         CommandPasses, ownVars
<1> QED BY <1>1, WaitUnseen

\* Every step but those of the preparation.
LEMMA MoveMoves ==
  ASSUME PacedInv, Move
  PROVE  [RunStep]_(Workflow!vars)
<1>1. Next /\ (pc = "called" => at = Reached) /\ at' = at
  BY DEF Move
<1>2. SameRun
  BY <1>1
  DEF Next, Step, Timeout, Prepare, PrepareFails, BriefFails, DiffRefused, Launch, LaunchFails,
      AgentInterrupted, AgentEnds, AgentPasses, CommandInterrupted, CommandEnds, CommandPasses,
      AgentTimesOut, CommandTimesOut, Abort, ChildExits, ChildEnds, ownVars, SameRun
<1>3. CASE Prepare
  BY <1>1, <1>2, <1>3, PrepareMoves DEF Prepare
<1>4. CASE PrepareFails
  BY <1>1, <1>2, <1>4, PrepareFailsMoves DEF PrepareFails, RunStep
<1>5. CASE BriefFails
  BY <1>1, <1>2, <1>5, BriefFailsMoves DEF BriefFails
<1>6. CASE DiffRefused
  BY <1>1, <1>2, <1>6, DiffRefusedMoves DEF DiffRefused
<1>7. CASE LaunchFails
  BY <1>1, <1>2, <1>7, LaunchFailsMoves
<1>8. CASE AgentInterrupted \/ CommandInterrupted
  BY <1>1, <1>2, <1>8, InterruptedMoves
<1>9. CASE AgentEnds \/ AgentPasses
  BY <1>1, <1>2, <1>9, AgentEndsMoves, AgentPassesMoves
<1>10. CASE CommandEnds
  BY <1>1, <1>2, <1>10, CommandEndsMoves
<1>11. CASE Abort
  BY <1>1, <1>2, <1>11, AbortMoves
<1>12. CASE Launch \/ Timeout \/ ChildExits \/ ChildEnds \/ CommandPasses
  BY <1>1, <1>2, <1>12, WaitMoves
<1> QED
  BY <1>1, <1>3, <1>4, <1>5, <1>6, <1>7, <1>8, <1>9, <1>10, <1>11, <1>12 DEF Next, Step
-----------------------------------------------------------------------------
LEMMA PacedStarts == PacedInit => PacedInv
BY RunInit DEF PacedInit, PacedInv, Init, NoAgentYet, NoCommand

\* The run waits for an agent or a command only once it is prepared.
LEMMA PacedKeepsPlace ==
  ASSUME PacedInv, Move
  PROVE  pc' \in {"stat", "agent", "verify"} => at' = "agent"
<1>1. Next /\ (pc = "called" => at = Reached) /\ at' = at
  BY DEF Move
<1>2. CASE Prepare
  <2>1. pc = "called" /\ run'.status = "running" /\ outcome' = "none"
    BY <1>2 DEF Prepare, Running, PacedInv, RunInv, RunTypeOK, UnderWay, Run
  <2> QED BY <1>1, <2>1 DEF Reached
<1>3. CASE pc = "called" /\ ~Prepare
  <2>1. pc' \in {"called", "done"}
    BY <1>1, <1>3
    DEF Next, Step, Timeout, PrepareFails, BriefFails, DiffRefused, Launch, LaunchFails,
        AgentInterrupted, AgentEnds, AgentPasses, CommandInterrupted, CommandEnds, CommandPasses,
        AgentTimesOut, CommandTimesOut, Abort, ChildExits, ChildEnds, ownVars,
        Answer, Caught, Rejected
  <2> QED BY <2>1
<1>4. CASE pc # "called"
  <2>1. pc \in {"stat", "agent", "verify"} \/ pc = "done"
    BY <1>4 DEF PacedInv, RunInv, RunTypeOK
  <2>2. pc = "done" => pc' = "done"
    BY <1>1
    DEF Next, Step, Timeout, Prepare, PrepareFails, BriefFails, DiffRefused, Launch, LaunchFails,
        AgentInterrupted, AgentEnds, AgentPasses, CommandInterrupted, CommandEnds, CommandPasses,
        AgentTimesOut, CommandTimesOut, Abort, ChildExits, ChildEnds, ownVars
  <2> QED BY <1>1, <2>1, <2>2 DEF PacedInv
<1> QED BY <1>2, <1>3, <1>4

\* An agent or a command is interrupted only after an abort.
LEMMA PacedKeepsAborts ==
  ASSUME PacedInv, Next
  PROVE  adapter'.aborting \/ command'.aborted => signal'
<1>1. /\ adapter \in Adapter /\ command \in Command /\ signal \in BOOLEAN
      /\ adapter.aborting \/ command.aborted => signal
  BY DEF PacedInv, RunInv, RunTypeOK, AdapterTypeOK, VerifierTypeOK, ChildTypeOK
<1>2. CASE Abort
  BY <1>2 DEF Abort
<1>3. CASE Launch
  BY <1>1, <1>3 DEF Launch, StartAgent, NoAgentYet
<1>4. CASE AgentInterrupted \/ AgentEnds
  BY <1>1, <1>4 DEF AgentInterrupted, AgentEnds, AgentClose, Adapter
<1>5. CASE AgentPasses \/ CommandPasses
  BY <1>1, <1>5 DEF AgentPasses, CommandPasses, StartCommand, NoCommand, Adapter
<1>6. CASE CommandInterrupted \/ CommandEnds
  BY <1>1, <1>6 DEF CommandInterrupted, CommandEnds, CommandClose, Command
<1>7. CASE Timeout
  BY <1>1, <1>7
  DEF Timeout, AgentTimesOut, CommandTimesOut, AgentTimeout, CommandTimeout, Adapter, Command
<1>8. CASE ChildExits \/ ChildEnds
  BY <1>1, <1>8 DEF ChildExits, ChildEnds, ownVars
<1>9. CASE Prepare \/ PrepareFails \/ BriefFails \/ DiffRefused \/ LaunchFails
  BY <1>1, <1>9 DEF Prepare, PrepareFails, BriefFails, DiffRefused, LaunchFails, waitVars
<1> QED
  BY <1>2, <1>3, <1>4, <1>5, <1>6, <1>7, <1>8, <1>9 DEF Next, Step

LEMMA PacedKeeps == PacedInv /\ [PacedNext]_pacedVars => PacedInv'
<1> SUFFICES ASSUME PacedInv, [PacedNext]_pacedVars PROVE PacedInv'
  OBVIOUS
<1>1. RunInv'
  <2>1. [Next]_vars
    BY DEF PacedNext, Advance, Move, pacedVars
  <2> QED BY <2>1, RunNext DEF PacedInv
<1>2. CASE UNCHANGED pacedVars
  BY <1>1, <1>2 DEF PacedInv, pacedVars, vars
<1>3. CASE Advance
  BY <1>1, <1>3 DEF PacedInv, Advance, vars
<1>4. CASE Move
  BY <1>1, <1>4, PacedKeepsPlace, PacedKeepsAborts DEF PacedInv, Move
<1> QED BY <1>2, <1>3, <1>4 DEF PacedNext

\* A run, however it is interleaved with timeouts, exits and the abort, and whichever
\* of its writes fail, goes through the steps that the handler of TaskWorkflow has
\* for it, for any number of commands (runTaskOnce(), the adapter, the verifier, the
\* catch around runTaskOnce()).
THEOREM RunsAreTheWorkflows == PacedSpec => WorkflowHasIt
<1>1. ASSUME PacedInv, [PacedNext]_pacedVars
      PROVE  [RunStep]_(Workflow!vars)
  <2>1. CASE UNCHANGED pacedVars
    <3>1. SameRun /\ UNCHANGED <<at, signal, run, outcome, pc>>
      BY <2>1 DEF pacedVars, vars, SameRun
    <3> QED BY <1>1, <3>1, WaitUnseen
  <2>2. CASE Advance
    BY <1>1, <2>2, AdvanceMoves DEF RunStep
  <2>3. CASE Move
    BY <1>1, <2>3, MoveMoves
  <2> QED BY <1>1, <2>1, <2>2, <2>3 DEF PacedNext
<1> QED BY <1>1, PacedStarts, PacedKeeps, PTL DEF PacedSpec, WorkflowHasIt
=============================================================================
