------------------------- MODULE TaskWorkflowProofs -------------------------
(***************************************************************************)
(* Proofs about TaskWorkflow, for any tasks, workers, agents, budgets,     *)
(* clocks and disturbances.                                                *)
(*                                                                         *)
(* The properties speak of tasks and of their runs; none of them is        *)
(* inductive, since what a run or a row becomes is decided by the handler  *)
(* that has the task in hand, step by step.  FlowInv says what that        *)
(* handler may rely on at each pc (WorkerInv) and what is true of a task   *)
(* whoever has it (TaskInv).  The properties of the runs of a task, of the *)
(* workers' maps and of the packets each add what they need to it: see     *)
(* OpenInv, InProgress, MapsAgree and PacketInv.                           *)
(***************************************************************************)
EXTENDS TaskWorkflow, TaskQueueProofs, TLAPS

\* Where a worker has a task in hand; where its handler has opened a run; and
\* where that run has ended.
Working   == PCs \ {"off", "idle", "released"}
Launching == {"opened", "agent", "verifying"}
HasResult == {"ran", "accounted", "excluded", "persisted"}
HasRun    == Launching \cup HasResult

\* An implementation that awaits a review, or was reviewed.
IsCoded(t, q) == runs[t][q].role = "implementer" /\ runs[t][q].status = "succeeded"

\* q is the latest implementation of t before its run r.
LatestCoded(t, q, r) ==
  /\ q \in 1..(r - 1)
  /\ IsCoded(t, q)
  /\ \A p \in 1..(r - 1) : IsCoded(t, p) => p <= q

\* The entry in hand is the one of the handler's task.
InHand(w) ==
  IF pc[w] \in Working
  THEN /\ job[w].task \in Tasks
       /\ held[w].task = job[w].task
       /\ held[w].role = job[w].role
  ELSE held[w].task = NoTask

\* The charge is ahead of the row of the run, and the run ahead of the attempt.
Ahead(w) ==
  /\ pc[w] = "charged" => opened[job[w].task] < used[job[w].task]
  /\ pc[w] \in HasRun  => rows[job[w].task].attempts < opened[job[w].task]

\* The agent of a handler, who is not the author of what it reviews.
Picked(w) ==
  pc[w] \in {"charged"} \cup HasRun =>
    /\ job[w].agent \in Agents
    /\ job[w].role = "reviewer" => job[w].agent # rows[job[w].task].ctx.agent

\* The run of a handler is the last one of its task.
OwnRun(w) ==
  pc[w] \in HasRun =>
    /\ job[w].run = opened[job[w].task]
    /\ runs[job[w].task][job[w].run].role = job[w].role
    /\ runs[job[w].task][job[w].run].agent = job[w].agent

\* Only an implementation is verified, and what the handler knows of its run is
\* what the table says.
Knows(w) ==
  /\ pc[w] = "verifying" => job[w].role = "implementer"
  /\ pc[w] \in HasResult =>
       LET run == runs[job[w].task][job[w].run]
       IN  /\ job[w].outcome = "succeeded" =>
                job[w].role = "implementer" /\ run.status = "succeeded"
           /\ job[w].outcome \in Verdicts =>
                /\ job[w].role = "reviewer"
                /\ run.status = "succeeded"
                /\ run.verdict = job[w].outcome

\* A packet is not written for a success, and a success is released once its
\* review context is in the row.
Noted(w) ==
  /\ pc[w] = "excluded" => job[w].outcome # "succeeded"
  /\ pc[w] = "persisted" /\ job[w].outcome = "succeeded" =>
       rows[job[w].task].ctx = [run |-> job[w].run, agent |-> job[w].agent]

WorkerInv(w) ==
  InHand(w) /\ Ahead(w) /\ Picked(w) /\ OwnRun(w) /\ Knows(w) /\ Noted(w)

\* Attempts, runs, charges, budget.
WithinBudget(t) ==
  /\ rows[t].attempts <= opened[t]
  /\ opened[t] <= used[t]
  /\ used[t] <= MaxRuns

\* The row of a task that was not submitted says nothing of it.
AbsentIsBlank(t) ==
  rows[t].status = "absent" =>
    rows[t].role = "implementer" /\ rows[t].attempts = 0 /\ opened[t] = 0

\* The row of a task to review names its latest implementation and who made it.
ReviewReady(t) ==
  rows[t].role = "reviewer" =>
    /\ t \in Reviewed
    /\ LatestCoded(t, rows[t].ctx.run, opened[t] + 1)
    /\ runs[t][rows[t].ctx.run].agent = rows[t].ctx.agent

\* So do the runs that were reviews.
ReviewsOf(t) ==
  \A r \in 1..opened[t] : runs[t][r].role = "reviewer" =>
    /\ LatestCoded(t, runs[t][r].parent, r)
    /\ runs[t][r].agent # runs[t][runs[t][r].parent].agent

\* The last run of an accepted task is why it is.
AcceptedFor(t) ==
  rows[t].status = "accepted" =>
    /\ opened[t] > 0
    /\ runs[t][opened[t]].status = "succeeded"
    /\ IF t \in Reviewed THEN runs[t][opened[t]].verdict = "approved"
       ELSE runs[t][opened[t]].role = "implementer"

TaskInv(t) ==
  /\ WithinBudget(t) /\ AbsentIsBlank(t)
  /\ ReviewReady(t) /\ ReviewsOf(t) /\ AcceptedFor(t)

FlowInv ==
  /\ WorkflowTypeOK /\ HolderOwnsRow /\ OwnedIffDispatched
  /\ \A w \in Workers : WorkerInv(w)
  /\ \A t \in Tasks : TaskInv(t)
-----------------------------------------------------------------------------
(* What a handler may rely on. *)

\* Everything a worker may do by itself or by what it waits for.
Move(w) == Step(w) \/ Answer(w) \/ Abort(w) \/ Disturb(w)

\* The parts of the invariant, and the assumptions on the constants, that most
\* steps below use.
LEMMA Parts ==
  ASSUME FlowInv
  PROVE  /\ WorkflowTypeOK /\ QueueTypeOK /\ QueueInv /\ HolderOwnsRow
         /\ \A w \in Workers : WorkerInv(w)
         /\ \A t \in Tasks : TaskInv(t)
BY DEF FlowInv, WorkflowTypeOK, QueueInv

\* A worker at work has a task of the table in hand, dispatched to it.
LEMMA AtWork ==
  ASSUME FlowInv, NEW w \in Workers, pc[w] \in Working
  PROVE  /\ job[w].task \in Tasks /\ job[w].task # NoTask
         /\ held[w].task = job[w].task
         /\ held[w].role = job[w].role
         /\ rows[job[w].task].status = "dispatched"
         /\ rows[job[w].task].role = job[w].role
         /\ rows[job[w].task].attempts = held[w].attempts
<1>1. InHand(w) /\ HolderOwnsRow
  BY Parts DEF WorkerInv
<1> QED BY <1>1, QueueAssumption DEF InHand, HolderOwnsRow

\* The run of a handler has a number the table has room for.
LEMMA RunNumber ==
  ASSUME FlowInv, NEW w \in Workers, pc[w] \in HasRun
  PROVE  /\ job[w].run = opened[job[w].task]
         /\ job[w].run \in RunIds /\ job[w].run \in Nat \ {0}
         /\ job[w].run <= MaxRuns
<1>1. job[w].task \in Tasks
  BY AtWork DEF HasRun, Launching, HasResult, Working, PCs
<1>2. OwnRun(w) /\ Ahead(w) /\ WithinBudget(job[w].task) /\ WorkflowTypeOK
  BY <1>1, Parts DEF WorkerInv, TaskInv
<1>3. /\ opened[job[w].task] \in Nat /\ used[job[w].task] \in Nat
      /\ rows[job[w].task].attempts \in Nat
  BY <1>1, <1>2 DEF WorkflowTypeOK, QueueTypeOK, Row
<1>4. job[w].run = opened[job[w].task] /\ rows[job[w].task].attempts < opened[job[w].task]
  BY <1>2 DEF OwnRun, Ahead
<1> QED BY <1>2, <1>3, <1>4, WorkflowAssumption DEF WithinBudget

\* What a packet is about is a run and an agent.
LEMMA OriginIsRun ==
  ASSUME FlowInv, NEW w \in Workers, pc[w] \in HasRun
  PROVE  Origin(w) \in [run : RunIds, agent : Agents]
<1>1. /\ job[w].task \in Tasks
      /\ rows[job[w].task].role = job[w].role
  BY AtWork DEF HasRun, Launching, HasResult, Working, PCs
<1>2. job[w].run \in RunIds /\ job[w].agent \in Agents
  BY RunNumber, Parts DEF WorkerInv, Picked
<1>3. CASE job[w].role = "reviewer"
  <2>1. rows[job[w].task].ctx \in Contexts
    BY <1>1, Parts DEF QueueTypeOK, Row
  <2>2. rows[job[w].task].ctx.run # NoRun
    BY <1>1, <1>3, Parts DEF TaskInv, ReviewReady, LatestCoded, NoRun
  <2> QED BY <1>3, <2>1, <2>2 DEF Origin, Contexts, NoContext
<1>4. CASE job[w].role # "reviewer"
  BY <1>2, <1>4 DEF Origin
<1> QED BY <1>3, <1>4

\* What a handler releases an entry with (handleImplementerSuccess(),
\* handleImplementerFailure(), handleReviewerOutcome()).
LEMMA Releases ==
  ASSUME NEW w \in Workers, job[w].role \in Roles
  PROVE  /\ NextStatus(w) \in {"accepted", "awaiting_human", "queued", "failed"}
         /\ NextRole(w) \in Roles
         /\ NextStatus(w) = "accepted" =>
              \/ job[w].outcome = "succeeded" /\ job[w].task \notin Reviewed
              \/ job[w].outcome = "approved"
         /\ NextStatus(w) = "queued" => WantsReview(w) \/ WantsHandoff(w)
         /\ NextStatus(w) # "queued" => NextRole(w) = job[w].role
         /\ NextStatus(w) = "queued" =>
              NextRole(w) = IF WantsReview(w) THEN "reviewer" ELSE "implementer"
<1> DEFINE review == WantsReview(w)
           handoff == WantsHandoff(w)
           spentUp == Exhausted(job[w].task)
<1>1. /\ NextStatus(w) \in {"accepted", "awaiting_human", "queued", "failed"}
      /\ NextStatus(w) = "accepted" =>
              \/ job[w].outcome = "succeeded" /\ job[w].task \notin Reviewed
              \/ job[w].outcome = "approved"
      /\ NextStatus(w) = "queued" => review \/ handoff
  <2> HIDE DEF review, handoff, spentUp
  <2>1. NextStatus(w) =
          CASE job[w].outcome = "succeeded" /\ job[w].task \notin Reviewed -> "accepted"
            [] job[w].outcome = "approved"                                 -> "accepted"
            [] job[w].outcome = "rejected"                                 -> "awaiting_human"
            [] ~spentUp /\ (review \/ handoff)                             -> "queued"
            [] OTHER                                                       -> "failed"
    BY DEF NextStatus, review, handoff, spentUp
  <2> QED BY <2>1
<1> DEFINE s == NextStatus(w)
           r == NextRole(w)
           own == job[w].role
<1>0. review => s = "queued"
  <2> SUFFICES ASSUME review PROVE s = "queued"
    OBVIOUS
  <2>1. /\ job[w].outcome = "succeeded" /\ job[w].task \in Reviewed
        /\ ~spentUp /\ (review \/ handoff)
    BY DEF WantsReview
  <2>2. s = CASE job[w].outcome = "succeeded" /\ job[w].task \notin Reviewed -> "accepted"
              [] job[w].outcome = "approved"                                 -> "accepted"
              [] job[w].outcome = "rejected"                                 -> "awaiting_human"
              [] ~spentUp /\ (review \/ handoff)                             -> "queued"
              [] OTHER                                                       -> "failed"
    BY DEF NextStatus
  <2> HIDE DEF s, review, handoff, spentUp
  <2> QED BY <2>1, <2>2
<1>2. /\ s # "queued" => r = own
      /\ s = "queued" /\ review => r = "reviewer"
      /\ s = "queued" /\ ~review => r = "implementer"
  <2>1. r = CASE s # "queued" -> own [] review -> "reviewer" [] OTHER -> "implementer"
    BY DEF NextRole
  <2> HIDE DEF s, r, own, review
  <2>2. s # "queued" => r = own
    BY <1>0, <2>1
  <2>3. s = "queued" /\ review => r = "reviewer"
    BY <2>1
  <2>4. s = "queued" /\ ~review => r = "implementer"
    BY <2>1
  <2> QED BY <2>2, <2>3, <2>4
<1> HIDE DEF review, handoff
<1> QED BY <1>1, <1>2 DEF Roles, review, handoff
-----------------------------------------------------------------------------
(* Every step is a step of the queue's discipline. *)

\* Whatever a worker, the command line or a failure does to a row, it does through
\* one of the queue's own operations.
LEMMA QueueStep == FlowInv /\ [Next]_vars => [QueueNext]_queueVars
<1> SUFFICES ASSUME FlowInv, [Next]_vars PROVE [QueueNext]_queueVars
  OBVIOUS
<1>1. ASSUME NEW t \in Tasks, Submit(t) PROVE QueueNext
  BY <1>1, WorkflowAssumption DEF Submit, QueueNext
<1>2. ASSUME Start \/ Crash \/ TimePasses PROVE QueueNext
  BY <1>2 DEF Start, Crash, TimePasses, QueueNext
<1>3. ASSUME Stop \/ UNCHANGED vars PROVE UNCHANGED queueVars
  BY <1>3 DEF Stop, vars
<1>4. ASSUME NEW w \in Workers, Move(w) PROVE [QueueNext]_queueVars
  <2>1. CASE ClaimTask(w)
    BY <2>1 DEF ClaimTask, QueueNext
  <2>2. CASE \/ PreLaunch(w) \/ OpenRun(w) \/ LaunchAgent(w) \/ PrepareFails(w)
             \/ Interrupt(w) \/ Done(w) \/ Halt(w) \/ Raise(w) \/ Abort(w) \/ Answer(w)
    BY <2>2 DEF PreLaunch, OpenRun, LaunchAgent, PrepareFails, Interrupt, Done, Halt,
                Raise, Abort, Answer, ImplementerDone, VerifierDone, ReviewerDone
  <2>3. CASE LoseTask(w)
    BY <2>3 DEF LoseTask, QueueNext
  <2> DEFINE t == job[w].task
             n == rows[t].attempts
  <2>4. ASSUME pc[w] \in Working
        PROVE  /\ t \in Tasks /\ held[w].task = t /\ held[w].task # NoTask
               /\ rows[t].role = job[w].role /\ job[w].role \in Roles
               /\ n = held[w].attempts /\ n \in 0..MaxAttempts
    <3>1. /\ t \in Tasks /\ held[w].task = t /\ held[w].task # NoTask
          /\ rows[t].role = job[w].role /\ n = held[w].attempts
      BY <2>4, AtWork
    <3>2. rows[t] \in Row /\ opened[t] \in Nat /\ used[t] \in Nat /\ WithinBudget(t)
      BY <3>1, Parts DEF WorkflowTypeOK, QueueTypeOK, TaskInv
    <3>3. n \in Nat /\ rows[t].role \in Roles
      BY <3>2 DEF Row
    <3> QED BY <3>1, <3>2, <3>3, WorkflowAssumption DEF WithinBudget
  <2>5. ASSUME NEW s \in Statuses \ {"absent", "dispatched"}, NEW r \in Roles,
               pc[w] \in Working, Release(w, s, r, n)
        PROVE  QueueNext
    <3>1. n \in {held[w].attempts, held[w].attempts + 1} \cap 0..MaxAttempts
      BY <2>4, <2>5
    <3> QED BY <2>5, <3>1 DEF QueueNext
  <2>6. CASE Requeue(w)
    <3>1. pc[w] \in Working
      BY <2>6 DEF Requeue, Working, PCs
    <3>2. Release(w, "queued", rows[t].role, n)
      BY <2>4, <2>6, <3>1 DEF Requeue, Reopen, Release
    <3> QED BY <2>4, <2>5, <3>1, <3>2 DEF Statuses
  <2>7. CASE Refuse(w)
    <3>1. pc[w] \in Working
      BY <2>7 DEF Refuse, Working, PCs
    <3>2. \E s \in {"awaiting_human", "failed"} : Release(w, s, job[w].role, n)
      BY <2>4, <2>7, <3>1 DEF Refuse
    <3> QED BY <2>4, <2>5, <3>1, <3>2 DEF Statuses, Terminal
  <2>8. CASE GiveUp(w)
    <3>1. pc[w] \in Working
      BY <2>8 DEF GiveUp, Working, PCs, Waiting
    <3>2. Release(w, "failed", job[w].role, n)
      BY <2>4, <2>8, <3>1 DEF GiveUp
    <3> QED BY <2>4, <2>5, <3>1, <3>2 DEF Statuses, Terminal
  <2>9. CASE Settle(w)
    <3>1. pc[w] \in HasRun /\ pc[w] \in Working
      BY <2>9 DEF Settle, HasRun, HasResult, Working, PCs
    <3>2. n + 1 \in 0..MaxAttempts
      <4>1. /\ rows[t] \in Row /\ opened[t] \in Nat /\ used[t] \in Nat
            /\ WithinBudget(t) /\ Ahead(w)
        BY <2>4, <3>1, Parts DEF WorkflowTypeOK, QueueTypeOK, TaskInv, WorkerInv
      <4>2. n \in Nat /\ n < opened[t]
        BY <3>1, <4>1 DEF Row, Ahead
      <4> QED BY <4>1, <4>2, WorkflowAssumption DEF WithinBudget
    <3>3. /\ NextStatus(w) \in Statuses \ {"absent", "dispatched"}
          /\ NextRole(w) \in Roles
      BY <2>4, <3>1, Releases DEF Statuses, Terminal
    <3>4. n + 1 \in {held[w].attempts, held[w].attempts + 1} \cap 0..MaxAttempts
      BY <2>4, <3>1, <3>2
    <3>5. Release(w, NextStatus(w), NextRole(w), n + 1)
      BY <2>4, <2>9, <3>1 DEF Settle
    <3> QED BY <3>3, <3>4, <3>5 DEF QueueNext
  <2>10. CASE Account(w)
    BY <2>10 DEF Account, QueueNext
  <2>11. CASE SaveReviewContext(w)
    <3>1. pc[w] \in HasRun
      BY <2>11 DEF SaveReviewContext, HasRun, HasResult
    <3>2. job[w].agent \in Agents /\ job[w].run \in RunIds /\ job[w].run # NoRun
      BY <3>1, RunNumber, Parts DEF WorkerInv, Picked, NoRun
    <3>3. [run |-> job[w].run, agent |-> job[w].agent] \in Contexts \ {NoContext}
      BY <3>2 DEF Contexts, NoContext
    <3> QED BY <2>11, <3>3 DEF SaveReviewContext, QueueNext
  <2>12. CASE ExcludeOrigin(w)
    <3>1. pc[w] \in HasRun
      BY <2>12 DEF ExcludeOrigin, HasRun, HasResult
    <3>2. Origin(w).agent \in Agents
      BY <3>1, OriginIsRun
    <3>3. cache[w][t].excl \subseteq Agents
      BY <2>4, <3>1, Parts DEF QueueTypeOK, CacheLine, HasRun, Launching, HasResult, Working, PCs
    <3>4. PacketExcludes(w) \in SUBSET Agents
      BY <3>2, <3>3 DEF PacketExcludes
    <3> QED BY <2>12, <3>4 DEF ExcludeOrigin, QueueNext
  <2>13. CASE AttachPacket(w)
    <3>1. Origin(w).run \in RunIds
      BY <2>13, OriginIsRun DEF AttachPacket, HasRun, HasResult
    <3> QED BY <2>13, <3>1 DEF AttachPacket, QueueNext
  <2> QED BY <1>4, <2>1, <2>2, <2>3, <2>6, <2>7, <2>8, <2>9, <2>10, <2>11, <2>12, <2>13
          DEF Move, Step, Disturb
<1> QED BY <1>1, <1>2, <1>3, <1>4 DEF Next, Move
-----------------------------------------------------------------------------
(* What a step leaves alone. *)

\* A worker's step is its own: what is about another worker stays.
LEMMA WorkerFrame ==
  ASSUME WorkflowTypeOK, NEW w \in Workers, Move(w), NEW v \in Workers, v # w
  PROVE  pc'[v] = pc[v] /\ job'[v] = job[v] /\ held'[v] = held[v] /\ cache'[v] = cache[v]
<1>1. pc'[v] = pc[v] /\ job'[v] = job[v]
  <2>1. CASE Step(w)
    BY <2>1 DEF Step, WorkflowTypeOK, ClaimTask, Refuse, PreLaunch, OpenRun, LaunchAgent,
       PrepareFails, Interrupt, Account, SaveReviewContext, ExcludeOrigin, AttachPacket,
       Settle, Done, Requeue, Halt, AfterFailure, Finish, Goto
  <2>2. CASE Answer(w) \/ Abort(w) \/ Disturb(w)
    BY <2>2 DEF WorkflowTypeOK, Answer, ImplementerDone, VerifierDone, ReviewerDone, Abort,
       Disturb, Raise, GiveUp, LoseTask, AfterFailure, Finish, Goto
  <2> QED BY <2>1, <2>2 DEF Move
<1>2. held'[v] = held[v] /\ cache'[v] = cache[v]
  <2> USE DEF WorkflowTypeOK, QueueTypeOK
  <2>1. ASSUME NEW t \in Tasks, Claim(w, t) PROVE held'[v] = held[v] /\ cache'[v] = cache[v]
    BY <2>1 DEF Claim, FillCache
  <2>2. ASSUME \E s, r, n : Release(w, s, r, n) PROVE held'[v] = held[v] /\ cache'[v] = cache[v]
    BY <2>2 DEF Release
  <2>3. ASSUME \/ \E ctx : SetReviewContext(w, ctx)
               \/ \E p : SetPacket(w, p)
               \/ UNCHANGED queueVars
        PROVE held'[v] = held[v] /\ cache'[v] = cache[v]
    BY <2>3 DEF SetReviewContext, SetPacket, queueVars
  <2>4. ASSUME \E agents : AddExcludes(w, agents) PROVE held'[v] = held[v] /\ cache'[v] = cache[v]
    BY <2>4 DEF AddExcludes
  <2>5. ASSUME Reopen(w) \/ Abandon(w) PROVE held'[v] = held[v] /\ cache'[v] = cache[v]
    BY <2>5 DEF Reopen, Abandon
  <2> QED BY <2>1, <2>2, <2>3, <2>4, <2>5 DEF Move, Step, Answer, Abort, Disturb,
       ClaimTask, Refuse, PreLaunch, OpenRun, LaunchAgent,
       PrepareFails, Interrupt, Account, SaveReviewContext, ExcludeOrigin, AttachPacket,
       Settle, Done, Requeue, Halt, ImplementerDone, VerifierDone, ReviewerDone,
       Raise, GiveUp, LoseTask
<1> QED BY <1>1, <1>2

\* A task that w has in hand neither before nor after its step stays as it is.
LEMMA TaskFrame ==
  ASSUME FlowInv, NEW w \in Workers, Move(w), NEW u \in Tasks,
         held[w].task # u, held'[w].task # u
  PROVE  /\ rows'[u] = rows[u] /\ runs'[u] = runs[u] /\ opened'[u] = opened[u]
         /\ used'[u] = used[u] /\ spent'[u] = spent[u]
<1> USE DEF WorkflowTypeOK, QueueTypeOK
<1>0. WorkflowTypeOK
  BY Parts
<1>1. ASSUME pc[w] \in Working PROVE job[w].task # u /\ job[w].task \in Tasks
  BY <1>1, AtWork
<1>2. rows'[u] = rows[u]
  <2>1. ASSUME NEW t \in Tasks, Claim(w, t) PROVE rows'[u] = rows[u]
    <3>1. held'[w].task = t
      BY <1>0, <2>1 DEF Claim
    <3> QED BY <1>0, <2>1, <3>1 DEF Claim
  <2>2. ASSUME \E s, r, n : Release(w, s, r, n) PROVE rows'[u] = rows[u]
    BY <1>0, <2>2 DEF Release
  <2>3. ASSUME \/ \E ctx : SetReviewContext(w, ctx)
               \/ \E p : SetPacket(w, p)
               \/ \E agents : AddExcludes(w, agents)
               \/ Abandon(w)
               \/ UNCHANGED queueVars
        PROVE rows'[u] = rows[u]
    BY <1>0, <2>3 DEF SetReviewContext, SetPacket, AddExcludes, Abandon, queueVars
  <2>4. ASSUME Requeue(w) PROVE rows'[u] = rows[u]
    <3>1. job[w].task # u
      BY <1>1, <2>4 DEF Requeue, Working, PCs
    <3> QED BY <1>0, <2>4, <3>1 DEF Requeue, Reopen
  <2> QED BY <2>1, <2>2, <2>3, <2>4 DEF Move, Step, Answer, Abort, Disturb,
       ClaimTask, Refuse, PreLaunch, OpenRun, LaunchAgent,
       PrepareFails, Interrupt, Account, SaveReviewContext, ExcludeOrigin, AttachPacket,
       Settle, Done, Halt, ImplementerDone, VerifierDone, ReviewerDone,
       Raise, GiveUp, LoseTask
<1>3. used'[u] = used[u] /\ spent'[u] = spent[u] /\ opened'[u] = opened[u]
  <2>1. CASE PreLaunch(w) \/ OpenRun(w) \/ Account(w)
    <3>1. job[w].task # u
      BY <1>1, <2>1 DEF PreLaunch, OpenRun, Account, Working, PCs
    <3> QED BY <1>0, <2>1, <3>1 DEF PreLaunch, OpenRun, Account
  <2>2. CASE ~(PreLaunch(w) \/ OpenRun(w) \/ Account(w))
    BY <2>2 DEF Move, Step, Answer, Abort, Disturb,
       ClaimTask, Refuse, LaunchAgent, PrepareFails, Interrupt, SaveReviewContext,
       ExcludeOrigin, AttachPacket, Settle, Done, Requeue, AfterFailure, Halt,
       ImplementerDone, VerifierDone, ReviewerDone, Raise, GiveUp, LoseTask
  <2> QED BY <2>1, <2>2
<1>4. runs'[u] = runs[u]
  <2>1. ASSUME NEW s, NEW verdict, SetRun(w, s, verdict), pc[w] \in Working
        PROVE  runs'[u] = runs[u]
    BY <1>0, <1>1, <2>1 DEF SetRun
  <2>2. CASE OpenRun(w)
    <3>1. job[w].task # u
      BY <1>1, <2>2 DEF OpenRun, Working, PCs
    <3> QED BY <1>0, <2>2, <3>1 DEF OpenRun
  <2>3. ASSUME \/ LaunchAgent(w) \/ PrepareFails(w) \/ Interrupt(w) \/ ImplementerDone(w)
               \/ VerifierDone(w) \/ ReviewerDone(w) \/ GiveUp(w)
        PROVE  runs' = runs \/ (pc[w] \in Working /\ \E s, verdict : SetRun(w, s, verdict))
    BY <2>3 DEF LaunchAgent, PrepareFails, Interrupt, ImplementerDone, VerifierDone,
       ReviewerDone, GiveUp, Finish, Waiting, Working, PCs
  <2>4. ASSUME ~ (\/ OpenRun(w) \/ LaunchAgent(w) \/ PrepareFails(w) \/ Interrupt(w)
                  \/ ImplementerDone(w) \/ VerifierDone(w) \/ ReviewerDone(w) \/ GiveUp(w))
        PROVE  runs' = runs
    BY <2>4 DEF Move, Step, Answer, Abort, Disturb,
       ClaimTask, Refuse, PreLaunch, Account, SaveReviewContext,
       ExcludeOrigin, AttachPacket, Settle, Done, Requeue, AfterFailure, Halt, Raise, LoseTask
  <2> QED BY <2>1, <2>2, <2>3, <2>4
<1> QED BY <1>2, <1>3, <1>4
-----------------------------------------------------------------------------
(* Types. *)

\* The run of w's handler has this status and verdict after the step, and nothing
\* else of the runs of its task has changed.
OnlyRun(w, s, verdict) ==
  LET new == runs'[job[w].task]
      was == runs[job[w].task]
      own == job[w].run
  IN  /\ \A r \in RunIds : r # own => new[r] = was[r]
      /\ new[own].status = s /\ new[own].verdict = verdict
      /\ new[own].role = was[own].role /\ new[own].agent = was[own].agent
      /\ new[own].parent = was[own].parent /\ new[own].packet = was[own].packet

\* The run of a handler is given a status and a verdict, and nothing else.
LEMMA SetRunEffect ==
  ASSUME WorkflowTypeOK, NEW w \in Workers, job[w].task \in Tasks, job[w].run \in RunIds,
         NEW s \in RunStatuses,
         NEW verdict \in {"none", "approved", "changes_requested", "rejected"},
         SetRun(w, s, verdict)
  PROVE  runs' \in [Tasks -> [RunIds -> Run]] /\ OnlyRun(w, s, verdict)
<1> DEFINE t   == job[w].task
           r   == job[w].run
           run == [runs[t][r] EXCEPT !.status = s, !.verdict = verdict]
<1>1. runs \in [Tasks -> [RunIds -> Run]] /\ runs[t][r] \in Run
  BY DEF WorkflowTypeOK
<1>2. /\ run \in Run /\ run.status = s /\ run.verdict = verdict
      /\ run.role = runs[t][r].role /\ run.agent = runs[t][r].agent
      /\ run.parent = runs[t][r].parent /\ run.packet = runs[t][r].packet
  BY <1>1 DEF Run
<1>3. runs' = [runs EXCEPT ![t] = [runs[t] EXCEPT ![r] = run]]
  BY <1>1 DEF SetRun, Run
<1> HIDE DEF run
<1> QED BY <1>1, <1>2, <1>3 DEF OnlyRun

\* An outcome that is known leaves the locals of the handler of their type.
LEMMA FinishType ==
  ASSUME WorkflowTypeOK, NEW w \in Workers, job[w].task \in Tasks, job[w].run \in RunIds,
         NEW s \in RunStatuses, NEW outcome \in Outcomes, Finish(w, s, outcome)
  PROVE  /\ runs' \in [Tasks -> [RunIds -> Run]]
         /\ job' \in [Workers -> Job]
         /\ pc' \in [Workers -> PCs]
<1>1. (IF outcome \in Verdicts THEN outcome ELSE "none")
         \in {"none", "approved", "changes_requested", "rejected"}
  BY DEF Verdicts
<1>2. runs' \in [Tasks -> [RunIds -> Run]]
  BY <1>1, SetRunEffect DEF Finish
<1>3. job' \in [Workers -> Job] /\ pc' \in [Workers -> PCs]
  BY ZenonT(60) DEF WorkflowTypeOK, Finish, Job, Goto, PCs
<1> QED BY <1>2, <1>3

\* No step writes a value of the wrong type.
LEMMA FlowNextType == FlowInv /\ [Next]_vars => WorkflowTypeOK'
<1> SUFFICES ASSUME FlowInv, [Next]_vars PROVE WorkflowTypeOK'
  OBVIOUS
<1>0. WorkflowTypeOK /\ QueueTypeOK'
  BY Parts, QueueStep, NextType
<1> DEFINE Typed == /\ used' \in [Tasks -> Nat]
                    /\ spent' \in [Tasks -> BOOLEAN]
                    /\ opened' \in [Tasks -> Nat]
                    /\ runs' \in [Tasks -> [RunIds -> Run]]
                    /\ out' \in SUBSET Agents
                    /\ pc' \in [Workers -> PCs]
                    /\ job' \in [Workers -> Job]
                    /\ aborted' \in [Workers -> BOOLEAN]
                    /\ stopping' \in BOOLEAN
<1>1. ASSUME UNCHANGED flowVars PROVE Typed
  BY <1>0, <1>1 DEF WorkflowTypeOK, flowVars
<1>2. ASSUME Start \/ Stop \/ Crash PROVE Typed
  <2>1. NoJob \in Job
    BY DEF NoJob, Job, Roles, NoRun, Outcomes
  <2> QED BY <1>0, <1>2, <2>1 DEF Start, Stop, Crash, WorkflowTypeOK, PCs
<1>3. ASSUME NEW w \in Workers, Move(w) PROVE Typed
  <2>0. /\ pc[w] \in Working => job[w].task \in Tasks
        /\ pc[w] \in HasRun => job[w].run \in RunIds
    BY AtWork, RunNumber
  <2> USE DEF HasRun, HasResult, Launching, Waiting
  <2>1. CASE ClaimTask(w)
    <3>1. PICK t \in Tasks : job' = [job EXCEPT ![w].task = t, ![w].role = rows[t].role]
      BY <2>1 DEF ClaimTask
    <3>2. rows[t].role \in Roles
      BY <1>0 DEF WorkflowTypeOK, QueueTypeOK, Row
    <3>3. job[w] \in Job /\ job \in [Workers -> Job]
      BY <1>0 DEF WorkflowTypeOK
    <3>4. [job[w] EXCEPT !.task = t, !.role = rows[t].role] \in Job
      BY <3>2, <3>3 DEF Job
    <3>5. job' = [job EXCEPT ![w] = [job[w] EXCEPT !.task = t, !.role = rows[t].role]]
      BY <3>1, <3>3 DEF Job
    <3>6. job' \in [Workers -> Job]
      BY <3>3, <3>4, <3>5
    <3> QED BY <1>0, <2>1, <3>6 DEF ClaimTask, Goto, WorkflowTypeOK, PCs
  <2>2. CASE \/ Refuse(w) \/ SaveReviewContext(w) \/ ExcludeOrigin(w) \/ AttachPacket(w)
             \/ Settle(w) \/ Halt(w) \/ Raise(w) \/ Abort(w)
    BY <1>0, <2>2 DEF Refuse, SaveReviewContext, ExcludeOrigin, AttachPacket, Settle, Halt,
       Raise, Abort, Goto, WorkflowTypeOK, PCs
  <2>3. CASE Done(w) \/ Requeue(w) \/ LoseTask(w)
    <3>1. NoJob \in Job
      BY DEF NoJob, Job, Roles, NoRun, Outcomes
    <3> QED BY <1>0, <2>3, <3>1 DEF Done, Requeue, LoseTask, AfterFailure, Goto, WorkflowTypeOK, PCs
  <2>4. CASE PreLaunch(w)
    <3>1. job' \in [Workers -> Job]
      <4>1. PICK a \in Agents : job' = [job EXCEPT ![w].agent = a]
        BY <2>4 DEF PreLaunch, EligibleAgents
      <4>2. job[w] \in Job /\ job \in [Workers -> Job]
        BY <1>0 DEF WorkflowTypeOK
      <4>3. [job[w] EXCEPT !.agent = a] \in Job
        BY <4>2 DEF Job
      <4> QED BY <4>1, <4>2, <4>3
    <3>2. used' \in [Tasks -> Nat]
      BY <1>0, <2>0, <2>4 DEF PreLaunch, WorkflowTypeOK, Working, PCs
    <3> QED BY <1>0, <2>4, <3>1, <3>2 DEF PreLaunch, Goto, WorkflowTypeOK, PCs
  <2>5. CASE OpenRun(w)
    <3> DEFINE t   == job[w].task
               r   == opened[t] + 1
               run == [AbsentRun EXCEPT
                   !.status = "preparing", !.role = job[w].role,
                   !.agent  = job[w].agent,
                   !.parent = IF job[w].role = "reviewer" THEN rows[t].ctx.run ELSE NoRun,
                   !.packet = IF job[w].role = "implementer" THEN rows[t].packet ELSE NoRun]
    <3>1. t \in Tasks /\ pc[w] = "charged"
      BY <2>0, <2>5 DEF OpenRun, Working, PCs
    <3>2. /\ rows[t] \in Row /\ job[w] \in Job /\ opened[t] \in Nat /\ used[t] \in Nat
          /\ WithinBudget(t) /\ Ahead(w)
      BY <1>0, <3>1, Parts DEF WorkflowTypeOK, QueueTypeOK, TaskInv, WorkerInv
    <3>3. r \in RunIds /\ r \in Nat
      BY <3>1, <3>2, WorkflowAssumption DEF WithinBudget, Ahead
    <3>4. rows[t].ctx.run \in RunIds \cup {NoRun} /\ rows[t].packet \in RunIds \cup {NoRun}
      BY <3>2 DEF Row, Contexts, NoContext
    <3>5. run \in Run
      BY <3>2, <3>4 DEF AbsentRun, Run, Job, OpenStatuses, RunStatuses
    <3>6. /\ opened' = [opened EXCEPT ![t] = r]
          /\ runs' = [runs EXCEPT ![t][r] = run]
          /\ job' = [job EXCEPT ![w].run = r]
      BY <2>5 DEF OpenRun
    <3> HIDE DEF run, r
    <3>7. runs' \in [Tasks -> [RunIds -> Run]]
      BY <1>0, <3>1, <3>3, <3>5, <3>6 DEF WorkflowTypeOK
    <3>8. job' \in [Workers -> Job] /\ opened' \in [Tasks -> Nat]
      BY <1>0, <3>3, <3>6 DEF WorkflowTypeOK, Job
    <3> QED BY <1>0, <2>5, <3>7, <3>8 DEF OpenRun, Goto, WorkflowTypeOK, PCs
  <2>6. CASE LaunchAgent(w)
    <3>1. runs' \in [Tasks -> [RunIds -> Run]]
      BY <1>0, <2>0, <2>6, SetRunEffect DEF LaunchAgent, RunStatuses, OpenStatuses, Working, PCs
    <3> QED BY <1>0, <2>6, <3>1 DEF LaunchAgent, Goto, WorkflowTypeOK, PCs
  <2>7. CASE Interrupt(w)
    <3>1. runs' \in [Tasks -> [RunIds -> Run]]
      BY <1>0, <2>0, <2>7, SetRunEffect DEF Interrupt, RunStatuses, OpenStatuses, WorkflowTypeOK, Working, PCs
    <3> QED BY <1>0, <2>7, <3>1 DEF Interrupt, Goto, WorkflowTypeOK, PCs
  <2>8. CASE Account(w)
    <3>1. out' \in SUBSET Agents
      <4>1. pc[w] \in HasRun
        BY <2>8 DEF Account, HasRun, HasResult
      <4>2. job[w].agent \in Agents
        BY <4>1, Parts DEF WorkerInv, Picked
      <4> QED BY <1>0, <2>8, <4>2 DEF Account, WorkflowTypeOK
    <3>2. spent' \in [Tasks -> BOOLEAN]
      BY <1>0, <2>8 DEF Account, WorkflowTypeOK
    <3> QED BY <1>0, <2>8, <3>1, <3>2 DEF Account, Goto, WorkflowTypeOK, PCs
  <2> DEFINE Ended == /\ runs' \in [Tasks -> [RunIds -> Run]]
                      /\ job' \in [Workers -> Job]
                      /\ pc' \in [Workers -> PCs]
  <2>9. ASSUME NEW s \in RunStatuses, NEW outcome \in Outcomes, Finish(w, s, outcome),
               pc[w] \in Launching
        PROVE  Ended
    BY <1>0, <2>0, <2>9, FinishType DEF Working, PCs
  <2>10. {"failed", "succeeded"} \subseteq RunStatuses
    BY DEF RunStatuses
  <2>11. CASE PrepareFails(w)
    <3>1. Ended
      <4>1. CASE Finish(w, "failed", "internal_error")
        BY <2>9, <2>10, <2>11, <4>1 DEF PrepareFails, Outcomes, AgentFailures
      <4>2. CASE Finish(w, "failed", "diff_apply_failed")
        BY <2>9, <2>10, <2>11, <4>2 DEF PrepareFails, Outcomes
      <4>3. CASE /\ \E status \in OpenStatuses : SetRun(w, status, "none")
                 /\ job' = [job EXCEPT ![w].outcome = "internal_error"]
                 /\ Goto(w, "ran")
        <5>1. runs' \in [Tasks -> [RunIds -> Run]]
          BY <1>0, <2>0, <2>11, <4>3, SetRunEffect
             DEF PrepareFails, RunStatuses, Working, PCs
        <5> QED BY ZenonT(60), <1>0, <4>3, <5>1
                DEF WorkflowTypeOK, Job, Outcomes, AgentFailures, Goto, PCs
      <4> QED BY <2>11, <4>1, <4>2, <4>3 DEF PrepareFails
    <3> QED BY <1>0, <2>11, <3>1 DEF PrepareFails, WorkflowTypeOK
  <2>12. CASE ImplementerDone(w) \/ VerifierDone(w) \/ ReviewerDone(w)
    <3>1. Failures(w) \subseteq Outcomes /\ Verdicts \subseteq Outcomes
          /\ {"succeeded", "verification_failed", "internal_error", "reviewer_unusable"} \subseteq Outcomes
      BY DEF Failures, AgentFailures, Outcomes
    <3>2. Ended
      <4>1. \/ \E s \in {"failed", "succeeded"}, outcome \in Outcomes : Finish(w, s, outcome)
            \/ Goto(w, "verifying") /\ UNCHANGED <<runs, job>>
        BY <2>12, <3>1 DEF ImplementerDone, VerifierDone, ReviewerDone
      <4> QED BY <1>0, <2>9, <2>10, <2>12, <4>1 DEF Goto, WorkflowTypeOK, PCs,
               ImplementerDone, VerifierDone, ReviewerDone
    <3> QED BY <1>0, <2>12, <3>2 DEF ImplementerDone, VerifierDone, ReviewerDone, WorkflowTypeOK
  <2>13. CASE GiveUp(w)
    <3>1. runs' \in [Tasks -> [RunIds -> Run]]
      BY <1>0, <2>0, <2>10, <2>13, SetRunEffect DEF GiveUp, WorkflowTypeOK, Working, PCs
    <3> QED BY <1>0, <2>13, <3>1 DEF GiveUp, Goto, WorkflowTypeOK, PCs
  <2> QED BY <1>3, <2>1, <2>2, <2>3, <2>4, <2>5, <2>6, <2>7, <2>8, <2>11, <2>12, <2>13
          DEF Move, Step, Answer, Disturb
<1> HIDE DEF Typed
<1>4. Typed
  <2>1. ASSUME NEW t \in Tasks, Submit(t) PROVE Typed
    BY <1>1, <2>1 DEF Submit
  <2>2. CASE TimePasses
    BY <1>1, <2>2 DEF TimePasses
  <2>3. CASE UNCHANGED vars
    BY <1>1, <2>3 DEF vars
  <2> QED BY <1>2, <1>3, <2>1, <2>2, <2>3 DEF Next, Move
<1> QED BY <1>0, <1>4 DEF WorkflowTypeOK, Typed
-----------------------------------------------------------------------------
(* What every step keeps true of a task. *)

\* The numbers of a task's runs are those of the table.
LEMMA RunsInTable ==
  ASSUME WorkflowTypeOK, NEW t \in Tasks, WithinBudget(t)
  PROVE  /\ opened[t] \in Nat /\ used[t] \in Nat /\ rows[t] \in Row
         /\ rows[t].attempts \in Nat
         /\ opened[t] <= MaxRuns
         /\ 1..opened[t] \subseteq RunIds
         /\ \A r \in RunIds : runs[t][r] \in Run
<1>1. /\ opened[t] \in Nat /\ used[t] \in Nat /\ rows[t] \in Row
      /\ \A r \in RunIds : runs[t][r] \in Run
  BY DEF WorkflowTypeOK, QueueTypeOK
<1>2. rows[t].attempts \in Nat
  BY <1>1 DEF Row
<1> QED BY <1>1, <1>2, WorkflowAssumption DEF WithinBudget

\* A task is as it was when its runs are, and its row says nothing new but that it
\* is in progress, waits or has been given up.
LEMMA TaskKept ==
  ASSUME WorkflowTypeOK, NEW t \in Tasks, TaskInv(t),
         opened'[t] = opened[t], used'[t] = used[t], runs'[t] = runs[t],
         \/ rows'[t].status = rows[t].status /\ rows'[t].attempts = rows[t].attempts
         \/ rows'[t].status \notin {"absent", "accepted"},
         rows'[t].attempts <= opened[t],
         rows'[t].role = rows[t].role,
         rows[t].role = "reviewer" => rows'[t].ctx = rows[t].ctx
  PROVE  TaskInv(t)'
<1>1. WithinBudget(t)' /\ AbsentIsBlank(t)'
  BY DEF TaskInv, WithinBudget, AbsentIsBlank
<1>2. ReviewReady(t)'
  BY DEF TaskInv, ReviewReady, LatestCoded, IsCoded
<1>3. ReviewsOf(t)'
  BY DEF TaskInv, ReviewsOf, LatestCoded, IsCoded
<1>4. AcceptedFor(t)'
  BY DEF TaskInv, AcceptedFor
<1> QED BY <1>1, <1>2, <1>3, <1>4 DEF TaskInv

\* So is one whose last run gets another status, by the handler that has it.
LEMMA TaskKeptByRun ==
  ASSUME FlowInv, NEW w \in Workers, pc[w] \in Launching,
         NEW s \in RunStatuses,
         NEW verdict \in {"none", "approved", "changes_requested", "rejected"},
         SetRun(w, s, verdict),
         NEW t, t = job[w].task,
         opened'[t] = opened[t], used'[t] = used[t],
         rows'[t].status \notin {"absent", "accepted"},
         rows'[t].attempts <= opened[t],
         rows'[t].role = rows[t].role,
         rows'[t].ctx = rows[t].ctx
  PROVE  TaskInv(t)'
<1>0. pc[w] \in Working /\ pc[w] \in HasRun
  BY DEF Working, HasRun, Launching, PCs
<1>1. /\ t \in Tasks /\ rows[t].role = job[w].role
      /\ WorkflowTypeOK /\ TaskInv(t) /\ WithinBudget(t) /\ OwnRun(w)
  BY <1>0, AtWork, Parts DEF TaskInv, WorkerInv
<1> PICK last \in Nat : last = opened[t]
  BY <1>1, RunsInTable
<1>2. job[w].run = last /\ last \in RunIds /\ runs[t][last].role = rows[t].role
  BY <1>0, <1>1, RunNumber DEF OwnRun
<1>3. /\ \A r \in RunIds : r # last => runs'[t][r] = runs[t][r]
      /\ \A r \in RunIds : /\ runs'[t][r].role = runs[t][r].role
                           /\ runs'[t][r].agent = runs[t][r].agent
                           /\ runs'[t][r].parent = runs[t][r].parent
  <2>1. OnlyRun(w, s, verdict)
    BY <1>1, <1>2, SetRunEffect
  <2> QED BY <1>1, <1>2, <2>1 DEF OnlyRun
<1>4. last \in Nat /\ 1..last \subseteq RunIds
  BY <1>1, RunsInTable
<1>5. ASSUME NEW p \in 1..last PROVE p = last \/ (p \in 1..(last - 1) /\ p # last)
  BY <1>4
<1>6. WithinBudget(t)' /\ AbsentIsBlank(t)' /\ AcceptedFor(t)'
  BY <1>1 DEF WithinBudget, AbsentIsBlank, AcceptedFor
<1>7. ReviewReady(t)'
  <2> SUFFICES ASSUME rows[t].role = "reviewer" PROVE ReviewReady(t)'
    BY DEF ReviewReady
  <2> PICK c : c = rows[t].ctx.run
    OBVIOUS
  <2>1. /\ t \in Reviewed
        /\ LatestCoded(t, c, last + 1)
        /\ runs[t][c].agent = rows[t].ctx.agent
    BY <1>1 DEF TaskInv, ReviewReady
  <2>2. c \in 1..last /\ c \in RunIds
    BY <1>4, <2>1 DEF LatestCoded
  <2>3. runs[t][last].role = "reviewer" /\ runs'[t][last].role = "reviewer"
    BY <1>2, <1>3
  <2>4. \A p \in 1..last : IsCoded(t, p)' <=> IsCoded(t, p)
    BY <1>2, <1>3, <1>4, <2>3 DEF IsCoded
  <2>5. LatestCoded(t, c, last + 1)'
    <3>1. (last + 1) - 1 = last
      OBVIOUS
    <3>2. IsCoded(t, c) /\ \A p \in 1..last : IsCoded(t, p) => p <= c
      BY <2>1, <3>1 DEF LatestCoded
    <3> HIDE DEF IsCoded
    <3>3. IsCoded(t, c)' /\ \A p \in 1..last : IsCoded(t, p)' => p <= c
      BY <2>2, <2>4, <3>2
    <3> QED BY <2>2, <3>1, <3>3 DEF LatestCoded
  <2>6. c = rows'[t].ctx.run /\ last = opened'[t] /\ runs'[t][c].agent = rows'[t].ctx.agent
    BY <1>3, <2>1, <2>2
  <2> QED BY <2>1, <2>5, <2>6 DEF ReviewReady
<1>8. ReviewsOf(t)'
  <2> SUFFICES ASSUME NEW r \in 1..last, runs'[t][r].role = "reviewer"
               PROVE  /\ LatestCoded(t, runs[t][r].parent, r)'
                      /\ runs'[t][r].agent # runs'[t][runs'[t][r].parent].agent
    BY DEF ReviewsOf
  <2> PICK q : q = runs[t][r].parent
    OBVIOUS
  <2>1. r \in RunIds /\ runs[t][r].role = "reviewer" /\ q = runs'[t][r].parent
    BY <1>3, <1>4
  <2>2. LatestCoded(t, q, r) /\ runs[t][r].agent # runs[t][q].agent
    BY <1>1, <2>1 DEF TaskInv, ReviewsOf
  <2>3. \A p \in 1..(r - 1) : p \in RunIds /\ p # last
    BY <1>4
  <2>4. \A p \in 1..(r - 1) : IsCoded(t, p)' <=> IsCoded(t, p)
    BY <1>3, <2>3 DEF IsCoded
  <2>5. LatestCoded(t, q, r)' /\ q \in RunIds
    BY <2>2, <2>3, <2>4 DEF LatestCoded
  <2> QED BY ZenonT(60), <1>3, <2>1, <2>2, <2>5 DEF LatestCoded, IsCoded
<1> QED BY <1>6, <1>7, <1>8 DEF TaskInv
-----------------------------------------------------------------------------
(* What a handler's step makes of its task and of what it relies on. *)

\* A release writes status, role and attempts, keeps the notes in the row and
\* leaves the worker with nothing.
LEMMA ReleaseEffect ==
  ASSUME QueueTypeOK, NEW w \in Workers, NEW t \in Tasks, held[w].task = t,
         NEW s, NEW r, NEW n, Release(w, s, r, n)
  PROVE  /\ rows'[t].status = s /\ rows'[t].role = r /\ rows'[t].attempts = n
         /\ rows'[t].ctx = rows[t].ctx /\ rows'[t].packet = rows[t].packet
         /\ rows'[t].excl = rows[t].excl
         /\ held'[w].task = NoTask
<1>1. rows'[t] = Released(rows[t], s, r, n) /\ rows[t] \in Row
  BY DEF Release, QueueTypeOK
<1>2. held'[w] = NoEntry
  BY DEF Release, QueueTypeOK
<1> QED BY <1>1, <1>2 DEF Released, Row, NoEntry

\* What a handler notes in its row leaves status, role and attempts; only
\* setReviewContext() writes the context.
LEMMA NoteEffect ==
  ASSUME QueueTypeOK, NEW w \in Workers, NEW t \in Tasks, held[w].task = t
  PROVE  /\ \A p : SetPacket(w, p) =>
              /\ held' = held
              /\ rows'[t] = [rows[t] EXCEPT !.packet = p]
         /\ \A agents : AddExcludes(w, agents) =>
              /\ held' = held
              /\ rows'[t] = [rows[t] EXCEPT !.excl = rows[t].excl \cup agents]
         /\ \A ctx : SetReviewContext(w, ctx) =>
              /\ held' = held
              /\ rows'[t] = [rows[t] EXCEPT !.ctx = ctx]
<1>1. rows \in [Tasks -> Row] /\ rows[t] \in Row
  BY DEF QueueTypeOK
<1> QED BY <1>1 DEF SetPacket, AddExcludes, MergedExcludes, SetReviewContext, Row

\* A worker with no task has nothing to rely on; one whose handler has just
\* claimed or has failed relies on its entry only.
LEMMA AtRest ==
  ASSUME NEW w \in Workers,
         \/ pc'[w] \in {"off", "idle", "released"} /\ held'[w].task = NoTask
         \/ /\ pc'[w] \in {"claimed", "raised"}
            /\ job'[w].task \in Tasks
            /\ held'[w].task = job'[w].task
            /\ held'[w].role = job'[w].role
  PROVE  WorkerInv(w)'
BY DEF WorkerInv, InHand, Ahead, Picked, OwnRun, Knows, Noted, Working, HasRun, Launching,
       HasResult, PCs

\* The loop: claim, return, requeue, give up, halt.
LEMMA LoopStep ==
  ASSUME FlowInv, NEW w \in Workers,
         ClaimTask(w) \/ Done(w) \/ Requeue(w) \/ LoseTask(w) \/ Halt(w)
  PROVE  /\ WorkerInv(w)'
         /\ \A u \in Tasks : u \in {held[w].task, held'[w].task} => TaskInv(u)'
<1>0. /\ WorkflowTypeOK /\ QueueTypeOK
      /\ \A t \in Tasks : TaskInv(t)
      /\ WorkerInv(w)
  BY Parts
<1>1. CASE ClaimTask(w)
  <2>1. PICK t \in Tasks : /\ Claim(w, t)
                           /\ job' = [job EXCEPT ![w].task = t, ![w].role = rows[t].role]
    BY <1>1 DEF ClaimTask
  <2>2. job[w] \in Job /\ rows[t] \in Row
    BY <1>0 DEF WorkflowTypeOK, QueueTypeOK
  <2>3. job'[w].task = t /\ job'[w].role = rows[t].role
    BY <1>0, <2>1, <2>2 DEF WorkflowTypeOK, Job
  <2>4. held'[w].task = t /\ held'[w].role = rows[t].role /\ held[w].task = NoTask
    BY <1>0, <2>1 DEF Claim, QueueTypeOK
  <2>5. /\ rows'[t].status = "dispatched" /\ rows'[t].role = rows[t].role
        /\ rows'[t].attempts = rows[t].attempts /\ rows'[t].ctx = rows[t].ctx
    BY <1>0, <2>1, <2>2 DEF Claim, QueueTypeOK, Row
  <2>6. pc'[w] = "claimed"
    BY <1>0, <1>1 DEF ClaimTask, Goto, WorkflowTypeOK
  <2>7. TaskInv(t)'
    <3>1. opened'[t] = opened[t] /\ used'[t] = used[t] /\ runs'[t] = runs[t]
      BY <1>1 DEF ClaimTask
    <3>2. rows[t].attempts <= opened[t]
      BY <1>0 DEF TaskInv, WithinBudget
    <3> QED BY <1>0, <2>5, <3>1, <3>2, TaskKept
  <2> QED BY <2>3, <2>4, <2>6, <2>7, AtRest, QueueAssumption
<1>2. CASE Done(w) \/ Halt(w)
  <2>1. held' = held /\ held[w].task = NoTask
    BY <1>0, <1>2 DEF Done, Halt, queueVars, WorkerInv, InHand, Working
  <2>2. pc'[w] \in {"off", "idle"}
    BY <1>0, <1>2 DEF Done, Halt, Goto, WorkflowTypeOK
  <2> QED BY <2>1, <2>2, AtRest, QueueAssumption
<1>3. CASE Requeue(w) \/ LoseTask(w)
  <2>0. pc[w] \in Working
    BY <1>3 DEF Requeue, LoseTask, Working, PCs
  <2> PICK t \in Tasks : t = job[w].task
    BY <2>0, AtWork
  <2>1. held[w].task = t /\ rows[t].status = "dispatched"
    BY <2>0, AtWork
  <2>2. rows[t] \in Row /\ TaskInv(t)
    BY <1>0, <2>1 DEF QueueTypeOK
  <2>3. /\ rows'[t].status \in {"queued", "dispatched"} /\ rows'[t].role = rows[t].role
        /\ rows'[t].attempts = rows[t].attempts /\ rows'[t].ctx = rows[t].ctx
    <3>1. CASE LoseTask(w)
      BY <2>1, <3>1 DEF LoseTask, Abandon
    <3>2. CASE Requeue(w)
      <4>1. rows'[t] = Released(rows[t], "queued", rows[t].role, rows[t].attempts)
        BY <1>0, <2>1, <3>2 DEF Requeue, Reopen, QueueTypeOK
      <4> QED BY <2>2, <4>1 DEF Released, Row
    <3> QED BY <1>3, <3>1, <3>2
  <2>4. held'[w].task = NoTask /\ pc'[w] = "idle"
    BY <1>0, <1>3 DEF Requeue, LoseTask, Reopen, Abandon, AfterFailure, Goto, NoEntry,
                      WorkflowTypeOK, QueueTypeOK
  <2>5. opened'[t] = opened[t] /\ used'[t] = used[t] /\ runs'[t] = runs[t]
    BY <1>3 DEF Requeue, LoseTask, AfterFailure
  <2>6. rows[t].attempts <= opened[t]
    BY <2>2 DEF TaskInv, WithinBudget
  <2>7. TaskInv(t)'
    BY <1>0, <2>2, <2>3, <2>5, <2>6, TaskKept
  <2> QED BY <2>1, <2>4, <2>7, AtRest, QueueAssumption
<1> QED BY <1>1, <1>2, <1>3

\* An entry is released before the run, or in the middle of it.
LEMMA EarlyReleaseStep ==
  ASSUME FlowInv, NEW w \in Workers, Refuse(w) \/ GiveUp(w)
  PROVE  /\ WorkerInv(w)'
         /\ \A u \in Tasks : u \in {held[w].task, held'[w].task} => TaskInv(u)'
<1>0. WorkflowTypeOK /\ QueueTypeOK
  BY Parts
<1>1. pc[w] \in Working
  BY DEF Refuse, GiveUp, Waiting, Working, PCs
<1> PICK t \in Tasks : t = job[w].task
  BY <1>1, AtWork
<1>2. /\ held[w].task = t /\ held[w].role = job[w].role
      /\ rows[t].role = job[w].role /\ rows[t].attempts = held[w].attempts
      /\ TaskInv(t)
  BY <1>1, AtWork, Parts
<1>3. PICK s \in {"awaiting_human", "failed"} : Release(w, s, job[w].role, held[w].attempts)
  BY DEF Refuse, GiveUp
<1>4. /\ rows'[t].status = s /\ rows'[t].role = rows[t].role
      /\ rows'[t].attempts = rows[t].attempts /\ rows'[t].ctx = rows[t].ctx
      /\ held'[w].task = NoTask
  BY <1>0, <1>2, <1>3, ReleaseEffect
<1>5. pc'[w] = "released"
  BY <1>0 DEF Refuse, GiveUp, Goto, WorkflowTypeOK
<1>6. /\ opened'[t] = opened[t] /\ used'[t] = used[t]
      /\ rows'[t].attempts <= opened[t]
  BY <1>2, <1>4 DEF Refuse, GiveUp, TaskInv, WithinBudget
<1>7. \/ runs'[t] = runs[t]
      \/ pc[w] \in Launching /\ \E status \in {"failed", "succeeded"} : SetRun(w, status, "none")
  BY DEF Refuse, GiveUp, Launching, Waiting
<1>8. TaskInv(t)'
  <2>1. CASE runs'[t] = runs[t]
    BY <1>0, <1>2, <1>4, <1>6, <2>1, TaskKept
  <2>2. CASE pc[w] \in Launching /\ \E status \in {"failed", "succeeded"} : SetRun(w, status, "none")
    <3>1. PICK status \in RunStatuses : SetRun(w, status, "none")
      BY <2>2 DEF RunStatuses
    <3> QED BY <1>4, <1>6, <2>2, <3>1, TaskKeptByRun
  <2> QED BY <1>7, <2>1, <2>2
<1> QED BY <1>2, <1>4, <1>5, <1>8, AtRest, QueueAssumption

\* A charge is not made when the budget is used up, and the agent that is picked is
\* not the author of what it is to review.
LEMMA PreLaunchStep ==
  ASSUME FlowInv, NEW w \in Workers, PreLaunch(w)
  PROVE  /\ WorkerInv(w)'
         /\ \A u \in Tasks : u \in {held[w].task, held'[w].task} => TaskInv(u)'
<1>0. WorkflowTypeOK /\ QueueTypeOK
  BY Parts
<1>1. pc[w] \in Working
  BY DEF PreLaunch, Working, PCs
<1> PICK t \in Tasks : t = job[w].task
  BY <1>1, AtWork
<1>2. /\ held[w].task = t /\ held[w].role = job[w].role
      /\ rows[t].status = "dispatched" /\ rows[t].role = job[w].role
      /\ TaskInv(t)
  BY <1>1, AtWork, Parts
<1>3. /\ opened[t] \in Nat /\ used[t] \in Nat
      /\ rows[t].attempts <= opened[t] /\ opened[t] <= used[t]
  BY <1>0, <1>2, RunsInTable DEF TaskInv, WithinBudget
<1>4. PICK a \in Agents : /\ job' = [job EXCEPT ![w].agent = a]
                          /\ a \notin Excludes(w)
  BY DEF PreLaunch, EligibleAgents, ExcludedReason
<1>5. used[t] < MaxRuns
  <2>1. ~Exhausted(t)
    BY DEF PreLaunch, RefusalFor, Refusal
  <2> QED BY <1>3, <2>1, WorkflowAssumption DEF Exhausted
<1>6. job[w] \in Job /\ job'[w] = [job[w] EXCEPT !.agent = a]
  BY <1>0, <1>4 DEF WorkflowTypeOK
<1>7. job'[w].task = t /\ job'[w].role = job[w].role /\ job'[w].agent = a
  BY <1>6 DEF Job
<1>8. /\ rows' = rows /\ held' = held /\ opened' = opened /\ runs' = runs
      /\ used'[t] = used[t] + 1 /\ pc'[w] = "charged"
  BY <1>0 DEF PreLaunch, queueVars, Goto, WorkflowTypeOK
<1>9. job[w].role = "reviewer" => a # rows[t].ctx.agent
  BY <1>4, QueueAssumption DEF Excludes, ExcludeSet
<1>10. WorkerInv(w)'
  <2>1. InHand(w)'
    BY <1>2, <1>7, <1>8 DEF InHand, Working, PCs
  <2>2. Ahead(w)'
    BY <1>3, <1>7, <1>8 DEF Ahead, HasRun, Launching, HasResult
  <2>3. Picked(w)'
    BY <1>7, <1>8, <1>9 DEF Picked
  <2>4. OwnRun(w)' /\ Knows(w)' /\ Noted(w)'
    BY <1>8 DEF OwnRun, Knows, Noted, HasRun, Launching, HasResult
  <2> QED BY <2>1, <2>2, <2>3, <2>4 DEF WorkerInv
<1>11. TaskInv(t)'
  <2>1. WithinBudget(t)'
    BY <1>3, <1>5, <1>8, WorkflowAssumption DEF WithinBudget
  <2>2. AbsentIsBlank(t)' /\ ReviewReady(t)' /\ ReviewsOf(t)' /\ AcceptedFor(t)'
    BY <1>2, <1>8 DEF TaskInv, AbsentIsBlank, ReviewReady, ReviewsOf, AcceptedFor, LatestCoded, IsCoded
  <2> QED BY <2>1, <2>2 DEF TaskInv
<1> QED BY <1>2, <1>8, <1>10, <1>11

\* A run of t is opened after its n runs, for the agent that w's handler has picked.
Opening(w, t, n) ==
  /\ t = job[w].task /\ t \in Tasks /\ held[w].task = t
  /\ rows[t].status = "dispatched" /\ rows[t].role = job[w].role
  /\ n = opened[t] /\ n \in Nat /\ 1..n \subseteq RunIds /\ n + 1 \in RunIds
  /\ rows[t].attempts \in Nat /\ rows[t].attempts <= n
  /\ used[t] \in Nat /\ n < used[t] /\ used[t] <= MaxRuns
  /\ opened'[t] = n + 1
  /\ \A r \in 1..n : runs'[t][r] = runs[t][r]
  /\ LET run == runs'[t][n + 1]
     IN  /\ run.status = "preparing" /\ run.role = job[w].role /\ run.agent = job[w].agent
         /\ job[w].role = "reviewer" => run.parent = rows[t].ctx.run
         /\ job[w].role = "implementer" => run.packet = rows[t].packet
  /\ job'[w].task = t /\ job'[w].role = job[w].role /\ job'[w].agent = job[w].agent
  /\ job'[w].run = n + 1
  /\ rows' = rows /\ held' = held /\ used' = used /\ pc'[w] = "opened"

\* What createRun() leaves behind, told of the task t with n runs.
LEMMA OpenRunEffect ==
  ASSUME FlowInv, NEW w \in Workers, OpenRun(w),
         NEW t, t = job[w].task, NEW n, n = opened[t]
  PROVE  Opening(w, t, n)
<1>0. WorkflowTypeOK /\ QueueTypeOK /\ WorkerInv(w)
  BY Parts
<1>1. pc[w] = "charged" /\ pc[w] \in Working
  BY DEF OpenRun, Working, PCs
<1>2. /\ t \in Tasks /\ held[w].task = t
      /\ rows[t].status = "dispatched" /\ rows[t].role = job[w].role
      /\ TaskInv(t)
  BY <1>1, AtWork, Parts
<1>3. /\ used[t] \in Nat /\ n < used[t] /\ used[t] <= MaxRuns
      /\ rows[t].attempts \in Nat /\ rows[t].attempts <= n
      /\ n \in Nat /\ 1..n \subseteq RunIds
  BY <1>0, <1>1, <1>2, RunsInTable DEF TaskInv, WithinBudget, WorkerInv, Ahead
<1>4. n + 1 \in RunIds
  BY <1>3, WorkflowAssumption
<1> DEFINE run == [AbsentRun EXCEPT
                   !.status = "preparing", !.role = job[w].role,
                   !.agent  = job[w].agent,
                   !.parent = IF job[w].role = "reviewer" THEN rows[t].ctx.run ELSE NoRun,
                   !.packet = IF job[w].role = "implementer" THEN rows[t].packet ELSE NoRun]
<1>5. /\ run.status = "preparing" /\ run.role = job[w].role /\ run.agent = job[w].agent
      /\ job[w].role = "reviewer" => run.parent = rows[t].ctx.run
      /\ job[w].role = "implementer" => run.packet = rows[t].packet
  BY DEF AbsentRun
<1>6. /\ opened' = [opened EXCEPT ![t] = n + 1]
      /\ runs' = [runs EXCEPT ![t] = [runs[t] EXCEPT ![n + 1] = run]]
      /\ job' = [job EXCEPT ![w].run = n + 1]
  BY <1>0 DEF OpenRun, WorkflowTypeOK
<1> HIDE DEF run
<1>7. /\ opened'[t] = n + 1
      /\ runs'[t][n + 1] = run
      /\ \A r \in 1..n : runs'[t][r] = runs[t][r]
  BY <1>0, <1>2, <1>3, <1>4, <1>6 DEF WorkflowTypeOK
<1>8. job[w] \in Job /\ job'[w] = [job[w] EXCEPT !.run = n + 1]
  BY <1>0, <1>6 DEF WorkflowTypeOK
<1>9. job'[w].task = t /\ job'[w].role = job[w].role /\ job'[w].agent = job[w].agent
      /\ job'[w].run = n + 1
  BY <1>8 DEF Job
<1>10. rows' = rows /\ held' = held /\ used' = used /\ pc'[w] = "opened"
  BY <1>0 DEF OpenRun, queueVars, Goto, WorkflowTypeOK
<1> QED BY <1>2, <1>3, <1>4, <1>5, <1>7, <1>9, <1>10 DEF Opening

\* A run is opened after the last one; when it is a review it names the
\* implementation the row does.
LEMMA OpenRunStep ==
  ASSUME FlowInv, NEW w \in Workers, OpenRun(w)
  PROVE  /\ WorkerInv(w)'
         /\ \A u \in Tasks : u \in {held[w].task, held'[w].task} => TaskInv(u)'
<1> PICK t : t = job[w].task
  OBVIOUS
<1> PICK n \in Nat : n = opened[t]
  BY OpenRunEffect DEF Opening
<1>0. Opening(w, t, n) /\ WorkerInv(w)
  BY OpenRunEffect, Parts
<1>1. pc[w] = "charged" /\ pc[w] \in Working
  BY DEF OpenRun, Working, PCs
<1>2. /\ t \in Tasks /\ held[w].task = t /\ held[w].role = job[w].role
      /\ rows[t].status = "dispatched" /\ rows[t].role = job[w].role
      /\ TaskInv(t)
  BY <1>0, <1>1, AtWork, Parts DEF Opening
<1>3. /\ used[t] \in Nat /\ n < used[t] /\ used[t] <= MaxRuns
      /\ rows[t].attempts \in Nat /\ rows[t].attempts <= n
      /\ n \in Nat /\ 1..n \subseteq RunIds
  BY <1>0 DEF Opening
<1> PICK run : run = runs'[t][n + 1]
  OBVIOUS
<1>4. /\ run.status = "preparing" /\ run.role = job[w].role /\ run.agent = job[w].agent
      /\ job[w].role = "reviewer" => run.parent = rows[t].ctx.run
  BY <1>0 DEF Opening
<1>5. /\ opened'[t] = n + 1
      /\ runs'[t][n + 1] = run
      /\ \A r \in 1..n : runs'[t][r] = runs[t][r]
  BY <1>0 DEF Opening
<1>6. job'[w].task = t /\ job'[w].role = job[w].role /\ job'[w].agent = job[w].agent
      /\ job'[w].run = n + 1
  BY <1>0 DEF Opening
<1>7. rows' = rows /\ held' = held /\ used' = used /\ pc'[w] = "opened"
  BY <1>0 DEF Opening
<1>8. Picked(w)
  BY <1>0 DEF WorkerInv
<1>9. WorkerInv(w)'
  <2>1. InHand(w)'
    BY <1>2, <1>6, <1>7 DEF InHand, Working, PCs
  <2>2. Ahead(w)'
    BY <1>3, <1>5, <1>6, <1>7 DEF Ahead
  <2>3. Picked(w)'
    BY <1>1, <1>6, <1>7, <1>8 DEF Picked
  <2>4. OwnRun(w)'
    BY <1>4, <1>5, <1>6 DEF OwnRun
  <2>5. Knows(w)' /\ Noted(w)'
    BY <1>7 DEF Knows, Noted, HasResult
  <2> QED BY <2>1, <2>2, <2>3, <2>4, <2>5 DEF WorkerInv
<1>10. \A p \in 1..n : IsCoded(t, p)' <=> IsCoded(t, p)
  BY <1>5 DEF IsCoded
<1>11. ~IsCoded(t, n + 1)'
  BY <1>4, <1>5 DEF IsCoded
<1>12. ASSUME NEW q, NEW r \in 1..(n + 1), LatestCoded(t, q, r)
       PROVE  LatestCoded(t, q, r)' /\ q \in 1..n
  BY <1>10, <1>12 DEF LatestCoded
<1>13. TaskInv(t)'
  <2>1. WithinBudget(t)' /\ AbsentIsBlank(t)' /\ AcceptedFor(t)'
    BY <1>2, <1>3, <1>5, <1>7 DEF WithinBudget, AbsentIsBlank, AcceptedFor
  <2> PICK c : c = rows[t].ctx.run
    OBVIOUS
  <2>2. rows[t].role = "reviewer" =>
          /\ t \in Reviewed
          /\ LatestCoded(t, c, n + 1)
          /\ runs[t][c].agent = rows[t].ctx.agent
    BY <1>2 DEF TaskInv, ReviewReady
  <2>3. ReviewReady(t)'
    <3> SUFFICES ASSUME rows[t].role = "reviewer" PROVE ReviewReady(t)'
      BY <1>7 DEF ReviewReady
    <3>1. c \in 1..n /\ IsCoded(t, c) /\ \A p \in 1..n : IsCoded(t, p) => p <= c
      <4>1. (n + 1) - 1 = n
        OBVIOUS
      <4> QED BY <2>2, <4>1 DEF LatestCoded
    <3>2. \A p \in 1..(n + 1) : p \in 1..n \/ p = n + 1
      OBVIOUS
    <3>3. IsCoded(t, c)' /\ \A p \in 1..(n + 1) : IsCoded(t, p)' => p <= c
      BY <1>10, <1>11, <3>1, <3>2
    <3>4. (n + 2) - 1 = n + 1 /\ c \in 1..(n + 1)
      BY <3>1
    <3>5. LatestCoded(t, c, n + 2)'
      BY <3>3, <3>4 DEF LatestCoded
    <3>6. c = rows'[t].ctx.run /\ runs'[t][c].agent = rows'[t].ctx.agent
      BY <1>5, <1>7, <2>2, <3>1
    <3>7. opened'[t] + 1 = n + 2
      BY <1>5
    <3> QED BY <2>2, <3>5, <3>6, <3>7 DEF ReviewReady
  <2>4. ReviewsOf(t)'
    <3> SUFFICES ASSUME NEW r \in 1..(n + 1), runs'[t][r].role = "reviewer"
                 PROVE  /\ LatestCoded(t, runs[t][r].parent, r)'
                        /\ runs'[t][r].agent # runs'[t][runs'[t][r].parent].agent
      BY <1>5 DEF ReviewsOf
    <3> PICK q : q = runs'[t][r].parent
      OBVIOUS
    <3>1. LatestCoded(t, q, r) /\ runs'[t][r].agent # runs[t][q].agent
      <4>1. CASE r = n + 1
        <5>1. job[w].role = "reviewer" /\ q = c
          BY <1>4, <1>5, <4>1
        <5>2. job[w].agent # rows[t].ctx.agent
          BY <1>1, <1>8, <5>1 DEF Picked
        <5> QED BY <1>2, <1>4, <1>5, <2>2, <4>1, <5>1, <5>2
      <4>2. CASE r # n + 1
        <5>1. r \in 1..n
          BY <4>2
        <5> QED BY <1>2, <1>5, <5>1 DEF TaskInv, ReviewsOf
      <4> QED BY <4>1, <4>2
    <3>2. LatestCoded(t, q, r)' /\ q \in 1..n
      BY <1>12, <3>1
    <3> QED BY <1>5, <3>1, <3>2 DEF LatestCoded, IsCoded
  <2> QED BY <2>1, <2>3, <2>4 DEF TaskInv
<1> QED BY <1>2, <1>7, <1>9, <1>13

\* What w's handler has, besides its run, is what it had.
SameHand(w) ==
  /\ job'[w].task = job[w].task /\ job'[w].role = job[w].role
  /\ job'[w].agent = job[w].agent /\ job'[w].run = job[w].run
  /\ held'[w] = held[w]

\* The run ends, or goes on, and the handler with it.
LEMMA RunEffect ==
  ASSUME FlowInv, NEW w \in Workers,
         \/ LaunchAgent(w) \/ PrepareFails(w) \/ Interrupt(w)
         \/ ImplementerDone(w) \/ VerifierDone(w) \/ ReviewerDone(w)
  PROVE  /\ pc[w] \in Launching
         /\ SameHand(w) /\ rows' = rows /\ opened' = opened /\ used' = used
         /\ pc'[w] \in {"agent", "verifying", "ran", "raised"}
         /\ pc'[w] = "verifying" => job[w].role = "implementer"
         /\ \/ runs' = runs /\ (pc'[w] = "ran" => job'[w].outcome = "internal_error")
            \/ \E s \in RunStatuses, v \in {"none"} \cup Verdicts :
                 /\ SetRun(w, s, v)
                 /\ pc'[w] = "ran" =>
                      /\ job'[w].outcome = "succeeded" =>
                           job[w].role = "implementer" /\ s = "succeeded"
                      /\ job'[w].outcome \in Verdicts =>
                           job[w].role = "reviewer" /\ s = "succeeded" /\ v = job'[w].outcome
<1>0. WorkflowTypeOK /\ job[w] \in Job /\ WorkerInv(w)
  BY Parts DEF WorkflowTypeOK
<1>1. pc[w] \in Launching
  BY DEF LaunchAgent, PrepareFails, Interrupt, ImplementerDone, VerifierDone, ReviewerDone, Launching
<1>2. queueVars' = queueVars /\ rows' = rows /\ held' = held /\ opened' = opened /\ used' = used
  BY DEF LaunchAgent, PrepareFails, Interrupt, ImplementerDone, VerifierDone, ReviewerDone, queueVars
<1> DEFINE
      Ended(s, o) == SetRun(w, s, IF o \in Verdicts THEN o ELSE "none")
      Result == /\ SameHand(w)
                /\ pc'[w] \in {"agent", "verifying", "ran", "raised"}
                /\ pc'[w] = "verifying" => job[w].role = "implementer"
                /\ \/ runs' = runs /\ (pc'[w] = "ran" => job'[w].outcome = "internal_error")
                   \/ \E s \in RunStatuses, v \in {"none"} \cup Verdicts :
                        /\ SetRun(w, s, v)
                        /\ pc'[w] = "ran" =>
                             /\ job'[w].outcome = "succeeded" =>
                                  job[w].role = "implementer" /\ s = "succeeded"
                             /\ job'[w].outcome \in Verdicts =>
                                  /\ job[w].role = "reviewer"
                                  /\ s = "succeeded"
                                  /\ v = job'[w].outcome
<1>3. ASSUME NEW s \in RunStatuses, NEW o, Finish(w, s, o),
             o = "succeeded" => job[w].role = "implementer" /\ s = "succeeded",
             o \in Verdicts => job[w].role = "reviewer" /\ s = "succeeded"
      PROVE  Result
  <2>1. job'[w] = [job[w] EXCEPT !.outcome = o] /\ pc'[w] = "ran"
    BY <1>0, <1>3 DEF Finish, Goto, WorkflowTypeOK
  <2>2. SameHand(w) /\ job'[w].outcome = o
    BY <1>0, <1>2, <2>1 DEF SameHand, Job
  <2>3. PICK v \in {"none"} \cup Verdicts :
           SetRun(w, s, v) /\ v = IF o \in Verdicts THEN o ELSE "none"
    BY <1>3 DEF Finish
  <2> QED BY <1>3, <2>1, <2>2, <2>3
<1>4. ASSUME NEW label \in {"agent", "verifying", "raised"}, Goto(w, label), job' = job,
             label = "verifying" => job[w].role = "implementer",
             runs' = runs \/ \E s \in RunStatuses : SetRun(w, s, "none")
      PROVE  Result
  <2>1. pc'[w] = label /\ SameHand(w)
    BY <1>0, <1>2, <1>4 DEF SameHand, Goto, WorkflowTypeOK
  <2> QED BY <1>4, <2>1
<1>5. {"failed", "succeeded", "running", "cancelled"} \subseteq RunStatuses
  BY DEF RunStatuses, OpenStatuses
<1> HIDE DEF Result
<1>6. ASSUME LaunchAgent(w) PROVE Result
  BY <1>4, <1>5, <1>6 DEF LaunchAgent
<1>7. ASSUME Interrupt(w) PROVE Result
  BY <1>4, <1>5, <1>7 DEF Interrupt
<1>8. ASSUME PrepareFails(w) PROVE Result
  <2>1. ASSUME NEW o \in {"internal_error", "diff_apply_failed"}, Finish(w, "failed", o)
        PROVE  Result
    BY <1>3, <1>5, <2>1 DEF Verdicts
  <2>2. ASSUME job' = [job EXCEPT ![w].outcome = "internal_error"], Goto(w, "ran"),
               NEW s \in OpenStatuses, SetRun(w, s, "none")
        PROVE  Result
    <3>1. job'[w] = [job[w] EXCEPT !.outcome = "internal_error"] /\ pc'[w] = "ran"
      BY <1>0, <2>2 DEF Goto, WorkflowTypeOK
    <3>2. SameHand(w) /\ job'[w].outcome = "internal_error"
      BY <1>0, <1>2, <3>1 DEF SameHand, Job
    <3>3. s \in RunStatuses /\ "internal_error" \notin Verdicts \cup {"succeeded"}
      BY DEF RunStatuses, Verdicts
    <3> QED BY <2>2, <3>1, <3>2, <3>3 DEF Result
  <2> QED BY <1>8, <2>1, <2>2 DEF PrepareFails
<1>9. ASSUME NEW o \in Failures(w), Finish(w, "failed", o) PROVE Result
  BY <1>3, <1>5, <1>9 DEF Failures, AgentFailures, Verdicts
<1>10. ASSUME ImplementerDone(w) PROVE Result
  <2>1. CASE \E o \in Failures(w) : Finish(w, "failed", o)
    BY <1>9, <2>1
  <2>2. CASE Finish(w, "succeeded", "succeeded")
    BY <1>3, <1>5, <1>10, <2>2 DEF ImplementerDone, Verdicts
  <2>3. CASE Goto(w, "verifying") /\ UNCHANGED <<runs, job>>
    BY <1>4, <1>10, <2>3 DEF ImplementerDone
  <2> QED BY <1>10, <2>1, <2>2, <2>3 DEF ImplementerDone
<1>11. ASSUME VerifierDone(w) PROVE Result
  <2>1. job[w].role = "implementer"
    BY <1>0, <1>11 DEF VerifierDone, WorkerInv, Knows
  <2>2. CASE Finish(w, "succeeded", "succeeded")
    BY <1>3, <1>5, <2>1, <2>2 DEF Verdicts
  <2>3. ASSUME NEW o \in {"verification_failed", "internal_error"}, Finish(w, "failed", o)
        PROVE  Result
    BY <1>3, <1>5, <2>3 DEF Verdicts
  <2> QED BY <1>11, <2>2, <2>3 DEF VerifierDone
<1>12. ASSUME ReviewerDone(w) PROVE Result
  <2>1. CASE \E o \in Failures(w) : Finish(w, "failed", o)
    BY <1>9, <2>1
  <2>2. CASE Finish(w, "failed", "reviewer_unusable")
    BY <1>3, <1>5, <2>2 DEF Verdicts
  <2>3. ASSUME NEW o \in Verdicts, Finish(w, "succeeded", o) PROVE Result
    BY <1>3, <1>5, <1>12, <2>3 DEF ReviewerDone, Verdicts
  <2> QED BY <1>12, <2>1, <2>2, <2>3 DEF ReviewerDone
<1>13. Result
  BY <1>6, <1>7, <1>8, <1>10, <1>11, <1>12
<1> QED BY <1>1, <1>2, <1>13 DEF Result

\* Between the row of a run and its end, the handler's promises are kept.
LEMMA RunStep ==
  ASSUME FlowInv, NEW w \in Workers,
         \/ LaunchAgent(w) \/ PrepareFails(w) \/ Interrupt(w)
         \/ ImplementerDone(w) \/ VerifierDone(w) \/ ReviewerDone(w)
  PROVE  /\ WorkerInv(w)'
         /\ \A u \in Tasks : u \in {held[w].task, held'[w].task} => TaskInv(u)'
<1>0. WorkflowTypeOK /\ QueueTypeOK /\ WorkerInv(w)
  BY Parts
<1>1. /\ pc[w] \in Launching
      /\ SameHand(w) /\ rows' = rows /\ opened' = opened /\ used' = used
      /\ pc'[w] \in {"agent", "verifying", "ran", "raised"}
      /\ pc'[w] = "verifying" => job[w].role = "implementer"
  BY RunEffect
<1>2. pc[w] \in Working /\ pc[w] \in HasRun
  BY <1>1 DEF Working, HasRun, Launching, PCs
<1>3. ASSUME NEW s \in RunStatuses, NEW v \in {"none"} \cup Verdicts, SetRun(w, s, v)
      PROVE  OnlyRun(w, s, v)
  <2>1. job[w].task \in Tasks /\ job[w].run \in RunIds
    BY <1>2, AtWork, RunNumber
  <2>2. v \in {"none", "approved", "changes_requested", "rejected"}
    BY DEF Verdicts
  <2> QED BY <1>0, <1>3, <2>1, <2>2, SetRunEffect
<1> PICK t \in Tasks : t = job[w].task
  BY <1>2, AtWork
<1> PICK r : r = job[w].run
  OBVIOUS
<1>4. /\ held[w].task = t /\ held[w].role = job[w].role
      /\ rows[t].status = "dispatched"
      /\ TaskInv(t) /\ r \in RunIds /\ r = opened[t]
  BY <1>2, AtWork, RunNumber, Parts
<1>5. /\ job'[w].task = t /\ job'[w].role = job[w].role
      /\ job'[w].agent = job[w].agent /\ job'[w].run = r
      /\ held'[w] = held[w]
  BY <1>1 DEF SameHand
<1>6. rows[t].attempts <= opened[t]
  BY <1>4 DEF TaskInv, WithinBudget
<1> DEFINE Known == pc'[w] = "ran" =>
                      /\ job'[w].outcome = "succeeded" =>
                           job[w].role = "implementer" /\ runs'[t][r].status = "succeeded"
                      /\ job'[w].outcome \in Verdicts =>
                           /\ job[w].role = "reviewer"
                           /\ runs'[t][r].status = "succeeded"
                           /\ runs'[t][r].verdict = job'[w].outcome
<1>7. /\ TaskInv(t)' /\ Known
      /\ runs'[t][r].role = runs[t][r].role /\ runs'[t][r].agent = runs[t][r].agent
  <2>1. CASE runs' = runs /\ (pc'[w] = "ran" => job'[w].outcome = "internal_error")
    <3>1. TaskInv(t)'
      BY <1>0, <1>1, <1>4, <1>6, <2>1, TaskKept
    <3> QED BY <2>1, <3>1 DEF Verdicts
  <2>2. ASSUME NEW s \in RunStatuses, NEW v \in {"none"} \cup Verdicts, SetRun(w, s, v),
               pc'[w] = "ran" =>
                 /\ job'[w].outcome = "succeeded" =>
                      job[w].role = "implementer" /\ s = "succeeded"
                 /\ job'[w].outcome \in Verdicts =>
                      job[w].role = "reviewer" /\ s = "succeeded" /\ v = job'[w].outcome
        PROVE  /\ TaskInv(t)' /\ Known
               /\ runs'[t][r].role = runs[t][r].role /\ runs'[t][r].agent = runs[t][r].agent
    <3>1. v \in {"none", "approved", "changes_requested", "rejected"}
      BY DEF Verdicts
    <3>2. TaskInv(t)'
      BY <1>1, <1>4, <1>6, <2>2, <3>1, TaskKeptByRun
    <3>3. /\ runs'[t][r].status = s /\ runs'[t][r].verdict = v
          /\ runs'[t][r].role = runs[t][r].role /\ runs'[t][r].agent = runs[t][r].agent
      BY <1>3, <2>2 DEF OnlyRun
    <3> QED BY <2>2, <3>2, <3>3
  <2> QED BY <2>1, <2>2, RunEffect
<1>8. WorkerInv(w)'
  <2>1. InHand(w)'
    BY <1>1, <1>4, <1>5 DEF InHand, Working, PCs
  <2>2. Ahead(w)' /\ Picked(w)'
    BY <1>0, <1>1, <1>2, <1>5 DEF WorkerInv, Ahead, Picked
  <2>3. OwnRun(w)'
    BY <1>0, <1>1, <1>2, <1>4, <1>5, <1>7 DEF WorkerInv, OwnRun
  <2>4. Knows(w)' /\ Noted(w)'
    BY <1>1, <1>5, <1>7 DEF Knows, Noted, HasResult
  <2> QED BY <2>1, <2>2, <2>3, <2>4 DEF WorkerInv
<1> QED BY <1>4, <1>5, <1>7, <1>8

\* Accounting and the notes in the row change neither the runs nor what the queue
\* goes by.
LEMMA NoteStep ==
  ASSUME FlowInv, NEW w \in Workers,
         Account(w) \/ SaveReviewContext(w) \/ ExcludeOrigin(w) \/ AttachPacket(w)
         \/ Raise(w) \/ Abort(w)
  PROVE  /\ WorkerInv(w)'
         /\ \A u \in Tasks : u \in {held[w].task, held'[w].task} => TaskInv(u)'
<1>0. WorkflowTypeOK /\ QueueTypeOK /\ WorkerInv(w)
  BY Parts
<1>1. pc[w] \in Working
  BY DEF Account, SaveReviewContext, ExcludeOrigin, AttachPacket, Raise, Abort, Waiting, Working, PCs
<1> PICK t \in Tasks : t = job[w].task
  BY <1>1, AtWork
<1>2. /\ held[w].task = t /\ held[w].role = job[w].role
      /\ rows[t].status = "dispatched" /\ rows[t].role = job[w].role
      /\ TaskInv(t) /\ rows[t] \in Row /\ rows[t].attempts <= opened[t]
  BY <1>0, <1>1, AtWork, Parts DEF TaskInv, WithinBudget, QueueTypeOK
<1>3. /\ opened' = opened /\ used' = used /\ runs' = runs /\ job' = job
  BY DEF Account, SaveReviewContext, ExcludeOrigin, AttachPacket, Raise, Abort
<1>4. /\ held' = held
      /\ rows'[t].status = rows[t].status /\ rows'[t].role = rows[t].role
      /\ rows'[t].attempts = rows[t].attempts
      /\ ~SaveReviewContext(w) => rows'[t].ctx = rows[t].ctx
  <2>1. ASSUME UNCHANGED queueVars PROVE held' = held /\ rows' = rows
    BY <2>1 DEF queueVars
  <2>2. ASSUME NEW p, SetPacket(w, p)
        PROVE  held' = held /\ rows'[t] = [rows[t] EXCEPT !.packet = p]
    BY <1>0, <1>2, <2>2, NoteEffect
  <2>3. ASSUME NEW agents, AddExcludes(w, agents)
        PROVE  held' = held /\ rows'[t] = [rows[t] EXCEPT !.excl = rows[t].excl \cup agents]
    BY <1>0, <1>2, <2>3, NoteEffect
  <2>4. ASSUME NEW ctx, SetReviewContext(w, ctx)
        PROVE  held' = held /\ rows'[t] = [rows[t] EXCEPT !.ctx = ctx]
    BY <1>0, <1>2, <2>4, NoteEffect
  <2>5. CASE Raise(w) \/ Abort(w)
    BY <2>1, <2>5 DEF Raise, Abort
  <2>6. CASE Account(w) \/ AttachPacket(w)
    <3>1. UNCHANGED queueVars \/ \E p : SetPacket(w, p)
      BY <2>6 DEF Account, AttachPacket
    <3> QED BY <1>2, <2>1, <2>2, <3>1 DEF Row
  <2>7. CASE ExcludeOrigin(w)
    <3>1. \E agents : AddExcludes(w, agents)
      BY <2>7 DEF ExcludeOrigin
    <3> QED BY <1>2, <2>3, <3>1 DEF Row
  <2>8. CASE SaveReviewContext(w)
    <3>1. \E ctx : SetReviewContext(w, ctx)
      BY <2>8 DEF SaveReviewContext
    <3> QED BY <1>2, <2>4, <2>8, <3>1 DEF Row
  <2> QED BY <2>5, <2>6, <2>7, <2>8
<1>5. SaveReviewContext(w) =>
        /\ job[w].role = "implementer"
        /\ rows'[t].ctx = [run |-> job[w].run, agent |-> job[w].agent]
  <2> SUFFICES ASSUME SaveReviewContext(w)
               PROVE  /\ job[w].role = "implementer"
                      /\ rows'[t].ctx = [run |-> job[w].run, agent |-> job[w].agent]
    OBVIOUS
  <2>1. job[w].role = "implementer"
    BY <1>0 DEF SaveReviewContext, WantsReview, WorkerInv, Knows, HasResult
  <2> DEFINE c == [run |-> job[w].run, agent |-> job[w].agent]
  <2>2. SetReviewContext(w, c)
    BY DEF SaveReviewContext
  <2> HIDE DEF c
  <2>3. rows'[t] = [rows[t] EXCEPT !.ctx = c]
    BY <1>0, <1>2, <2>2, NoteEffect
  <2>4. rows'[t].ctx = c
    BY <1>2, <2>3 DEF Row
  <2> QED BY <2>1, <2>4 DEF c
<1>6. TaskInv(t)'
  BY <1>0, <1>2, <1>3, <1>4, <1>5, TaskKept
<1>7. WorkerInv(w)'
  <2>1. CASE pc'[w] = "raised"
    BY <1>2, <1>3, <1>4, <2>1, AtRest
  <2>2. CASE pc'[w] # "raised"
    <3>1. \/ pc[w] \in Launching /\ pc'[w] = pc[w]
          \/ pc[w] \in HasResult /\ pc'[w] \in HasResult
      BY <1>0, <2>2 DEF Account, SaveReviewContext, ExcludeOrigin, AttachPacket, Raise, Abort,
         Goto, Waiting, WorkflowTypeOK, HasResult, Launching
    <3>2. pc[w] \in HasRun /\ pc'[w] \in HasRun /\ pc'[w] \in Working
      BY <3>1 DEF HasRun, Launching, HasResult, Working, PCs
    <3>3. InHand(w)'
      BY <1>2, <1>3, <1>4, <3>2 DEF InHand
    <3>4. Ahead(w)' /\ OwnRun(w)'
      BY <1>0, <1>3, <1>4, <3>2 DEF WorkerInv, Ahead, OwnRun, HasRun, Launching, HasResult
    <3>5. Picked(w)'
      BY <1>0, <1>3, <1>4, <1>5, <3>2 DEF WorkerInv, Picked
    <3>6. Knows(w)'
      BY <1>0, <1>3, <3>1 DEF WorkerInv, Knows, Launching, HasResult
    <3>7. Noted(w)'
      BY <1>0, <1>3, <1>5, <2>2 DEF WorkerInv, Noted, Account, SaveReviewContext, ExcludeOrigin,
         AttachPacket, Raise, Abort, Goto, Waiting, WantsHandoff, HandoffOutcomes, WorkflowTypeOK
    <3> QED BY <3>3, <3>4, <3>5, <3>6, <3>7 DEF WorkerInv
  <2> QED BY <2>1, <2>2
<1> QED BY <1>2, <1>4, <1>6, <1>7

\* A release after a run of t, its run n, with status s and role r: what it is
\* released on, and what it writes.
Settling(w, t, n, s, r) ==
  /\ t \in Tasks /\ held[w].task = t /\ TaskInv(t)
  /\ rows[t].status = "dispatched" /\ rows[t].role = job[w].role
  /\ rows[t].attempts \in Nat /\ rows[t].attempts < opened[t]
  /\ n = opened[t] /\ n \in Nat \ {0} /\ n \in RunIds /\ 1..n \subseteq RunIds
  /\ s \in {"accepted", "awaiting_human", "queued", "failed"} /\ r \in Roles
  /\ s = "accepted" => \/ job[w].outcome = "succeeded" /\ t \notin Reviewed
                       \/ job[w].outcome = "approved"
  /\ s # "queued" => r = job[w].role
  /\ s = "queued" => r = IF WantsReview(w) THEN "reviewer" ELSE "implementer"
  /\ WantsReview(w) => rows[t].ctx = [run |-> n, agent |-> job[w].agent]
  /\ rows'[t].status = s /\ rows'[t].role = r
  /\ rows'[t].attempts = rows[t].attempts + 1
  /\ rows'[t].ctx = rows[t].ctx /\ held'[w].task = NoTask
  /\ opened' = opened /\ used' = used /\ runs' = runs /\ pc'[w] = "released"
  /\ runs[t][n].role = job[w].role /\ runs[t][n].agent = job[w].agent
  /\ job[w].agent \in Agents
  /\ job[w].role = "reviewer" => job[w].agent # rows[t].ctx.agent
  /\ job[w].outcome = "succeeded" =>
       job[w].role = "implementer" /\ runs[t][n].status = "succeeded"
  /\ job[w].outcome = "approved" =>
       /\ job[w].role = "reviewer"
       /\ runs[t][n].status = "succeeded" /\ runs[t][n].verdict = "approved"

\* What the release at the end of a handler leaves behind.
LEMMA SettleEffect ==
  ASSUME FlowInv, NEW w \in Workers, Settle(w),
         NEW t, t = job[w].task, NEW n, n = job[w].run,
         NEW s, s = NextStatus(w), NEW r, r = NextRole(w)
  PROVE  Settling(w, t, n, s, r)
<1>0. WorkflowTypeOK /\ QueueTypeOK /\ WorkerInv(w)
  BY Parts
<1>1. pc[w] \in Working /\ pc[w] \in HasRun /\ pc[w] \in HasResult
  BY DEF Settle, Working, HasRun, HasResult, PCs
<1>2. job[w].role \in Roles
  BY <1>0 DEF WorkflowTypeOK, Job
<1>3. n = opened[t] /\ n \in Nat \ {0} /\ n \in RunIds /\ 1..n \subseteq RunIds
  BY <1>1, RunNumber, WorkflowAssumption
<1>4. /\ t \in Tasks /\ held[w].task = t /\ TaskInv(t)
      /\ rows[t].status = "dispatched" /\ rows[t].role = job[w].role
      /\ rows[t].attempts = held[w].attempts
  BY <1>1, AtWork, Parts
<1>5. rows[t].attempts \in Nat /\ rows[t].attempts < opened[t]
  BY <1>0, <1>1, <1>4, RunsInTable DEF TaskInv, WorkerInv, Ahead
<1>6. /\ s \in {"accepted", "awaiting_human", "queued", "failed"}
      /\ r \in Roles
      /\ s = "accepted" => \/ job[w].outcome = "succeeded" /\ t \notin Reviewed
                           \/ job[w].outcome = "approved"
      /\ s # "queued" => r = job[w].role
      /\ s = "queued" => r = IF WantsReview(w) THEN "reviewer" ELSE "implementer"
  BY <1>2, Releases
<1>7. /\ rows'[t].status = s /\ rows'[t].role = r
      /\ rows'[t].attempts = rows[t].attempts + 1
      /\ rows'[t].ctx = rows[t].ctx /\ held'[w].task = NoTask
  <2>1. Release(w, s, r, held[w].attempts + 1)
    BY DEF Settle
  <2> QED BY <1>0, <1>4, <2>1, ReleaseEffect
<1>8. opened' = opened /\ used' = used /\ runs' = runs /\ pc'[w] = "released"
  BY <1>0 DEF Settle, Goto, WorkflowTypeOK
<1>9. WantsReview(w) => rows[t].ctx = [run |-> n, agent |-> job[w].agent]
  BY <1>0 DEF Settle, WantsReview, WorkerInv, Noted
<1>10. /\ runs[t][n].role = job[w].role /\ runs[t][n].agent = job[w].agent
       /\ job[w].agent \in Agents
       /\ job[w].role = "reviewer" => job[w].agent # rows[t].ctx.agent
       /\ job[w].outcome = "succeeded" =>
            job[w].role = "implementer" /\ runs[t][n].status = "succeeded"
       /\ job[w].outcome = "approved" =>
            /\ job[w].role = "reviewer"
            /\ runs[t][n].status = "succeeded" /\ runs[t][n].verdict = "approved"
  BY <1>0, <1>1 DEF WorkerInv, OwnRun, Knows, Picked, Verdicts
<1> QED BY <1>3, <1>4, <1>5, <1>6, <1>7, <1>8, <1>9, <1>10 DEF Settling

\* The release after a run: an attempt is counted, an implementation that is to be
\* reviewed is the one the row names, and what is accepted is the last run.
LEMMA SettleStep ==
  ASSUME FlowInv, NEW w \in Workers, Settle(w)
  PROVE  /\ WorkerInv(w)'
         /\ \A u \in Tasks : u \in {held[w].task, held'[w].task} => TaskInv(u)'
<1> PICK t : t = job[w].task
  OBVIOUS
<1> PICK n : n = job[w].run
  OBVIOUS
<1> PICK s : s = NextStatus(w)
  OBVIOUS
<1> PICK r : r = NextRole(w)
  OBVIOUS
<1>0. Settling(w, t, n, s, r)
  BY SettleEffect
<1>1. /\ t \in Tasks /\ held[w].task = t /\ TaskInv(t)
      /\ rows[t].role = job[w].role
      /\ rows[t].attempts \in Nat /\ rows[t].attempts < opened[t]
  BY <1>0 DEF Settling
<1>2. n = opened[t] /\ n \in Nat \ {0} /\ n \in RunIds /\ 1..n \subseteq RunIds
  BY <1>0 DEF Settling
<1>3. /\ s \in {"accepted", "awaiting_human", "queued", "failed"}
      /\ r \in Roles
      /\ s = "accepted" => \/ job[w].outcome = "succeeded" /\ t \notin Reviewed
                           \/ job[w].outcome = "approved"
      /\ s # "queued" => r = job[w].role
      /\ s = "queued" => r = IF WantsReview(w) THEN "reviewer" ELSE "implementer"
      /\ WantsReview(w) => rows[t].ctx = [run |-> n, agent |-> job[w].agent]
  BY <1>0 DEF Settling
<1>4. /\ rows'[t].status = s /\ rows'[t].role = r
      /\ rows'[t].attempts = rows[t].attempts + 1
      /\ rows'[t].ctx = rows[t].ctx /\ held'[w].task = NoTask
  BY <1>0 DEF Settling
<1>5. opened' = opened /\ used' = used /\ runs' = runs /\ pc'[w] = "released"
  BY <1>0 DEF Settling
<1>6. /\ runs[t][n].role = job[w].role /\ runs[t][n].agent = job[w].agent
      /\ job[w].outcome = "succeeded" =>
           job[w].role = "implementer" /\ runs[t][n].status = "succeeded"
      /\ job[w].outcome = "approved" =>
           /\ job[w].role = "reviewer"
           /\ runs[t][n].status = "succeeded" /\ runs[t][n].verdict = "approved"
  BY <1>0 DEF Settling
<1>7. WithinBudget(t)'
  BY <1>1, <1>2, <1>4, <1>5 DEF TaskInv, WithinBudget
<1>8. AbsentIsBlank(t)'
  BY <1>3, <1>4 DEF AbsentIsBlank
<1>9. ReviewsOf(t)'
  BY <1>1, <1>5 DEF TaskInv, ReviewsOf, LatestCoded, IsCoded
<1>10. ReviewReady(t)'
  <2>1. CASE r = "implementer"
    BY <1>4, <2>1 DEF ReviewReady
  <2>2. CASE s # "queued"
    <3>1. rows'[t].role = rows[t].role
      BY <1>1, <1>3, <1>4, <2>2
    <3> QED BY <1>1, <1>4, <1>5, <3>1 DEF TaskInv, ReviewReady, LatestCoded, IsCoded
  <2>3. CASE s = "queued" /\ r = "reviewer"
    <3>1. WantsReview(w)
      BY <1>3, <2>3
    <3>2. job[w].outcome = "succeeded" /\ t \in Reviewed
      BY <3>1 DEF WantsReview
    <3>3. rows[t].ctx.run = n /\ rows[t].ctx.agent = job[w].agent
      BY <1>3, <3>1
    <3>4. IsCoded(t, n)
      BY <1>6, <3>2 DEF IsCoded
    <3>5. LatestCoded(t, n, n + 1)
      BY <1>2, <3>4 DEF LatestCoded
    <3>6. LatestCoded(t, n, n + 1)'
      BY <1>5, <3>5 DEF LatestCoded, IsCoded
    <3>7. /\ n = rows'[t].ctx.run /\ n + 1 = opened'[t] + 1
          /\ runs'[t][n].agent = rows'[t].ctx.agent
      BY <1>2, <1>4, <1>5, <1>6, <3>3
    <3> QED BY <3>2, <3>6, <3>7 DEF ReviewReady
  <2> QED BY <1>3, <2>1, <2>2, <2>3 DEF Roles
<1>11. AcceptedFor(t)'
  <2> SUFFICES ASSUME s = "accepted"
               PROVE  /\ n > 0 /\ runs[t][n].status = "succeeded"
                      /\ IF t \in Reviewed THEN runs[t][n].verdict = "approved"
                         ELSE runs[t][n].role = "implementer"
    BY <1>2, <1>4, <1>5 DEF AcceptedFor
  <2>1. CASE job[w].outcome = "succeeded" /\ t \notin Reviewed
    BY <1>2, <1>6, <2>1
  <2>2. CASE job[w].outcome = "approved"
    <3>1. t \in Reviewed
      BY <1>1, <1>6, <2>2 DEF TaskInv, ReviewReady
    <3> QED BY <1>2, <1>6, <2>2, <3>1
  <2> QED BY <1>3, <2>1, <2>2
<1>12. TaskInv(t)'
  BY <1>7, <1>8, <1>9, <1>10, <1>11 DEF TaskInv
<1> QED BY <1>1, <1>4, <1>5, <1>12, AtRest, QueueAssumption
-----------------------------------------------------------------------------
(* The invariant. *)

\* Any step of a worker keeps what it relies on, and its task's part.
LEMMA OwnStep ==
  ASSUME FlowInv, NEW w \in Workers, Move(w)
  PROVE  /\ WorkerInv(w)'
         /\ \A u \in Tasks : u \in {held[w].task, held'[w].task} => TaskInv(u)'
<1> DEFINE Goal == /\ WorkerInv(w)'
                   /\ \A u \in Tasks : u \in {held[w].task, held'[w].task} => TaskInv(u)'
<1>1. ASSUME ClaimTask(w) \/ Done(w) \/ Requeue(w) \/ LoseTask(w) \/ Halt(w) PROVE Goal
  BY <1>1, LoopStep
<1>2. ASSUME Refuse(w) \/ GiveUp(w) PROVE Goal
  BY <1>2, EarlyReleaseStep
<1>3. ASSUME PreLaunch(w) PROVE Goal
  BY <1>3, PreLaunchStep
<1>4. ASSUME OpenRun(w) PROVE Goal
  BY <1>4, OpenRunStep
<1>5. ASSUME \/ LaunchAgent(w) \/ PrepareFails(w) \/ Interrupt(w)
             \/ ImplementerDone(w) \/ VerifierDone(w) \/ ReviewerDone(w)
      PROVE  Goal
  BY <1>5, RunStep
<1>6. ASSUME \/ Account(w) \/ SaveReviewContext(w) \/ ExcludeOrigin(w) \/ AttachPacket(w)
             \/ Raise(w) \/ Abort(w)
      PROVE  Goal
  BY <1>6, NoteStep
<1>7. ASSUME Settle(w) PROVE Goal
  BY <1>7, SettleStep
<1> HIDE DEF Goal
<1>8. Goal
  BY <1>1, <1>2, <1>3, <1>4, <1>5, <1>6, <1>7 DEF Move, Step, Answer, Disturb
<1> QED BY <1>8 DEF Goal

\* A worker at work is not disturbed by the others.
LEMMA OtherStep ==
  ASSUME FlowInv, WorkflowTypeOK', HolderOwnsRow', NEW w \in Workers, Move(w),
         NEW v \in Workers, v # w
  PROVE  /\ WorkerInv(v)'
         /\ pc[v] \in Working => held[w].task # job[v].task /\ held'[w].task # job[v].task
<1>1. pc'[v] = pc[v] /\ job'[v] = job[v] /\ held'[v] = held[v]
  BY Parts, WorkerFrame
<1>2. WorkerInv(v) /\ HolderOwnsRow
  BY Parts
<1>3. CASE pc[v] \notin Working
  BY <1>1, <1>2, <1>3 DEF WorkerInv, InHand, Ahead, Picked, OwnRun, Knows, Noted, Working,
     HasRun, Launching, HasResult, PCs
<1>4. CASE pc[v] \in Working
  <2> PICK t \in Tasks : t = job[v].task
    BY <1>4, AtWork
  <2>1. held[v].task = t /\ t # NoTask
    BY <1>4, AtWork
  <2>2. held[w].task # t /\ held'[w].task # t
    BY <1>1, <1>2, <2>1 DEF HolderOwnsRow
  <2>3. rows'[t] = rows[t] /\ runs'[t] = runs[t] /\ opened'[t] = opened[t] /\ used'[t] = used[t]
    BY <2>2, TaskFrame
  <2> QED BY <1>1, <1>2, <2>2, <2>3 DEF WorkerInv, InHand, Ahead, Picked, OwnRun, Knows, Noted
<1> QED BY <1>3, <1>4

\* Before anything is submitted there is nothing to promise.
LEMMA FlowInit == Init => FlowInv
<1> SUFFICES ASSUME Init PROVE FlowInv
  OBVIOUS
<1>1. QueueTypeOK /\ HolderOwnsRow /\ OwnedIffDispatched
  BY InitType DEF Init, QueueInit, HolderOwnsRow, OwnedIffDispatched, NoEntry, AbsentRow
<1>2. WorkflowTypeOK
  <2>1. AbsentRun \in Run /\ NoJob \in Job
    BY DEF AbsentRun, Run, RunStatuses, Roles, NoRun, NoJob, Job, Outcomes
  <2> QED BY <1>1, <2>1 DEF Init, WorkflowTypeOK, PCs
<1>3. ASSUME NEW w \in Workers PROVE WorkerInv(w)
  BY DEF Init, QueueInit, NoEntry, WorkerInv, InHand, Ahead, Picked, OwnRun, Knows, Noted,
     Working, HasRun, Launching, HasResult
<1>4. ASSUME NEW t \in Tasks PROVE TaskInv(t)
  <2>1. /\ rows[t].status = "absent" /\ rows[t].role = "implementer" /\ rows[t].attempts = 0
        /\ opened[t] = 0 /\ used[t] = 0
    BY DEF Init, QueueInit, AbsentRow
  <2> QED BY <2>1, WorkflowAssumption
          DEF TaskInv, WithinBudget, AbsentIsBlank, ReviewReady, ReviewsOf, AcceptedFor
<1> QED BY <1>1, <1>2, <1>3, <1>4 DEF FlowInv

\* FlowInv is kept by every step: of a worker, of the command line, of the clock,
\* and by the death of the process.
LEMMA FlowNext == FlowInv /\ [Next]_vars => FlowInv'
<1> SUFFICES ASSUME FlowInv, [Next]_vars PROVE FlowInv'
  OBVIOUS
<1>0. /\ WorkflowTypeOK /\ QueueTypeOK /\ HolderOwnsRow
      /\ \A w \in Workers : WorkerInv(w)
      /\ \A t \in Tasks : TaskInv(t)
  BY Parts
<1>1. WorkflowTypeOK' /\ HolderOwnsRow' /\ OwnedIffDispatched'
  BY FlowNextType, QueueStep, NextHolder, NextOwned, Parts
<1> DEFINE Kept == /\ \A v \in Workers : WorkerInv(v)'
                   /\ \A u \in Tasks : TaskInv(u)'
<1>2. ASSUME NEW w \in Workers, Move(w) PROVE Kept
  <2>1. ASSUME NEW v \in Workers PROVE WorkerInv(v)'
    BY <1>1, <1>2, OwnStep, OtherStep
  <2>2. ASSUME NEW u \in Tasks PROVE TaskInv(u)'
    <3>1. CASE u \in {held[w].task, held'[w].task}
      BY <1>2, <3>1, OwnStep
    <3>2. CASE u \notin {held[w].task, held'[w].task}
      <4>1. /\ rows'[u] = rows[u] /\ runs'[u] = runs[u] /\ opened'[u] = opened[u]
            /\ used'[u] = used[u]
        BY <1>2, <3>2, TaskFrame
      <4>2. TaskInv(u) /\ rows[u].attempts <= opened[u]
        BY <1>0 DEF TaskInv, WithinBudget
      <4> QED BY <1>0, <4>1, <4>2, TaskKept
    <3> QED BY <3>1, <3>2
  <2> QED BY <2>1, <2>2
<1>3. ASSUME UNCHANGED <<rows, runs, opened, used>>,
             \/ UNCHANGED <<held, pc, job>>
             \/ \A v \in Workers : pc'[v] \in {"off", "idle"} /\ held'[v].task = NoTask
      PROVE  Kept
  <2>1. ASSUME NEW v \in Workers PROVE WorkerInv(v)'
    <3>1. CASE UNCHANGED <<held, pc, job>>
      BY <1>0, <1>3, <3>1 DEF WorkerInv, InHand, Ahead, Picked, OwnRun, Knows, Noted
    <3>2. CASE pc'[v] \in {"off", "idle"} /\ held'[v].task = NoTask
      BY <3>2, AtRest
    <3> QED BY <1>3, <3>1, <3>2
  <2>2. ASSUME NEW u \in Tasks PROVE TaskInv(u)'
    <3>1. TaskInv(u) /\ rows[u].attempts <= opened[u]
      BY <1>0 DEF TaskInv, WithinBudget
    <3> QED BY <1>0, <1>3, <3>1, TaskKept
  <2> QED BY <2>1, <2>2
<1>4. ASSUME Stop \/ TimePasses \/ UNCHANGED vars PROVE Kept
  BY <1>3, <1>4 DEF Stop, TimePasses, Tick, vars, queueVars, flowVars
<1>5. ASSUME Start \/ Crash PROVE Kept
  BY <1>3, <1>5 DEF Start, Crash, Forget, NoEntry
<1>6. ASSUME NEW t \in Tasks, Submit(t) PROVE Kept
  <2>1. PICK excl \in Presets : Enqueue(t, excl)
    BY <1>6 DEF Submit
  <2>2. UNCHANGED <<held, pc, job, runs, opened, used>> /\ \A v \in Workers : pc[v] = "off"
    BY <1>6, <2>1 DEF Submit, Enqueue, flowVars, AllOff
  <2>3. ASSUME NEW v \in Workers PROVE WorkerInv(v)'
    <3>1. pc'[v] = "off" /\ held'[v].task = NoTask
      BY <1>0, <2>2 DEF WorkerInv, InHand, Working
    <3> QED BY <3>1, AtRest
  <2>4. ASSUME NEW u \in Tasks PROVE TaskInv(u)'
    <3>1. TaskInv(u) /\ rows[u].attempts <= opened[u]
      BY <1>0 DEF TaskInv, WithinBudget
    <3>2. CASE u # t
      <4>1. rows'[u] = rows[u]
        BY <1>0, <2>1, <3>2 DEF Enqueue, QueueTypeOK
      <4> QED BY <1>0, <2>2, <3>1, <4>1, TaskKept
    <3>3. CASE u = t
      <4>1. rows[u].status = "absent" /\ rows[u].role = "implementer" /\ rows[u].attempts = 0
        BY <2>1, <3>1, <3>3 DEF Enqueue, TaskInv, AbsentIsBlank
      <4>2. /\ rows'[u].status = "queued" /\ rows'[u].role = "implementer"
            /\ rows'[u].attempts = 0
        BY <1>0, <2>1, <3>3 DEF Enqueue, QueueTypeOK, AbsentRow
      <4>3. /\ opened'[u] = opened[u] /\ used'[u] = used[u] /\ runs'[u] = runs[u]
            /\ rows'[u].role = rows[u].role /\ rows'[u].attempts <= opened[u]
        BY <2>2, <3>1, <4>1, <4>2
      <4> QED BY <1>0, <3>1, <4>1, <4>2, <4>3, TaskKept
    <3> QED BY <3>2, <3>3
  <2> QED BY <2>3, <2>4
<1> HIDE DEF Kept
<1>7. Kept
  BY <1>2, <1>4, <1>5, <1>6 DEF Next, Move
<1> QED BY <1>1, <1>7 DEF FlowInv, Kept

\* The latest of a set of runs is the one no other is after.
LEMMA LatestIs ==
  ASSUME NEW S \in SUBSET Nat, NEW q \in S, \A p \in S : p <= q
  PROVE  Latest(S) = q
<1>1. \E r \in S : \A p \in S : p <= r
  OBVIOUS
<1> DEFINE l == CHOOSE r \in S : \A p \in S : p <= r
<1>2. l \in S /\ \A p \in S : p <= l
  BY <1>1
<1> HIDE DEF l
<1>3. l = q
  BY <1>2
<1>4. Latest(S) = l
  BY DEF Latest, l
<1> QED BY <1>3, <1>4

\* What FlowInv says of the tasks.
LEMMA FlowShows ==
  FlowInv => WorkflowTypeOK /\ RunsWithinBudget /\ ReviewsLatestDiff /\ AcceptedOnLastRun
<1>1. FlowInv => ReviewsLatestDiff
  <2> SUFFICES ASSUME FlowInv, NEW t \in Tasks, NEW r \in RunsOf(t, "reviewer")
               PROVE  LET done == {q \in RunsOf(t, "implementer") :
                                     q < r /\ runs[t][q].status = "succeeded"}
                      IN  /\ done # {}
                          /\ runs[t][r].parent = Latest(done)
                          /\ runs[t][r].agent # runs[t][Latest(done)].agent
    BY DEF ReviewsLatestDiff
  <2> DEFINE done == {q \in RunsOf(t, "implementer") :
                        q < r /\ runs[t][q].status = "succeeded"}
             q == runs[t][r].parent
  <2>1. opened[t] \in Nat /\ r \in 1..opened[t] /\ runs[t][r].role = "reviewer"
    BY Parts DEF WorkflowTypeOK, RunsOf
  <2>2. LatestCoded(t, q, r) /\ runs[t][r].agent # runs[t][q].agent
    BY <2>1, Parts DEF TaskInv, ReviewsOf
  <2>3. q \in done /\ done \in SUBSET Nat /\ \A p \in done : p <= q
    BY <2>1, <2>2 DEF LatestCoded, IsCoded, RunsOf
  <2>4. Latest(done) = q
    BY <2>3, LatestIs
  <2> QED BY <2>2, <2>3, <2>4
<1>2. FlowInv => WorkflowTypeOK /\ RunsWithinBudget /\ AcceptedOnLastRun
  BY Parts DEF TaskInv, WithinBudget, RunsWithinBudget, AcceptedFor, AcceptedOnLastRun
<1> QED BY <1>1, <1>2

\* What a handler relies on at each step is true in every reachable state.
THEOREM FlowInvariant == Spec => []FlowInv
BY FlowInit, FlowNext, PTL DEF Spec

\* Everything a worker, the command line and the pool keep in memory and in the
\* tables has its type (runTaskOnce(), WorkerTaskHandler, the tables' schemas).
THEOREM WorkflowTypes == Spec => []WorkflowTypeOK
<1>1. FlowInv => WorkflowTypeOK
  BY FlowShows
<1> QED BY <1>1, FlowInvariant, PTL

\* The steps of TaskWorkflow, of which none comes after a release whose event could
\* not be written, keep to the discipline of the queue (the handler's calls of
\* TaskQueue, the loop's requeue).  TaskTrailProofs has the steps beyond them.
THEOREM FollowsQueue == Spec => QueueSpec
<1>1. Init => QueueInit
  BY DEF Init
<1> QED BY <1>1, QueueStep, FlowInvariant, PTL DEF Spec, QueueSpec

\* No attempt without a run, no run without a charge, no charge beyond max_runs,
\* however many workers, crashes and failed writes (preLaunch(), decide()).
THEOREM BudgetIsKept == Spec => []RunsWithinBudget
<1>1. FlowInv => RunsWithinBudget
  BY FlowShows
<1> QED BY <1>1, FlowInvariant, PTL

\* A task is accepted on the word of its last run (handleReviewerOutcome(),
\* handleImplementerSuccess()).
THEOREM AcceptedForAReason == Spec => []AcceptedOnLastRun
<1>1. FlowInv => AcceptedOnLastRun
  BY FlowShows
<1> QED BY <1>1, FlowInvariant, PTL

\* A review looks at the most recent implementation that succeeded and is done by
\* another agent (setReviewContext(), decide()).
THEOREM ReviewsAreOfTheLatest == Spec => []ReviewsLatestDiff
<1>1. FlowInv => ReviewsLatestDiff
  BY FlowShows
<1> QED BY <1>1, FlowInvariant, PTL
-----------------------------------------------------------------------------
(* The contract. *)


\* What is shown of t is what was.
SameShown(t) ==
  /\ Stage(t)' = Stage(t) /\ Author(t)' = Author(t) /\ Signer(t)' = Signer(t)
  /\ rows'[t].attempts = rows[t].attempts

\* Nothing new is shown of any task but t.
OnlyShown(t) == \A u \in Tasks : u # t => SameShown(u)

\* A step that shows nothing of any task shows nothing.
LEMMA NothingShown ==
  ASSUME \A t \in Tasks : SameShown(t)
  PROVE  UNCHANGED Contract!vars
BY DEF SameShown, Contract!vars

\* A row that keeps its role and attempts and is in progress or queued as before.
LEMMA RowShown ==
  ASSUME NEW t \in Tasks,
         rows'[t].role = rows[t].role, rows'[t].attempts = rows[t].attempts,
         rows[t].role = "reviewer" => rows'[t].ctx = rows[t].ctx,
         \/ rows'[t].status = rows[t].status /\ runs'[t] = runs[t] /\ opened'[t] = opened[t]
         \/ {rows[t].status, rows'[t].status} \subseteq {"queued", "dispatched"}
  PROVE  SameShown(t)
BY DEF SameShown, Stage, Author, Signer, Terminal

\* What a step that is about t alone shows, in the terms of the contract.
LEMMA OneShown ==
  ASSUME NEW t \in Tasks, OnlyShown(t), NEW x, Stage(t)' = x
  PROVE  /\ Contract!Move(t, x)
         /\ \A a : Author(t)' = a =>
              [u \in Tasks |-> Author(u)]' = [[u \in Tasks |-> Author(u)] EXCEPT ![t] = a]
         /\ \A a : Signer(t)' = a =>
              [u \in Tasks |-> Signer(u)]' = [[u \in Tasks |-> Signer(u)] EXCEPT ![t] = a]
         /\ \A n : rows'[t].attempts = n =>
              [u \in Tasks |-> rows[u].attempts]' =
                [[u \in Tasks |-> rows[u].attempts] EXCEPT ![t] = n]
         /\ Author(t)' = Author(t) =>
              [u \in Tasks |-> Author(u)]' = [u \in Tasks |-> Author(u)]
         /\ Signer(t)' = Signer(t) =>
              [u \in Tasks |-> Signer(u)]' = [u \in Tasks |-> Signer(u)]
         /\ rows'[t].attempts = rows[t].attempts =>
              [u \in Tasks |-> rows[u].attempts]' = [u \in Tasks |-> rows[u].attempts]
<1>1. \A u \in Tasks : u # t =>
        /\ Stage(u)' = Stage(u) /\ Author(u)' = Author(u) /\ Signer(u)' = Signer(u)
        /\ rows'[u].attempts = rows[u].attempts
  BY DEF OnlyShown, SameShown
<1> HIDE DEF Stage, Author, Signer
<1> QED BY <1>1 DEF Contract!Move

\* Until it releases the entry, a handler changes nothing in the row of its task
\* that the contract shows; nor does the loop when it claims or puts back a task.
LEMMA QuietRow ==
  ASSUME FlowInv, NEW w \in Workers, Move(w),
         ~Settle(w), ~Refuse(w), ~GiveUp(w),
         NEW t \in Tasks, t \in {held[w].task, held'[w].task}
  PROVE  /\ rows'[t].role = rows[t].role /\ rows'[t].attempts = rows[t].attempts
         /\ rows[t].role = "reviewer" => rows'[t].ctx = rows[t].ctx
         /\ {rows[t].status, rows'[t].status} \subseteq {"queued", "dispatched"}
<1> DEFINE Quiet == /\ rows'[t].role = rows[t].role /\ rows'[t].attempts = rows[t].attempts
                    /\ rows[t].role = "reviewer" => rows'[t].ctx = rows[t].ctx
                    /\ {rows[t].status, rows'[t].status} \subseteq {"queued", "dispatched"}
<1>0. /\ WorkflowTypeOK /\ QueueTypeOK /\ HolderOwnsRow /\ WorkerInv(w)
      /\ rows[t] \in Row /\ t # NoTask
  BY Parts, QueueAssumption DEF QueueTypeOK
<1>1. held[w].task = t => rows[t].status = "dispatched" /\ rows[t].role = job[w].role
  <2>1. pc[w] \in Working \/ held[w].task = NoTask
    BY <1>0 DEF WorkerInv, InHand
  <2> QED BY <1>0, <2>1, AtWork
<1>2. ASSUME rows' = rows, held'[w] = held[w] \/ held'[w].task = NoTask PROVE Quiet
  BY <1>0, <1>1, <1>2
<1>3. ASSUME ClaimTask(w) PROVE Quiet
  <2>1. PICK u \in Tasks : Claim(w, u)
    BY <1>3 DEF ClaimTask
  <2>2. held[w].task = NoTask /\ held'[w].task = u
    BY <1>0, <2>1 DEF Claim, QueueTypeOK
  <2>3. u = t
    BY <1>0, <2>2
  <2> QED BY <1>0, <2>1, <2>3 DEF Claim, NextClaimable, Claimable, QueueTypeOK, Row
<1>4. ASSUME Requeue(w) PROVE Quiet
  <2>1. job[w].task = held[w].task
    BY <1>4, AtWork DEF Requeue, Working, PCs
  <2>2. held'[w].task = NoTask
    BY <1>0, <1>4 DEF Requeue, Reopen, NoEntry, QueueTypeOK
  <2>3. rows'[t] = Released(rows[t], "queued", rows[t].role, rows[t].attempts)
    BY <1>0, <1>4, <2>1, <2>2 DEF Requeue, Reopen, QueueTypeOK
  <2> QED BY <1>0, <1>1, <2>2, <2>3 DEF Released, Row
<1>5. ASSUME NEW p, SetPacket(w, p) PROVE Quiet
  <2>1. held' = held
    BY <1>5 DEF SetPacket
  <2>2. held[w].task = t
    BY <2>1
  <2>3. rows'[t] = [rows[t] EXCEPT !.packet = p]
    BY <1>0, <1>5, <2>2, NoteEffect
  <2> QED BY <1>0, <1>1, <2>2, <2>3 DEF Row
<1>6. ASSUME NEW agents, AddExcludes(w, agents) PROVE Quiet
  <2>1. held' = held
    BY <1>6 DEF AddExcludes
  <2>2. held[w].task = t
    BY <2>1
  <2>3. rows'[t] = [rows[t] EXCEPT !.excl = rows[t].excl \cup agents]
    BY <1>0, <1>6, <2>2, NoteEffect
  <2> QED BY <1>0, <1>1, <2>2, <2>3 DEF Row
<1>7. ASSUME SaveReviewContext(w) PROVE Quiet
  <2>1. PICK ctx : SetReviewContext(w, ctx)
    BY <1>7 DEF SaveReviewContext
  <2>2. held' = held
    BY <2>1 DEF SetReviewContext
  <2>3. held[w].task = t
    BY <2>2
  <2>4. rows'[t] = [rows[t] EXCEPT !.ctx = ctx]
    BY <1>0, <2>1, <2>3, NoteEffect
  <2>5. job[w].role = "implementer"
    BY <1>0, <1>7 DEF SaveReviewContext, WantsReview, WorkerInv, Knows, HasResult
  <2> QED BY <1>0, <1>1, <2>3, <2>4, <2>5 DEF Row
<1>8. ASSUME LoseTask(w) PROVE Quiet
  <2>1. rows' = rows /\ held'[w].task = NoTask
    BY <1>0, <1>8 DEF LoseTask, Abandon, NoEntry, QueueTypeOK
  <2> QED BY <1>2, <2>1
<1>9. ASSUME UNCHANGED queueVars PROVE Quiet
  BY <1>2, <1>9 DEF queueVars
<1> HIDE DEF Quiet
<1>10. Quiet
  BY <1>3, <1>4, <1>5, <1>6, <1>7, <1>8, <1>9
     DEF Move, Step, Answer, Disturb, PreLaunch, OpenRun, LaunchAgent, PrepareFails,
         Interrupt, Account, ExcludeOrigin, AttachPacket, Done, Halt, ImplementerDone,
         VerifierDone, ReviewerDone, Abort, Raise
<1> QED BY <1>10 DEF Quiet

\* A worker's step shows nothing of a task it has not in hand.
LEMMA FrameShown ==
  ASSUME FlowInv, NEW w \in Workers, Move(w), NEW u \in Tasks,
         held[w].task # u, held'[w].task # u
  PROVE  SameShown(u)
<1>1. rows'[u] = rows[u] /\ runs'[u] = runs[u] /\ opened'[u] = opened[u]
  BY TaskFrame
<1> QED BY <1>1, RowShown

\* The steps of the contract.  A handler that gives up or is refused closes the
\* task; one that settles codes, returns, accepts or closes it.
LEMMA SubmitShown == ASSUME FlowInv, NEW t \in Tasks, Submit(t) PROVE Contract!Submit(t)
<1>1. PICK excl : Enqueue(t, excl)
  BY DEF Submit
<1>2. QueueTypeOK /\ TaskInv(t)
  BY Parts
<1>3. /\ rows[t].status = "absent" /\ rows[t].role = "implementer" /\ rows[t].attempts = 0
      /\ rows'[t].status = "queued" /\ rows'[t].role = "implementer" /\ rows'[t].attempts = 0
      /\ \A u \in Tasks : u # t => rows'[u] = rows[u]
  BY <1>1, <1>2 DEF Enqueue, AbsentRow, QueueTypeOK, TaskInv, AbsentIsBlank
<1>4. UNCHANGED <<runs, opened>>
  BY DEF Submit, flowVars
<1>5. OnlyShown(t)
  BY <1>3, <1>4 DEF OnlyShown, SameShown, Stage, Author, Signer
<1>6. /\ Stage(t) = "new" /\ Stage(t)' = "todo" /\ Author(t)' = Author(t)
      /\ Signer(t)' = Signer(t)
  BY <1>3 DEF Stage, Author, Signer, Terminal
<1> HIDE DEF Stage, Author, Signer
<1> QED BY <1>3, <1>5, <1>6, OneShown DEF Contract!Submit

\* The contract's view of a task that is released.
LEMMA StageOf ==
  ASSUME NEW t
  PROVE  /\ rows[t].status \in {"queued", "dispatched"} =>
              /\ Stage(t) = IF rows[t].role = "implementer" THEN "todo" ELSE "coded"
              /\ Signer(t) = NoAgent
         /\ rows'[t].status \in Terminal => Stage(t)' = rows'[t].status
         /\ rows'[t].status = "queued" =>
              Stage(t)' = IF rows'[t].role = "implementer" THEN "todo" ELSE "coded"
         /\ rows'[t].status # "accepted" => Signer(t)' = NoAgent
         /\ rows'[t].role = rows[t].role /\ rows'[t].ctx = rows[t].ctx =>
              Author(t)' = Author(t)
         /\ rows'[t].role # "reviewer" => Author(t)' = NoAgent
BY DEF Stage, Author, Signer, Terminal

\* A task that is refused, or given up before its run is accounted for, is closed
\* without a try.
LEMMA CloseShown ==
  ASSUME FlowInv, NEW w \in Workers, Refuse(w) \/ GiveUp(w)
  PROVE  \E t \in Tasks : Contract!Close(t)
<1>0. WorkflowTypeOK /\ QueueTypeOK
  BY Parts
<1>1. pc[w] \in Working
  BY DEF Refuse, GiveUp, Waiting, Working, PCs
<1> PICK t \in Tasks : t = job[w].task
  BY <1>1, AtWork
<1>2. /\ held[w].task = t /\ rows[t].status = "dispatched" /\ rows[t].role = job[w].role
      /\ rows[t].attempts = held[w].attempts
  BY <1>1, AtWork
<1>3. PICK s \in {"awaiting_human", "failed"} : Release(w, s, job[w].role, held[w].attempts)
  BY DEF Refuse, GiveUp
<1>4. /\ rows'[t].status = s /\ rows'[t].role = rows[t].role
      /\ rows'[t].attempts = rows[t].attempts /\ rows'[t].ctx = rows[t].ctx
      /\ held'[w].task = NoTask
  BY <1>0, <1>2, <1>3, ReleaseEffect
<1>5. OnlyShown(t)
  BY <1>2, <1>4, FrameShown, QueueAssumption DEF OnlyShown, Move, Step, Disturb
<1>6. /\ Stage(t) \in {"todo", "coded"} /\ Stage(t)' = s
      /\ Author(t)' = Author(t) /\ Signer(t)' = Signer(t)
  BY <1>2, <1>4, StageOf DEF Terminal
<1> HIDE DEF Stage, Author, Signer
<1>7. /\ Contract!Move(t, s)
      /\ [u \in Tasks |-> Author(u)]' = [u \in Tasks |-> Author(u)]
      /\ [u \in Tasks |-> Signer(u)]' = [u \in Tasks |-> Signer(u)]
      /\ [u \in Tasks |-> rows[u].attempts]' = [u \in Tasks |-> rows[u].attempts]
  BY <1>4, <1>5, <1>6, OneShown
<1>8. Contract!Close(t)
  BY <1>6, <1>7 DEF Contract!Close
<1> QED BY <1>8

\* A release after a run is a step of the contract, and a try.
LEMMA SettleShown ==
  ASSUME FlowInv, NEW w \in Workers, Settle(w)
  PROVE  \E t \in Tasks : \/ Contract!Code(t) \/ Contract!Return(t)
                          \/ Contract!Accept(t) \/ Contract!Close(t)
<1> PICK t : t = job[w].task
  OBVIOUS
<1> PICK n : n = job[w].run
  OBVIOUS
<1> PICK s : s = NextStatus(w)
  OBVIOUS
<1> PICK r : r = NextRole(w)
  OBVIOUS
<1>0. Settling(w, t, n, s, r)
  BY SettleEffect
<1>1. /\ t \in Tasks /\ held[w].task = t /\ held'[w].task = NoTask
      /\ rows[t].status = "dispatched" /\ rows[t].role = job[w].role
      /\ rows'[t].status = s /\ rows'[t].role = r /\ rows'[t].ctx = rows[t].ctx
      /\ rows'[t].attempts = rows[t].attempts + 1
      /\ s \in {"accepted", "awaiting_human", "queued", "failed"}
      /\ s # "queued" => r = job[w].role
      /\ s = "queued" => r = IF WantsReview(w) THEN "reviewer" ELSE "implementer"
  BY <1>0 DEF Settling
<1>2. OnlyShown(t)
  BY <1>1, FrameShown, QueueAssumption DEF OnlyShown, Move, Step
<1>3. Contract!Try(t)
  <2>1. rows[t].attempts \in Nat /\ rows[t].attempts < opened[t] /\ TaskInv(t)
    BY <1>0 DEF Settling
  <2>2. rows[t].attempts < MaxRuns
    BY <1>1, <2>1, Parts, RunsInTable, WorkflowAssumption DEF TaskInv
  <2>3. [u \in Tasks |-> rows[u].attempts]' =
          [[u \in Tasks |-> rows[u].attempts] EXCEPT ![t] = rows[t].attempts + 1]
    BY <1>1, <1>2, OneShown
  <2> QED BY <1>1, <2>2, <2>3 DEF Contract!Try
<1>4. /\ Stage(t) = IF job[w].role = "implementer" THEN "todo" ELSE "coded"
      /\ Signer(t) = NoAgent
      /\ Author(t) = IF job[w].role = "reviewer" THEN rows[t].ctx.agent ELSE NoAgent
  BY <1>1, StageOf DEF Author
<1>5. job[w].role \in Roles
  BY <1>1, Parts DEF QueueTypeOK, Row
<1>6. CASE s = "queued" /\ WantsReview(w)
  <2>1. job[w].outcome = "succeeded" /\ t \in Reviewed
    BY <1>6 DEF WantsReview
  <2>2. job[w].role = "implementer" /\ rows[t].ctx.agent \in Agents
    BY <1>0, <1>6, <2>1 DEF Settling
  <2>3. /\ Stage(t) = "todo" /\ Stage(t)' = "coded" /\ Signer(t)' = Signer(t)
        /\ Author(t)' = rows[t].ctx.agent
    BY <1>1, <1>4, <1>6, <2>2, StageOf DEF Author
  <2> HIDE DEF Stage, Author, Signer
  <2>4. /\ Contract!Move(t, "coded")
        /\ [u \in Tasks |-> Author(u)]' =
             [[u \in Tasks |-> Author(u)] EXCEPT ![t] = rows[t].ctx.agent]
        /\ [u \in Tasks |-> Signer(u)]' = [u \in Tasks |-> Signer(u)]
    BY <1>1, <1>2, <2>3, OneShown
  <2>5. Contract!Code(t)
    BY <1>1, <1>3, <2>1, <2>2, <2>3, <2>4 DEF Contract!Code
  <2> QED BY <1>1, <2>5
<1>7. CASE s = "queued" /\ ~WantsReview(w)
  <2>1. /\ Stage(t) \in {"todo", "coded"} /\ Stage(t)' = "todo" /\ Signer(t)' = Signer(t)
        /\ Author(t)' = NoAgent
    BY <1>1, <1>4, <1>7, StageOf
  <2> HIDE DEF Stage, Author, Signer
  <2>2. /\ Contract!Move(t, "todo")
        /\ [u \in Tasks |-> Author(u)]' =
             [[u \in Tasks |-> Author(u)] EXCEPT ![t] = NoAgent]
        /\ [u \in Tasks |-> Signer(u)]' = [u \in Tasks |-> Signer(u)]
    BY <1>1, <1>2, <2>1, OneShown
  <2>3. Contract!Return(t)
    BY <1>1, <1>3, <2>1, <2>2 DEF Contract!Return
  <2> QED BY <1>1, <2>3
<1>8. CASE s \in {"awaiting_human", "failed"}
  <2>1. /\ Stage(t) \in {"todo", "coded"} /\ Stage(t)' = s /\ Signer(t)' = Signer(t)
        /\ Author(t)' = Author(t)
    BY <1>1, <1>4, <1>8, StageOf DEF Terminal
  <2> HIDE DEF Stage, Author, Signer
  <2>2. /\ Contract!Move(t, s)
        /\ [u \in Tasks |-> Author(u)]' = [u \in Tasks |-> Author(u)]
        /\ [u \in Tasks |-> Signer(u)]' = [u \in Tasks |-> Signer(u)]
    BY <1>1, <1>2, <2>1, OneShown
  <2>3. Contract!Close(t)
    BY <1>1, <1>3, <1>8, <2>1, <2>2 DEF Contract!Close
  <2> QED BY <1>1, <2>3
<1>9. CASE s = "accepted"
  <2>1. Stage(t)' = "accepted" /\ Author(t)' = Author(t)
    BY <1>1, <1>9, StageOf DEF Terminal
  <2>2. /\ Contract!Move(t, "accepted")
        /\ [u \in Tasks |-> Author(u)]' = [u \in Tasks |-> Author(u)]
        /\ \A a : Signer(t)' = a =>
             [u \in Tasks |-> Signer(u)]' = [[u \in Tasks |-> Signer(u)] EXCEPT ![t] = a]
        /\ Signer(t)' = Signer(t) =>
             [u \in Tasks |-> Signer(u)]' = [u \in Tasks |-> Signer(u)]
    <3> HIDE DEF Stage, Author, Signer
    <3> QED BY <1>1, <1>2, <2>1, OneShown
  <2>3. CASE job[w].outcome = "succeeded" /\ t \notin Reviewed
    <3>1. job[w].role = "implementer"
      BY <1>0, <2>3 DEF Settling
    <3>2. Stage(t) = "todo" /\ Signer(t)' = Signer(t)
      BY <1>4, <2>3, <3>1 DEF Signer
    <3> HIDE DEF Stage, Author, Signer
    <3>3. Contract!Accept(t)
      BY <1>1, <1>3, <2>2, <2>3, <3>2 DEF Contract!Accept
    <3> QED BY <1>1, <3>3
  <2>4. CASE job[w].outcome = "approved"
    <3>1. /\ job[w].role = "reviewer" /\ job[w].agent # rows[t].ctx.agent
          /\ job[w].agent \in Agents
          /\ TaskInv(t) /\ n = opened[t] /\ opened' = opened /\ runs' = runs
          /\ runs[t][n].agent = job[w].agent
      BY <1>0, <2>4 DEF Settling
    <3>2. t \in Reviewed
      BY <1>1, <3>1 DEF TaskInv, ReviewReady
    <3>3. Stage(t) = "coded" /\ Author(t) = rows[t].ctx.agent
      BY <1>4, <3>1
    <3>4. Signer(t)' = job[w].agent
      BY <1>1, <1>9, <3>1, <3>2 DEF Signer
    <3> HIDE DEF Stage, Author, Signer
    <3>5. [u \in Tasks |-> Signer(u)]' =
            [[u \in Tasks |-> Signer(u)] EXCEPT ![t] = job[w].agent]
      BY <2>2, <3>4
    <3>6. Contract!Accept(t)
      BY <1>1, <1>3, <2>2, <3>1, <3>3, <3>5 DEF Contract!Accept
    <3> QED BY <1>1, <3>6
  <2>5. \/ job[w].outcome = "succeeded" /\ t \notin Reviewed
        \/ job[w].outcome = "approved"
    BY <1>0, <1>9 DEF Settling
  <2> QED BY <2>3, <2>4, <2>5
<1> QED BY <1>1, <1>6, <1>7, <1>8, <1>9

\* Every step is a step of the contract, or shows nothing.
LEMMA ContractStep == FlowInv /\ [Next]_vars => [Contract!Next]_(Contract!vars)
<1> SUFFICES ASSUME FlowInv, [Next]_vars PROVE Contract!Next \/ UNCHANGED Contract!vars
  OBVIOUS
<1>1. ASSUME NEW w \in Workers, Move(w) PROVE Contract!Next \/ UNCHANGED Contract!vars
  <2>1. CASE Refuse(w) \/ GiveUp(w)
    BY <2>1, CloseShown DEF Contract!Next
  <2>2. CASE Settle(w)
    BY <2>2, SettleShown DEF Contract!Next
  <2>3. CASE ~Refuse(w) /\ ~GiveUp(w) /\ ~Settle(w)
    <3>1. ASSUME NEW u \in Tasks PROVE SameShown(u)
      <4>1. CASE u \notin {held[w].task, held'[w].task}
        BY <1>1, <4>1, FrameShown
      <4>2. CASE u \in {held[w].task, held'[w].task}
        BY <1>1, <2>3, <4>2, QuietRow, RowShown
      <4> QED BY <4>1, <4>2
    <3> QED BY <3>1, NothingShown
  <2> QED BY <2>1, <2>2, <2>3
<1>2. ASSUME NEW t \in Tasks, Submit(t) PROVE Contract!Next
  BY <1>2, SubmitShown DEF Contract!Next
<1>3. ASSUME UNCHANGED <<rows, runs, opened>> PROVE UNCHANGED Contract!vars
  <2>1. ASSUME NEW u \in Tasks PROVE SameShown(u)
    BY <1>3, RowShown
  <2> QED BY <2>1, NothingShown
<1>4. ASSUME Start \/ Stop \/ Crash \/ TimePasses \/ UNCHANGED vars
      PROVE  UNCHANGED Contract!vars
  BY <1>3, <1>4 DEF Start, Stop, Crash, TimePasses, Forget, Tick, vars, queueVars, flowVars
<1> QED BY <1>1, <1>2, <1>4 DEF Next, Move

\* Nothing is shown of a task that was not submitted.
LEMMA ContractInit ==
  ASSUME Init
  PROVE  Contract!Init
<1>1. \A t \in Tasks : /\ Stage(t) = "new" /\ Author(t) = NoAgent /\ Signer(t) = NoAgent
                       /\ rows[t].attempts = 0
  BY DEF Init, QueueInit, AbsentRow, Stage, Author, Signer
<1> HIDE DEF Stage, Author, Signer
<1> QED BY <1>1 DEF Contract!Init

\* As long as the event after every release can be written (Spec has no step for one
\* that cannot, see DisciplineWithoutLate), each task goes through the steps of its contract:
\* coded by one agent and signed by another when a review is asked for, tried at
\* most max_runs times, ended once (README's task life cycle).
THEOREM ContractIsKept == Spec => KeepsContract
BY ContractInit, ContractStep, FlowInvariant, PTL DEF Spec, KeepsContract, Contract!Spec
-----------------------------------------------------------------------------
(* Open runs. *)

\* No run of t is open but the last one, and one that is open is either the handler's
\* that has t in hand, or was left behind: by a crash, or by a handler that gave t up.
OpenTask(t) ==
  \A r \in 1..opened[t] : runs[t][r].status \in OpenStatuses =>
    /\ r = opened[t]
    /\ \/ rows[t].status = "dispatched"
       \/ rows[t].status = "failed" /\ "giveup" \in Disturbances
    /\ \A w \in Workers : held[w].task = t => pc[w] \in Launching

OpenInv == \A t \in Tasks : OpenTask(t)

\* What a step makes of the runs when a run that is interrupted or not prepared can
\* always be closed: nothing, a run that is opened, a status for the one in hand.
RunsStay(w) ==
  /\ runs' = runs /\ opened' = opened
  /\ pc[w] \in Launching =>
       \/ GiveUp(w)
       \/ pc'[w] \in Launching /\ rows' = rows /\ held' = held /\ SameHand(w)

RunLaunched(w) ==
  /\ pc[w] \in Launching /\ SetRun(w, "running", "none") /\ opened' = opened
  /\ pc'[w] = "agent" /\ rows' = rows /\ held' = held /\ SameHand(w)

RunClosed(w) ==
  /\ pc[w] \in Launching /\ opened' = opened
  /\ \E s \in {"failed", "succeeded", "cancelled"}, v \in {"none"} \cup Verdicts :
       /\ SetRun(w, s, v)
       /\ \/ GiveUp(w)
          \/ /\ pc'[w] = IF s = "cancelled" THEN "raised" ELSE "ran"
             /\ rows' = rows /\ SameHand(w)

\* Without a cancelled run left to a later attempt, a worker opens a run, launches
\* it, ends it, or leaves every run alone.
LEMMA RunsChange ==
  ASSUME FlowInv, "cancel" \notin Disturbances, NEW w \in Workers, Move(w)
  PROVE  RunsStay(w) \/ OpenRun(w) \/ RunLaunched(w) \/ RunClosed(w)
<1> DEFINE Goal == RunsStay(w) \/ OpenRun(w) \/ RunLaunched(w) \/ RunClosed(w)
<1>0. WorkflowTypeOK
  BY Parts
<1>1. ASSUME NEW s \in {"failed", "succeeded"}, NEW o, Finish(w, s, o),
             pc[w] \in Launching, opened' = opened, rows' = rows, SameHand(w)
      PROVE  Goal
  <2>1. PICK v \in {"none"} \cup Verdicts : SetRun(w, s, v)
    BY <1>1 DEF Finish
  <2>2. pc'[w] = "ran"
    BY <1>0, <1>1 DEF Finish, Goto, WorkflowTypeOK
  <2> QED BY <1>1, <2>1, <2>2 DEF RunClosed
<1>2. ASSUME LaunchAgent(w) PROVE Goal
  BY <1>0, <1>2, RunEffect
     DEF LaunchAgent, RunLaunched, Launching, Goto, queueVars, WorkflowTypeOK
<1>3. ASSUME PrepareFails(w) PROVE Goal
  BY <1>1, <1>3, RunEffect DEF PrepareFails, Launching
<1>4. ASSUME Interrupt(w) PROVE Goal
  <2>1. SetRun(w, "cancelled", "none") /\ pc'[w] = "raised" /\ pc[w] \in Launching
    BY <1>0, <1>4 DEF Interrupt, Goto, Launching, WorkflowTypeOK
  <2> QED BY <1>4, <2>1, RunEffect DEF RunClosed, Interrupt
<1>5. ASSUME ImplementerDone(w) PROVE Goal
  <2>1. CASE Goto(w, "verifying") /\ UNCHANGED <<runs, job>>
    BY <1>0, <1>5, <2>1, RunEffect
       DEF ImplementerDone, Goto, RunsStay, Launching, queueVars, WorkflowTypeOK
  <2>2. CASE \E s \in {"failed", "succeeded"} : \E o : Finish(w, s, o)
    BY <1>1, <1>5, <2>2, RunEffect DEF ImplementerDone, Launching
  <2> QED BY <1>5, <2>1, <2>2 DEF ImplementerDone
<1>6. ASSUME VerifierDone(w) \/ ReviewerDone(w) PROVE Goal
  <2>1. \E s \in {"failed", "succeeded"} : \E o : Finish(w, s, o)
    BY <1>6 DEF VerifierDone, ReviewerDone
  <2> QED BY <1>1, <1>6, <2>1, RunEffect DEF VerifierDone, ReviewerDone, Launching
<1>7. ASSUME GiveUp(w) PROVE Goal
  BY <1>7 DEF GiveUp, RunsStay, RunClosed, Launching, Waiting
<1>8. ASSUME Abort(w) PROVE Goal
  BY <1>8 DEF Abort, RunsStay, SameHand, queueVars
<1>9. ASSUME \/ ClaimTask(w) \/ Refuse(w) \/ PreLaunch(w) \/ Account(w) \/ SaveReviewContext(w)
             \/ ExcludeOrigin(w) \/ AttachPacket(w) \/ Settle(w) \/ Done(w) \/ Requeue(w)
             \/ Halt(w) \/ Raise(w) \/ LoseTask(w)
      PROVE  Goal
  <2>1. runs' = runs /\ opened' = opened
    BY <1>9 DEF ClaimTask, Refuse, PreLaunch, Account, SaveReviewContext, ExcludeOrigin,
       AttachPacket, Settle, Done, Requeue, AfterFailure, Halt, Raise, LoseTask
  <2>2. pc[w] \notin Launching
    BY <1>9 DEF ClaimTask, MayClaim, Refuse, PreLaunch, Account, SaveReviewContext,
       ExcludeOrigin, AttachPacket, Settle, Done, Requeue, Halt, Raise, LoseTask, Launching
  <2> QED BY <2>1, <2>2 DEF RunsStay
<1> HIDE DEF Goal
<1>10. Goal
  BY <1>2, <1>3, <1>4, <1>5, <1>6, <1>7, <1>8, <1>9 DEF Goal, Move, Step, Answer, Disturb
<1> QED BY <1>10 DEF Goal

\* A worker's step that is about a task leaves it in no other hands.
LEMMA OneHand ==
  ASSUME FlowInv, FlowInv', NEW w \in Workers, Move(w),
         NEW t \in Tasks, t \in {held[w].task, held'[w].task},
         NEW v \in Workers, held'[v].task = t
  PROVE  v = w
<1> SUFFICES ASSUME v # w PROVE FALSE
  OBVIOUS
<1>1. held'[v] = held[v] /\ t # NoTask
  BY Parts, WorkerFrame, QueueAssumption
<1>2. HolderOwnsRow /\ HolderOwnsRow'
  BY DEF FlowInv
<1> QED BY <1>1, <1>2 DEF HolderOwnsRow

\* Only a claim puts a task in a worker's hand.
LEMMA KeepsHand ==
  ASSUME FlowInv, NEW w \in Workers, Move(w), ~ClaimTask(w)
  PROVE  held'[w] = held[w] \/ held'[w].task = NoTask
<1>1. held \in [Workers -> Entry]
  BY Parts DEF QueueTypeOK
<1>2. ASSUME held' = [held EXCEPT ![w] = NoEntry] PROVE held'[w].task = NoTask
  BY <1>1, <1>2 DEF NoEntry
<1>3. CASE PreLaunch(w) \/ OpenRun(w) \/ LaunchAgent(w) \/ PrepareFails(w) \/ Interrupt(w)
           \/ Done(w) \/ Halt(w) \/ Answer(w) \/ Abort(w) \/ Raise(w)
  BY <1>3 DEF PreLaunch, OpenRun, LaunchAgent, PrepareFails, Interrupt, Done, Halt, Answer,
     ImplementerDone, VerifierDone, ReviewerDone, Abort, Raise, queueVars
<1>4. CASE Account(w) \/ SaveReviewContext(w) \/ ExcludeOrigin(w) \/ AttachPacket(w)
  BY <1>4 DEF Account, SaveReviewContext, ExcludeOrigin, AttachPacket, SetReviewContext,
     SetPacket, AddExcludes, queueVars
<1>5. CASE Refuse(w) \/ Settle(w) \/ Requeue(w) \/ GiveUp(w) \/ LoseTask(w)
  <2>1. held' = [held EXCEPT ![w] = NoEntry]
    BY <1>5 DEF Refuse, Settle, Requeue, GiveUp, LoseTask, Release, Reopen, Abandon
  <2> QED BY <1>2, <2>1
<1> QED BY <1>3, <1>4, <1>5 DEF Move, Step, Disturb

\* What a worker does to the runs of a task it has in hand or takes.
LEMMA OpenKept ==
  ASSUME FlowInv, FlowInv', OpenInv, "cancel" \notin Disturbances,
         NEW w \in Workers, Move(w),
         NEW t \in Tasks, t \in {held[w].task, held'[w].task}
  PROVE  OpenTask(t)'
<1> SUFFICES ASSUME NEW r, r \in 1..opened'[t], runs'[t][r].status \in OpenStatuses
             PROVE  /\ r = opened'[t]
                    /\ \/ rows'[t].status = "dispatched"
                       \/ rows'[t].status = "failed" /\ "giveup" \in Disturbances
                    /\ held'[w].task = t => pc'[w] \in Launching
  <2>1. \A v \in Workers : held'[v].task = t => v = w
    BY OneHand
  <2> QED BY <2>1 DEF OpenTask
<1>0. /\ WorkflowTypeOK /\ QueueTypeOK /\ WorkerInv(w) /\ OpenTask(t)
      /\ t # NoTask /\ rows[t] \in Row
  BY Parts, QueueAssumption DEF OpenInv, QueueTypeOK
<1>1. ASSUME pc[w] \in Launching
      PROVE  /\ job[w].task = t /\ rows[t].status = "dispatched"
             /\ job[w].run = opened[t] /\ job[w].run \in RunIds
             /\ held[w].task = t
  <2>1. pc[w] \in Working /\ pc[w] \in HasRun /\ ~ClaimTask(w)
    BY <1>1 DEF Working, HasRun, Launching, PCs, ClaimTask, MayClaim
  <2>2. held[w].task = job[w].task /\ job[w].task \in Tasks /\ rows[job[w].task].status = "dispatched"
    BY <2>1, AtWork
  <2>3. held'[w].task \in {held[w].task, NoTask}
    BY <2>1, KeepsHand
  <2>4. t = job[w].task
    BY <1>0, <2>2, <2>3
  <2> QED BY <2>1, <2>2, <2>4, RunNumber
<1>2. CASE RunsStay(w)
  <2>1. r = opened[t] /\ rows[t].status # "queued"
    BY <1>0, <1>2 DEF RunsStay, OpenTask
  <2>2. ~ClaimTask(w)
    <3> SUFFICES ASSUME ClaimTask(w) PROVE FALSE
      OBVIOUS
    <3>1. PICK u \in Tasks : Claim(w, u)
      BY DEF ClaimTask
    <3>2. held[w].task = NoTask /\ held'[w].task = u /\ rows[u].status = "queued"
      BY <1>0, <3>1 DEF Claim, NextClaimable, Claimable, QueueTypeOK
    <3> QED BY <1>0, <2>1, <3>2
  <2>3. held[w].task = t
    BY <1>0, <2>2, KeepsHand
  <2>4. pc[w] \in Launching
    BY <1>0, <1>2, <2>3 DEF RunsStay, OpenTask
  <2>5. CASE GiveUp(w)
    <3>1. Release(w, "failed", job[w].role, held[w].attempts) /\ "giveup" \in Disturbances
      BY <2>5 DEF GiveUp
    <3>2. rows'[t].status = "failed" /\ held'[w].task = NoTask
      BY <1>0, <2>3, <3>1, ReleaseEffect
    <3> QED BY <1>0, <1>2, <2>1, <3>1, <3>2 DEF RunsStay
  <2>6. CASE ~GiveUp(w)
    BY <1>1, <1>2, <2>1, <2>4, <2>6 DEF RunsStay
  <2> QED BY <2>5, <2>6
<1>3. CASE OpenRun(w)
  <2> PICK u : u = job[w].task
    OBVIOUS
  <2> PICK n : n = opened[u]
    OBVIOUS
  <2>1. Opening(w, u, n)
    BY <1>3, OpenRunEffect
  <2>2. /\ u = t /\ held[w].task = t /\ rows'[t].status = "dispatched"
        /\ opened'[t] = n + 1 /\ n = opened[t] /\ n \in Nat
        /\ \A q \in 1..n : runs'[t][q] = runs[t][q]
        /\ pc'[w] = "opened"
    BY <2>1 DEF Opening
  <2>3. r \notin 1..n
    <3> SUFFICES ASSUME r \in 1..n PROVE FALSE
      OBVIOUS
    <3>1. pc[w] \in Launching
      BY <1>0, <2>2 DEF OpenTask
    <3> QED BY <1>3, <3>1 DEF OpenRun, Launching
  <2>4. r = n + 1
    BY <2>2, <2>3
  <2> QED BY <2>2, <2>4 DEF Launching
<1>4. ASSUME NEW s \in RunStatuses, NEW v \in {"none"} \cup Verdicts, SetRun(w, s, v),
             pc[w] \in Launching, opened' = opened
      PROVE  r = opened[t] /\ runs'[t][r].status = s
  <2>1. v \in {"none", "approved", "changes_requested", "rejected"}
    BY DEF Verdicts
  <2>2. OnlyRun(w, s, v)
    BY <1>0, <1>1, <1>4, <2>1, SetRunEffect
  <2>3. opened[t] \in Nat /\ 1..opened[t] \subseteq RunIds
    BY <1>0, Parts, RunsInTable DEF TaskInv
  <2>4. r \in RunIds /\ r \in 1..opened[t]
    BY <1>4, <2>3
  <2>5. CASE r = job[w].run
    BY <1>1, <1>4, <2>2, <2>5 DEF OnlyRun
  <2>6. CASE r # job[w].run
    <3>1. runs[t][r].status \in OpenStatuses
      BY <1>1, <1>4, <2>2, <2>4, <2>6 DEF OnlyRun
    <3> QED BY <1>0, <1>1, <1>4, <2>4, <2>6, <3>1 DEF OpenTask
  <2> QED BY <2>5, <2>6
<1>5. CASE RunLaunched(w)
  <2>1. r = opened[t]
    BY <1>4, <1>5 DEF RunLaunched, RunStatuses, OpenStatuses
  <2> QED BY <1>1, <1>5, <2>1 DEF RunLaunched, Launching
<1>6. CASE RunClosed(w)
  <2>1. PICK s \in {"failed", "succeeded", "cancelled"}, v \in {"none"} \cup Verdicts : SetRun(w, s, v)
    BY <1>6 DEF RunClosed
  <2>2. runs'[t][r].status = s
    BY <1>4, <1>6, <2>1 DEF RunClosed, RunStatuses
  <2> QED BY <2>1, <2>2 DEF OpenStatuses
<1> QED BY <1>2, <1>3, <1>5, <1>6, RunsChange

\* Every step keeps the open runs to the last one of a task somebody has in hand.
LEMMA OpenNext ==
  ASSUME "cancel" \notin Disturbances
  PROVE  FlowInv /\ FlowInv' /\ OpenInv /\ [Next]_vars => OpenInv'
<1> SUFFICES ASSUME FlowInv, FlowInv', OpenInv, [Next]_vars, NEW t \in Tasks
             PROVE  OpenTask(t)'
  BY DEF OpenInv
<1>0. QueueTypeOK /\ OpenTask(t) /\ TaskInv(t)
  BY Parts DEF OpenInv
<1>1. ASSUME NEW w \in Workers, Move(w) PROVE OpenTask(t)'
  <2>1. CASE t \in {held[w].task, held'[w].task}
    BY <1>1, <2>1, OpenKept
  <2>2. CASE t \notin {held[w].task, held'[w].task}
    <3>1. rows'[t] = rows[t] /\ runs'[t] = runs[t] /\ opened'[t] = opened[t]
      BY <1>1, <2>2, TaskFrame
    <3>2. ASSUME NEW v \in Workers, held'[v].task = t
          PROVE  held[v].task = t /\ pc'[v] = pc[v]
      BY <1>1, <2>2, <3>2, Parts, WorkerFrame
    <3> QED BY <1>0, <3>1, <3>2 DEF OpenTask
  <2> QED BY <2>1, <2>2
<1>2. ASSUME UNCHANGED <<rows, runs, opened>>,
             UNCHANGED <<held, pc>> \/ \A v \in Workers : held'[v].task = NoTask
      PROVE  OpenTask(t)'
  BY <1>0, <1>2, QueueAssumption DEF OpenTask
<1>3. ASSUME Start \/ Stop \/ Crash \/ TimePasses \/ UNCHANGED vars PROVE OpenTask(t)'
  BY <1>2, <1>3 DEF Start, Stop, Crash, TimePasses, Forget, Tick, NoEntry, vars, queueVars, flowVars
<1>4. ASSUME NEW u \in Tasks, Submit(u) PROVE OpenTask(t)'
  <2>1. PICK excl : Enqueue(u, excl)
    BY <1>4 DEF Submit
  <2>2. UNCHANGED <<held, pc, runs, opened>>
    BY <1>4, <2>1 DEF Submit, Enqueue, flowVars
  <2>3. CASE u = t
    <3>1. opened[t] = 0
      BY <1>0, <2>1, <2>3 DEF Enqueue, TaskInv, AbsentIsBlank
    <3> QED BY <2>2, <3>1 DEF OpenTask
  <2>4. CASE u # t
    <3>1. rows'[t] = rows[t]
      BY <1>0, <2>1, <2>4 DEF Enqueue, QueueTypeOK
    <3> QED BY <1>0, <2>2, <3>1 DEF OpenTask
  <2> QED BY <2>3, <2>4
<1> QED BY <1>1, <1>3, <1>4 DEF Next, Move

\* OpenInv holds, when cancelInterruptedRun() and the like do not fail.
LEMMA OpenInvariant ==
  ASSUME "cancel" \notin Disturbances
  PROVE  Spec => []OpenInv
<1>1. Init => OpenInv
  BY DEF Init, OpenInv, OpenTask
<1> QED BY <1>1, OpenNext, FlowInvariant, PTL DEF Spec

\* However runs end and whoever takes the task next, a task never has two runs under
\* way, as long as a run that is interrupted or not prepared can be closed
\* (createRunContext(), cancelInterruptedRun(), finishRun()).
THEOREM AtMostOneOpenRun ==
  ASSUME "cancel" \notin Disturbances
  PROVE  Spec => []OneOpenRun
<1>1. OpenInv => OneOpenRun
  BY DEF OpenInv, OpenTask, OneOpenRun
<1> QED BY <1>1, OpenInvariant, PTL

\* A task in progress is in somebody's hands: nothing lets go of one without a
\* release, when no process dies and no release is lost.
InProgress ==
  \A t \in Tasks : rows[t].status = "dispatched" => \E w \in Workers : held[w].task = t

\* Only a crash or a lost release leaves a dispatched row nobody has in hand.
LEMMA InProgressNext ==
  ASSUME Disturbances \cap {"crash", "lost"} = {}
  PROVE  FlowInv /\ InProgress /\ [Next]_vars => InProgress'
<1> SUFFICES ASSUME FlowInv, InProgress, [Next]_vars,
                    NEW t \in Tasks, rows'[t].status = "dispatched"
             PROVE  \E w \in Workers : held'[w].task = t
  BY DEF InProgress
<1>0. WorkflowTypeOK /\ QueueTypeOK /\ rows[t] \in Row
  BY Parts DEF QueueTypeOK
<1>1. ASSUME NEW w \in Workers, Move(w) PROVE \E v \in Workers : held'[v].task = t
  <2>1. CASE held'[w].task = t
    BY <2>1
  <2>2. CASE held[w].task = t /\ held'[w].task # t
    <3>1. ~ClaimTask(w)
      BY <1>0, <2>2, QueueAssumption DEF ClaimTask, Claim
    <3>2. ASSUME NEW s, NEW r, NEW n, Release(w, s, r, n)
          PROVE  s = "dispatched"
      BY <1>0, <2>2, <3>2, ReleaseEffect
    <3>3. ~Settle(w)
      <4> SUFFICES ASSUME Settle(w) PROVE FALSE
        OBVIOUS
      <4> PICK u : u = job[w].task
        OBVIOUS
      <4> PICK s : s = NextStatus(w)
        OBVIOUS
      <4>1. Settling(w, u, job[w].run, s, NextRole(w))
        BY SettleEffect
      <4> QED BY <2>2, <4>1 DEF Settling
    <3>4. ~Refuse(w) /\ ~GiveUp(w)
      BY <3>2 DEF Refuse, GiveUp
    <3>5. ~Requeue(w)
      <4> SUFFICES ASSUME Requeue(w) PROVE FALSE
        OBVIOUS
      <4>1. job[w].task = t
        BY <2>2, AtWork DEF Requeue, Working, PCs
      <4>2. rows'[t] = Released(rows[t], "queued", rows[t].role, rows[t].attempts)
        BY <1>0, <4>1 DEF Requeue, Reopen, QueueTypeOK
      <4> QED BY <1>0, <4>2 DEF Released, Row
    <3>6. held' = held
      BY <1>1, <3>1, <3>3, <3>4, <3>5
         DEF Move, Step, Answer, Disturb, PreLaunch, OpenRun, LaunchAgent, PrepareFails,
             Interrupt, Account, SaveReviewContext, ExcludeOrigin, AttachPacket, Done, Halt,
             ImplementerDone, VerifierDone, ReviewerDone, Abort, Raise, LoseTask,
             SetReviewContext, SetPacket, AddExcludes, queueVars
    <3> QED BY <2>2, <3>6
  <2>3. CASE t \notin {held[w].task, held'[w].task}
    <3>1. rows'[t] = rows[t]
      BY <1>1, <2>3, TaskFrame
    <3>2. PICK v \in Workers : held[v].task = t
      BY <3>1 DEF InProgress
    <3>3. held'[v] = held[v]
      BY <1>0, <1>1, <2>3, <3>2, WorkerFrame
    <3> QED BY <3>2, <3>3
  <2> QED BY <2>1, <2>2, <2>3
<1>2. ASSUME UNCHANGED <<rows, held>> PROVE \E w \in Workers : held'[w].task = t
  BY <1>2 DEF InProgress
<1>3. ASSUME Stop \/ TimePasses \/ UNCHANGED vars
      PROVE  \E w \in Workers : held'[w].task = t
  BY <1>2, <1>3 DEF Stop, TimePasses, Tick, vars, queueVars
<1>4. ~Crash
  BY DEF Crash
<1>5. ASSUME Start PROVE \E w \in Workers : held'[w].task = t
  <2>1. PICK w \in Workers : held[w].task = t
    BY <1>5 DEF Start, Forget, InProgress
  <2>2. pc[w] = "off" /\ WorkerInv(w)
    BY <1>5, Parts DEF Start, AllOff
  <2> QED BY <2>1, <2>2, QueueAssumption DEF WorkerInv, InHand, Working
<1>6. ASSUME NEW u \in Tasks, Submit(u) PROVE \E w \in Workers : held'[w].task = t
  <2>1. rows'[t] = rows[t] \/ rows'[t].status = "queued"
    BY <1>0, <1>6 DEF Submit, Enqueue, AbsentRow, QueueTypeOK
  <2>2. held' = held
    BY <1>6 DEF Submit, Enqueue
  <2> QED BY <2>1, <2>2 DEF InProgress
<1> QED BY <1>1, <1>3, <1>4, <1>5, <1>6 DEF Next, Move

\* When the pool has stopped, no task is held and no run is open, if no process died,
\* no handler gave a task up in the middle of its run, and what the loop and the
\* interrupt write could be written (stop(), the requeue of the loop).
THEOREM CleanAfterStop ==
  ASSUME Disturbances \cap {"crash", "lost", "giveup", "cancel"} = {}
  PROVE  Spec => []CleanShutdown
<1>1. Init => InProgress
  BY DEF Init, QueueInit, AbsentRow, InProgress
<1>2. FlowInv /\ InProgress /\ [Next]_vars => InProgress'
  BY InProgressNext
<1>3. Spec => []OpenInv
  BY OpenInvariant
<1>4. FlowInv /\ OpenInv /\ InProgress => CleanShutdown
  <2> SUFFICES ASSUME FlowInv, OpenInv, InProgress, AllOff, NEW t \in Tasks
               PROVE  /\ rows[t].status # "dispatched"
                      /\ \A r \in 1..opened[t] : runs[t][r].status \notin OpenStatuses
    BY DEF CleanShutdown
  <2>1. \A w \in Workers : held[w].task # t
    BY Parts, QueueAssumption DEF AllOff, WorkerInv, InHand, Working
  <2>2. rows[t].status # "dispatched"
    BY <2>1 DEF InProgress
  <2> QED BY <2>2 DEF OpenInv, OpenTask
<1> QED BY <1>1, <1>2, <1>3, <1>4, FlowInvariant, PTL DEF Spec
-----------------------------------------------------------------------------
(* Exclusions. *)

\* What a worker's map knows of a task agrees with the table, and the handler's
\* choice of an agent was made with it.
MapsAgree ==
  /\ \A w \in Workers, t \in Tasks : cache[w][t].known =>
       cache[w][t].excl = rows[t].excl /\ rows[t].status # "absent"
  /\ \A w \in Workers : pc[w] \in {"claimed", "charged"} => cache[w][job[w].task].known
  /\ \A w \in Workers : pc[w] = "charged" => job[w].agent \notin cache[w][job[w].task].excl

\* A handler's notes change the exclusions of a row only with those of its map.
LEMMA MapSteps ==
  ASSUME FlowInv, MapsAgree, NEW w \in Workers, Move(w), NEW t \in Tasks,
         cache'[w][t].known
  PROVE  cache'[w][t].excl = rows'[t].excl /\ rows'[t].status # "absent"
<1> DEFINE Agree == cache'[w][t].excl = rows'[t].excl /\ rows'[t].status # "absent"
<1>0. /\ WorkflowTypeOK /\ QueueTypeOK /\ rows[t] \in Row /\ HolderOwnsRow
      /\ cache[w][t].known => cache[w][t].excl = rows[t].excl /\ rows[t].status # "absent"
  BY Parts DEF MapsAgree, QueueTypeOK
<1>1. ASSUME NEW u \in Tasks, Claim(w, u) PROVE Agree
  <2>1. /\ rows'[t].excl = rows[t].excl
        /\ rows'[t].status = IF u = t THEN "dispatched" ELSE rows[t].status
    BY <1>0, <1>1 DEF Claim, QueueTypeOK, Row
  <2>2. CASE cache[w][t].known
    <3>1. cache'[w][t] = cache[w][t]
      BY <1>0, <1>1, <2>2 DEF Claim, FillCache, QueueTypeOK
    <3> QED BY <1>0, <2>1, <2>2, <3>1
  <2>3. CASE ~cache[w][t].known
    <3>1. u = t /\ cache'[w][t] = [known |-> TRUE, excl |-> rows[t].excl]
      BY <1>0, <1>1, <2>3 DEF Claim, FillCache, QueueTypeOK
    <3> QED BY <2>1, <3>1
  <2> QED BY <2>2, <2>3
<1>2. ASSUME NEW agents, AddExcludes(w, agents) PROVE Agree
  <2> PICK u : u = held[w].task
    OBVIOUS
  <2> PICK excl : excl = MergedExcludes(u, agents)
    OBVIOUS
  <2>1. /\ rows' = [rows EXCEPT ![u].excl = excl] /\ u # NoTask
        /\ cache' = [cache EXCEPT ![w][u] = [known |-> TRUE, excl |-> excl]]
    BY <1>2 DEF AddExcludes
  <2>2. rows[u].status = "dispatched"
    BY <1>0, <2>1 DEF HolderOwnsRow
  <2>3. CASE u = t
    BY <1>0, <2>1, <2>2, <2>3 DEF QueueTypeOK, Row
  <2>4. CASE u # t
    BY <1>0, <2>1, <2>4 DEF QueueTypeOK
  <2> QED BY <2>3, <2>4
<1>3. ASSUME cache' = cache, rows'[t].excl = rows[t].excl,
             rows'[t].status = rows[t].status \/ rows'[t].status # "absent"
      PROVE  Agree
  BY <1>0, <1>3
<1>4. ASSUME NEW s, NEW r, NEW n, Release(w, s, r, n), s # "absent" PROVE Agree
  BY <1>0, <1>3, <1>4 DEF Release, Released, QueueTypeOK, Row
<1>5. ASSUME Requeue(w) PROVE Agree
  BY <1>0, <1>3, <1>5 DEF Requeue, Reopen, Released, QueueTypeOK, Row
<1>6. ASSUME \/ \E ctx : SetReviewContext(w, ctx)
             \/ \E p : SetPacket(w, p)
             \/ Abandon(w)
             \/ UNCHANGED queueVars
      PROVE  Agree
  <2>1. cache' = cache
    BY <1>6 DEF SetReviewContext, SetPacket, Abandon, queueVars
  <2>2. CASE rows' = rows
    BY <1>3, <2>1, <2>2
  <2>3. ASSUME NEW x, rows' = [rows EXCEPT ![held[w].task].ctx = x] PROVE Agree
    BY <1>0, <1>3, <2>1, <2>3 DEF QueueTypeOK, Row
  <2>4. ASSUME NEW x, rows' = [rows EXCEPT ![held[w].task].packet = x] PROVE Agree
    BY <1>0, <1>3, <2>1, <2>4 DEF QueueTypeOK, Row
  <2> QED BY <1>6, <2>2, <2>3, <2>4 DEF SetReviewContext, SetPacket, Abandon, queueVars
<1>7. ASSUME Settle(w) PROVE Agree
  <2>1. NextStatus(w) # "absent"
    <3>1. pc[w] \in Working /\ job[w].role \in Roles
      BY <1>0, <1>7 DEF Settle, Working, PCs, WorkflowTypeOK, Job
    <3> QED BY <3>1, Releases
  <2> QED BY <1>4, <1>7, <2>1 DEF Settle
<1>8. ASSUME Refuse(w) \/ GiveUp(w) PROVE Agree
  BY <1>4, <1>8 DEF Refuse, GiveUp
<1> HIDE DEF Agree
<1>9. Agree
  BY <1>1, <1>2, <1>5, <1>6, <1>7, <1>8 DEF Move, Step, Answer, Disturb, ClaimTask,
     PreLaunch, OpenRun, LaunchAgent, PrepareFails, Interrupt, Account, SaveReviewContext,
     ExcludeOrigin, AttachPacket, Done, Halt, ImplementerDone, VerifierDone, ReviewerDone,
     Abort, Raise, LoseTask
<1> QED BY <1>9 DEF Agree

\* An agent that is picked is in none of the exclusions the handler knew.
LEMMA ChargedSteps ==
  ASSUME FlowInv, MapsAgree, NEW w \in Workers, Move(w)
  PROVE  /\ pc'[w] \in {"claimed", "charged"} => cache'[w][job'[w].task].known
         /\ pc'[w] = "charged" => job'[w].agent \notin cache'[w][job'[w].task].excl
<1>0. WorkflowTypeOK /\ QueueTypeOK /\ job[w] \in Job
  BY Parts DEF WorkflowTypeOK
<1>1. CASE ClaimTask(w)
  <2>1. PICK t \in Tasks : /\ Claim(w, t)
                           /\ job' = [job EXCEPT ![w].task = t, ![w].role = rows[t].role]
    BY <1>1 DEF ClaimTask
  <2>2. pc'[w] = "claimed" /\ job'[w].task = t
    BY <1>0, <1>1, <2>1 DEF ClaimTask, Goto, WorkflowTypeOK, Job
  <2>3. cache'[w][t].known
    BY <1>0, <2>1 DEF Claim, FillCache, QueueTypeOK
  <2> QED BY <2>2, <2>3
<1>2. CASE PreLaunch(w)
  <2>1. PICK a \in EligibleAgents(job[w].role, Excludes(w), out) :
          job' = [job EXCEPT ![w].agent = a]
    BY <1>2 DEF PreLaunch
  <2>2. job'[w].task = job[w].task /\ job'[w].agent = a /\ cache' = cache
    BY <1>0, <1>2, <2>1 DEF PreLaunch, queueVars, WorkflowTypeOK, Job
  <2>3. a \notin cache[w][job[w].task].excl
    BY <2>1 DEF EligibleAgents, ExcludedReason, Excludes, ExcludeSet
  <2> QED BY <1>2, <2>2, <2>3 DEF PreLaunch, MapsAgree
<1>3. CASE Abort(w)
  BY <1>3 DEF Abort, queueVars, MapsAgree
<1>4. CASE ~ClaimTask(w) /\ ~PreLaunch(w) /\ ~Abort(w)
  <2>1. pc'[w] \notin {"claimed", "charged"}
    BY <1>0, <1>4 DEF Move, Step, Answer, Disturb, Refuse, OpenRun, LaunchAgent, PrepareFails,
       Interrupt, Account, SaveReviewContext, ExcludeOrigin, AttachPacket, Settle, Done, Requeue,
       AfterFailure, Halt, ImplementerDone, VerifierDone, ReviewerDone, Raise, GiveUp, LoseTask,
       Finish, Goto, WorkflowTypeOK
  <2> QED BY <2>1
<1> QED BY <1>1, <1>2, <1>3, <1>4

\* The only worker's own map is kept in step with the rows it stands for.
LEMMA MapsAgreeNext ==
  ASSUME \A v, w \in Workers : v = w
  PROVE  FlowInv /\ MapsAgree /\ [Next]_vars => MapsAgree'
<1> SUFFICES ASSUME FlowInv, MapsAgree, [Next]_vars PROVE MapsAgree'
  OBVIOUS
<1>0. QueueTypeOK
  BY Parts
<1>1. ASSUME NEW w \in Workers, Move(w) PROVE MapsAgree'
  <2>1. \A v \in Workers : v = w
    OBVIOUS
  <2>2. \A t \in Tasks : cache'[w][t].known =>
          cache'[w][t].excl = rows'[t].excl /\ rows'[t].status # "absent"
    BY <1>1, MapSteps
  <2>3. /\ pc'[w] \in {"claimed", "charged"} => cache'[w][job'[w].task].known
        /\ pc'[w] = "charged" => job'[w].agent \notin cache'[w][job'[w].task].excl
    BY <1>1, ChargedSteps
  <2> QED BY <2>1, <2>2, <2>3 DEF MapsAgree
<1>2. ASSUME Start \/ Crash PROVE MapsAgree'
  BY <1>2 DEF Start, Crash, Forget, NotCached, MapsAgree
<1>3. ASSUME Stop \/ TimePasses \/ UNCHANGED vars PROVE MapsAgree'
  BY <1>3 DEF Stop, TimePasses, Tick, vars, queueVars, flowVars, MapsAgree
<1>4. ASSUME NEW u \in Tasks, Submit(u) PROVE MapsAgree'
  <2>1. PICK excl : Enqueue(u, excl)
    BY <1>4 DEF Submit
  <2>2. UNCHANGED <<cache, pc, job>> /\ rows[u].status = "absent"
    BY <1>4, <2>1 DEF Submit, Enqueue, flowVars
  <2>3. \A t \in Tasks : t # u => rows'[t] = rows[t]
    BY <1>0, <2>1 DEF Enqueue, QueueTypeOK
  <2> QED BY <2>2, <2>3 DEF MapsAgree
<1> QED BY <1>1, <1>2, <1>3, <1>4 DEF Next, Move

\* An agent that is excluded for a task is never picked for it again, when the worker
\* that picks is the only one to exclude: a run, or a batch of one worker
\* (addWorkOrderExcludeAgentIds(), decide()).
THEOREM OneWorkerNeverReconsiders ==
  ASSUME \A v, w \in Workers : v = w
  PROVE  Spec => []ExcludedNeverReconsidered
<1>1. Init => MapsAgree
  BY DEF Init, QueueInit, NotCached, MapsAgree
<1>2. FlowInv /\ MapsAgree /\ [Next]_vars => MapsAgree'
  BY MapsAgreeNext
<1>3. FlowInv /\ MapsAgree => ExcludedNeverReconsidered
  <2> SUFFICES ASSUME FlowInv, MapsAgree, NEW w \in Workers, pc[w] = "charged"
               PROVE  job[w].agent \notin rows[job[w].task].excl
    BY DEF ExcludedNeverReconsidered
  <2>1. job[w].task \in Tasks
    BY AtWork DEF Working, PCs
  <2> QED BY <2>1 DEF MapsAgree
<1> QED BY <1>1, <1>2, <1>3, FlowInvariant, PTL DEF Spec
-----------------------------------------------------------------------------
(* Handoff packets. *)

\* An implementer run that was not interrupted.
IsKept(t, q) == runs[t][q].role = "implementer" /\ runs[t][q].status # "cancelled"

\* q is the latest of them before t's run r; NoRun when there is none.
LatestKept(t, q, r) ==
  \/ q = NoRun /\ \A p \in 1..(r - 1) : ~IsKept(t, p)
  \/ /\ q \in 1..(r - 1)
     /\ IsKept(t, q)
     /\ \A p \in 1..(r - 1) : IsKept(t, p) => p <= q

\* The row of a task that will be implemented again carries the packet of the last
\* attempt, the one of a task to review is about that attempt, and the runs of the
\* task were given theirs.
RetryReady(t) ==
  rows[t].status = "queued" /\ rows[t].role = "implementer" =>
    LatestKept(t, rows[t].packet, opened[t] + 1)
LatestReviewed(t) ==
  rows[t].status \in {"queued", "dispatched"} /\ rows[t].role = "reviewer" =>
    LatestKept(t, rows[t].ctx.run, opened[t] + 1)
RunsWereReady(t) ==
  \A r \in 1..opened[t] : runs[t][r].role = "implementer" =>
    LatestKept(t, runs[t][r].packet, r)

\* What a handler may rely on, from its claim to its release.
PacketInHand(w) ==
  LET t == job[w].task IN
  /\ pc[w] \in {"claimed", "charged", "raised"} /\ job[w].role = "implementer" =>
       LatestKept(t, rows[t].packet, opened[t] + 1)
  /\ pc[w] \in Launching /\ job[w].role = "implementer" =>
       LatestKept(t, rows[t].packet, opened[t])
  /\ pc[w] \in HasResult => runs[t][job[w].run].status # "cancelled"
  /\ pc[w] = "persisted" /\ WantsHandoff(w) =>
       LatestKept(t, rows[t].packet, opened[t] + 1)

PacketInv ==
  /\ \A t \in Tasks : RetryReady(t) /\ LatestReviewed(t) /\ RunsWereReady(t)
  /\ \A w \in Workers : PacketInHand(w)

\* A run that is not kept changes nothing, and one that is kept is the latest.
LEMMA KeptNext ==
  ASSUME NEW t, NEW q, NEW r \in Nat \ {0}
  PROVE  /\ ~IsKept(t, r) => (LatestKept(t, q, r + 1) <=> LatestKept(t, q, r))
         /\ IsKept(t, r) => LatestKept(t, r, r + 1)
<1>1. (r + 1) - 1 = r /\ \A p \in 1..r : p = r \/ p \in 1..(r - 1)
  OBVIOUS
<1>2. 1..(r - 1) \subseteq 1..r /\ r \in 1..r /\ \A p \in 1..r : p <= r
  OBVIOUS
<1> HIDE DEF IsKept
<1>3. ASSUME ~IsKept(t, r) PROVE LatestKept(t, q, r + 1) <=> LatestKept(t, q, r)
  BY <1>1, <1>2, <1>3 DEF LatestKept
<1>4. ASSUME IsKept(t, r) PROVE LatestKept(t, r, r + 1)
  BY <1>1, <1>2, <1>4 DEF LatestKept
<1> QED BY <1>3, <1>4

\* The latest run that is kept depends only on the runs before.
LEMMA KeptSame ==
  ASSUME NEW t, NEW q, NEW r, \A p \in 1..(r - 1) : IsKept(t, p)' <=> IsKept(t, p)
  PROVE  LatestKept(t, q, r)' <=> LatestKept(t, q, r)
<1> HIDE DEF IsKept
<1> QED BY DEF LatestKept

\* When a run is opened, the ones before it stay.
LEMMA KeptOpened ==
  ASSUME FlowInv, NEW w \in Workers, OpenRun(w),
         NEW t, t = job[w].task, NEW n \in Nat, n = opened[t]
  PROVE  /\ \A q : \A r \in 1..(n + 1) : LatestKept(t, q, r)' <=> LatestKept(t, q, r)
         /\ job[w].role = "reviewer" =>
              \A q : LatestKept(t, q, n + 2)' <=> LatestKept(t, q, n + 1)
<1>1. Opening(w, t, n)
  BY OpenRunEffect
<1>2. \A p \in 1..n : IsKept(t, p)' <=> IsKept(t, p)
  BY <1>1 DEF Opening, IsKept
<1>3. ASSUME NEW q, NEW r \in 1..(n + 1)
      PROVE  LatestKept(t, q, r)' <=> LatestKept(t, q, r)
  <2>1. 1..(r - 1) \subseteq 1..n
    OBVIOUS
  <2> QED BY <1>2, <2>1, KeptSame
<1>4. ASSUME job[w].role = "reviewer", NEW q
      PROVE  LatestKept(t, q, n + 2)' <=> LatestKept(t, q, n + 1)
  <2>1. ~IsKept(t, n + 1)'
    BY <1>1, <1>4 DEF Opening, IsKept
  <2>2. (n + 1) + 1 = n + 2 /\ n + 1 \in Nat \ {0} /\ n + 1 \in 1..(n + 1)
    OBVIOUS
  <2>3. LatestKept(t, q, n + 2)' <=> LatestKept(t, q, n + 1)'
    <3>1. (n + 2) - 1 = n + 1 /\ (n + 1) - 1 = n
      OBVIOUS
    <3>2. \A p \in 1..(n + 1) : p = n + 1 \/ p \in 1..n
      OBVIOUS
    <3>3. 1..n \subseteq 1..(n + 1)
      OBVIOUS
    <3> HIDE DEF IsKept
    <3> QED BY <2>1, <3>1, <3>2, <3>3 DEF LatestKept
  <2> QED BY <1>3, <2>2, <2>3
<1> QED BY <1>3, <1>4

\* When the run of a handler gets another status, the ones before it stay, and a
\* reviewer's is kept neither before nor after.
LEMMA KeptByRun ==
  ASSUME FlowInv, NEW w \in Workers, pc[w] \in Launching,
         NEW s \in RunStatuses, NEW v \in {"none"} \cup Verdicts, SetRun(w, s, v),
         NEW t, t = job[w].task, NEW n, n = opened[t]
  PROVE  /\ t \in Tasks /\ n \in Nat \ {0} /\ n = job[w].run /\ 1..n \subseteq RunIds
         /\ runs'[t][n].status = s /\ runs'[t][n].role = job[w].role
         /\ \A r \in 1..n : runs'[t][r].role = runs[t][r].role
                            /\ runs'[t][r].packet = runs[t][r].packet
         /\ \A q : \A r \in 1..n : LatestKept(t, q, r)' <=> LatestKept(t, q, r)
         /\ job[w].role = "reviewer" \/ s = "cancelled" =>
              \A q : LatestKept(t, q, n + 1)' <=> LatestKept(t, q, n)
<1>0. pc[w] \in Working /\ pc[w] \in HasRun
  BY DEF Working, HasRun, Launching, PCs
<1>1. /\ t \in Tasks /\ WorkflowTypeOK /\ OwnRun(w)
      /\ n = job[w].run /\ n \in Nat \ {0} /\ n \in RunIds /\ 1..n \subseteq RunIds
  BY <1>0, AtWork, Parts, RunNumber, WorkflowAssumption DEF WorkerInv
<1>2. v \in {"none", "approved", "changes_requested", "rejected"}
  BY DEF Verdicts
<1>3. OnlyRun(w, s, v)
  BY <1>1, <1>2, SetRunEffect
<1>4. runs'[t][n].status = s /\ runs'[t][n].role = job[w].role
  BY <1>0, <1>1, <1>3 DEF OnlyRun, OwnRun
<1>5. \A r \in 1..n : runs'[t][r].role = runs[t][r].role
                      /\ runs'[t][r].packet = runs[t][r].packet
  BY <1>1, <1>3 DEF OnlyRun
<1>6. \A p \in 1..(n - 1) : p \in RunIds /\ p # n
  BY <1>1
<1>7. \A p \in 1..(n - 1) : IsKept(t, p)' <=> IsKept(t, p)
  BY <1>1, <1>3, <1>6 DEF OnlyRun, IsKept
<1>8. ASSUME NEW q, NEW r \in 1..n
      PROVE  LatestKept(t, q, r)' <=> LatestKept(t, q, r)
  <2>1. 1..(r - 1) \subseteq 1..(n - 1)
    BY <1>1
  <2> QED BY <1>7, <2>1, KeptSame
<1>9. ASSUME job[w].role = "reviewer" \/ s = "cancelled", NEW q
      PROVE  LatestKept(t, q, n + 1)' <=> LatestKept(t, q, n)
  <2>1. ~IsKept(t, n)'
    BY <1>4, <1>9 DEF IsKept
  <2>2. (n + 1) - 1 = n /\ \A p \in 1..n : p = n \/ p \in 1..(n - 1)
    BY <1>1
  <2>3. 1..(n - 1) \subseteq 1..n
    BY <1>1
  <2> HIDE DEF IsKept
  <2> QED BY <1>7, <2>1, <2>2, <2>3 DEF LatestKept
<1> QED BY <1>1, <1>4, <1>5, <1>8, <1>9

\* What a worker's step leaves of the task it has in hand, or takes: it is in hand
\* after the step, put back, or settled.
LEMMA PutBack ==
  ASSUME FlowInv, FlowInv', NEW w \in Workers, Move(w),
         NEW t \in Tasks, t \in {held[w].task, held'[w].task}
  PROVE  \/ rows'[t].status = "dispatched"
         \/ rows'[t].status \in Terminal /\ (Refuse(w) \/ GiveUp(w))
         \/ Settle(w) /\ job[w].task = t
         \/ Requeue(w) /\ job[w].task = t /\ rows'[t].packet = rows[t].packet
<1>0. /\ WorkflowTypeOK /\ QueueTypeOK /\ HolderOwnsRow /\ HolderOwnsRow'
      /\ t # NoTask /\ rows[t] \in Row
  BY Parts, QueueAssumption DEF FlowInv, QueueTypeOK
<1>1. CASE held'[w].task = t
  BY <1>0, <1>1 DEF HolderOwnsRow
<1>2. CASE held'[w].task # t
  <2>1. held[w].task = t /\ rows[t].status = "dispatched"
    BY <1>0, <1>2 DEF HolderOwnsRow
  <2>2. pc[w] \in Working => job[w].task = t
    BY <2>1, AtWork
  <2>3. ~ClaimTask(w)
    BY <1>0, <2>1 DEF ClaimTask, Claim
  <2>4. CASE Settle(w)
    BY <2>2, <2>4 DEF Settle, Working, PCs
  <2>5. CASE Refuse(w) \/ GiveUp(w)
    <3>1. PICK s \in {"failed", "awaiting_human"} :
            Release(w, s, job[w].role, held[w].attempts)
      BY <2>5 DEF Refuse, GiveUp
    <3>2. rows'[t].status = s
      BY <1>0, <2>1, <3>1, ReleaseEffect
    <3> QED BY <2>5, <3>2 DEF Terminal
  <2>6. CASE Requeue(w)
    <3>1. job[w].task = t
      BY <2>2, <2>6 DEF Requeue, Working, PCs
    <3>2. rows'[t] = Released(rows[t], "queued", rows[t].role, rows[t].attempts)
      BY <1>0, <2>6, <3>1 DEF Requeue, Reopen, QueueTypeOK
    <3> QED BY <1>0, <2>6, <3>1, <3>2 DEF Released, Row
  <2>7. CASE LoseTask(w)
    BY <2>1, <2>7 DEF LoseTask, Abandon
  <2>8. CASE ~Settle(w) /\ ~GiveUp(w) /\ ~Requeue(w) /\ ~LoseTask(w) /\ ~Refuse(w)
    <3>1. held' = held
      BY <2>3, <2>8
         DEF Move, Step, Answer, Disturb, PreLaunch, OpenRun, LaunchAgent, PrepareFails,
             Interrupt, Account, SaveReviewContext, ExcludeOrigin, AttachPacket, Done, Halt,
             ImplementerDone, VerifierDone, ReviewerDone, Abort, Raise,
             SetReviewContext, SetPacket, AddExcludes, queueVars
    <3> QED BY <1>2, <2>1, <3>1
  <2> QED BY <2>4, <2>5, <2>6, <2>7, <2>8
<1> QED BY <1>1, <1>2

\* Whatever the handler does, its task is ready for a retry when it is queued for one.
LEMMA RetryKept ==
  ASSUME FlowInv, FlowInv', PacketInv, NEW w \in Workers, Move(w),
         NEW t \in Tasks, t \in {held[w].task, held'[w].task}
  PROVE  RetryReady(t)'
<1> SUFFICES ASSUME rows'[t].status = "queued", rows'[t].role = "implementer"
             PROVE  LatestKept(t, rows[t].packet, opened[t] + 1)'
  BY DEF RetryReady
<1>0. QueueTypeOK /\ PacketInHand(w)
  BY Parts DEF PacketInv
<1>1. CASE Settle(w)
  <2> PICK u : u = job[w].task
    OBVIOUS
  <2> PICK n : n = job[w].run
    OBVIOUS
  <2> PICK s : s = NextStatus(w)
    OBVIOUS
  <2> PICK r : r = NextRole(w)
    OBVIOUS
  <2>1. Settling(w, u, n, s, r)
    BY <1>1, SettleEffect
  <2>2. /\ u = t /\ s = "queued" /\ r = "implementer"
        /\ s = "queued" => r = IF WantsReview(w) THEN "reviewer" ELSE "implementer"
        /\ opened' = opened /\ runs' = runs /\ job[w].role \in Roles
        /\ n = opened[t]
    <3>1. u = t
      BY <2>1, QueueAssumption DEF Settling
    <3> QED BY <2>1, <3>1, Parts DEF Settling, QueueTypeOK, Row
  <2>3. ~WantsReview(w)
    BY <2>2
  <2>4. WantsHandoff(w)
    BY <2>2, <2>3, Releases
  <2>5. pc[w] = "persisted"
    BY <1>1, <2>4 DEF Settle
  <2>6. LatestKept(t, rows[t].packet, opened[t] + 1)
    BY <1>0, <2>2, <2>4, <2>5 DEF PacketInHand
  <2>7. rows'[t].packet = rows[t].packet
    <3>1. held[w].task = t
      BY <2>1, <2>2 DEF Settling
    <3>2. Release(w, s, r, held[w].attempts + 1)
      BY <1>1 DEF Settle
    <3> QED BY <1>0, <3>1, <3>2, ReleaseEffect
  <2> QED BY <2>2, <2>6, <2>7 DEF LatestKept, IsKept
<1>2. CASE Requeue(w)
  <2>1. job[w].task = t /\ rows'[t].packet = rows[t].packet /\ rows'[t].role = rows[t].role
    <3>1. rows'[t].role = rows[t].role
      BY <1>2, QuietRow DEF Requeue, Settle, Refuse, GiveUp, Waiting
    <3> QED BY <1>2, <3>1, PutBack DEF Requeue, Settle, Refuse, GiveUp, Waiting
  <2>2. rows[t].role = job[w].role /\ pc[w] = "raised"
    BY <1>2, <2>1, AtWork DEF Requeue, Working, PCs
  <2>3. LatestKept(t, rows[t].packet, opened[t] + 1)
    BY <1>0, <2>1, <2>2 DEF PacketInHand
  <2>4. opened' = opened /\ runs' = runs
    BY <1>2 DEF Requeue, AfterFailure
  <2> QED BY <2>1, <2>3, <2>4 DEF LatestKept, IsKept
<1> QED BY <1>1, <1>2, PutBack DEF Terminal

\* The runs of the handler's task keep their packets, and a review stays about the
\* latest attempt.
LEMMA ReviewedKept ==
  ASSUME FlowInv, FlowInv', PacketInv, "cancel" \notin Disturbances,
         NEW w \in Workers, Move(w),
         NEW t \in Tasks, t \in {held[w].task, held'[w].task}
  PROVE  LatestReviewed(t)' /\ RunsWereReady(t)'
<1> DEFINE Goal == LatestReviewed(t)' /\ RunsWereReady(t)'
<1>0. /\ WorkflowTypeOK /\ QueueTypeOK /\ TaskInv(t) /\ HolderOwnsRow
      /\ LatestReviewed(t) /\ RunsWereReady(t) /\ PacketInHand(w)
      /\ t # NoTask /\ opened[t] \in Nat
  BY Parts, QueueAssumption DEF PacketInv, WorkflowTypeOK
<1>1. \/ rows'[t].status \in Terminal
      \/ Settle(w) /\ job[w].task = t
      \/ /\ rows'[t].role = rows[t].role
         /\ rows[t].role = "reviewer" => rows'[t].ctx = rows[t].ctx
         /\ rows[t].status \in {"queued", "dispatched"}
  <2>1. CASE Settle(w) \/ Refuse(w) \/ GiveUp(w)
    <3>1. ~Requeue(w)
      BY <2>1 DEF Settle, Refuse, GiveUp, Waiting, Requeue
    <3>2. held[w].task = t \/ held'[w].task = t
      OBVIOUS
    <3>3. CASE rows'[t].status = "dispatched"
      <4>1. /\ pc[w] \in Working /\ job[w].task = held[w].task
        BY <2>1, AtWork DEF Settle, Refuse, GiveUp, Waiting, Working, PCs
      <4>2. ~ClaimTask(w)
        BY <2>1 DEF Settle, Refuse, GiveUp, Waiting, ClaimTask, MayClaim
      <4>3. held[w].task = t
        BY <1>0, <4>2, KeepsHand
      <4>4. CASE Settle(w)
        BY <4>1, <4>3, <4>4
      <4>5. CASE Refuse(w) \/ GiveUp(w)
        <5>1. PICK s \in {"failed", "awaiting_human"} :
                Release(w, s, job[w].role, held[w].attempts)
          BY <4>5 DEF Refuse, GiveUp
        <5> QED BY <1>0, <3>3, <4>3, <5>1, ReleaseEffect
      <4> QED BY <2>1, <4>4, <4>5
    <3> QED BY <3>1, <3>3, PutBack
  <2>2. CASE ~Settle(w) /\ ~Refuse(w) /\ ~GiveUp(w)
    BY <2>2, QuietRow
  <2> QED BY <2>1, <2>2
<1>2. ASSUME pc[w] \in Launching
      PROVE  /\ job[w].task = t /\ rows[t].role = job[w].role
             /\ rows[t].status = "dispatched" /\ held[w].task = t /\ ~Settle(w)
  <2>1. pc[w] \in Working /\ ~ClaimTask(w) /\ ~Settle(w)
    BY <1>2 DEF Working, Launching, PCs, ClaimTask, MayClaim, Settle
  <2>2. held[w].task = t
    BY <1>0, <2>1, KeepsHand
  <2> QED BY <2>1, <2>2, AtWork
<1>3. ASSUME RunsStay(w) PROVE Goal
  <2>1. RunsWereReady(t)'
    BY <1>0, <1>3 DEF RunsStay, RunsWereReady, LatestKept, IsKept
  <2>2. \A q : LatestKept(t, q, opened[t] + 1)' <=> LatestKept(t, q, opened[t] + 1)
    BY <1>3 DEF RunsStay, LatestKept, IsKept
  <2>3. CASE rows'[t].status \in Terminal
    BY <2>1, <2>3 DEF LatestReviewed, Terminal
  <2>4. CASE Settle(w) /\ job[w].task = t
    <3> PICK n : n = job[w].run
      OBVIOUS
    <3> PICK s : s = NextStatus(w)
      OBVIOUS
    <3> PICK r : r = NextRole(w)
      OBVIOUS
    <3>1. Settling(w, t, n, s, r)
      BY <2>4, SettleEffect
    <3>2. CASE s = "queued" /\ r = "reviewer"
      <4>1. WantsReview(w) /\ job[w].outcome = "succeeded"
        BY <3>1, <3>2 DEF Settling, WantsReview
      <4>2. /\ rows[t].ctx = [run |-> n, agent |-> job[w].agent] /\ rows'[t].ctx = rows[t].ctx
            /\ n = opened[t] /\ n \in Nat \ {0}
            /\ runs[t][n].role = "implementer" /\ runs[t][n].status = "succeeded"
            /\ opened' = opened /\ runs' = runs
        BY <3>1, <4>1 DEF Settling
      <4>3. LatestKept(t, n, n + 1)
        BY <4>2, KeptNext DEF IsKept
      <4>4. rows'[t].ctx.run = n
        BY <4>2
      <4> QED BY <2>1, <4>2, <4>3, <4>4 DEF LatestReviewed, LatestKept, IsKept
    <3>3. CASE s # "queued" \/ r # "reviewer"
      <4>1. rows'[t].status = s /\ rows'[t].role = r
            /\ s \in {"accepted", "awaiting_human", "queued", "failed"}
        BY <3>1 DEF Settling
      <4> QED BY <2>1, <3>3, <4>1 DEF LatestReviewed
    <3> QED BY <3>2, <3>3
  <2>5. CASE /\ rows'[t].role = rows[t].role
             /\ rows[t].role = "reviewer" => rows'[t].ctx = rows[t].ctx
             /\ rows[t].status \in {"queued", "dispatched"}
    BY <1>0, <1>3, <2>1, <2>2, <2>5 DEF LatestReviewed, RunsStay
  <2> QED BY <1>1, <2>3, <2>4, <2>5
<1>4. ASSUME OpenRun(w) PROVE Goal
  <2> PICK u : u = job[w].task
    OBVIOUS
  <2> PICK n \in Nat : n = opened[u]
    BY <1>4, OpenRunEffect DEF Opening
  <2>1. Opening(w, u, n) /\ pc[w] = "charged"
    BY <1>4, OpenRunEffect DEF OpenRun
  <2>2. /\ u = t /\ n = opened[t] /\ opened'[t] = n + 1 /\ rows' = rows
        /\ rows[t].status = "dispatched" /\ rows[t].role = job[w].role
        /\ \A r \in 1..n : runs'[t][r] = runs[t][r]
        /\ runs'[t][n + 1].role = job[w].role
        /\ job[w].role = "implementer" => runs'[t][n + 1].packet = rows[t].packet
    BY <2>1 DEF Opening
  <2>3. \A q : \A r \in 1..(n + 1) : LatestKept(t, q, r)' <=> LatestKept(t, q, r)
    BY <1>4, <2>2, KeptOpened
  <2>4. job[w].role = "reviewer" =>
          \A q : LatestKept(t, q, n + 2)' <=> LatestKept(t, q, n + 1)
    BY <1>4, <2>2, KeptOpened
  <2>5. LatestReviewed(t)'
    <3>1. (n + 1) + 1 = n + 2
      OBVIOUS
    <3> QED BY <1>0, <2>2, <2>4, <3>1 DEF LatestReviewed
  <2>6. RunsWereReady(t)'
    <3> SUFFICES ASSUME NEW r \in 1..(n + 1), runs'[t][r].role = "implementer"
                 PROVE  LatestKept(t, runs[t][r].packet, r)'
      BY <2>2 DEF RunsWereReady
    <3>1. LatestKept(t, runs'[t][r].packet, r)
      <4>1. CASE r = n + 1
        BY <1>0, <2>1, <2>2, <4>1 DEF PacketInHand
      <4>2. CASE r \in 1..n
        BY <1>0, <2>2, <4>2 DEF RunsWereReady
      <4> QED BY <4>1, <4>2
    <3> QED BY <2>3, <3>1
  <2> QED BY <2>5, <2>6
<1>5. ASSUME NEW s \in RunStatuses, NEW v \in {"none"} \cup Verdicts, SetRun(w, s, v),
             pc[w] \in Launching, opened' = opened
      PROVE  Goal
  <2> PICK n : n = opened[t]
    OBVIOUS
  <2>1. /\ job[w].task = t /\ rows[t].role = job[w].role /\ ~Settle(w)
        /\ rows[t].status = "dispatched"
    BY <1>2, <1>5
  <2>2. /\ n \in Nat \ {0} /\ runs'[t][n].role = job[w].role
        /\ \A r \in 1..n : runs'[t][r].role = runs[t][r].role
                           /\ runs'[t][r].packet = runs[t][r].packet
        /\ \A q : \A r \in 1..n : LatestKept(t, q, r)' <=> LatestKept(t, q, r)
        /\ job[w].role = "reviewer" =>
             \A q : LatestKept(t, q, n + 1)' <=> LatestKept(t, q, n)
    BY <1>5, <2>1, KeptByRun
  <2>3. runs[t][n].role = job[w].role
    BY <2>2
  <2>4. RunsWereReady(t)'
    BY <1>0, <1>5, <2>2 DEF RunsWereReady
  <2>5. LatestReviewed(t)'
    <3>1. CASE rows'[t].status \in Terminal
      BY <3>1 DEF LatestReviewed, Terminal
    <3>2. CASE rows[t].role # "reviewer"
      BY <1>1, <2>1, <3>1, <3>2 DEF LatestReviewed
    <3>3. CASE rows[t].role = "reviewer" /\ rows'[t].status \notin Terminal
      <4>1. ~IsKept(t, n)
        BY <2>1, <2>3, <3>3 DEF IsKept
      <4>2. LatestKept(t, rows[t].ctx.run, n + 1)
        BY <1>0, <2>1, <3>3 DEF LatestReviewed
      <4>3. LatestKept(t, rows[t].ctx.run, n)
        BY <2>2, <4>1, <4>2, KeptNext
      <4>4. LatestKept(t, rows[t].ctx.run, n + 1)' <=> LatestKept(t, rows'[t].ctx.run, n)
        BY <2>1, <2>2, <3>3
      <4>5. rows'[t].ctx = rows[t].ctx /\ opened'[t] = n
        BY <1>1, <1>5, <2>1, <3>3
      <4> QED BY <4>3, <4>4, <4>5 DEF LatestReviewed
    <3> QED BY <3>1, <3>2, <3>3
  <2> QED BY <2>4, <2>5
<1>6. {"failed", "succeeded", "running", "cancelled"} \subseteq RunStatuses
  BY DEF RunStatuses, OpenStatuses
<1> HIDE DEF Goal
<1>7. Goal
  BY <1>3, <1>4, <1>5, <1>6, RunsChange DEF RunLaunched, RunClosed
<1> QED BY <1>7 DEF Goal

\* What the handler may rely on of packets after its own step.
LEMMA PacketOwnStep ==
  ASSUME FlowInv, FlowInv', PacketInv, {"cancel", "raise"} \cap Disturbances = {},
         NEW w \in Workers, Move(w)
  PROVE  PacketInHand(w)'
<1>0. WorkflowTypeOK /\ QueueTypeOK /\ PacketInHand(w) /\ WorkerInv(w) /\ job[w] \in Job
  BY Parts DEF PacketInv, WorkflowTypeOK
<1>1. ASSUME pc'[w] \in {"off", "idle", "released"} PROVE PacketInHand(w)'
  BY <1>1 DEF PacketInHand, Launching, HasResult
<1>2. ASSUME ClaimTask(w) PROVE PacketInHand(w)'
  <2>1. PICK t \in Tasks : /\ Claim(w, t)
                           /\ job' = [job EXCEPT ![w].task = t, ![w].role = rows[t].role]
    BY <1>2 DEF ClaimTask
  <2>2. /\ job'[w].task = t /\ job'[w].role = rows[t].role /\ pc'[w] = "claimed"
        /\ rows'[t].packet = rows[t].packet /\ rows[t].status = "queued"
    BY <1>0, <1>2, <2>1 DEF ClaimTask, Claim, NextClaimable, Claimable, Goto, Job, Row,
       WorkflowTypeOK, QueueTypeOK
  <2>3. RetryReady(t) /\ runs' = runs /\ opened' = opened
    BY <1>2 DEF PacketInv, ClaimTask
  <2>4. job'[w].role = "implementer" => LatestKept(t, rows[t].packet, opened[t] + 1)
    BY <2>2, <2>3 DEF RetryReady
  <2>5. \A q : LatestKept(t, q, opened[t] + 1) => LatestKept(t, q, opened[t] + 1)'
    BY <2>3 DEF LatestKept, IsKept
  <2> QED BY <2>2, <2>3, <2>4, <2>5 DEF PacketInHand, Launching, HasResult
<1>3. ASSUME UNCHANGED <<rows, runs, opened>>, job'[w].task = job[w].task,
             job'[w].role = job[w].role,
             \/ pc[w] = "claimed" /\ pc'[w] \in {"charged", "raised"}
             \/ pc[w] \in Launching /\ pc'[w] \in Launching
      PROVE  PacketInHand(w)'
  BY <1>0, <1>3 DEF PacketInHand, LatestKept, IsKept, Launching, HasResult
<1>4. ASSUME PreLaunch(w) \/ Raise(w) PROVE PacketInHand(w)'
  BY <1>0, <1>3, <1>4 DEF PreLaunch, Raise, Goto, queueVars, WorkflowTypeOK, Job
<1>5. ASSUME Account(w) \/ ExcludeOrigin(w) \/ SaveReviewContext(w) PROVE PacketInHand(w)'
  <2>1. /\ pc[w] \in HasResult /\ pc'[w] \in {"accounted", "excluded", "persisted"}
        /\ runs' = runs /\ job' = job
        /\ pc'[w] = "persisted" => SaveReviewContext(w)
    BY <1>0, <1>5 DEF Account, ExcludeOrigin, SaveReviewContext, Goto, HasResult, WorkflowTypeOK
  <2>2. SaveReviewContext(w) => ~WantsHandoff(w)'
    <3> SUFFICES ASSUME SaveReviewContext(w) PROVE ~WantsHandoff(w)'
      OBVIOUS
    <3>1. job'[w].outcome = "succeeded"
      BY <2>1 DEF SaveReviewContext, WantsReview
    <3> QED BY <3>1 DEF WantsHandoff, HandoffOutcomes
  <2> QED BY <1>0, <2>1, <2>2 DEF PacketInHand, Launching, HasResult
<1>6. ASSUME AttachPacket(w) PROVE PacketInHand(w)'
  <2>0. pc[w] = "excluded" /\ pc[w] \in Working /\ pc[w] \in HasRun /\ pc[w] \in HasResult
    BY <1>6 DEF AttachPacket, Working, HasRun, HasResult, PCs
  <2> PICK t \in Tasks : t = job[w].task
    BY <2>0, AtWork
  <2> PICK n \in Nat \ {0} : n = opened[t]
    BY <2>0, RunNumber
  <2>1. /\ held[w].task = t /\ rows[t].status = "dispatched" /\ rows[t].role = job[w].role
        /\ job[w].run = n
    BY <2>0, AtWork, RunNumber
  <2> PICK p : p = Origin(w).run
    OBVIOUS
  <2>2. rows'[t].packet = p
    <3>1. rows'[t] = [rows[t] EXCEPT !.packet = p] /\ rows[t] \in Row
      BY <1>0, <1>6, <2>1, NoteEffect DEF AttachPacket, QueueTypeOK
    <3> QED BY <3>1 DEF Row
  <2>3. runs' = runs /\ opened' = opened /\ job' = job /\ pc'[w] = "persisted"
    BY <1>0, <1>6 DEF AttachPacket, Goto, WorkflowTypeOK
  <2>4. runs[t][n].status # "cancelled" /\ runs[t][n].role = job[w].role
    BY <1>0, <2>0, <2>1 DEF PacketInHand, WorkerInv, OwnRun
  <2>5. LatestKept(t, p, n + 1)
    <3>1. CASE job[w].role = "reviewer"
      <4>1. LatestReviewed(t) /\ p = rows[t].ctx.run
        BY <3>1 DEF PacketInv, Origin
      <4> QED BY <2>1, <3>1, <4>1 DEF LatestReviewed
    <3>2. CASE job[w].role # "reviewer"
      <4>1. p = n /\ job[w].role = "implementer"
        BY <1>0, <2>1, <3>2 DEF Origin, Job, Roles
      <4>2. IsKept(t, n)
        BY <2>4, <4>1 DEF IsKept
      <4> QED BY <4>1, <4>2, KeptNext
    <3> QED BY <3>1, <3>2
  <2>6. LatestKept(t, p, n + 1)'
    BY <2>3, <2>5 DEF LatestKept, IsKept
  <2>7. LatestKept(t, rows[t].packet, opened[t] + 1)'
    BY <2>2, <2>3, <2>6
  <2> QED BY <2>1, <2>3, <2>4, <2>7 DEF PacketInHand, Launching, HasResult
<1>7. ASSUME OpenRun(w) PROVE PacketInHand(w)'
  <2> PICK t : t = job[w].task
    OBVIOUS
  <2> PICK n \in Nat : n = opened[t]
    BY <1>7, OpenRunEffect DEF Opening
  <2>1. Opening(w, t, n) /\ pc[w] = "charged"
    BY <1>7, OpenRunEffect DEF OpenRun
  <2>2. /\ job'[w].task = t /\ job'[w].role = job[w].role /\ pc'[w] = "opened"
        /\ opened'[t] = n + 1 /\ rows' = rows
    BY <2>1 DEF Opening
  <2>3. job[w].role = "implementer" => LatestKept(t, rows[t].packet, n + 1)
    BY <1>0, <2>1 DEF PacketInHand
  <2>4. \A q : LatestKept(t, q, n + 1)' <=> LatestKept(t, q, n + 1)
    <3>1. n + 1 \in 1..(n + 1)
      OBVIOUS
    <3> QED BY <1>7, <3>1, KeptOpened
  <2>5. job[w].role = "implementer" => LatestKept(t, rows[t].packet, opened[t])'
    BY <2>2, <2>3, <2>4
  <2> QED BY <2>2, <2>5 DEF PacketInHand, Launching, HasResult
<1>8. ASSUME NEW s \in RunStatuses, NEW v \in {"none"} \cup Verdicts, SetRun(w, s, v),
             pc[w] \in Launching, opened' = opened, rows' = rows, SameHand(w),
             \/ pc'[w] = "agent"
             \/ pc'[w] = "ran" /\ s # "cancelled"
             \/ pc'[w] = "raised" /\ s = "cancelled"
      PROVE  PacketInHand(w)'
  <2> PICK t : t = job[w].task
    OBVIOUS
  <2> PICK n : n = opened[t]
    OBVIOUS
  <2>1. /\ n \in Nat \ {0} /\ n = job[w].run /\ runs'[t][n].status = s
        /\ \A q : \A r \in 1..n : LatestKept(t, q, r)' <=> LatestKept(t, q, r)
        /\ s = "cancelled" => \A q : LatestKept(t, q, n + 1)' <=> LatestKept(t, q, n)
    BY <1>8, KeptByRun
  <2>2. /\ job'[w].task = t /\ job'[w].role = job[w].role /\ job'[w].run = n
        /\ opened'[t] = n
    BY <1>8, <2>1 DEF SameHand
  <2>3. job[w].role = "implementer" => LatestKept(t, rows[t].packet, n)
    BY <1>0, <1>8 DEF PacketInHand
  <2>4. CASE pc'[w] = "agent"
    <3>1. job[w].role = "implementer" => LatestKept(t, rows[t].packet, opened[t])'
      BY <1>8, <2>1, <2>2, <2>3
    <3> QED BY <2>2, <2>4, <3>1 DEF PacketInHand, Launching, HasResult
  <2>5. CASE pc'[w] = "ran"
    BY <1>8, <2>1, <2>2, <2>5 DEF PacketInHand, Launching, HasResult
  <2>6. CASE pc'[w] = "raised"
    <3>1. job[w].role = "implementer" => LatestKept(t, rows[t].packet, opened[t] + 1)'
      BY <1>8, <2>1, <2>2, <2>3, <2>6
    <3> QED BY <2>2, <2>6, <3>1 DEF PacketInHand, Launching, HasResult
  <2> QED BY <1>8, <2>4, <2>5, <2>6
<1>9. ASSUME \/ Refuse(w) \/ Settle(w) \/ Done(w) \/ Requeue(w) \/ Halt(w)
             \/ GiveUp(w) \/ LoseTask(w)
      PROVE  PacketInHand(w)'
  <2>1. pc'[w] \in {"off", "idle", "released"}
    BY <1>0, <1>9 DEF Refuse, Settle, Done, Requeue, Halt, GiveUp, LoseTask, AfterFailure, Goto,
       WorkflowTypeOK
  <2> QED BY <1>1, <2>1
<1>10. ASSUME pc[w] \in Launching, ~GiveUp(w) PROVE PacketInHand(w)'
  <2>1. {"failed", "succeeded", "running", "cancelled"} \subseteq RunStatuses
    BY DEF RunStatuses, OpenStatuses
  <2>2. CASE RunsStay(w)
    BY <1>3, <1>10, <2>2 DEF RunsStay, SameHand
  <2>3. CASE RunLaunched(w)
    BY <1>8, <2>1, <2>3 DEF RunLaunched
  <2>4. CASE RunClosed(w)
    <3>1. PICK s \in {"failed", "succeeded", "cancelled"}, v \in {"none"} \cup Verdicts :
            /\ SetRun(w, s, v)
            /\ pc'[w] = IF s = "cancelled" THEN "raised" ELSE "ran"
            /\ rows' = rows /\ SameHand(w)
      BY <1>10, <2>4 DEF RunClosed
    <3>2. \/ pc'[w] = "ran" /\ s # "cancelled"
          \/ pc'[w] = "raised" /\ s = "cancelled"
      BY <3>1
    <3> QED BY <1>8, <1>10, <2>1, <2>4, <3>1, <3>2 DEF RunClosed
  <2>5. CASE OpenRun(w)
    BY <1>7, <2>5
  <2> QED BY <2>2, <2>3, <2>4, <2>5, RunsChange
<1>11. ASSUME \/ LaunchAgent(w) \/ PrepareFails(w) \/ Interrupt(w) \/ ImplementerDone(w)
              \/ VerifierDone(w) \/ ReviewerDone(w) \/ Abort(w)
       PROVE  pc[w] \in Launching
  BY <1>11 DEF LaunchAgent, PrepareFails, Interrupt, ImplementerDone, VerifierDone,
     ReviewerDone, Abort, Waiting, Launching
<1> QED BY <1>2, <1>4, <1>5, <1>6, <1>7, <1>9, <1>10, <1>11 DEF Move, Step, Answer, Disturb

\* PacketInv is kept by every step.
LEMMA PacketNext ==
  ASSUME {"cancel", "raise"} \cap Disturbances = {}
  PROVE  FlowInv /\ FlowInv' /\ PacketInv /\ [Next]_vars => PacketInv'
<1> SUFFICES ASSUME FlowInv, FlowInv', PacketInv, [Next]_vars PROVE PacketInv'
  OBVIOUS
<1>0. QueueTypeOK /\ WorkflowTypeOK
  BY Parts
<1> DEFINE Ready(t) == RetryReady(t) /\ LatestReviewed(t) /\ RunsWereReady(t)
<1>1. ASSUME NEW t \in Tasks, UNCHANGED <<rows, runs, opened>> PROVE Ready(t)'
  BY <1>1 DEF PacketInv, RetryReady, LatestReviewed, RunsWereReady, LatestKept, IsKept
<1>2. ASSUME NEW t \in Tasks, rows'[t] = rows[t], runs'[t] = runs[t], opened'[t] = opened[t]
      PROVE  Ready(t)'
  BY <1>2 DEF PacketInv, RetryReady, LatestReviewed, RunsWereReady, LatestKept, IsKept
<1>3. ASSUME NEW w \in Workers, Move(w) PROVE PacketInv'
  <2>1. ASSUME NEW t \in Tasks PROVE Ready(t)'
    <3>1. CASE t \in {held[w].task, held'[w].task}
      BY <1>3, <3>1, RetryKept, ReviewedKept
    <3>2. CASE t \notin {held[w].task, held'[w].task}
      BY <1>2, <1>3, <3>2, TaskFrame
    <3> QED BY <3>1, <3>2
  <2>2. ASSUME NEW v \in Workers PROVE PacketInHand(v)'
    <3>1. CASE v = w
      BY <1>3, <3>1, PacketOwnStep
    <3>2. CASE v # w
      <4>1. pc'[v] = pc[v] /\ job'[v] = job[v] /\ PacketInHand(v)
        BY <1>0, <1>3, <3>2, WorkerFrame DEF PacketInv
      <4>2. CASE pc[v] \notin Working
        BY <4>1, <4>2 DEF PacketInHand, Working, PCs, Launching, HasResult
      <4>3. CASE pc[v] \in Working
        <5> PICK t \in Tasks : t = job[v].task
          BY <4>3, AtWork
        <5>1. held[w].task # t /\ held'[w].task # t
          BY <1>0, <1>3, <3>2, <4>3, OtherStep DEF FlowInv
        <5>2. /\ rows'[t] = rows[t] /\ runs'[t] = runs[t] /\ opened'[t] = opened[t]
              /\ used'[t] = used[t] /\ spent'[t] = spent[t]
          BY <1>3, <5>1, TaskFrame
        <5>3. WantsHandoff(v)' <=> WantsHandoff(v)
          BY <4>1, <5>2 DEF WantsHandoff, Exhausted
        <5> QED BY ZenonT(60), <4>1, <5>2, <5>3 DEF PacketInHand, LatestKept, IsKept
      <4> QED BY <4>2, <4>3
    <3> QED BY <3>1, <3>2
  <2> QED BY <2>1, <2>2 DEF PacketInv
<1>4. ASSUME Start \/ Crash PROVE PacketInv'
  <2>1. UNCHANGED <<rows, runs, opened>> /\ \A v \in Workers : pc'[v] \in {"off", "idle"}
    BY <1>4 DEF Start, Crash, Forget
  <2>2. \A v \in Workers : PacketInHand(v)'
    BY <2>1 DEF PacketInHand, Launching, HasResult
  <2> QED BY <1>1, <2>1, <2>2 DEF PacketInv
<1>5. ASSUME Stop \/ TimePasses \/ UNCHANGED vars PROVE PacketInv'
  <2>1. UNCHANGED <<rows, runs, opened, used, spent, pc, job>>
    BY <1>5 DEF Stop, TimePasses, Tick, vars, queueVars, flowVars
  <2>2. ASSUME NEW v \in Workers PROVE PacketInHand(v)'
    <3>1. PacketInHand(v)
      BY <1>0 DEF PacketInv
    <3>2. WantsHandoff(v)' <=> WantsHandoff(v)
      BY <2>1 DEF WantsHandoff, Exhausted
    <3>3. LatestKept(job[v].task, rows[job[v].task].packet, opened[job[v].task] + 1)'
            <=> LatestKept(job[v].task, rows[job[v].task].packet, opened[job[v].task] + 1)
      BY <2>1 DEF LatestKept, IsKept
    <3>4. LatestKept(job[v].task, rows[job[v].task].packet, opened[job[v].task])'
            <=> LatestKept(job[v].task, rows[job[v].task].packet, opened[job[v].task])
      BY <2>1 DEF LatestKept, IsKept
    <3> QED BY <2>1, <3>1, <3>2, <3>3, <3>4 DEF PacketInHand
  <2> QED BY <1>1, <2>1, <2>2 DEF PacketInv
<1>6. ASSUME NEW u \in Tasks, Submit(u) PROVE PacketInv'
  <2>1. PICK excl : Enqueue(u, excl)
    BY <1>6 DEF Submit
  <2>2. UNCHANGED <<pc, runs, opened>> /\ \A v \in Workers : pc[v] = "off"
    BY <1>6, <2>1 DEF Submit, flowVars, AllOff
  <2>3. \A v \in Workers : PacketInHand(v)'
    BY <2>2 DEF PacketInHand, Launching, HasResult
  <2>4. ASSUME NEW t \in Tasks PROVE Ready(t)'
    <3>1. CASE t # u
      BY <1>0, <1>2, <2>1, <2>2, <3>1 DEF Enqueue, QueueTypeOK
    <3>2. CASE t = u
      <4>1. opened'[t] = 0
        BY <2>1, <2>2, <3>2, Parts DEF Enqueue, TaskInv, AbsentIsBlank
      <4>2. rows'[t].packet = NoRun /\ rows'[t].role = "implementer"
        BY <1>0, <2>1, <3>2 DEF Enqueue, AbsentRow, QueueTypeOK
      <4>3. LatestKept(t, NoRun, 0 + 1)'
        BY DEF LatestKept
      <4> QED BY <4>1, <4>2, <4>3 DEF RetryReady, LatestReviewed, RunsWereReady
    <3> QED BY <3>1, <3>2
  <2> QED BY <2>3, <2>4 DEF PacketInv
<1> QED BY <1>3, <1>4, <1>5, <1>6 DEF Next, Move

\* A retry is told of the attempt before it, through reviews, interrupts, crashes and
\* restarts, as long as what a handler writes after its charge can be written
\* (setHandoffPacketUri(), createRunContext()).
THEOREM RetriesCarryHandoff ==
  ASSUME {"cancel", "raise"} \cap Disturbances = {}
  PROVE  Spec => []RetryCarriesHandoff
<1>1. Init => PacketInv
  <2> SUFFICES ASSUME Init PROVE PacketInv
    OBVIOUS
  <2>1. \A t \in Tasks : rows[t].status = "absent" /\ opened[t] = 0
    BY DEF Init, QueueInit, AbsentRow
  <2>2. \A w \in Workers : pc[w] = "off"
    BY DEF Init
  <2> QED BY <2>1, <2>2 DEF PacketInv, RetryReady, LatestReviewed, RunsWereReady, PacketInHand,
          Launching, HasResult
<1>2. FlowInv /\ FlowInv' /\ PacketInv /\ [Next]_vars => PacketInv'
  BY PacketNext
<1>3. FlowInv /\ PacketInv => RetryCarriesHandoff
  <2> SUFFICES ASSUME FlowInv, PacketInv, NEW t \in Tasks, NEW r \in RunsOf(t, "implementer")
               PROVE  runs[t][r].packet =
                        Latest({q \in RunsOf(t, "implementer") :
                                  q < r /\ runs[t][q].status # "cancelled"})
    BY DEF RetryCarriesHandoff
  <2> DEFINE S == {q \in RunsOf(t, "implementer") :
                     q < r /\ runs[t][q].status # "cancelled"}
             q == runs[t][r].packet
  <2>1. opened[t] \in Nat /\ r \in 1..opened[t] /\ runs[t][r].role = "implementer"
    BY Parts DEF WorkflowTypeOK, RunsOf
  <2>2. LatestKept(t, q, r)
    BY <2>1 DEF PacketInv, RunsWereReady
  <2>3. S = {p \in 1..(r - 1) : IsKept(t, p)}
    BY <2>1 DEF IsKept, RunsOf
  <2>4. S \in SUBSET Nat
    BY <2>3
  <2>5. CASE q = NoRun /\ S = {}
    BY <2>5 DEF Latest
  <2>6. CASE q \in S /\ \A p \in S : p <= q
    BY <2>4, <2>6, LatestIs
  <2> HIDE DEF q, S
  <2>7. \/ q = NoRun /\ S = {}
        \/ q \in S /\ \A p \in S : p <= q
    BY <2>2, <2>3 DEF LatestKept
  <2> QED BY <2>5, <2>6, <2>7 DEF q, S
<1> QED BY <1>1, <1>2, <1>3, FlowInvariant, PTL DEF Spec
=============================================================================
