---------------------------- MODULE TaskWorkflow ----------------------------
(***************************************************************************)
(* What a pool of workers does with the queue: the loop of                 *)
(* src/src/queue/worker.ts, the handler of                                 *)
(* src/src/queue/worker-task-handler.ts, the run it performs in            *)
(* src/src/core/orchestrator-v1.ts, the budget and the agents' quota it    *)
(* reads and writes, SIGINT, and the death of the process.                 *)
(*                                                                         *)
(* The workers of a pool are coroutines of one process.  A handler gives   *)
(* way only while an agent or a verifier runs (pc "agent", "verifying");   *)
(* here it may also give way at every other pc, since the process may die  *)
(* between any two statements that write to the database.                  *)
(***************************************************************************)
EXTENDS TaskQueue

CONSTANTS MaxRuns,      \* budget.max_runs of every work order
          Reviewed,     \* tasks whose work order has review.enabled
          Verified,     \* tasks whose work order has verification commands
          Presets,      \* values of agent.exclude_agent_ids in work orders
          Capable, RolesOf, Pools, \* see Scheduler
          Disturbances  \* what may go wrong in this instance, see below

INSTANCE Scheduler

\* "stop"   SIGINT before every task is terminal
\* "crash"  the process dies
\* "early"  an event or a row cannot be written or read before the charge
\* "raise"  nor after it and before the release
\* "giveup" a packet or a diff cannot be read, or an event or a row of a run not be written
\* "late"   the event after the release cannot be written (TaskTrail)
\* "cancel" a run that is interrupted or not prepared cannot be closed either
\* "lost"   the release after a failed handler cannot be written
KnownDisturbances == {"stop", "crash", "early", "raise", "giveup", "late",
                      "cancel", "lost"}

ASSUME WorkflowAssumption ==
  /\ MaxRuns \in Nat \ {0}
  /\ RunIds = 1..MaxRuns
  /\ MaxAttempts = MaxRuns
  /\ Reviewed \subseteq Tasks
  /\ Verified \subseteq Tasks
  /\ Presets \subseteq SUBSET Agents
  /\ Disturbances \subseteq KnownDisturbances

VARIABLES used,     \* [Tasks -> Nat]: runs_used of task_budget
          spent,    \* [Tasks -> BOOLEAN]: wall time or cost is at its cap
          opened,   \* [Tasks -> Nat]: rows of the task in agent_runs
          runs,     \* [Tasks -> [RunIds -> Run]]: those rows, oldest first
          out,      \* agents whose quota_health is exhausted, shared by the pool
          pc,       \* [Workers -> PC]: how far each worker is
          job,      \* [Workers -> Job]: the locals of its handler
          aborted,  \* [Workers -> BOOLEAN]: its abort signal
          stopping  \* stop() of the pool was called

flowVars == <<used, spent, opened, runs, out, pc, job, aborted, stopping>>
vars == <<queueVars, flowVars>>
-----------------------------------------------------------------------------
OpenStatuses == {"preparing", "running"}
RunStatuses  == {"none", "succeeded", "failed", "cancelled"} \cup OpenStatuses

\* parent_run_id and handoff_packet_uri name the run they come from; verdict is
\* the review_verdict artifact of a reviewer's run.
Run == [status  : RunStatuses,
        role    : Roles,
        agent   : Agents \cup {NoAgent},
        parent  : RunIds \cup {NoRun},
        packet  : RunIds \cup {NoRun},
        verdict : {"none", "approved", "changes_requested", "rejected"}]

AbsentRun == [status |-> "none", role |-> "implementer", agent |-> NoAgent,
              parent |-> NoRun, packet |-> NoRun, verdict |-> "none"]

\* The outcomes of runTaskOnce(), one for each way the handler treats them (see
\* RunInWorkflow for what becomes of those of RunExecution):
\* "agent_nonzero_exit" also stands for agent_timed_out and
\* provider_rate_limited, "quota" for provider_quota_exhausted and
\* provider_auth_failed, "internal_error" for spawn_failed.
HandoffOutcomes == {"verification_failed", "agent_nonzero_exit", "quota"}
AgentFailures   == {"agent_nonzero_exit", "quota", "internal_error"}
Verdicts        == {"approved", "changes_requested", "rejected"}
Outcomes == {"none", "succeeded", "verification_failed", "diff_apply_failed",
             "reviewer_unusable"} \cup AgentFailures \cup Verdicts

PCs == {"off", "idle", "claimed", "charged", "opened", "agent", "verifying",
        "ran", "accounted", "excluded", "persisted", "released", "raised"}

Job   == [task    : Tasks \cup {NoTask},
          role    : Roles,
          agent   : Agents \cup {NoAgent},
          run     : RunIds \cup {NoRun},
          outcome : Outcomes]
NoJob == [task |-> NoTask, role |-> "implementer", agent |-> NoAgent,
          run |-> NoRun, outcome |-> "none"]

WorkflowTypeOK ==
  /\ QueueTypeOK
  /\ used \in [Tasks -> Nat]
  /\ spent \in [Tasks -> BOOLEAN]
  /\ opened \in [Tasks -> Nat]
  /\ runs \in [Tasks -> [RunIds -> Run]]
  /\ out \in SUBSET Agents
  /\ pc \in [Workers -> PCs]
  /\ job \in [Workers -> Job]
  /\ aborted \in [Workers -> BOOLEAN]
  /\ stopping \in BOOLEAN

AllOff == \A w \in Workers : pc[w] = "off"

Init ==
  /\ QueueInit
  /\ used = [t \in Tasks |-> 0]
  /\ spent = [t \in Tasks |-> FALSE]
  /\ opened = [t \in Tasks |-> 0]
  /\ runs = [t \in Tasks |-> [r \in RunIds |-> AbsentRun]]
  /\ out = {}
  /\ pc = [w \in Workers |-> "off"]
  /\ job = [w \in Workers |-> NoJob]
  /\ aborted = [w \in Workers |-> FALSE]
  /\ stopping = FALSE
-----------------------------------------------------------------------------
(* Reading the state from a handler. *)

\* Runs are not counted; or one more than max_runs is let through.
Exhausted_NoRuns(t)   == spent[t]
Exhausted_OffByOne(t) == used[t] > MaxRuns \/ spent[t]

\* The budget's status is "exhausted".
Exhausted(t) == used[t] >= MaxRuns \/ spent[t]

\* The exclusions decide() is given: the ones in this worker's own map.
Excludes(w) ==
  LET t == job[w].task
  IN  ExcludeSet(job[w].role, cache[w][t].excl, rows[t].ctx.agent)

RefusalFor(w) == Refusal(Exhausted(job[w].task), job[w].role, Excludes(w), out)

\* The packet is about the review instead of what was reviewed.
Origin_OwnRun(w) == [run |-> job[w].run, agent |-> job[w].agent]

\* The run whose attempt the next packet describes, and its agent: for a review
\* the implementation reviewed, else the run itself.
Origin(w) ==
  IF job[w].role = "reviewer" THEN rows[job[w].task].ctx
  ELSE [run |-> job[w].run, agent |-> job[w].agent]

Goto(w, label) == pc' = [pc EXCEPT ![w] = label]

\* cancelInterruptedRun() finds nothing to do.
SetRun_NotCancelled(w, status, verdict) ==
  runs' = IF status = "cancelled" THEN runs
          ELSE [runs EXCEPT ![job[w].task][job[w].run].status  = status,
                            ![job[w].task][job[w].run].verdict = verdict]

\* The run of w's handler gets another status; its outcome is now known.
SetRun(w, status, verdict) ==
  runs' = [runs EXCEPT ![job[w].task][job[w].run].status  = status,
                       ![job[w].task][job[w].run].verdict = verdict]

Finish(w, status, outcome) ==
  /\ SetRun(w, status, IF outcome \in Verdicts THEN outcome ELSE "none")
  /\ job' = [job EXCEPT ![w].outcome = outcome]
  /\ Goto(w, "ran")
-----------------------------------------------------------------------------
(* The command line: fill the queue, start the pool, stop it. *)

Submit(t) ==
  /\ AllOff
  /\ \E excl \in Presets : Enqueue(t, excl)
  /\ UNCHANGED flowVars

\* A new process: new wrappers, nobody's quota known to be exhausted.
Start ==
  /\ AllOff
  /\ \E t \in Tasks : rows[t].status # "absent"
  /\ Forget
  /\ pc' = [w \in Workers |-> "idle"]
  /\ out' = {}
  /\ aborted' = [w \in Workers |-> FALSE]
  /\ stopping' = FALSE
  /\ UNCHANGED <<used, spent, opened, runs, job>>

\* waitForAllTerminal() has returned, or SIGINT arrives.
Stop ==
  /\ ~AllOff /\ ~stopping
  /\ \/ \A t \in Tasks : rows[t].status \in Terminal \cup {"absent"}
     \/ "stop" \in Disturbances
  /\ stopping' = TRUE
  /\ UNCHANGED <<queueVars, used, spent, opened, runs, out, pc, job, aborted>>

\* The verifier is not given the signal.
Waiting_AgentOnly == {"agent"}

\* Where a handler waits, and its abort signal is listened to.
Waiting == {"agent", "verifying"}

\* The grace of stop() has passed and w's handler is still waiting.
Abort(w) ==
  /\ stopping /\ ~aborted[w]
  /\ pc[w] \in Waiting
  /\ aborted' = [aborted EXCEPT ![w] = TRUE]
  /\ UNCHANGED <<queueVars, used, spent, opened, runs, out, pc, job, stopping>>

Crash ==
  /\ "crash" \in Disturbances
  /\ ~AllOff
  /\ Forget
  /\ pc' = [w \in Workers |-> "off"]
  /\ job' = [w \in Workers |-> NoJob]
  /\ out' = {}
  /\ aborted' = [w \in Workers |-> FALSE]
  /\ stopping' = FALSE
  /\ UNCHANGED <<used, spent, opened, runs>>

TimePasses == Tick /\ UNCHANGED flowVars
-----------------------------------------------------------------------------
(* The loop of a worker. *)

MayClaim(w) == pc[w] = "idle" /\ ~stopping

ClaimTask(w) ==
  /\ MayClaim(w)
  /\ \E t \in Tasks :
       /\ Claim(w, t)
       /\ job' = [job EXCEPT ![w].task = t, ![w].role = rows[t].role]
  /\ Goto(w, "claimed")
  /\ UNCHANGED <<used, spent, opened, runs, out, aborted, stopping>>

Halt(w) ==
  /\ pc[w] = "idle" /\ stopping
  /\ Goto(w, "off")
  /\ UNCHANGED <<queueVars, used, spent, opened, runs, out, job, aborted, stopping>>

\* handle() has returned.
Done(w) ==
  /\ pc[w] = "released"
  /\ Goto(w, "idle")
  /\ job' = [job EXCEPT ![w] = NoJob]
  /\ UNCHANGED <<queueVars, used, spent, opened, runs, out, aborted, stopping>>

\* The row is put back as it was enqueued.
Reopen_FromScratch(w) ==
  LET t == job[w].task
  IN  /\ rows' = [rows EXCEPT ![t] = Released(rows[t], "queued", rows[t].role, 0)]
      /\ held' = [held EXCEPT ![w] = NoEntry]
      /\ UNCHANGED <<now, cache>>

\* releaseAfterHandlerFailure(): status, owner and lease, whatever they are now.
\* The role and the attempts of the row stay.
Reopen(w) ==
  LET t == job[w].task
  IN  /\ rows' = [rows EXCEPT ![t] =
                    Released(rows[t], "queued", rows[t].role, rows[t].attempts)]
      /\ held' = [held EXCEPT ![w] = NoEntry]
      /\ UNCHANGED <<now, cache>>

AfterFailure(w) ==
  /\ Goto(w, "idle")
  /\ job' = [job EXCEPT ![w] = NoJob]
  /\ UNCHANGED <<used, spent, opened, runs, out, aborted, stopping>>

Requeue(w) == pc[w] = "raised" /\ Reopen(w) /\ AfterFailure(w)

\* The release threw as well, and the loop swallowed it.
LoseTask(w) == "lost" \in Disturbances /\ pc[w] = "raised" /\ Abandon(w) /\ AfterFailure(w)
-----------------------------------------------------------------------------
(* The handler, up to the run. *)

\* handleSchedulerRefusal()
Refuse(w) ==
  /\ pc[w] = "claimed"
  /\ RefusalFor(w) # "none"
  /\ Release(w, IF RefusalFor(w) = "all_candidates_excluded"
                THEN "awaiting_human" ELSE "failed",
             job[w].role, held[w].attempts)
  /\ Goto(w, "released")
  /\ UNCHANGED <<used, spent, opened, runs, out, job, aborted, stopping>>

\* decide() picks an agent, and preLaunch() charges the run before it starts.
PreLaunch(w) ==
  /\ pc[w] = "claimed"
  /\ RefusalFor(w) = "none"
  /\ \E a \in EligibleAgents(job[w].role, Excludes(w), out) :
       job' = [job EXCEPT ![w].agent = a]
  /\ used' = [used EXCEPT ![job[w].task] = @ + 1]
  /\ Goto(w, "charged")
  /\ UNCHANGED <<queueVars, spent, opened, runs, out, aborted, stopping>>

\* createRunContext() adds a row to agent_runs.
OpenRun(w) ==
  /\ pc[w] = "charged"
  /\ LET t   == job[w].task
         r   == opened[t] + 1
         run == [AbsentRun EXCEPT
                   !.status = "preparing", !.role = job[w].role,
                   !.agent  = job[w].agent,
                   !.parent = IF job[w].role = "reviewer" THEN rows[t].ctx.run ELSE NoRun,
                   !.packet = IF job[w].role = "implementer" THEN rows[t].packet ELSE NoRun]
     IN  /\ opened' = [opened EXCEPT ![t] = r]
         /\ runs' = [runs EXCEPT ![t][r] = run]
         /\ job' = [job EXCEPT ![w].run = r]
  /\ Goto(w, "opened")
  /\ UNCHANGED <<queueVars, used, spent, out, aborted, stopping>>

\* The workspace is ready (and, for a review, the diff applied): the agent runs.
LaunchAgent(w) ==
  /\ pc[w] = "opened"
  /\ SetRun(w, "running", "none")
  /\ Goto(w, "agent")
  /\ UNCHANGED <<queueVars, used, spent, opened, out, job, aborted, stopping>>

\* There is no workspace, or something of it cannot be written, and the run may not
\* even be marked as failed; or the diff under review does not apply to it.
PrepareFails(w) ==
  /\ pc[w] = "opened"
  /\ \/ Finish(w, "failed", "internal_error")
     \/ job[w].role = "reviewer" /\ Finish(w, "failed", "diff_apply_failed")
     \/ /\ "cancel" \in Disturbances
        /\ \E status \in OpenStatuses : SetRun(w, status, "none")
        /\ job' = [job EXCEPT ![w].outcome = "internal_error"]
        /\ Goto(w, "ran")
  /\ UNCHANGED <<queueVars, used, spent, opened, out, aborted, stopping>>
-----------------------------------------------------------------------------
(* The run. *)

\* The ways an agent fails.  Once its signal is aborted the adapter only answers
\* when the agent had timed out before or could not be started.
Failures(w) ==
  IF aborted[w] THEN {"agent_nonzero_exit", "internal_error"} ELSE AgentFailures

\* runImplementer() after the agent: it failed, or there is nothing to verify, or
\* the verifier starts.
ImplementerDone(w) ==
  /\ pc[w] = "agent" /\ job[w].role = "implementer"
  /\ \/ \E outcome \in Failures(w) : Finish(w, "failed", outcome)
     \/ /\ ~aborted[w] /\ job[w].task \notin Verified
        /\ Finish(w, "succeeded", "succeeded")
     \/ /\ ~aborted[w] /\ job[w].task \in Verified
        /\ Goto(w, "verifying")
        /\ UNCHANGED <<runs, job>>
  /\ UNCHANGED <<queueVars, used, spent, opened, out, aborted, stopping>>

VerifierDone(w) ==
  /\ pc[w] = "verifying" /\ ~aborted[w]
  /\ \/ Finish(w, "succeeded", "succeeded")
     \/ \E outcome \in {"verification_failed", "internal_error"} :
          Finish(w, "failed", outcome)
  /\ UNCHANGED <<queueVars, used, spent, opened, out, aborted, stopping>>

\* runReviewer() after the agent: it failed, or left no verdict, or a verdict.
ReviewerDone(w) ==
  /\ pc[w] = "agent" /\ job[w].role = "reviewer"
  /\ \/ \E outcome \in Failures(w) : Finish(w, "failed", outcome)
     \/ /\ ~aborted[w]
        /\ \/ Finish(w, "failed", "reviewer_unusable")
           \/ \E verdict \in Verdicts : Finish(w, "succeeded", verdict)
  /\ UNCHANGED <<queueVars, used, spent, opened, out, aborted, stopping>>

\* The adapter or the verifier rejects with OperationAbortedError, and
\* cancelInterruptedRun() closes the run, or cannot; or finishRun() threw, after it
\* had written that the run failed, and the abort makes the handler pass that on.
Interrupt(w) ==
  /\ pc[w] \in {"agent", "verifying"} /\ aborted[w]
  /\ \/ SetRun(w, "cancelled", "none")
     \/ "cancel" \in Disturbances /\ (UNCHANGED runs \/ SetRun(w, "failed", "none"))
  /\ Goto(w, "raised")
  /\ UNCHANGED <<queueVars, used, spent, opened, out, job, aborted, stopping>>
-----------------------------------------------------------------------------
(* The handler, after the run. *)

\* The packet the run was given is used up; postRun() adds to wall time and cost;
\* recordOutcome() takes an agent whose quota is exhausted out for the pool.
Account(w) ==
  /\ pc[w] = "ran"
  /\ IF job[w].role = "implementer" /\ rows[job[w].task].packet # NoRun
     THEN SetPacket(w, NoRun)
     ELSE UNCHANGED queueVars
  /\ \E atCap \in BOOLEAN : spent' = [spent EXCEPT ![job[w].task] = @ \/ atCap]
  /\ out' = IF job[w].outcome = "quota" THEN out \cup {job[w].agent} ELSE out
  /\ Goto(w, "accounted")
  /\ UNCHANGED <<used, opened, runs, job, aborted, stopping>>

\* What the handler does next depends on the outcome, the budget and the review.
WantsReview(w) ==
  /\ job[w].outcome = "succeeded"
  /\ job[w].task \in Reviewed
  /\ ~Exhausted(job[w].task)

\* An implementer that failed leaves a packet even when the budget is exhausted,
\* a review that asks for changes does not.
WantsHandoff(w) ==
  \/ job[w].role = "implementer" /\ job[w].outcome \in HandoffOutcomes
  \/ /\ job[w].outcome \in {"changes_requested", "diff_apply_failed"}
     /\ ~Exhausted(job[w].task)

\* handleImplementerSuccess()
SaveReviewContext(w) ==
  /\ pc[w] = "accounted" /\ WantsReview(w)
  /\ SetReviewContext(w, [run |-> job[w].run, agent |-> job[w].agent])
  /\ Goto(w, "persisted")
  /\ UNCHANGED <<used, spent, opened, runs, out, job, aborted, stopping>>

\* build(): a packet excludes whom the handler's own work order does, and the agent
\* it is about.
PacketExcludes(w) == cache[w][job[w].task].excl \cup {Origin(w).agent}

\* handleImplementerFailure() and requeueImplementerAfterReview()
ExcludeOrigin(w) ==
  /\ pc[w] = "accounted" /\ WantsHandoff(w)
  /\ AddExcludes(w, PacketExcludes(w))
  /\ Goto(w, "excluded")
  /\ UNCHANGED <<used, spent, opened, runs, out, job, aborted, stopping>>

AttachPacket(w) ==
  /\ pc[w] = "excluded"
  /\ SetPacket(w, Origin(w).run)
  /\ Goto(w, "persisted")
  /\ UNCHANGED <<used, spent, opened, runs, out, job, aborted, stopping>>

\* An implementation that exhausts the budget is accepted as it is.
NextStatus_NoReviewLeft(w) ==
  CASE job[w].outcome = "succeeded" /\ ~WantsReview(w) -> "accepted"
    [] job[w].outcome = "approved"                     -> "accepted"
    [] job[w].outcome = "rejected"                     -> "awaiting_human"
    [] ~Exhausted(job[w].task) /\ (WantsReview(w) \/ WantsHandoff(w)) -> "queued"
    [] OTHER                                           -> "failed"

\* The status and the role the handler releases the entry with.
NextStatus(w) ==
  CASE job[w].outcome = "succeeded" /\ job[w].task \notin Reviewed -> "accepted"
    [] job[w].outcome = "approved"                                 -> "accepted"
    [] job[w].outcome = "rejected"                                 -> "awaiting_human"
    [] ~Exhausted(job[w].task) /\ (WantsReview(w) \/ WantsHandoff(w)) -> "queued"
    [] OTHER                                                       -> "failed"

NextRole(w) ==
  CASE NextStatus(w) # "queued" -> job[w].role
    [] WantsReview(w)           -> "reviewer"
    [] OTHER                    -> "implementer"

\* The release at the end of a handler that has accounted for a run.
Settle(w) ==
  /\ \/ pc[w] = "persisted"
     \/ pc[w] = "accounted" /\ ~WantsReview(w) /\ ~WantsHandoff(w)
  /\ Release(w, NextStatus(w), NextRole(w), held[w].attempts + 1)
  /\ Goto(w, "released")
  /\ UNCHANGED <<used, spent, opened, runs, out, job, aborted, stopping>>

\* Something the handler needs to write cannot be written, and it rejects.
Raise(w) ==
  /\ \/ "early" \in Disturbances /\ pc[w] = "claimed"
     \/ /\ "raise" \in Disturbances
        /\ pc[w] \in {"charged", "ran", "accounted", "excluded", "persisted"}
  /\ Goto(w, "raised")
  /\ UNCHANGED <<queueVars, used, spent, opened, runs, out, job, aborted, stopping>>

\* The handler itself gives up: the packet or the diff cannot be read, or
\* runTaskOnce() rejects, since finishRun() could not write the run's status or,
\* with the status written, its event.
GiveUp(w) ==
  /\ "giveup" \in Disturbances
  /\ ~aborted[w]
  /\ \/ /\ pc[w] \in {"charged", "opened"} \cup Waiting
        /\ UNCHANGED runs
     \/ /\ pc[w] \in Waiting
        /\ \E status \in {"failed", "succeeded"} : SetRun(w, status, "none")
     \/ /\ pc[w] = "claimed" /\ RefusalFor(w) = "none"
        /\ job[w].role = "implementer" /\ rows[job[w].task].packet # NoRun
        /\ UNCHANGED runs
  /\ Release(w, "failed", job[w].role, held[w].attempts)
  /\ Goto(w, "released")
  /\ UNCHANGED <<used, spent, opened, out, job, aborted, stopping>>
-----------------------------------------------------------------------------
\* What a worker does by itself: statements of its handler and of its loop.
Step(w) ==
  \/ ClaimTask(w) \/ Refuse(w) \/ PreLaunch(w) \/ OpenRun(w) \/ LaunchAgent(w)
  \/ PrepareFails(w) \/ Interrupt(w) \/ Account(w) \/ SaveReviewContext(w)
  \/ ExcludeOrigin(w) \/ AttachPacket(w) \/ Settle(w) \/ Done(w) \/ Requeue(w)
  \/ Halt(w)

\* What it waits for: an agent or a verifier.
Answer(w) == ImplementerDone(w) \/ VerifierDone(w) \/ ReviewerDone(w)

Disturb(w) == Raise(w) \/ GiveUp(w) \/ LoseTask(w)

Next ==
  \/ \E t \in Tasks : Submit(t)
  \/ Start \/ Stop \/ Crash \/ TimePasses
  \/ \E w \in Workers : Step(w) \/ Answer(w) \/ Abort(w) \/ Disturb(w)

Spec == Init /\ [][Next]_vars

\* The event loop runs what is runnable, and the timer of stop() goes off.  The
\* command starts its pool, and stops it when every task is terminal.
StopSpec == Spec /\ WF_vars(Start) /\ WF_vars(Stop)
                 /\ \A w \in Workers : WF_vars(Step(w)) /\ WF_vars(Abort(w))

\* Agents and verifiers answer as well: both have a timeout.
FairSpec == StopSpec /\ \A w \in Workers : WF_vars(Answer(w))
-----------------------------------------------------------------------------
(* Properties. *)

RunsOf(t, role) == {r \in 1..opened[t] : runs[t][r].role = role}

\* The latest of a set of runs; NoRun when there is none.
Latest(S) == IF S = {} THEN NoRun ELSE CHOOSE r \in S : \A q \in S : q <= r

\* However runs end, and whoever takes the task next, a task never has two runs
\* under way (createRunContext(), cancelInterruptedRun(), finishRun()).
OneOpenRun ==
  \A t \in Tasks : \A q, r \in 1..opened[t] :
    {runs[t][q].status, runs[t][r].status} \subseteq OpenStatuses => q = r

\* The budget caps what is started, not only what is reported: no attempt
\* without a run, no run without a charge, no charge beyond max_runs
\* (preLaunch(), the refusal of decide(), every release).
RunsWithinBudget ==
  \A t \in Tasks : /\ rows[t].attempts <= opened[t]
                   /\ opened[t] <= used[t]
                   /\ used[t] <= MaxRuns

\* A review looks at the most recent implementation that succeeded, never at an
\* older one left in the row, and is done by another agent
\* (setReviewContext(), decide()).
ReviewsLatestDiff ==
  \A t \in Tasks : \A r \in RunsOf(t, "reviewer") :
    LET done == {q \in RunsOf(t, "implementer") :
                    q < r /\ runs[t][q].status = "succeeded"}
    IN  /\ done # {}
        /\ runs[t][r].parent = Latest(done)
        /\ runs[t][r].agent # runs[t][Latest(done)].agent

\* A task is accepted on the word of its last run: the approval of a review, or
\* an implementation that succeeded when no review was asked for
\* (handleReviewerOutcome(), handleImplementerSuccess()).
AcceptedOnLastRun ==
  \A t \in Tasks : rows[t].status = "accepted" =>
    /\ opened[t] > 0
    /\ LET last == runs[t][opened[t]]
       IN  /\ last.status = "succeeded"
           /\ IF t \in Reviewed THEN last.verdict = "approved"
              ELSE last.role = "implementer"

\* A retry is told of the attempt before it: an implementer run is given the
\* packet of the latest implementer run that was not interrupted, through
\* reviews, interrupts and restarts (setHandoffPacketUri()).
RetryCarriesHandoff ==
  \A t \in Tasks : \A r \in RunsOf(t, "implementer") :
    runs[t][r].packet =
      Latest({q \in RunsOf(t, "implementer") : q < r /\ runs[t][q].status # "cancelled"})

\* An agent that is excluded for a task is never picked for it again
\* (exclude_agent_ids is monotonic; decide(), addWorkOrderExcludeAgentIds()).
ExcludedNeverReconsidered ==
  \A w \in Workers :
    pc[w] = "charged" => job[w].agent \notin rows[job[w].task].excl

\* When the pool has stopped, nothing is left half done: no task is held and no
\* run is open, so that the next invocation finds every task (stop(), the
\* requeue of the loop, cancelInterruptedRun()).
CleanShutdown ==
  AllOff => \A t \in Tasks :
    /\ rows[t].status # "dispatched"
    /\ \A r \in 1..opened[t] : runs[t][r].status \notin OpenStatuses

\* Every task that is submitted is accepted, fails or is handed to a human.
EveryTaskSettles ==
  \A t \in Tasks : rows[t].status # "absent" ~> rows[t].status \in Terminal

\* Once stop() is called every worker comes to rest.
StopCompletes == stopping ~> AllOff

\* The contract of a task, and how the workflow's state shows it.
Stage(t) == IF rows[t].status = "absent" THEN "new"
            ELSE IF rows[t].status \in Terminal THEN rows[t].status
            ELSE IF rows[t].role = "implementer" THEN "todo" ELSE "coded"
Author(t) == IF rows[t].role = "reviewer" THEN rows[t].ctx.agent ELSE NoAgent
Signer(t) == IF rows[t].status = "accepted" /\ t \in Reviewed
             THEN runs[t][opened[t]].agent ELSE NoAgent

Contract == INSTANCE TaskContract WITH
              MaxTries <- MaxRuns,
              stage  <- [t \in Tasks |-> Stage(t)],
              author <- [t \in Tasks |-> Author(t)],
              signer <- [t \in Tasks |-> Signer(t)],
              tries  <- [t \in Tasks |-> rows[t].attempts]

\* Whatever the workers do, each task goes through the steps of the contract: as long
\* as what they release can be told of, see LateRequeue of TaskTrail.
KeepsContract == Contract!Spec
=============================================================================
