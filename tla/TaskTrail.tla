------------------------------ MODULE TaskTrail ------------------------------
(***************************************************************************)
(* What task_events (event-log.ts) tells of a task: the events that        *)
(* worker-task-handler.ts and orchestrator-v1.ts append while TaskWorkflow *)
(* takes its steps, each in its place between the other writes, any of     *)
(* which may be the last one before the process dies.                      *)
(*                                                                         *)
(* Events come after what they tell of, except task.dispatched and         *)
(* handoff.requested, which come before the writes they announce.  Those   *)
(* about artifacts, verification and edges are left out, and of several    *)
(* dispatches in a row, of which nothing came, the log here keeps one.     *)
(***************************************************************************)
EXTENDS TaskWorkflow, SequencesExt

CONSTANT Watched   \* the types of events that are followed in this instance

VARIABLE log   \* [Tasks -> Seq(Event)]

trailVars == <<vars, log>>

TaskEnds   == {"task.completed", "task.failed", "task.awaiting_human"}
EventTypes == TaskEnds \cup
  {"task.dispatched", "run.started", "run.completed", "run.failed",
   "review.completed", "handoff.requested", "task.requeued"}

\* says is the verdict of a review.
Event == [type : EventTypes, run : RunIds \cup {NoRun}, says : Verdicts \cup {"none"}]

Ev(type, r)    == [type |-> type, run |-> r, says |-> "none"]
ReviewEv(r, v) == [type |-> "review.completed", run |-> r, says |-> v]

ASSUME WatchedAssumption == Watched \subseteq EventTypes

\* An event that is appended, as far as it is followed.
Said(event)     == IF event.type \in Watched THEN <<event>> ELSE <<>>
Say(type, r)    == Said(Ev(type, r))
SayVerdict(r, v) == Said(ReviewEv(r, v))
-----------------------------------------------------------------------------
(* The events a handler appends before its next step. *)

\* decide() is told of, whatever it says.
Dispatched(t) ==
  IF log[t] # <<>> /\ Last(log[t]).type = "task.dispatched" THEN <<>>
  ELSE Say("task.dispatched", NoRun)

\* Of a review only the completion of its run is told.
RunEnds_NoVerdict(r, outcome) ==
  CASE outcome \in Verdicts \cup {"succeeded"} -> Say("run.completed", r)
    [] outcome = "internal_error"              -> <<>>
    [] OTHER                                   -> Say("run.failed", r)

\* What finishRun() and runReviewer() tell of a run that went through; of an
\* internal error it was told before, see below.
RunEnds(r, outcome) ==
  CASE outcome = "succeeded"      -> Say("run.completed", r)
    [] outcome \in Verdicts       -> Say("run.completed", r) \o SayVerdict(r, outcome)
    [] outcome = "internal_error" -> <<>>
    [] OTHER                      -> Say("run.failed", r)

\* What the row says after the release.
TaskEvent(status) ==
  CASE status = "accepted"       -> "task.completed"
    [] status = "failed"         -> "task.failed"
    [] status = "awaiting_human" -> "task.awaiting_human"
    [] OTHER                     -> "task.requeued"

\* The handler tells of the end before the release.
Told_BeforeRelease(w) ==
  LET t == job[w].task  r == job[w].run
  IN  CASE pc[w] = "claimed" -> {Dispatched(t)}
        [] pc[w] = "opened"  -> {Say("run.started", r)}
        [] pc[w] = "ran"     -> {RunEnds(r, job[w].outcome)}
        [] pc[w] = "accounted" /\ WantsHandoff(w) -> {Say("handoff.requested", r)}
        [] pc[w] = "persisted" \/ (pc[w] = "accounted" /\ ~WantsHandoff(w)) ->
             {Say(TaskEvent(NextStatus(w)), r)}
        [] OTHER -> {<<>>}

\* What w's handler tells before its next step, in one way or another.
Told(w) ==
  LET t == job[w].task  r == job[w].run
  IN  CASE pc[w] = "claimed" -> {Dispatched(t)}
        [] pc[w] = "opened"  -> {Say("run.started", r)}
        [] pc[w] = "ran"     -> {RunEnds(r, job[w].outcome)}
        [] pc[w] = "accounted" /\ WantsHandoff(w) -> {Say("handoff.requested", r)}
        [] pc[w] = "released" -> {Say(TaskEvent(rows[t].status), r)}
        [] OTHER -> {<<>>}

Tell(w, events) == log' = [log EXCEPT ![job[w].task] = @ \o events]
Tells(w)        == \E events \in Told(w) : Tell(w, events)

\* What there is in the log when it stops in the middle.
Cut(S) == UNION {Prefixes(s) : s \in S}
-----------------------------------------------------------------------------
(* The steps. *)

\* What was told of w's run before an error that is not its agent's: the run may
\* have been finished as a success, and a later event of it not written.
Detours(w) ==
  LET r == job[w].run
  IN  {<<>>} \cup
      IF pc[w] = "opened" THEN {Say("run.started", r)}
      ELSE IF job[w].role = "reviewer"
      THEN {RunEnds(r, o) : o \in Verdicts \cup {"succeeded"}}
      ELSE IF pc[w] = "verifying" \/ job[w].task \notin Verified
      THEN {RunEnds(r, "succeeded")} ELSE {}

\* The run has ended, or runTaskOnce() has caught an error and failed the run, or
\* what it could do of that.
RunAnswers(w) ==
  IF job'[w].outcome # "internal_error" THEN Tells(w)
  ELSE \/ \E d \in Detours(w) : Tell(w, d \o Say("run.failed", job[w].run))
       \/ pc[w] = "opened" /\ UNCHANGED log

\* runTaskOnce() rejects, as finishRun() failed again; or the packet is not read,
\* which is after decide().
TellsOfGivingUp(w) ==
  \/ pc[w] = "claimed" /\ Tells(w)
  \/ pc[w] # "claimed" /\ UNCHANGED log
  \/ runs' # runs /\ \E d \in Detours(w) : Tell(w, d)

TrailStep(w) ==
  \/ /\ \/ Refuse(w) \/ PreLaunch(w) \/ OpenRun(w) \/ LaunchAgent(w) \/ Interrupt(w)
        \/ Account(w) \/ SaveReviewContext(w) \/ ExcludeOrigin(w) \/ AttachPacket(w)
        \/ Settle(w) \/ Done(w) \/ Requeue(w)
     /\ Tells(w)
  \/ PrepareFails(w) /\ RunAnswers(w)
  \/ (ClaimTask(w) \/ Halt(w)) /\ UNCHANGED log

\* The event after the release cannot be written: handle() rejects, and the loop
\* puts the entry back in the queue.
LateRequeue(w) ==
  /\ "late" \in Disturbances
  /\ pc[w] = "released"
  /\ Reopen(w) /\ AfterFailure(w)

\* A handler that rejects has told all of its run, and maybe of what it was about
\* to do.
TrailDisturb(w) ==
  \/ /\ Raise(w)
     /\ IF pc[w] = "ran" THEN Tells(w)
        ELSE \E events \in Cut(Told(w)) : Tell(w, events)
  \/ GiveUp(w) /\ TellsOfGivingUp(w)
  \/ (LoseTask(w) \/ LateRequeue(w)) /\ UNCHANGED log

TrailAnswer(w) == Answer(w) /\ RunAnswers(w)

\* What a task may have been told of before the process dies.
LastWords(t) ==
  {<<>>} \cup UNION {Cut(Told(w)) : w \in {v \in Workers : job[v].task = t}}

\* The process dies with any of it told.
TrailCrash ==
  /\ Crash
  /\ \E told \in [Tasks -> UNION {LastWords(t) : t \in Tasks}] :
       /\ \A t \in Tasks : told[t] \in LastWords(t)
       /\ log' = [t \in Tasks |-> log[t] \o told[t]]

TrailOthers ==
  /\ \/ \E t \in Tasks : Submit(t)
     \/ Start \/ Stop \/ TimePasses
     \/ \E w \in Workers : Abort(w)
  /\ UNCHANGED log

\* There is no await between a release and its event: nobody else claims the row
\* before, nor before the loop has caught that the event could not be written.
Apart(w) == \A v \in Workers \ {w} : pc[v] = "released" => held'[w].task # job[v].task

TrailNext ==
  \/ TrailOthers \/ TrailCrash
  \/ \E w \in Workers : (TrailStep(w) \/ TrailAnswer(w) \/ TrailDisturb(w)) /\ Apart(w)

TrailInit == Init /\ log = [t \in Tasks |-> <<>>]

TrailSpec == TrailInit /\ [][TrailNext]_trailVars

\* As StopSpec, as far as it matters for a pool that is being stopped, and weaker:
\* of a worker's next statement and the timer of stop(), one goes on.
TrailStopSpec ==
  /\ TrailSpec
  /\ \A w \in Workers : WF_trailVars((TrailStep(w) /\ Apart(w)) \/ (Abort(w) /\ UNCHANGED log))
-----------------------------------------------------------------------------
(* Properties. *)

\* Whoever follows the log is never told of an end that is taken back: an event of
\* TaskEnds is the last one of its task, and the row has that status for good,
\* even though the row itself may lose a status it was not told of, see the run
\* wf_late (the order of release() and appendEvent(), releaseAfterHandlerFailure()).
AnnouncedIsFinal ==
  \A t \in Tasks : \A i \in DOMAIN log[t] :
    log[t][i].type \in TaskEnds =>
      i = Len(log[t]) /\ log[t][i].type = TaskEvent(rows[t].status)

\* A verdict counts for exactly one diff, and the log shows it: when a reviewed
\* task is completed there is an approval by the run that completed it, after the
\* completion of the run it reviewed, and no other implementation was completed
\* since (the events of runReviewer() and handleReviewerOutcome()).
AcceptanceOnRecord ==
  \A t \in Reviewed : \A i \in DOMAIN log[t] :
    log[t][i].type = "task.completed" =>
      LET r == log[t][i].run
          q == runs[t][r].parent
      IN  \E j, k \in 1..i :
            /\ j < k
            /\ log[t][j] = Ev("run.completed", q)
            /\ log[t][k] = ReviewEv(r, "approved")
            /\ \A m \in (j+1)..i :
                 log[t][m].type = "run.completed" => runs[t][log[t][m].run].role = "reviewer"
=============================================================================
