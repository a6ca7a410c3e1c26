--------------------------- MODULE TaskTrailProofs ---------------------------
(***************************************************************************)
(* Proofs about TaskTrail, for any tasks, workers and disturbances: what   *)
(* the log tells of a task, and that what TaskWorkflowProofs shows of its  *)
(* runs and its budget is true although released tasks may come back, and  *)
(* that this is all that comes between the workers and the discipline of   *)
(* the queue and the contract of a task.                                   *)
(*                                                                         *)
(* The log says nothing of where a handler is.  EndsInv ties it to the     *)
(* rows: an end that was told is the last word about a row that nobody     *)
(* has in hand or has just released.  ApprovalInv follows the completion   *)
(* of an implementation and the approval of its review from the log to the *)
(* row and through the handler of the review to the end of its task.       *)
(***************************************************************************)
EXTENDS TaskTrail, TaskWorkflowProofs

\* Who has released a task has it still in mind, and nobody else has it in hand or in
\* mind like that.
JustReleased(w) ==
  pc[w] = "released" =>
    /\ job[w].task \in Tasks
    /\ rows[job[w].task].status \in {"accepted", "failed", "awaiting_human", "queued"}
    /\ \A v \in Workers : pc[v] = "released" /\ job[v].task = job[w].task => v = w

\* The log of t with an end is over, and so is its row.
EndsLast(t) ==
  \A i \in DOMAIN log[t] : log[t][i].type \in TaskEnds =>
    /\ i = Len(log[t])
    /\ log[t][i].type = TaskEvent(rows[t].status)
    /\ \A w \in Workers : pc[w] = "released" => job[w].task # t

EndsInv ==
  /\ FlowInv
  /\ log \in [Tasks -> Seq(Event)]
  /\ \A w \in Workers : JustReleased(w)
  /\ \A t \in Tasks : EndsLast(t)
-----------------------------------------------------------------------------
(* Approvals. *)

\* The completion of t's run q is told at j, and no other implementation's since.
CodedAt(t, q, j) ==
  /\ j \in DOMAIN log[t]
  /\ log[t][j] = Ev("run.completed", q)
  /\ \A m \in (j+1)..Len(log[t]) :
       log[t][m].type = "run.completed" => runs[t][log[t][m].run].role = "reviewer"

Coded(t, q) == \E j \in DOMAIN log[t] : CodedAt(t, q, j)

\* After it, the approval by the run r that reviewed it.
Approved(t, r) ==
  \E j, k \in DOMAIN log[t] :
    j < k /\ CodedAt(t, runs[t][r].parent, j) /\ log[t][k] = ReviewEv(r, "approved")

\* The log names runs that were opened.
TellsOfRuns(t) ==
  \A m \in DOMAIN log[t] : log[t][m].type = "run.completed" => log[t][m].run \in 1..opened[t]

\* The row of a task to review names the implementation that was completed last.
ReviewOnRecord(t) == rows[t].role = "reviewer" => Coded(t, rows[t].ctx.run)

\* AcceptanceOnRecord, of one task.
EndOnRecord(t) ==
  \A i \in DOMAIN log[t] : log[t][i].type = "task.completed" =>
    /\ log[t][i].run \in 1..opened[t]
    /\ i = Len(log[t]) /\ Approved(t, log[t][i].run)

\* What a handler has told by then.
HasTold(w) ==
  LET t == job[w].task  r == job[w].run IN
  /\ pc[w] \in {"accounted", "persisted"} /\ job[w].outcome = "succeeded" => Coded(t, r)
  /\ pc[w] \in {"accounted", "excluded", "persisted"} /\ job[w].outcome = "approved" =>
       Approved(t, r)
  /\ pc[w] = "released" /\ t \in Reviewed /\ rows[t].status = "accepted" =>
       r \in 1..opened[t] /\ Approved(t, r)

ApprovalInv ==
  /\ \A t \in Tasks : TellsOfRuns(t) /\ ReviewOnRecord(t) /\ (t \in Reviewed => EndOnRecord(t))
  /\ \A w \in Workers : HasTold(w)
-----------------------------------------------------------------------------
(* What is appended. *)

\* Where a handler tells that its run is completed.
Completing == Launching \cup {"ran"}

\* Words about a task that is not over, and of its run at most.
Harmless(s, w) ==
  /\ s \in Seq(Event)
  /\ \A i \in DOMAIN s :
       /\ s[i].type \notin TaskEnds
       /\ s[i].type = "run.completed" => pc[w] \in Completing /\ s[i].run = job[w].run

\* An event is appended as it is, or not at all.
LEMMA SaidIs ==
  ASSUME NEW e \in Event
  PROVE  /\ Said(e) \in Seq(Event)
         /\ \A i \in DOMAIN Said(e) : Said(e)[i] = e
         /\ Said(e) = <<>> \/ Said(e) = <<e>>
         /\ e.type \in Watched => Said(e) = <<e>>
BY DEF Said

\* What is appended to a log is found behind it.
LEMMA Behind ==
  ASSUME NEW s \in Seq(Event), NEW u \in Seq(Event)
  PROVE  /\ s \o u \in Seq(Event) /\ Len(s \o u) = Len(s) + Len(u)
         /\ Len(s) \in Nat /\ Len(u) \in Nat
         /\ DOMAIN s = 1..Len(s) /\ DOMAIN u = 1..Len(u)
         /\ DOMAIN (s \o u) = 1..(Len(s) + Len(u))
         /\ \A i \in 1..Len(s) : i \in 1..(Len(s) + Len(u)) /\ (s \o u)[i] = s[i]
         /\ \A i \in 1..Len(u) : (s \o u)[Len(s) + i] = u[i]
         /\ \A i \in 1..(Len(s) + Len(u)) :
              i \in 1..Len(s) \/ \E m \in 1..Len(u) : i = Len(s) + m
<1>1. /\ s \o u \in Seq(Event) /\ Len(s \o u) = Len(s) + Len(u)
      /\ Len(s) \in Nat /\ Len(u) \in Nat
      /\ DOMAIN s = 1..Len(s) /\ DOMAIN u = 1..Len(u)
      /\ DOMAIN (s \o u) = 1..Len(s \o u)
  OBVIOUS
<1>2. \A i \in 1..Len(s) : i \in 1..(Len(s) + Len(u)) /\ (s \o u)[i] = s[i]
  BY <1>1
<1>3. \A i \in 1..Len(u) : (s \o u)[Len(s) + i] = u[i]
  BY <1>1
<1>4. ASSUME NEW i \in 1..(Len(s) + Len(u)), i \notin 1..Len(s)
      PROVE  \E m \in 1..Len(u) : i = Len(s) + m
  <2>1. i - Len(s) \in 1..Len(u) /\ i = Len(s) + (i - Len(s))
    BY <1>1, <1>4
  <2> QED BY <2>1
<1> QED BY <1>1, <1>2, <1>3, <1>4

\* Nothing, one event of the run or about its start, one after the other, and the
\* beginning of it all are harmless.
LEMMA SilenceIsHarmless == ASSUME NEW w PROVE Harmless(<<>>, w)
BY DEF Harmless

LEMMA SayIsHarmless ==
  ASSUME NEW w, NEW e \in Event, e.type \notin TaskEnds,
         e.type = "run.completed" => pc[w] \in Completing /\ e.run = job[w].run
  PROVE  Harmless(Said(e), w)
BY SaidIs DEF Harmless

LEMMA JoinedIsHarmless ==
  ASSUME NEW w, NEW s, NEW u, Harmless(s, w), Harmless(u, w)
  PROVE  Harmless(s \o u, w)
<1>1. s \in Seq(Event) /\ u \in Seq(Event)
  BY DEF Harmless
<1>2. ASSUME NEW i \in DOMAIN (s \o u)
      PROVE  /\ (s \o u)[i].type \notin TaskEnds
             /\ (s \o u)[i].type = "run.completed" =>
                  pc[w] \in Completing /\ (s \o u)[i].run = job[w].run
  <2>1. \/ i \in DOMAIN s /\ (s \o u)[i] = s[i]
        \/ \E m \in DOMAIN u : (s \o u)[i] = u[m]
    BY <1>1, Behind
  <2> QED BY <2>1 DEF Harmless
<1> QED BY <1>1, <1>2, Behind DEF Harmless

LEMMA PartIsHarmless ==
  ASSUME NEW w, NEW s, Harmless(s, w), NEW part \in Prefixes(s)
  PROVE  Harmless(part, w)
<1>1. PICK l \in 0..Len(s) : part = SubSeq(s, 1, l)
  BY DEF Prefixes
<1>2. s \in Seq(Event)
  BY DEF Harmless
<1>3. part \in Seq(Event) /\ \A i \in DOMAIN part : i \in DOMAIN s /\ part[i] = s[i]
  BY <1>1, <1>2
<1> QED BY <1>3 DEF Harmless

\* What a handler has in mind are events' runs.
LEMMA EventsAre ==
  ASSUME NEW r \in RunIds \cup {NoRun}
  PROVE  /\ \A type \in EventTypes : /\ Ev(type, r) \in Event
                                     /\ Ev(type, r).type = type /\ Ev(type, r).run = r
         /\ \A v \in Verdicts : /\ ReviewEv(r, v) \in Event
                                /\ ReviewEv(r, v).type = "review.completed"
         /\ {"task.dispatched", "run.started", "run.completed", "run.failed",
             "review.completed", "handoff.requested", "task.requeued"} \cap TaskEnds = {}
BY DEF Ev, ReviewEv, Event, EventTypes, TaskEnds, Verdicts

\* An event that tells of no end and no completion is harmless.
LEMMA OtherIsHarmless ==
  ASSUME NEW w, NEW r \in RunIds \cup {NoRun},
         NEW type \in {"task.dispatched", "run.started", "run.failed", "handoff.requested"}
  PROVE  Harmless(Say(type, r), w)
<1>1. /\ Ev(type, r) \in Event /\ Ev(type, r).type = type
      /\ type \notin TaskEnds
  BY EventsAre DEF EventTypes
<1> QED BY <1>1, SayIsHarmless DEF Say

\* So is what is told of the end of the handler's own run.
LEMMA RunEndsIsHarmless ==
  ASSUME NEW w, pc[w] \in Completing, job[w].run \in RunIds, NEW o
  PROVE  Harmless(RunEnds(job[w].run, o), w)
<1> PICK r \in RunIds : r = job[w].run
  OBVIOUS
<1>1. Harmless(Say("run.completed", r), w)
  <2>1. /\ Ev("run.completed", r) \in Event /\ Ev("run.completed", r).type = "run.completed"
        /\ Ev("run.completed", r).run = r /\ "run.completed" \notin TaskEnds
    BY EventsAre DEF EventTypes
  <2> QED BY <2>1, SayIsHarmless DEF Say
<1>2. Harmless(Say("run.failed", r), w) /\ Harmless(<<>>, w)
  BY OtherIsHarmless, SilenceIsHarmless
<1>3. ASSUME o \in Verdicts PROVE Harmless(SayVerdict(r, o), w)
  <2>1. ReviewEv(r, o) \in Event /\ ReviewEv(r, o).type = "review.completed"
        /\ "review.completed" \notin TaskEnds
    BY <1>3, EventsAre
  <2> QED BY <2>1, SayIsHarmless DEF SayVerdict
<1>4. "succeeded" \notin Verdicts /\ "internal_error" \notin Verdicts
  BY DEF Verdicts
<1>5. CASE o = "succeeded"
  BY <1>1, <1>4, <1>5 DEF RunEnds
<1>6. CASE o \in Verdicts
  BY <1>1, <1>3, <1>4, <1>6, JoinedIsHarmless DEF RunEnds
<1>7. CASE o = "internal_error"
  BY <1>2, <1>4, <1>7 DEF RunEnds
<1>8. CASE o \notin Verdicts \cup {"succeeded", "internal_error"}
  BY <1>2, <1>8 DEF RunEnds
<1> QED BY <1>5, <1>6, <1>7, <1>8
-----------------------------------------------------------------------------
(* What a step tells. *)

\* Until its release a handler tells nothing but of its run.
LEMMA ToldIsHarmless ==
  ASSUME FlowInv, NEW w \in Workers, pc[w] # "released", NEW s \in Told(w)
  PROVE  Harmless(s, w)
<1>0. job[w] \in Job /\ job[w].run \in RunIds \cup {NoRun} /\ pc[w] \in PCs
  BY Parts DEF WorkflowTypeOK, Job
<1>1. CASE pc[w] = "claimed"
  <2>1. s = Dispatched(job[w].task)
    BY <1>1 DEF Told
  <2>2. s = <<>> \/ s = Say("task.dispatched", NoRun)
    BY <2>1 DEF Dispatched
  <2> QED BY <2>2, OtherIsHarmless, SilenceIsHarmless
<1>2. CASE pc[w] = "opened"
  <2>1. s = Say("run.started", job[w].run)
    BY <1>2 DEF Told
  <2> QED BY <1>0, <2>1, OtherIsHarmless
<1>3. CASE pc[w] = "ran"
  <2>1. s = RunEnds(job[w].run, job[w].outcome)
    BY <1>3 DEF Told
  <2>2. pc[w] \in Completing /\ job[w].run \in RunIds
    BY <1>3, RunNumber DEF HasRun, HasResult, Completing
  <2> QED BY <2>1, <2>2, RunEndsIsHarmless
<1>4. CASE pc[w] = "accounted" /\ WantsHandoff(w)
  <2>1. s = Say("handoff.requested", job[w].run)
    BY <1>4 DEF Told
  <2> QED BY <1>0, <2>1, OtherIsHarmless
<1>5. CASE /\ pc[w] \notin {"claimed", "opened", "ran"}
           /\ ~(pc[w] = "accounted" /\ WantsHandoff(w))
  <2>1. s = <<>>
    BY <1>5 DEF Told
  <2> QED BY <2>1, SilenceIsHarmless
<1> QED BY <1>1, <1>2, <1>3, <1>4, <1>5

\* So is what it may have told before an error.
LEMMA DetourIsHarmless ==
  ASSUME FlowInv, NEW w \in Workers, pc[w] \in Launching, NEW d \in Detours(w)
  PROVE  /\ Harmless(d, w)
         /\ Harmless(d \o Say("run.failed", job[w].run), w)
<1>0. pc[w] \in Completing /\ job[w].run \in RunIds
  BY RunNumber DEF HasRun, Completing
<1>1. \/ d = <<>> \/ d = Say("run.started", job[w].run)
      \/ \E o \in Verdicts \cup {"succeeded"} : d = RunEnds(job[w].run, o)
  BY DEF Detours
<1>2. Harmless(d, w)
  BY <1>0, <1>1, SilenceIsHarmless, OtherIsHarmless, RunEndsIsHarmless
<1>3. Harmless(Say("run.failed", job[w].run), w)
  BY <1>0, OtherIsHarmless
<1> QED BY <1>2, <1>3, JoinedIsHarmless

\* A step of a worker, of its handler or of its loop.
TrailMove(w) == (TrailStep(w) \/ TrailAnswer(w) \/ TrailDisturb(w)) /\ Apart(w)

\* One that is not the event of a release.
Quiet(w) ==
  /\ Move(w) /\ pc[w] # "released"
  /\ \/ UNCHANGED log
     \/ pc[w] \in Working /\ \E s : Harmless(s, w) /\ Tell(w, s)

\* What a step tells of: a handler's run, an end, or nothing.
LEMMA MoveTells ==
  ASSUME FlowInv, NEW w \in Workers, TrailMove(w)
  PROVE  \/ Quiet(w)
         \/ Done(w) /\ Tells(w)
         \/ LateRequeue(w) /\ UNCHANGED log
<1>1. ASSUME pc[w] # "released", pc[w] \in Working, Tells(w)
      PROVE  \E s : Harmless(s, w) /\ Tell(w, s)
  BY <1>1, ToldIsHarmless DEF Tells
<1>2. ASSUME pc[w] \in Launching, RunAnswers(w)
      PROVE  UNCHANGED log \/ \E s : Harmless(s, w) /\ Tell(w, s)
  <2>1. pc[w] # "released" /\ pc[w] \in Working
    BY <1>2 DEF Launching, Working, PCs
  <2>2. CASE job'[w].outcome # "internal_error"
    BY <1>1, <1>2, <2>1, <2>2 DEF RunAnswers
  <2>3. CASE \E d \in Detours(w) : Tell(w, d \o Say("run.failed", job[w].run))
    BY <1>2, <2>3, DetourIsHarmless
  <2> QED BY <1>2, <2>2, <2>3 DEF RunAnswers
<1>3. ASSUME Tells(w),
             \/ Refuse(w) \/ PreLaunch(w) \/ OpenRun(w) \/ LaunchAgent(w) \/ Interrupt(w)
             \/ Account(w) \/ SaveReviewContext(w) \/ ExcludeOrigin(w) \/ AttachPacket(w)
             \/ Settle(w) \/ Requeue(w)
      PROVE  Quiet(w)
  <2>1. pc[w] # "released" /\ pc[w] \in Working /\ Move(w)
    BY <1>3 DEF Refuse, PreLaunch, OpenRun, LaunchAgent, Interrupt, Account, SaveReviewContext,
       ExcludeOrigin, AttachPacket, Settle, Requeue, Working, PCs, Move, Step
  <2> QED BY <1>1, <1>3, <2>1 DEF Quiet
<1>4. ASSUME RunAnswers(w), PrepareFails(w) \/ Answer(w) PROVE Quiet(w)
  <2>1. pc[w] \in Launching /\ Move(w)
    BY <1>4 DEF PrepareFails, Answer, ImplementerDone, VerifierDone, ReviewerDone, Launching,
       Move, Step
  <2>2. pc[w] # "released" /\ pc[w] \in Working
    BY <2>1 DEF Launching, Working, PCs
  <2> QED BY <1>2, <1>4, <2>1, <2>2 DEF Quiet
<1>5. ASSUME UNCHANGED log, ClaimTask(w) \/ Halt(w) \/ LoseTask(w) PROVE Quiet(w)
  BY <1>5 DEF ClaimTask, MayClaim, Halt, LoseTask, Move, Step, Disturb, Quiet
<1>6. ASSUME Raise(w), \/ pc[w] = "ran" /\ Tells(w)
                       \/ \E s \in Cut(Told(w)) : Tell(w, s)
      PROVE  Quiet(w)
  <2>1. pc[w] # "released" /\ pc[w] \in Working /\ Move(w)
    BY <1>6 DEF Raise, Working, PCs, Move, Disturb
  <2>2. ASSUME NEW s \in Cut(Told(w)) PROVE Harmless(s, w)
    BY <2>1, <2>2, ToldIsHarmless, PartIsHarmless DEF Cut
  <2> QED BY <1>1, <1>6, <2>1, <2>2 DEF Quiet
<1>7. ASSUME GiveUp(w), TellsOfGivingUp(w) PROVE Quiet(w)
  <2>1. pc[w] # "released" /\ pc[w] \in Working /\ Move(w)
    BY <1>7 DEF GiveUp, Waiting, Working, PCs, Move, Disturb
  <2>2. runs' # runs => pc[w] \in Launching
    BY <1>7 DEF GiveUp, Waiting, Launching
  <2>3. CASE runs' # runs /\ \E d \in Detours(w) : Tell(w, d)
    BY <2>1, <2>2, <2>3, DetourIsHarmless DEF Quiet
  <2> QED BY <1>1, <1>7, <2>1, <2>3 DEF TellsOfGivingUp, Quiet
<1>8. CASE TrailStep(w)
  BY <1>3, <1>4, <1>5, <1>8 DEF TrailStep
<1>9. CASE TrailAnswer(w)
  BY <1>4, <1>9 DEF TrailAnswer
<1>10. CASE TrailDisturb(w)
  <2>1. CASE Raise(w) /\ IF pc[w] = "ran" THEN Tells(w)
                         ELSE \E events \in Cut(Told(w)) : Tell(w, events)
    BY <1>6, <2>1
  <2> QED BY <1>5, <1>7, <1>10, <2>1 DEF TrailDisturb
<1> QED BY <1>8, <1>9, <1>10 DEF TrailMove

\* At the end of a run all that it has told is known.
LEMMA RanTells ==
  ASSUME FlowInv, NEW w \in Workers, TrailMove(w), pc[w] = "ran"
  PROVE  Tell(w, RunEnds(job[w].run, job[w].outcome))
<1>1. Told(w) = {RunEnds(job[w].run, job[w].outcome)}
  BY DEF Told
<1>2. Tells(w)
  <2>1. ~PrepareFails(w) /\ ~ClaimTask(w) /\ ~Halt(w) /\ ~Answer(w)
    BY DEF PrepareFails, ClaimTask, MayClaim, Halt, Answer, ImplementerDone, VerifierDone,
       ReviewerDone
  <2>2. ~GiveUp(w) /\ ~LoseTask(w) /\ ~LateRequeue(w)
    BY DEF GiveUp, Waiting, LoseTask, LateRequeue
  <2> QED BY <2>1, <2>2 DEF TrailMove, TrailStep, TrailAnswer, TrailDisturb
<1> QED BY <1>1, <1>2 DEF Tells
-----------------------------------------------------------------------------
(* A row that comes back. *)

\* What the loop leaves of a task that was released.
LEMMA LateEffect ==
  ASSUME EndsInv, NEW w \in Workers, LateRequeue(w)
  PROVE  /\ pc[w] = "released" /\ job[w].task \in Tasks
         /\ held[w].task = NoTask /\ held'[w].task = NoTask /\ pc'[w] = "idle"
         /\ rows' = [rows EXCEPT ![job[w].task] =
                       [rows[job[w].task] EXCEPT !.status = "queued", !.owner = NoWorker,
                                                 !.lease = NoLease]]
         /\ rows[job[w].task].status \notin {"dispatched", "absent"}
         /\ UNCHANGED <<now, cache, used, spent, opened, runs, out, aborted, stopping>>
         /\ \A v \in Workers : v # w => pc'[v] = pc[v] /\ job'[v] = job[v] /\ held'[v] = held[v]
         /\ \A v \in Workers : pc'[v] = "released" =>
              v # w /\ pc[v] = "released" /\ job[v].task # job[w].task
<1>0. /\ WorkflowTypeOK /\ QueueTypeOK /\ WorkerInv(w)
      /\ JustReleased(w) /\ pc[w] = "released"
  BY Parts DEF EndsInv, LateRequeue
<1> PICK t \in Tasks : t = job[w].task
  BY <1>0 DEF JustReleased
<1>1. rows' = [rows EXCEPT ![t] =
                 [rows[t] EXCEPT !.status = "queued", !.owner = NoWorker, !.lease = NoLease]]
  <2>1. rows[t] \in Row
    BY <1>0 DEF QueueTypeOK
  <2>2. Released(rows[t], "queued", rows[t].role, rows[t].attempts)
          = [rows[t] EXCEPT !.status = "queued", !.owner = NoWorker, !.lease = NoLease]
    BY <2>1 DEF Released, Row
  <2> QED BY <2>2 DEF LateRequeue, Reopen
<1>2. /\ held[w].task = NoTask /\ held' = [held EXCEPT ![w] = NoEntry]
      /\ UNCHANGED <<now, cache, used, spent, opened, runs, out, aborted, stopping>>
      /\ pc' = [pc EXCEPT ![w] = "idle"] /\ job' = [job EXCEPT ![w] = NoJob]
  BY <1>0 DEF LateRequeue, Reopen, AfterFailure, Goto, WorkerInv, InHand, Working
<1>3. /\ held'[w].task = NoTask /\ pc'[w] = "idle"
      /\ \A v \in Workers : v # w => pc'[v] = pc[v] /\ job'[v] = job[v] /\ held'[v] = held[v]
  BY <1>0, <1>2 DEF WorkflowTypeOK, QueueTypeOK, NoEntry
<1>4. /\ rows[t].status \notin {"dispatched", "absent"}
      /\ \A v \in Workers : pc[v] = "released" /\ job[v].task = t => v = w
  BY <1>0 DEF JustReleased
<1>5. \A v \in Workers : pc'[v] = "released" =>
        v # w /\ pc[v] = "released" /\ job[v].task # t
  BY <1>3, <1>4
<1> QED BY <1>0, <1>1, <1>2, <1>3, <1>4, <1>5

\* It is as any other that is queued: no handler relies on what it was.
LEMMA LateKeepsFlow ==
  ASSUME EndsInv, NEW w \in Workers, LateRequeue(w)
  PROVE  FlowInv'
<1> PICK t : t = job[w].task
  OBVIOUS
<1>0. /\ WorkflowTypeOK /\ QueueTypeOK /\ HolderOwnsRow /\ OwnedIffDispatched
      /\ \A v \in Workers : WorkerInv(v)
      /\ \A u \in Tasks : TaskInv(u)
  BY Parts DEF EndsInv, FlowInv
<1>1. /\ pc[w] = "released" /\ t \in Tasks
      /\ held[w].task = NoTask /\ held'[w].task = NoTask /\ pc'[w] = "idle"
      /\ rows' = [rows EXCEPT ![t] = [rows[t] EXCEPT !.status = "queued", !.owner = NoWorker,
                                                     !.lease = NoLease]]
      /\ rows[t].status \notin {"dispatched", "absent"}
      /\ UNCHANGED <<now, cache, used, spent, opened, runs, out, aborted, stopping>>
      /\ \A v \in Workers : v # w => pc'[v] = pc[v] /\ job'[v] = job[v] /\ held'[v] = held[v]
  BY LateEffect
<1>2. /\ rows'[t].status = "queued" /\ rows'[t].owner = NoWorker /\ rows'[t].lease = NoLease
      /\ rows'[t].role = rows[t].role /\ rows'[t].attempts = rows[t].attempts
      /\ rows'[t].ctx = rows[t].ctx /\ rows'[t] \in Row
      /\ \A u \in Tasks : u # t => rows'[u] = rows[u]
  <2> DEFINE row == [rows[t] EXCEPT !.status = "queued", !.owner = NoWorker, !.lease = NoLease]
  <2>1. rows[t] \in Row /\ rows'[t] = row /\ \A u \in Tasks : u # t => rows'[u] = rows[u]
    BY <1>0, <1>1 DEF QueueTypeOK
  <2>2. /\ row.status = "queued" /\ row.owner = NoWorker /\ row.lease = NoLease
        /\ row.role = rows[t].role /\ row.attempts = rows[t].attempts
        /\ row.ctx = rows[t].ctx /\ row \in Row
    BY <2>1 DEF Row, Statuses
  <2> QED BY <2>1, <2>2
<1>3. WorkflowTypeOK'
  <2>1. rows' \in [Tasks -> Row]
    BY <1>0, <1>1, <1>2 DEF QueueTypeOK
  <2>2. NoEntry \in Entry /\ NoJob \in Job
    BY DEF NoEntry, Entry, NoJob, Job, Roles, Outcomes
  <2>3. held' \in [Workers -> Entry] /\ pc' \in [Workers -> PCs] /\ job' \in [Workers -> Job]
    BY <1>0, <2>2 DEF LateRequeue, Reopen, AfterFailure, Goto, WorkflowTypeOK, QueueTypeOK, PCs
  <2> QED BY <1>0, <1>1, <2>1, <2>3 DEF WorkflowTypeOK, QueueTypeOK
<1>4. HolderOwnsRow'
  <2> SUFFICES ASSUME NEW v \in Workers, held'[v].task # NoTask
               PROVE  /\ rows'[held'[v].task] = rows[held[v].task]
                      /\ held'[v] = held[v]
    BY <1>0 DEF HolderOwnsRow
  <2>1. v # w /\ held'[v] = held[v]
    BY <1>1
  <2>2. held[v].task \in Tasks /\ held[v].task # t
    BY <1>0, <1>1, <2>1 DEF HolderOwnsRow, QueueTypeOK, Entry
  <2> QED BY <1>2, <2>1, <2>2
<1>5. OwnedIffDispatched'
  BY <1>0, <1>2 DEF OwnedIffDispatched
<1>6. ASSUME NEW v \in Workers PROVE WorkerInv(v)'
  <2>1. CASE v = w
    BY <1>1, <2>1, AtRest
  <2>2. CASE v # w /\ pc[v] \notin Working
    <3>1. pc'[v] = pc[v] /\ held'[v] = held[v] /\ WorkerInv(v) /\ pc[v] \in PCs
      BY <1>0, <1>1, <2>2 DEF WorkflowTypeOK
    <3>2. pc[v] \in {"off", "idle", "released"} /\ held[v].task = NoTask
      BY <2>2, <3>1 DEF WorkerInv, InHand, Working
    <3> QED BY <3>1, <3>2, AtRest
  <2>3. CASE v # w /\ pc[v] \in Working
    <3>1. job[v].task \in Tasks /\ rows[job[v].task].status = "dispatched"
      BY <2>3, AtWork DEF EndsInv
    <3>2. rows'[job[v].task] = rows[job[v].task]
      BY <1>1, <1>2, <3>1
    <3>3. /\ pc'[v] = pc[v] /\ job'[v] = job[v] /\ held'[v] = held[v]
          /\ used' = used /\ opened' = opened /\ runs' = runs
      BY <1>1, <2>3
    <3>4. WorkerInv(v) /\ rows'[job'[v].task] = rows[job[v].task]
      BY <1>0, <3>2, <3>3
    <3>5. InHand(v)' /\ Ahead(v)' /\ Picked(v)'
      BY SMTT(30), <2>3, <3>3, <3>4 DEF WorkerInv, InHand, Ahead, Picked
    <3>6. OwnRun(v)' /\ Knows(v)' /\ Noted(v)'
      BY SMTT(30), <2>3, <3>3, <3>4 DEF WorkerInv, OwnRun, Knows, Noted
    <3> QED BY <3>5, <3>6 DEF WorkerInv
  <2> QED BY <2>1, <2>2, <2>3
<1>7. ASSUME NEW u \in Tasks PROVE TaskInv(u)'
  <2>1. /\ rows'[u].role = rows[u].role /\ rows'[u].ctx = rows[u].ctx
        /\ rows'[u].attempts = rows[u].attempts
        /\ \/ rows'[u].status = rows[u].status
           \/ rows'[u].status \notin {"absent", "accepted"}
    BY <1>2
  <2>2. TaskInv(u) /\ rows[u].attempts <= opened[u]
    BY <1>0 DEF TaskInv, WithinBudget
  <2> QED BY <1>0, <1>1, <2>1, <2>2, TaskKept
<1> QED BY <1>3, <1>4, <1>5, <1>6, <1>7 DEF FlowInv

\* Every step but that one is a step of the workflow.
LEMMA TrailIsFlow ==
  ASSUME [TrailNext]_trailVars
  PROVE  \/ [Next]_vars
         \/ \E w \in Workers : LateRequeue(w) /\ UNCHANGED log
<1>1. CASE \/ TrailOthers \/ TrailCrash \/ UNCHANGED trailVars
  BY <1>1 DEF TrailOthers, TrailCrash, trailVars, Next
<1>2. ASSUME NEW w \in Workers, TrailStep(w) \/ TrailAnswer(w) \/ TrailDisturb(w)
      PROVE  Next \/ (LateRequeue(w) /\ UNCHANGED log)
  <2>1. CASE TrailStep(w)
    <3>1. Step(w)
      BY <2>1 DEF TrailStep, Step
    <3> QED BY <3>1 DEF Next
  <2>2. CASE TrailAnswer(w)
    BY <2>2 DEF TrailAnswer, Next
  <2>3. CASE TrailDisturb(w)
    <3>1. Disturb(w) \/ (LateRequeue(w) /\ UNCHANGED log)
      BY <2>3 DEF TrailDisturb, Disturb
    <3> QED BY <3>1 DEF Next
  <2> QED BY <1>2, <2>1, <2>2, <2>3
<1> QED BY <1>1, <1>2 DEF TrailNext

LEMMA TrailKeepsFlow ==
  ASSUME EndsInv, [TrailNext]_trailVars
  PROVE  FlowInv'
BY TrailIsFlow, LateKeepsFlow, FlowNext DEF EndsInv
-----------------------------------------------------------------------------
(* The last word. *)

\* Whether a status is told of as an end.
LEMMA TaskEventIs ==
  /\ \A s : TaskEvent(s) \in TaskEnds <=> s \in Terminal
  /\ \A s : TaskEvent(s) = "task.completed" <=> s = "accepted"
  /\ \A s : TaskEvent(s) \in EventTypes /\ TaskEvent(s) # "run.completed"
  /\ "task.completed" \in TaskEnds /\ "run.completed" \notin TaskEnds
BY DEF TaskEvent, TaskEnds, Terminal, EventTypes

\* Nothing in the log of t is an end.
NoEnds(t) == \A i \in DOMAIN log[t] : log[t][i].type \notin TaskEnds

\* There is none while a row is not settled, or who settled it has not told.
LEMMA NotOver ==
  ASSUME EndsInv, NEW t \in Tasks,
         \/ rows[t].status \notin Terminal
         \/ \E w \in Workers : pc[w] = "released" /\ job[w].task = t
  PROVE  NoEnds(t)
BY TaskEventIs DEF EndsInv, EndsLast, NoEnds

\* The logs after a handler has told something.
LEMMA TellEffect ==
  ASSUME log \in [Tasks -> Seq(Event)], NEW w \in Workers, NEW t \in Tasks, t = job[w].task,
         NEW s \in Seq(Event), Tell(w, s)
  PROVE  /\ log' \in [Tasks -> Seq(Event)]
         /\ log'[t] = log[t] \o s
         /\ \A u \in Tasks : u # t => log'[u] = log[u]
<1>1. log[t] \o s \in Seq(Event)
  BY Behind
<1> QED BY <1>1 DEF Tell

\* A log to which nothing is added stays in order when a settled row does.
LEMMA EndsStill ==
  ASSUME EndsInv, NEW t \in Tasks, log'[t] = log[t],
         rows[t].status \in Terminal => rows'[t].status = rows[t].status,
         \A w \in Workers : pc'[w] = "released" /\ job'[w].task = t =>
            \/ pc[w] = "released" /\ job[w].task = t
            \/ rows[t].status \notin Terminal
  PROVE  EndsLast(t)'
<1> SUFFICES ASSUME NEW i \in DOMAIN log[t], log[t][i].type \in TaskEnds
             PROVE  /\ i = Len(log[t])
                    /\ log[t][i].type = TaskEvent(rows'[t].status)
                    /\ \A w \in Workers : pc'[w] = "released" => job'[w].task # t
  BY DEF EndsLast
<1>1. /\ i = Len(log[t]) /\ log[t][i].type = TaskEvent(rows[t].status)
      /\ \A w \in Workers : pc[w] = "released" => job[w].task # t
  BY DEF EndsInv, EndsLast
<1>2. rows[t].status \in Terminal
  BY <1>1, TaskEventIs
<1> QED BY <1>1, <1>2

\* So does one that had no end, when what is added has none, or is one event, of
\* what the row says, and nobody will say more.
LEMMA EndsAdded ==
  ASSUME EndsInv, NEW t \in Tasks, NoEnds(t), NEW s \in Seq(Event), log'[t] = log[t] \o s,
         \/ \A i \in DOMAIN s : s[i].type \notin TaskEnds
         \/ /\ \A i \in DOMAIN s : i = Len(s) /\ s[i].type = TaskEvent(rows'[t].status)
            /\ \A w \in Workers : pc'[w] = "released" => job'[w].task # t
  PROVE  EndsLast(t)'
<1> PICK l \in Seq(Event) : l = log[t]
  BY DEF EndsInv
<1>0. DOMAIN (l \o s) = 1..(Len(l) + Len(s))
  BY Behind
<1> SUFFICES ASSUME NEW i \in 1..(Len(l) + Len(s)), (l \o s)[i].type \in TaskEnds
             PROVE  /\ i = Len(l \o s)
                    /\ (l \o s)[i].type = TaskEvent(rows'[t].status)
                    /\ \A w \in Workers : pc'[w] = "released" => job'[w].task # t
  BY <1>0 DEF EndsLast
<1>1. \A m \in 1..Len(l) : l[m].type \notin TaskEnds
  BY Behind DEF NoEnds
<1>2. PICK m \in 1..Len(s) : i = Len(l) + m /\ (l \o s)[i] = s[m]
  <2>1. /\ \A m \in 1..Len(l) : (l \o s)[m] = l[m]
        /\ \A m \in 1..Len(s) : (l \o s)[Len(l) + m] = s[m]
        /\ i \in 1..Len(l) \/ \E m \in 1..Len(s) : i = Len(l) + m
    BY Behind
  <2>2. i \notin 1..Len(l)
    BY <1>1, <2>1
  <2> QED BY <2>1, <2>2
<1>3. s[m].type \in TaskEnds /\ m \in DOMAIN s
  BY <1>2, Behind
<1>4. m = Len(s) /\ s[m].type = TaskEvent(rows'[t].status)
      /\ \A w \in Workers : pc'[w] = "released" => job'[w].task # t
  BY <1>3
<1>5. Len(l \o s) = Len(l) + Len(s)
  BY Behind
<1> QED BY <1>2, <1>4, <1>5

\* A row that is settled is not touched by a worker that has not just released it.
LEMMA OverStays ==
  ASSUME FlowInv, NEW w \in Workers, Move(w), NEW u \in Tasks, rows[u].status \in Terminal
  PROVE  /\ rows'[u] = rows[u] /\ runs'[u] = runs[u] /\ opened'[u] = opened[u]
         /\ held[w].task # u
<1>1. rows[u].status \notin {"queued", "dispatched"} /\ QueueTypeOK /\ u # NoTask
  BY Parts, QueueAssumption DEF Terminal
<1>2. held[w].task # u
  BY <1>1 DEF FlowInv, HolderOwnsRow
<1>3. held'[w].task # u
  <2>1. CASE ClaimTask(w)
    <3>1. PICK t \in Tasks : Claim(w, t)
      BY <2>1 DEF ClaimTask
    <3>2. rows[t].status = "queued" /\ held'[w].task = t
      BY <1>1, <3>1 DEF Claim, NextClaimable, Claimable, QueueTypeOK
    <3> QED BY <1>1, <3>2
  <2>2. CASE ~ClaimTask(w)
    BY <1>1, <1>2, <2>2, KeepsHand
  <2> QED BY <2>1, <2>2
<1> QED BY <1>2, <1>3, TaskFrame

\* A worker that has just released a task.
LEMMA ReleasedNow ==
  ASSUME FlowInv, NEW w \in Workers, Move(w), pc[w] # "released", pc'[w] = "released"
  PROVE  /\ pc[w] \in Working /\ job'[w] = job[w]
         /\ Refuse(w) \/ GiveUp(w) \/ Settle(w)
         /\ rows'[job[w].task].status \in Terminal \cup {"queued"}
<1>0. WorkflowTypeOK /\ QueueTypeOK
  BY Parts
<1>1. Refuse(w) \/ GiveUp(w) \/ Settle(w)
  BY <1>0 DEF WorkflowTypeOK, Move, Step, Answer, Disturb, ClaimTask, PreLaunch, OpenRun,
     LaunchAgent, PrepareFails, Interrupt, Account, SaveReviewContext, ExcludeOrigin,
     AttachPacket, Done, Requeue, Halt, AfterFailure, Finish, Goto, ImplementerDone,
     VerifierDone, ReviewerDone, Abort, Raise, LoseTask
<1>2. pc[w] \in Working /\ job' = job
  BY <1>1 DEF Refuse, GiveUp, Settle, Waiting, Working, PCs
<1>3. /\ job[w].task \in Tasks /\ held[w].task = job[w].task
      /\ job[w].role \in Roles
  BY <1>0, <1>2, AtWork DEF WorkflowTypeOK, Job
<1>4. \E s \in Terminal \cup {"queued"} : \E r, n : Release(w, s, r, n)
  <2>1. CASE Refuse(w)
    BY <2>1 DEF Refuse, Terminal
  <2>2. CASE GiveUp(w)
    BY <2>2 DEF GiveUp, Terminal
  <2>3. CASE Settle(w)
    <3>1. NextStatus(w) \in Terminal \cup {"queued"}
      BY <1>3, Releases DEF Terminal
    <3> QED BY <2>3, <3>1 DEF Settle
  <2> QED BY <1>1, <2>1, <2>2, <2>3
<1> QED BY <1>0, <1>1, <1>2, <1>3, <1>4, ReleaseEffect

\* At most the event of what w has released its task with.
OfRelease(s, w) ==
  /\ s \in Seq(Event) /\ Len(s) <= 1
  /\ \A i \in DOMAIN s :
       /\ i = Len(s)
       /\ s[i].type = TaskEvent(rows[job[w].task].status)
       /\ s[i].run = job[w].run

LEMMA ReleaseIsTold ==
  ASSUME NEW w \in Workers, job[w].run \in RunIds \cup {NoRun},
         NEW s, s = Say(TaskEvent(rows[job[w].task].status), job[w].run)
  PROVE  OfRelease(s, w)
<1> PICK e : e = Ev(TaskEvent(rows[job[w].task].status), job[w].run)
  OBVIOUS
<1>1. /\ e \in Event /\ e.run = job[w].run
      /\ e.type = TaskEvent(rows[job[w].task].status)
  BY TaskEventIs, EventsAre
<1>2. s = <<>> \/ s = <<e>>
  BY <1>1, SaidIs DEF Say
<1>3. /\ s \in Seq(Event) /\ Len(s) <= 1
      /\ \A i \in DOMAIN s : i = Len(s) /\ s[i] = e
  <2>1. CASE s = <<>>
    BY <2>1
  <2>2. CASE s = <<e>>
    BY <1>1, <2>2
  <2> QED BY <1>2, <2>1, <2>2
<1> QED BY <1>1, <1>3 DEF OfRelease

\* What a worker has released is not touched by another one.
LEMMA ReleasedApart ==
  ASSUME EndsInv, NEW w \in Workers, Apart(w), Quiet(w),
         NEW v \in Workers, v # w, pc[v] = "released"
  PROVE  /\ job[v].task \in Tasks /\ rows'[job[v].task] = rows[job[v].task]
         /\ pc[w] \in Working => job[v].task # job[w].task
<1>0. FlowInv /\ Move(w) /\ JustReleased(v) /\ WorkerInv(w)
  BY Parts DEF EndsInv, Quiet
<1> PICK t \in Tasks : t = job[v].task
  BY <1>0 DEF JustReleased
<1>1. rows[t].status # "dispatched" /\ held'[w].task # t
  BY <1>0 DEF JustReleased, Apart
<1>2. pc[w] \in Working => t # job[w].task /\ t # held[w].task
  BY <1>0, <1>1, AtWork
<1>3. held[w].task # t
  BY <1>0, <1>2, QueueAssumption DEF WorkerInv, InHand
<1> QED BY <1>0, <1>1, <1>2, <1>3, TaskFrame

\* Before the event of a release.
LEMMA QuietEnds ==
  ASSUME EndsInv, NEW w \in Workers, Apart(w), Quiet(w)
  PROVE  /\ log' \in [Tasks -> Seq(Event)]
         /\ \A v \in Workers : JustReleased(v)'
         /\ \A t \in Tasks : EndsLast(t)'
<1>0. /\ FlowInv /\ WorkflowTypeOK /\ Move(w) /\ pc[w] # "released"
      /\ log \in [Tasks -> Seq(Event)]
  BY Parts DEF EndsInv, Quiet
<1>1. \A v \in Workers : v # w => pc'[v] = pc[v] /\ job'[v] = job[v]
  BY <1>0, WorkerFrame
<1>2. pc'[w] = "released" =>
        /\ pc[w] \in Working /\ job'[w] = job[w]
        /\ rows'[job[w].task].status \in Terminal \cup {"queued"}
  BY <1>0, ReleasedNow
<1>3. pc[w] \in Working => job[w].task \in Tasks /\ rows[job[w].task].status \notin Terminal
  BY <1>0, AtWork DEF Terminal
<1>8. ASSUME NEW v \in Workers, v # w, pc[v] = "released"
      PROVE  /\ job[v].task \in Tasks /\ rows'[job[v].task] = rows[job[v].task]
             /\ pc[w] \in Working => job[v].task # job[w].task
  BY <1>8, ReleasedApart
<1>4. ASSUME NEW v \in Workers PROVE JustReleased(v)'
  <2>1. JustReleased(v)
    BY DEF EndsInv
  <2>2. CASE v = w
    BY <1>1, <1>2, <1>3, <1>8, <2>2 DEF JustReleased, Terminal
  <2>3. CASE v # w
    BY <1>1, <1>2, <1>8, <2>1, <2>3 DEF JustReleased
  <2> QED BY <2>2, <2>3
<1>5. ASSUME NEW t \in Tasks, log'[t] = log[t] PROVE EndsLast(t)'
  <2>1. rows[t].status \in Terminal => rows'[t] = rows[t]
    BY <1>0, OverStays
  <2>2. ASSUME NEW v \in Workers, pc'[v] = "released", job'[v].task = t
        PROVE  \/ pc[v] = "released" /\ job[v].task = t
               \/ rows[t].status \notin Terminal
    BY <1>1, <1>2, <1>3, <2>2
  <2> QED BY <1>5, <2>1, <2>2, EndsStill
<1>6. CASE UNCHANGED log
  BY <1>0, <1>4, <1>5, <1>6
<1>7. CASE pc[w] \in Working /\ \E s : Harmless(s, w) /\ Tell(w, s)
  <2> PICK s : Harmless(s, w) /\ Tell(w, s)
    BY <1>7
  <2> PICK t \in Tasks : t = job[w].task
    BY <1>3, <1>7
  <2>1. s \in Seq(Event) /\ \A i \in DOMAIN s : s[i].type \notin TaskEnds
    BY DEF Harmless
  <2>2. /\ log' \in [Tasks -> Seq(Event)] /\ log'[t] = log[t] \o s
        /\ \A u \in Tasks : u # t => log'[u] = log[u]
    BY <1>0, <2>1, TellEffect
  <2>3. EndsLast(t)'
    BY <1>3, <1>7, <2>1, <2>2, NotOver, EndsAdded
  <2> QED BY <1>4, <1>5, <2>2, <2>3
<1> QED BY <1>0, <1>6, <1>7 DEF Quiet

\* The event of a release, by the only worker that has released.
LEMMA DoneEnds ==
  ASSUME EndsInv, NEW w \in Workers, Done(w), Tells(w)
  PROVE  /\ log' \in [Tasks -> Seq(Event)]
         /\ \A v \in Workers : JustReleased(v)'
         /\ \A t \in Tasks : EndsLast(t)'
<1>0. /\ FlowInv /\ WorkflowTypeOK /\ Move(w) /\ pc[w] = "released"
      /\ log \in [Tasks -> Seq(Event)] /\ rows' = rows
  BY Parts DEF EndsInv, Done, Move, Step, queueVars
<1> PICK t \in Tasks : t = job[w].task
  BY <1>0 DEF EndsInv, JustReleased
<1>1. \A v \in Workers : pc'[v] = "released" =>
        pc[v] = "released" /\ job'[v] = job[v] /\ job[v].task # t
  <2>1. pc'[w] = "idle" /\ \A v \in Workers : v # w => pc'[v] = pc[v] /\ job'[v] = job[v]
    BY <1>0, WorkerFrame DEF Done, Goto, WorkflowTypeOK
  <2> QED BY <1>0, <2>1 DEF EndsInv, JustReleased
<1> PICK r \in RunIds \cup {NoRun} : r = job[w].run
  BY <1>0 DEF WorkflowTypeOK, Job
<1>2. Tell(w, Say(TaskEvent(rows[t].status), r))
  BY <1>0 DEF Tells, Told
<1> PICK s : s = Say(TaskEvent(rows[t].status), r)
  OBVIOUS
<1>3. /\ s \in Seq(Event)
      /\ \A i \in DOMAIN s : i = Len(s) /\ s[i].type = TaskEvent(rows[t].status)
  BY ReleaseIsTold DEF OfRelease
<1>4. /\ log' \in [Tasks -> Seq(Event)] /\ log'[t] = log[t] \o s
      /\ \A u \in Tasks : u # t => log'[u] = log[u]
  BY <1>0, <1>2, <1>3, TellEffect
<1>5. EndsLast(t)'
  <2>1. NoEnds(t)
    BY <1>0, NotOver
  <2> QED BY ZenonT(60), <1>0, <1>1, <1>3, <1>4, <2>1, EndsAdded
<1>6. ASSUME NEW u \in Tasks, u # t PROVE EndsLast(u)'
  BY <1>0, <1>1, <1>4, <1>6, EndsStill
<1>7. ASSUME NEW v \in Workers PROVE JustReleased(v)'
  <2>1. JustReleased(v)
    BY DEF EndsInv
  <2> QED BY <1>0, <1>1, <2>1 DEF JustReleased
<1> QED BY <1>4, <1>5, <1>6, <1>7

\* A release that is not told of is taken back.
LEMMA LateEnds ==
  ASSUME EndsInv, NEW w \in Workers, LateRequeue(w), UNCHANGED log
  PROVE  /\ log' \in [Tasks -> Seq(Event)]
         /\ \A v \in Workers : JustReleased(v)'
         /\ \A t \in Tasks : EndsLast(t)'
<1>1. /\ pc[w] = "released" /\ job[w].task \in Tasks
      /\ \A v \in Workers : pc'[v] = "released" =>
           pc[v] = "released" /\ job'[v] = job[v] /\ job[v].task # job[w].task
      /\ rows' = [rows EXCEPT ![job[w].task] =
                    [rows[job[w].task] EXCEPT !.status = "queued", !.owner = NoWorker,
                                              !.lease = NoLease]]
  BY LateEffect
<1>3. \A t \in Tasks : t # job[w].task => rows'[t] = rows[t]
  BY <1>1 DEF EndsInv, FlowInv, WorkflowTypeOK, QueueTypeOK
<1>2. ASSUME NEW t \in Tasks PROVE EndsLast(t)'
  <2>1. CASE t = job[w].task
    <3>1. NoEnds(t)
      BY <1>1, <2>1, NotOver
    <3> QED BY <3>1 DEF NoEnds, EndsLast
  <2>2. CASE t # job[w].task
    <3>1. rows'[t] = rows[t]
      BY <1>3, <2>2
    <3> QED BY <1>1, <3>1, EndsStill
  <2> QED BY <2>1, <2>2
<1>4. ASSUME NEW v \in Workers PROVE JustReleased(v)'
  <2>1. JustReleased(v)
    BY DEF EndsInv
  <2> QED BY <1>1, <1>3, <2>1 DEF JustReleased
<1> QED BY <1>2, <1>4 DEF EndsInv

\* What a task may have been told of when the process dies: nothing, something of
\* the handler that has it, or the event of its release.
LEMMA LastWordsAre ==
  ASSUME EndsInv, NEW t \in Tasks, NEW s \in LastWords(t)
  PROVE  \/ s = <<>>
         \/ \E w \in Workers : pc[w] \in Working /\ job[w].task = t /\ Harmless(s, w)
         \/ \E w \in Workers : pc[w] = "released" /\ job[w].task = t /\ OfRelease(s, w)
<1>0. FlowInv /\ WorkflowTypeOK
  BY Parts DEF EndsInv
<1> SUFFICES ASSUME s # <<>>
             PROVE  \E w \in Workers :
                      /\ job[w].task = t
                      /\ \/ pc[w] \in Working /\ Harmless(s, w)
                         \/ pc[w] = "released" /\ OfRelease(s, w)
  OBVIOUS
<1>1. PICK w \in Workers : job[w].task = t /\ s \in Cut(Told(w))
  BY DEF LastWords
<1>2. PICK whole \in Told(w) : s \in Prefixes(whole)
  BY <1>1 DEF Cut
<1>3. CASE pc[w] \in Working
  <2>1. pc[w] # "released"
    BY <1>3 DEF Working
  <2>2. Harmless(s, w)
    BY <1>0, <1>2, <2>1, ToldIsHarmless, PartIsHarmless
  <2> QED BY <1>1, <1>3, <2>2
<1>4. CASE pc[w] = "released"
  <2>1. whole = Say(TaskEvent(rows[t].status), job[w].run)
    BY <1>1, <1>2, <1>4 DEF Told
  <2>2. job[w].run \in RunIds \cup {NoRun}
    BY <1>0 DEF WorkflowTypeOK, Job
  <2>3. OfRelease(whole, w)
    BY <1>1, <1>4, <2>1, <2>2, ReleaseIsTold
  <2>4. PICK l \in 0..Len(whole) : s = SubSeq(whole, 1, l)
    BY <1>2 DEF Prefixes
  <2>5. whole \in Seq(Event) /\ Len(whole) \in Nat /\ Len(whole) <= 1
    BY <2>3 DEF OfRelease
  <2>6. /\ s \in Seq(Event) /\ Len(s) = l
        /\ \A i \in DOMAIN s : i \in 1..l /\ s[i] = whole[i]
    BY <2>4, <2>5
  <2>7. \A i \in DOMAIN s : i = Len(s) /\ i = Len(whole) /\ i \in DOMAIN whole
    BY <2>5, <2>6
  <2>8. OfRelease(s, w)
    BY <2>3, <2>5, <2>6, <2>7 DEF OfRelease
  <2> QED BY <1>1, <1>4, <2>8
<1>5. CASE pc[w] \in {"off", "idle"}
  <2>1. whole = <<>>
    BY <1>2, <1>5 DEF Told
  <2> QED BY <1>2, <2>1 DEF Prefixes
<1>6. pc[w] \in PCs
  BY <1>0 DEF WorkflowTypeOK
<1> QED BY <1>3, <1>4, <1>5, <1>6 DEF Working, PCs

\* The process dies.
LEMMA CrashEnds ==
  ASSUME EndsInv, TrailCrash
  PROVE  /\ log' \in [Tasks -> Seq(Event)]
         /\ \A v \in Workers : JustReleased(v)'
         /\ \A t \in Tasks : EndsLast(t)'
<1>0. /\ FlowInv /\ WorkflowTypeOK /\ log \in [Tasks -> Seq(Event)]
      /\ rows' = rows /\ \A v \in Workers : pc'[v] = "off"
  BY Parts DEF EndsInv, TrailCrash, Crash, Forget
<1> PICK told : /\ \A t \in Tasks : told[t] \in LastWords(t)
                /\ log' = [t \in Tasks |-> log[t] \o told[t]]
  BY DEF TrailCrash
<1>1. ASSUME NEW t \in Tasks PROVE told[t] \in Seq(Event) /\ EndsLast(t)'
  <2> PICK s : s = told[t]
    OBVIOUS
  <2>1. s \in LastWords(t) /\ log'[t] = log[t] \o s
    BY <1>1
  <2>2. CASE s = <<>>
    <3>1. log'[t] = log[t]
      BY <1>0, <2>1, <2>2
    <3> QED BY <1>0, <2>2, <3>1, EndsStill
  <2>3. CASE \E w \in Workers : pc[w] \in Working /\ job[w].task = t /\ Harmless(s, w)
    <3>1. rows[t].status \notin Terminal
      BY <1>0, <2>3, AtWork DEF Terminal
    <3>2. s \in Seq(Event) /\ \A i \in DOMAIN s : s[i].type \notin TaskEnds
      BY <2>3 DEF Harmless
    <3> QED BY <2>1, <3>1, <3>2, NotOver, EndsAdded
  <2>4. CASE \E w \in Workers : pc[w] = "released" /\ job[w].task = t /\ OfRelease(s, w)
    <3>2. /\ s \in Seq(Event)
          /\ \A i \in DOMAIN s : i = Len(s) /\ s[i].type = TaskEvent(rows[t].status)
      BY <2>4 DEF OfRelease
    <3>3. NoEnds(t)
      BY <2>4, NotOver
    <3> QED BY <1>0, <2>1, <3>2, <3>3, EndsAdded
  <2> QED BY <2>1, <2>2, <2>3, <2>4, LastWordsAre
<1>2. log' \in [Tasks -> Seq(Event)]
  BY <1>0, <1>1, Behind
<1> QED BY <1>0, <1>1, <1>2 DEF JustReleased

\* The command line, the clock, and an abort that is sent: nothing is told.
LEMMA OthersEnds ==
  ASSUME EndsInv, TrailOthers \/ UNCHANGED trailVars
  PROVE  /\ log' \in [Tasks -> Seq(Event)]
         /\ \A v \in Workers : JustReleased(v)'
         /\ \A t \in Tasks : EndsLast(t)'
<1>0. FlowInv /\ WorkflowTypeOK /\ QueueTypeOK /\ log' = log
  BY Parts DEF EndsInv, TrailOthers, trailVars
<1>1. \A t \in Tasks : rows[t].status # "absent" => rows'[t] = rows[t]
  <2>1. ASSUME NEW u \in Tasks, Submit(u)
        PROVE  \A t \in Tasks : rows[t].status # "absent" => rows'[t] = rows[t]
    BY <1>0, <2>1 DEF Submit, Enqueue, QueueTypeOK
  <2>2. CASE Start \/ Stop \/ TimePasses \/ (\E w \in Workers : Abort(w)) \/ UNCHANGED trailVars
    BY <2>2 DEF Start, Forget, Stop, TimePasses, Tick, Abort, trailVars, vars, queueVars
  <2> QED BY <2>1, <2>2 DEF TrailOthers
<1>2. \/ pc' = pc /\ job' = job
      \/ \A v \in Workers : pc'[v] = "idle"
  BY DEF TrailOthers, Submit, Start, Stop, TimePasses, Abort, trailVars, vars, flowVars
<1>3. ASSUME NEW t \in Tasks PROVE EndsLast(t)'
  <2>1. rows[t].status \in Terminal => rows'[t] = rows[t]
    BY <1>1 DEF Terminal
  <2> QED BY <1>0, <1>2, <2>1, EndsStill
<1>4. ASSUME NEW v \in Workers PROVE JustReleased(v)'
  <2>1. JustReleased(v)
    BY DEF EndsInv
  <2> QED BY <1>1, <1>2, <2>1 DEF JustReleased
<1> QED BY <1>0, <1>3, <1>4 DEF EndsInv

\* EndsInv is kept by every step, by a release that is taken back too.
LEMMA EndsNext == EndsInv /\ [TrailNext]_trailVars => EndsInv'
<1> SUFFICES ASSUME EndsInv, [TrailNext]_trailVars PROVE EndsInv'
  OBVIOUS
<1> DEFINE Ends == /\ log' \in [Tasks -> Seq(Event)]
                   /\ \A v \in Workers : JustReleased(v)'
                   /\ \A t \in Tasks : EndsLast(t)'
<1>1. ASSUME TrailOthers \/ UNCHANGED trailVars PROVE Ends
  BY <1>1, OthersEnds
<1>2. ASSUME TrailCrash PROVE Ends
  BY <1>2, CrashEnds
<1>3. ASSUME NEW w \in Workers, TrailMove(w) PROVE Ends
  <2>1. Apart(w) /\ FlowInv
    BY <1>3 DEF TrailMove, EndsInv
  <2>2. ASSUME Quiet(w) PROVE Ends
    BY <2>1, <2>2, QuietEnds
  <2>3. ASSUME Done(w), Tells(w) PROVE Ends
    BY <2>3, DoneEnds
  <2>4. ASSUME LateRequeue(w), UNCHANGED log PROVE Ends
    BY <2>4, LateEnds
  <2> HIDE DEF Ends
  <2> QED BY <1>3, <2>1, <2>2, <2>3, <2>4, MoveTells
<1> HIDE DEF Ends
<1>4. Ends
  BY <1>1, <1>2, <1>3 DEF TrailNext, TrailMove
<1> QED BY <1>4, TrailKeepsFlow DEF Ends, EndsInv

\* Nothing is told before anything is done.
LEMMA EndsInit == TrailInit => EndsInv
<1> SUFFICES ASSUME TrailInit PROVE EndsInv
  OBVIOUS
<1>1. FlowInv
  BY FlowInit DEF TrailInit
<1>2. log = [t \in Tasks |-> <<>>] /\ \A w \in Workers : pc[w] = "off"
  BY DEF TrailInit, Init
<1>3. log \in [Tasks -> Seq(Event)]
  BY <1>2
<1>4. \A t \in Tasks : EndsLast(t)
  BY <1>2 DEF EndsLast
<1> QED BY <1>1, <1>2, <1>3, <1>4 DEF EndsInv, JustReleased

\* The log and the rows go together, in every reachable state.
THEOREM EndsInvariant == TrailSpec => []EndsInv
BY EndsInit, EndsNext, PTL DEF TrailSpec

\* Whoever follows the log is never told of an end that is taken back, though a row
\* may be (the order of release() and appendEvent(), releaseAfterHandlerFailure()).
THEOREM TheLastWord == TrailSpec => []AnnouncedIsFinal
<1>1. EndsInv => AnnouncedIsFinal
  BY DEF EndsInv, EndsLast, AnnouncedIsFinal
<1> QED BY <1>1, EndsInvariant, PTL

\* A release that is taken back costs no run more, makes no review of an older diff
\* and no acceptance without its reason (releaseAfterHandlerFailure(), preLaunch(),
\* decide()).
THEOREM LateReleasesKeepPromises ==
  TrailSpec => [](WorkflowTypeOK /\ RunsWithinBudget /\ ReviewsLatestDiff /\ AcceptedOnLastRun)
<1>1. EndsInv => WorkflowTypeOK /\ RunsWithinBudget /\ ReviewsLatestDiff /\ AcceptedOnLastRun
  BY FlowShows DEF EndsInv
<1> QED BY <1>1, EndsInvariant, PTL
-----------------------------------------------------------------------------
(* The discipline of the queue and the contract of a task. *)

LEMMA DepartureStep ==
  ASSUME EndsInv, [TrailNext]_trailVars
  PROVE  \/ [QueueNext]_queueVars /\ [Contract!Next]_(Contract!vars)
         \/ \E w \in Workers : LateRequeue(w)
BY TrailIsFlow, QueueStep, ContractStep DEF EndsInv

\* What a step does to a row that has ended, is absent, or excludes agents.
LEMMA TrailRow ==
  ASSUME EndsInv, AbsentExcludesNone, [TrailNext]_trailVars, NEW t \in Tasks
  PROVE  /\ \/ rows[t].status \in Terminal => rows'[t] = rows[t]
            \/ \E w \in Workers : LateRequeue(w) /\ job[w].task = t
         /\ rows[t].excl \subseteq rows'[t].excl
         /\ rows'[t].status = "absent" => rows'[t] = rows[t]
<1>0. QueueInv /\ rows[t] \in Row
  BY Parts DEF EndsInv, QueueTypeOK
<1>1. CASE [QueueNext]_queueVars
  BY <1>0, <1>1, RowSteps
<1>2. ASSUME NEW w \in Workers, LateRequeue(w)
      PROVE  /\ job[w].task # t => rows'[t] = rows[t]
             /\ rows'[t].excl = rows[t].excl
             /\ rows'[t].status = "absent" => rows'[t] = rows[t]
  <2>1. rows \in [Tasks -> Row]
    BY Parts DEF EndsInv, QueueTypeOK
  <2>2. rows' = [rows EXCEPT ![job[w].task] =
                   [rows[job[w].task] EXCEPT !.status = "queued", !.owner = NoWorker,
                                             !.lease = NoLease]]
    BY <1>2, LateEffect
  <2>3. CASE job[w].task # t
    BY <2>1, <2>2, <2>3
  <2>4. CASE job[w].task = t
    <3>1. rows'[t] = [rows[t] EXCEPT !.status = "queued", !.owner = NoWorker, !.lease = NoLease]
      BY <2>1, <2>2, <2>4
    <3>2. rows'[t].status = "queued" /\ rows'[t].excl = rows[t].excl
      BY <1>0, <3>1 DEF Row
    <3> QED BY <2>4, <3>2
  <2> QED BY <2>3, <2>4
<1> QED BY <1>1, <1>2, DepartureStep

\* The only step of the program, with all that may fail, that is neither within the
\* discipline of the queue nor one of a task's contract is the requeue of a task
\* whose release could not be told of (worker.ts, releaseAfterHandlerFailure()).
THEOREM OnlyLateDeparts ==
  TrailSpec => [][\/ [QueueNext]_queueVars /\ [Contract!Next]_(Contract!vars)
                  \/ \E w \in Workers : LateRequeue(w)]_trailVars
<1>1. EndsInv /\ [TrailNext]_trailVars =>
        [\/ [QueueNext]_queueVars /\ [Contract!Next]_(Contract!vars)
         \/ \E w \in Workers : LateRequeue(w)]_trailVars
  BY DepartureStep
<1> QED BY <1>1, EndsInvariant, PTL DEF TrailSpec

\* A task that is not in the table excludes nobody, and what a step does to a row.
LEMMA RowsInv == TrailSpec => [](EndsInv /\ AbsentExcludesNone)
<1>1. TrailInit => AbsentExcludesNone
  BY DEF TrailInit, Init, QueueInit, AbsentRow, AbsentExcludesNone
<1>2. EndsInv /\ AbsentExcludesNone /\ [TrailNext]_trailVars => AbsentExcludesNone'
  <2> SUFFICES ASSUME EndsInv, AbsentExcludesNone, [TrailNext]_trailVars, NEW t \in Tasks,
                      rows'[t].status = "absent"
               PROVE  rows'[t].excl = {}
    BY DEF AbsentExcludesNone
  <2>1. rows'[t] = rows[t] \/ rows'[t].status # "absent"
    BY TrailRow
  <2> QED BY <2>1 DEF AbsentExcludesNone
<1> QED BY <1>1, <1>2, EndsInvariant, PTL DEF TrailSpec

\* A row that has ended is written again in one case only: the worker that released
\* it could not write the event about it, and puts it back (worker.ts, the catch of
\* the loop).
THEOREM OnlyLateReopens ==
  TrailSpec => [][\A t \in Tasks : rows[t].status \in Terminal /\ rows'[t] # rows[t] =>
                    \E w \in Workers : LateRequeue(w) /\ job[w].task = t]_trailVars
<1>1. EndsInv /\ AbsentExcludesNone /\ [TrailNext]_trailVars =>
        [\A t \in Tasks : rows[t].status \in Terminal /\ rows'[t] # rows[t] =>
           \E w \in Workers : LateRequeue(w) /\ job[w].task = t]_trailVars
  BY TrailRow
<1> QED BY <1>1, RowsInv, PTL DEF TrailSpec

\* Exclusions are never taken back, whatever fails (addWorkOrderExcludeAgentIds()).
THEOREM ExclusionsSurvive == TrailSpec => ExclusionsGrow
<1>1. EndsInv /\ AbsentExcludesNone /\ [TrailNext]_trailVars =>
        [\A t \in Tasks : rows[t].excl \subseteq rows'[t].excl]_queueVars
  BY TrailRow
<1> QED BY <1>1, RowsInv, PTL DEF TrailSpec, ExclusionsGrow

\* As long as the event after every release can be written, the workers keep to the
\* discipline of the queue, so that what is proved of QueueSpec is true of them,
\* whatever else fails (the handler's calls of TaskQueue, the loop's requeue).
THEOREM DisciplineWithoutLate ==
  ASSUME "late" \notin Disturbances
  PROVE  TrailSpec => QueueSpec
<1>1. TrailInit => QueueInit
  BY DEF TrailInit, Init
<1>2. EndsInv /\ [TrailNext]_trailVars => [QueueNext]_queueVars
  BY DepartureStep DEF LateRequeue
<1> QED BY <1>1, <1>2, EndsInvariant, PTL DEF TrailSpec, QueueSpec

\* Then no worker touches the row of a task that was accepted, failed or handed to a
\* human.
COROLLARY SettledWithoutLate ==
  ASSUME "late" \notin Disturbances
  PROVE  TrailSpec => TerminalIsFinal
BY DisciplineWithoutLate, TerminalStays, PTL

\* And each task goes through the steps of its contract: coded by one agent and
\* signed by another when a review is asked for, tried at most max_runs times, ended
\* once (README's task life cycle).
THEOREM ContractWithoutLate ==
  ASSUME "late" \notin Disturbances
  PROVE  TrailSpec => KeepsContract
<1>1. TrailInit => Contract!Init
  BY ContractInit DEF TrailInit
<1>2. EndsInv /\ [TrailNext]_trailVars => [Contract!Next]_(Contract!vars)
  BY DepartureStep DEF LateRequeue
<1> QED BY <1>1, <1>2, EndsInvariant, PTL DEF TrailSpec, KeepsContract, Contract!Spec
-----------------------------------------------------------------------------
(* Approvals on record. *)

\* The runs of t stay what they are of, and there may be more of them.
RunsGrow(t) ==
  /\ opened[t] \in Nat /\ opened'[t] \in Nat /\ opened[t] <= opened'[t]
  /\ \A r \in 1..opened[t] : /\ runs'[t][r].role = runs[t][r].role
                             /\ runs'[t][r].parent = runs[t][r].parent

\* So do the events of t.
Grows(t) ==
  /\ RunsGrow(t)
  /\ Len(log[t]) \in Nat /\ Len(log'[t]) \in Nat /\ Len(log[t]) <= Len(log'[t])
  /\ DOMAIN log[t] = 1..Len(log[t]) /\ DOMAIN log'[t] = 1..Len(log'[t])
  /\ \A i \in 1..Len(log[t]) : log'[t][i] = log[t][i]

\* Where the new ones are, and which runs they are the completion of.
Added(t) == (Len(log[t]) + 1)..Len(log'[t])
OfOpened(t) ==
  \A i \in Added(t) : log'[t][i].type = "run.completed" => log'[t][i].run \in 1..opened[t]
OfReviews(t) ==
  \A i \in Added(t) :
    log'[t][i].type = "run.completed" => runs'[t][log'[t][i].run].role = "reviewer"

\* A log to which something may be added grows.
LEMMA LogGrows ==
  ASSUME NEW t, RunsGrow(t), log[t] \in Seq(Event), NEW s \in Seq(Event),
         log'[t] = log[t] \o s
  PROVE  Grows(t) /\ \A i \in Added(t) : \E m \in DOMAIN s : log'[t][i] = s[m]
<1> PICK l \in Seq(Event) : l = log[t]
  OBVIOUS
<1>1. /\ Len(l \o s) = Len(l) + Len(s) /\ Len(l) \in Nat /\ Len(s) \in Nat
      /\ DOMAIN l = 1..Len(l) /\ DOMAIN s = 1..Len(s)
      /\ DOMAIN (l \o s) = 1..(Len(l) + Len(s))
      /\ \A i \in 1..Len(l) : (l \o s)[i] = l[i]
      /\ \A i \in 1..Len(s) : (l \o s)[Len(l) + i] = s[i]
      /\ \A i \in 1..(Len(l) + Len(s)) :
           i \in 1..Len(l) \/ \E m \in 1..Len(s) : i = Len(l) + m
  BY Behind
<1> PICK both : both = l \o s
  OBVIOUS
<1>0. log[t] = l /\ log'[t] = both
  OBVIOUS
<1>2. Grows(t)
  <2>1. /\ Len(l) \in Nat /\ Len(both) \in Nat /\ Len(l) <= Len(both)
        /\ DOMAIN l = 1..Len(l) /\ DOMAIN both = 1..Len(both)
        /\ \A i \in 1..Len(l) : both[i] = l[i]
    BY <1>1
  <2> QED BY <1>0, <2>1 DEF Grows
<1>3. ASSUME NEW i \in (Len(l) + 1)..(Len(l) + Len(s))
      PROVE  \E m \in DOMAIN s : both[i] = s[m]
  <2>1. i \in 1..(Len(l) + Len(s)) /\ i \notin 1..Len(l)
    BY <1>1
  <2>2. PICK m \in DOMAIN s : i = Len(l) + m
    BY <1>1, <2>1
  <2>3. both[i] = s[m]
    BY <1>1, <2>2
  <2> QED BY <2>3
<1>4. Added(t) = (Len(l) + 1)..(Len(l) + Len(s))
  BY <1>0, <1>1 DEF Added
<1> QED BY <1>0, <1>2, <1>3, <1>4

LEMMA LogStays ==
  ASSUME NEW t, RunsGrow(t), log[t] \in Seq(Event), log'[t] = log[t]
  PROVE  Grows(t) /\ Added(t) = {}
<1>1. Len(log[t]) \in Nat /\ DOMAIN log[t] = 1..Len(log[t])
  OBVIOUS
<1>2. (Len(log[t]) + 1)..Len(log[t]) = {}
  BY <1>1
<1> QED BY <1>1, <1>2 DEF Grows, Added

\* The log goes on to name opened runs only.
LEMMA StillTellsOfRuns ==
  ASSUME NEW t, Grows(t), OfOpened(t), TellsOfRuns(t)
  PROVE  TellsOfRuns(t)'
<1> SUFFICES ASSUME NEW m \in 1..Len(log'[t]), log'[t][m].type = "run.completed"
             PROVE  log'[t][m].run \in 1..opened'[t]
  BY DEF TellsOfRuns, Grows
<1>1. m \in 1..Len(log[t]) \/ m \in Added(t)
  BY DEF Grows, Added
<1>2. log'[t][m].run \in 1..opened[t]
  BY <1>1 DEF Grows, OfOpened, TellsOfRuns
<1>3. opened[t] \in Nat /\ opened'[t] \in Nat /\ opened[t] <= opened'[t]
  BY DEF Grows, RunsGrow
<1> QED BY <1>2, <1>3

\* A completion stays the last of an implementation while only reviews complete.
LEMMA StillCoded ==
  ASSUME NEW t, Grows(t), TellsOfRuns(t), OfReviews(t), NEW q, NEW j, CodedAt(t, q, j)
  PROVE  CodedAt(t, q, j)'
<1>1. /\ j \in 1..Len(log[t]) /\ log[t][j] = Ev("run.completed", q)
      /\ Len(log[t]) \in Nat /\ Len(log'[t]) \in Nat /\ Len(log[t]) <= Len(log'[t])
      /\ log'[t][j] = log[t][j] /\ j \in DOMAIN log'[t]
  BY DEF CodedAt, Grows
<1>2. ASSUME NEW m \in (j+1)..Len(log'[t]), log'[t][m].type = "run.completed"
      PROVE  runs'[t][log'[t][m].run].role = "reviewer"
  <2>1. (m \in (j+1)..Len(log[t]) /\ m \in 1..Len(log[t])) \/ m \in Added(t)
    BY <1>1 DEF Added
  <2>2. CASE m \in Added(t)
    BY <1>2, <2>2 DEF OfReviews
  <2>3. CASE m \in (j+1)..Len(log[t]) /\ m \in 1..Len(log[t])
    <3>1. log'[t][m] = log[t][m] /\ m \in DOMAIN log[t]
      BY <2>3 DEF Grows
    <3>2. runs[t][log[t][m].run].role = "reviewer" /\ log[t][m].run \in 1..opened[t]
      BY <1>2, <2>3, <3>1 DEF CodedAt, TellsOfRuns
    <3> QED BY <3>1, <3>2 DEF Grows, RunsGrow
  <2> QED BY <2>1, <2>2, <2>3
<1>3. log'[t][j] = Ev("run.completed", q)'
  BY <1>1 DEF Ev
<1> QED BY <1>1, <1>2, <1>3 DEF CodedAt

\* And the approval of its review stays one.
LEMMA StillApproved ==
  ASSUME NEW t, Grows(t), TellsOfRuns(t), OfReviews(t),
         NEW r \in 1..opened[t], Approved(t, r)
  PROVE  Approved(t, r)'
<1> PICK j \in DOMAIN log[t], k \in DOMAIN log[t] :
      j < k /\ CodedAt(t, runs[t][r].parent, j) /\ log[t][k] = ReviewEv(r, "approved")
  BY DEF Approved
<1> PICK q : q = runs[t][r].parent
  OBVIOUS
<1>1. q = runs'[t][r].parent
  BY DEF Grows, RunsGrow
<1>2. CodedAt(t, q, j)'
  BY StillCoded
<1>3. j \in DOMAIN log'[t] /\ k \in DOMAIN log'[t] /\ log'[t][k] = log[t][k]
  BY DEF Grows
<1> QED BY <1>1, <1>2, <1>3 DEF Approved, ReviewEv

\* A log to which nothing is added is as good as it was.
LEMMA StillOnRecord ==
  ASSUME NEW t, Grows(t), TellsOfRuns(t), EndOnRecord(t), log'[t] = log[t], Added(t) = {}
  PROVE  EndOnRecord(t)'
<1>1. OfReviews(t)
  BY DEF OfReviews
<1> SUFFICES ASSUME NEW i \in DOMAIN log[t], log[t][i].type = "task.completed"
             PROVE  /\ log[t][i].run \in 1..opened'[t]
                    /\ i = Len(log[t]) /\ Approved(t, log[t][i].run)'
  BY DEF EndOnRecord
<1> PICK r : r = log[t][i].run
  OBVIOUS
<1>2. r \in 1..opened[t] /\ i = Len(log[t]) /\ Approved(t, r)
  BY DEF EndOnRecord
<1>3. Approved(t, r)'
  BY <1>1, <1>2, StillApproved
<1>4. opened[t] \in Nat /\ opened'[t] \in Nat /\ opened[t] <= opened'[t]
  BY DEF Grows, RunsGrow
<1> QED BY <1>2, <1>3, <1>4

\* So are the log of a task to which no implementation's completion is added, and its
\* row when it is not given a new role.
LEMMA StillReviewed ==
  ASSUME NEW t, Grows(t), TellsOfRuns(t), OfReviews(t), ReviewOnRecord(t),
         rows'[t].role = "reviewer" =>
           rows[t].role = "reviewer" /\ rows'[t].ctx = rows[t].ctx
  PROVE  ReviewOnRecord(t)'
<1> SUFFICES ASSUME rows'[t].role = "reviewer" PROVE Coded(t, rows[t].ctx.run)'
  BY DEF ReviewOnRecord
<1> PICK q : q = rows[t].ctx.run
  OBVIOUS
<1>1. PICK j : CodedAt(t, q, j)
  BY DEF ReviewOnRecord, Coded
<1>2. CodedAt(t, q, j)'
  BY <1>1, StillCoded
<1>3. j \in DOMAIN log'[t] /\ q = rows'[t].ctx.run
  BY <1>2 DEF CodedAt
<1> QED BY <1>2, <1>3 DEF Coded

\* And what a handler has told, when another one goes on.
LEMMA StillTold ==
  ASSUME NEW v \in Workers, HasTold(v), NEW t, t = job[v].task, NEW r, r = job[v].run,
         pc'[v] = pc[v], job'[v] = job[v],
         pc[v] = "released" => rows'[t].status = rows[t].status,
         Grows(t), TellsOfRuns(t), OfReviews(t),
         pc[v] \in HasResult => r \in 1..opened[t]
  PROVE  HasTold(v)'
<1>1. ASSUME Coded(t, r) PROVE Coded(t, r)'
  <2> PICK j : CodedAt(t, r, j)
    BY <1>1 DEF Coded
  <2>1. CodedAt(t, r, j)'
    BY StillCoded
  <2> QED BY <2>1 DEF Coded, CodedAt
<1>2. r \in 1..opened[t] /\ Approved(t, r) => r \in 1..opened'[t] /\ Approved(t, r)'
  <2>1. opened[t] \in Nat /\ opened'[t] \in Nat /\ opened[t] <= opened'[t]
    BY DEF Grows, RunsGrow
  <2> QED BY <2>1, StillApproved
<1>3. /\ pc[v] \in {"accounted", "persisted"} /\ job[v].outcome = "succeeded" => Coded(t, r)
      /\ pc[v] \in {"accounted", "excluded", "persisted"} /\ job[v].outcome = "approved" =>
           r \in 1..opened[t] /\ Approved(t, r)
      /\ pc[v] = "released" /\ t \in Reviewed /\ rows[t].status = "accepted" =>
           r \in 1..opened[t] /\ Approved(t, r)
  BY DEF HasTold, HasResult
<1>4. /\ pc[v] \in {"accounted", "persisted"} /\ job[v].outcome = "succeeded" => Coded(t, r)'
      /\ pc[v] \in {"accounted", "excluded", "persisted"} /\ job[v].outcome = "approved" =>
           Approved(t, r)'
      /\ pc[v] = "released" /\ t \in Reviewed /\ rows'[t].status = "accepted" =>
           r \in 1..opened'[t] /\ Approved(t, r)'
  BY <1>1, <1>2, <1>3
<1> QED BY <1>4 DEF HasTold

\* But for a run that is opened, a worker gives a run another status at most.
LEMMA RunsOrOne ==
  ASSUME FlowInv, NEW w \in Workers, Move(w), ~OpenRun(w)
  PROVE  /\ opened' = opened
         /\ \/ runs' = runs
            \/ /\ pc[w] \in Launching
               /\ \E s \in RunStatuses, v \in {"none"} \cup Verdicts : SetRun(w, s, v)
<1> DEFINE Goal == /\ opened' = opened
                   /\ \/ runs' = runs
                      \/ /\ pc[w] \in Launching
                         /\ \E s \in RunStatuses, v \in {"none"} \cup Verdicts : SetRun(w, s, v)
<1>1. ASSUME \/ LaunchAgent(w) \/ PrepareFails(w) \/ Interrupt(w)
             \/ ImplementerDone(w) \/ VerifierDone(w) \/ ReviewerDone(w)
      PROVE  Goal
  BY <1>1, RunEffect
<1>2. ASSUME GiveUp(w) PROVE Goal
  BY <1>2 DEF GiveUp, Waiting, Launching, RunStatuses
<1>3. ASSUME \/ ClaimTask(w) \/ Refuse(w) \/ PreLaunch(w) \/ Account(w) \/ SaveReviewContext(w)
             \/ ExcludeOrigin(w) \/ AttachPacket(w) \/ Settle(w) \/ Done(w) \/ Requeue(w)
             \/ Halt(w) \/ Raise(w) \/ LoseTask(w) \/ Abort(w)
      PROVE  Goal
  BY <1>3 DEF ClaimTask, Refuse, PreLaunch, Account, SaveReviewContext, ExcludeOrigin,
     AttachPacket, Settle, Done, Requeue, AfterFailure, Halt, Raise, LoseTask, Abort
<1> HIDE DEF Goal
<1>4. Goal
  BY <1>1, <1>2, <1>3 DEF Move, Step, Answer, Disturb
<1> QED BY <1>4 DEF Goal

\* The task a worker has in hand before or after its step.
LEMMA HandIsJob ==
  ASSUME FlowInv, NEW w \in Workers, Move(w), pc[w] \in Working, NEW u \in Tasks
  PROVE  job[w].task = u <=> u \in {held[w].task, held'[w].task}
<1>1. held[w].task = job[w].task /\ u # NoTask
  BY AtWork, QueueAssumption
<1>2. ~ClaimTask(w)
  BY DEF ClaimTask, MayClaim, Working
<1>3. held'[w] = held[w] \/ held'[w].task = NoTask
  BY <1>2, KeepsHand
<1> QED BY <1>1, <1>3

\* A worker leaves what the runs of any task are of.
LEMMA MoveGrows ==
  ASSUME FlowInv, NEW w \in Workers, Move(w), NEW u \in Tasks
  PROVE  RunsGrow(u)
<1>0. WorkflowTypeOK /\ WithinBudget(u) /\ opened[u] \in Nat
  BY Parts DEF TaskInv, WorkflowTypeOK
<1>1. CASE OpenRun(w)
  <2>1. pc[w] \in Working
    BY <1>1 DEF OpenRun, Working, PCs
  <2>2. CASE u = job[w].task
    <3>1. Opening(w, u, opened[u])
      BY <1>1, <2>2, OpenRunEffect
    <3>2. /\ opened'[u] = opened[u] + 1
          /\ \A r \in 1..opened[u] : runs'[u][r] = runs[u][r]
      BY <3>1 DEF Opening
    <3>3. opened'[u] \in Nat /\ opened[u] <= opened'[u]
      BY <1>0, <3>2
    <3> QED BY <1>0, <3>2, <3>3 DEF RunsGrow
  <2>3. CASE u # job[w].task
    <3>1. runs'[u] = runs[u] /\ opened'[u] = opened[u]
      BY <2>1, <2>3, HandIsJob, TaskFrame
    <3> QED BY <1>0, <3>1 DEF RunsGrow
  <2> QED BY <2>2, <2>3
<1>2. CASE ~OpenRun(w) /\ runs' = runs
  BY <1>0, <1>2, RunsOrOne DEF RunsGrow
<1>3. ASSUME ~OpenRun(w), pc[w] \in Launching,
             NEW s \in RunStatuses, NEW v \in {"none"} \cup Verdicts, SetRun(w, s, v)
      PROVE  RunsGrow(u)
  <2>1. pc[w] \in Working /\ pc[w] \in HasRun
    BY <1>3 DEF Working, HasRun, Launching, PCs
  <2>2. job[w].task \in Tasks /\ job[w].run \in RunIds
    BY <2>1, AtWork, RunNumber
  <2>3. opened' = opened
    BY <1>3, RunsOrOne
  <2>4. CASE u = job[w].task
    <3>1. v \in {"none", "approved", "changes_requested", "rejected"}
      BY DEF Verdicts
    <3>2. OnlyRun(w, s, v)
      BY <1>0, <1>3, <2>2, <3>1, SetRunEffect
    <3>3. \A r \in RunIds : runs'[u][r].role = runs[u][r].role
                            /\ runs'[u][r].parent = runs[u][r].parent
      BY <2>2, <2>4, <3>2 DEF OnlyRun
    <3>4. 1..opened[u] \subseteq RunIds
      BY <1>0, RunsInTable
    <3> QED BY <1>0, <2>3, <3>3, <3>4 DEF RunsGrow
  <2>5. CASE u # job[w].task
    <3>1. runs'[u] = runs[u] /\ opened'[u] = opened[u]
      BY <2>1, <2>5, HandIsJob, TaskFrame
    <3> QED BY <1>0, <3>1 DEF RunsGrow
  <2> QED BY <2>4, <2>5
<1> QED BY <1>1, <1>2, <1>3, RunsOrOne

\* Only the release after a run gives a row another role, or a review another
\* context.
LEMMA RoleStays ==
  ASSUME FlowInv, NEW w \in Workers, Move(w), ~Settle(w), NEW u \in Tasks
  PROVE  /\ rows'[u].role = rows[u].role
         /\ rows[u].role = "reviewer" => rows'[u].ctx = rows[u].ctx
<1>1. CASE u \notin {held[w].task, held'[w].task}
  BY <1>1, TaskFrame
<1>2. CASE u \in {held[w].task, held'[w].task} /\ ~Refuse(w) /\ ~GiveUp(w)
  BY <1>2, QuietRow
<1>3. CASE u \in {held[w].task, held'[w].task} /\ (Refuse(w) \/ GiveUp(w))
  <2>1. pc[w] \in Working /\ QueueTypeOK
    BY <1>3, Parts DEF Refuse, GiveUp, Waiting, Working, PCs
  <2>2. held[w].task = u /\ rows[u].role = job[w].role
    BY <1>3, <2>1, HandIsJob, AtWork
  <2>3. \E s, n : Release(w, s, job[w].role, n)
    BY <1>3 DEF Refuse, GiveUp
  <2> QED BY <2>1, <2>2, <2>3, ReleaseEffect
<1> QED BY <1>1, <1>2, <1>3

\* What the handler of a task may add to its log: something of its run, if of anything.
LEMMA HarmlessLog ==
  ASSUME EndsInv, NEW w \in Workers, pc[w] \in Working, NEW u \in Tasks,
         NEW s, Harmless(s, w), log'[u] = log[u] \o s, RunsGrow(u)
  PROVE  job[w].task = u =>
           /\ Grows(u) /\ OfOpened(u) /\ NoEnds(u)'
           /\ OfReviews(u) \/ job[w].role # "reviewer"
           /\ OfReviews(u) \/ pc[w] \in Completing
<1>0. FlowInv /\ WorkerInv(w) /\ log[u] \in Seq(Event) /\ s \in Seq(Event)
  BY Parts DEF EndsInv, Harmless
<1>1. Grows(u) /\ \A i \in Added(u) : \E m \in DOMAIN s : log'[u][i] = s[m]
  BY <1>0, LogGrows
<1> SUFFICES ASSUME job[w].task = u
             PROVE  /\ Grows(u) /\ OfOpened(u) /\ NoEnds(u)'
                    /\ OfReviews(u) \/ job[w].role # "reviewer"
                    /\ OfReviews(u) \/ pc[w] \in Completing
  OBVIOUS
<1>2. \A i \in Added(u) :
        /\ log'[u][i].type \notin TaskEnds
        /\ log'[u][i].type = "run.completed" =>
             pc[w] \in Completing /\ log'[u][i].run = job[w].run
  BY <1>1 DEF Harmless
<1>3. ASSUME pc[w] \in Completing
      PROVE  job[w].run \in 1..opened[u] /\ runs'[u][job[w].run].role = job[w].role
  <2>0. pc[w] \in HasRun
    BY <1>3 DEF Completing, HasRun, HasResult
  <2>1. job[w].run = opened[u] /\ job[w].run \in Nat \ {0}
    BY <1>0, <2>0, RunNumber
  <2>2. job[w].run \in 1..opened[u] /\ runs[u][job[w].run].role = job[w].role
    BY <1>0, <2>0, <2>1 DEF WorkerInv, OwnRun
  <2> QED BY <2>2 DEF RunsGrow
<1>4. OfOpened(u)
  BY <1>2, <1>3 DEF OfOpened
<1>5. /\ OfReviews(u) \/ job[w].role # "reviewer"
      /\ OfReviews(u) \/ pc[w] \in Completing
  BY <1>2, <1>3 DEF OfReviews
<1>6. NoEnds(u)'
  <2>1. rows[u].status = "dispatched" /\ "dispatched" \notin Terminal
    BY <1>0, AtWork DEF Terminal
  <2>2. \A i \in DOMAIN log[u] : log[u][i].type \notin TaskEnds
    BY <2>1, NotOver DEF NoEnds
  <2>3. \A i \in DOMAIN log'[u] : i \in 1..Len(log[u]) \/ i \in Added(u)
    BY <1>1 DEF Grows, Added
  <2> QED BY <1>1, <1>2, <2>2, <2>3 DEF Grows, NoEnds
<1> QED BY <1>1, <1>4, <1>5, <1>6

\* What a step before the event of a release adds to the log of a task.
LEMMA QuietLog ==
  ASSUME EndsInv, NEW w \in Workers, Quiet(w), NEW u \in Tasks
  PROVE  /\ Grows(u) /\ OfOpened(u)
         /\ \/ log'[u] = log[u] /\ Added(u) = {}
            \/ pc[w] \in Working /\ job[w].task = u /\ NoEnds(u)'
         /\ \/ OfReviews(u)
            \/ pc[w] \in Completing /\ job[w].task = u /\ job[w].role # "reviewer"
<1>0. /\ FlowInv /\ Move(w)
      /\ log \in [Tasks -> Seq(Event)] /\ log[u] \in Seq(Event)
  BY DEF EndsInv, Quiet
<1>1. RunsGrow(u)
  BY <1>0, MoveGrows
<1>2. ASSUME log'[u] = log[u]
      PROVE  Grows(u) /\ OfOpened(u) /\ Added(u) = {} /\ OfReviews(u)
  BY <1>0, <1>1, <1>2, LogStays DEF OfOpened, OfReviews
<1>3. CASE UNCHANGED log
  BY <1>2, <1>3
<1>4. CASE pc[w] \in Working /\ \E s : Harmless(s, w) /\ Tell(w, s)
  <2> PICK s : Harmless(s, w) /\ Tell(w, s)
    BY <1>4
  <2> PICK t \in Tasks : t = job[w].task
    BY <1>0, <1>4, AtWork
  <2>1. s \in Seq(Event)
    BY DEF Harmless
  <2>2. log'[t] = log[t] \o s /\ \A v \in Tasks : v # t => log'[v] = log[v]
    BY <1>0, <2>1, TellEffect
  <2>3. CASE u # t
    BY <1>2, <2>2, <2>3
  <2>4. CASE u = t
    <3>1. log'[u] = log[u] \o s
      BY <2>2, <2>4
    <3> QED BY <1>1, <1>4, <2>4, <3>1, HarmlessLog
  <2> QED BY <2>3, <2>4
<1> QED BY <1>3, <1>4 DEF Quiet

\* Such a step keeps what is on record of any task.
LEMMA QuietTask ==
  ASSUME EndsInv, ApprovalInv, NEW w \in Workers, Quiet(w), NEW u \in Tasks
  PROVE  /\ TellsOfRuns(u)'
         /\ u \in Reviewed => EndOnRecord(u)'
         /\ ~Settle(w) \/ job[w].task # u => ReviewOnRecord(u)'
<1>0. /\ FlowInv /\ Move(w)
      /\ TellsOfRuns(u) /\ ReviewOnRecord(u) /\ (u \in Reviewed => EndOnRecord(u))
  BY DEF EndsInv, Quiet, ApprovalInv
<1>1. /\ Grows(u) /\ OfOpened(u)
      /\ \/ log'[u] = log[u] /\ Added(u) = {}
         \/ NoEnds(u)'
      /\ \/ OfReviews(u)
         \/ pc[w] \in Working /\ job[w].task = u /\ job[w].role # "reviewer"
  BY QuietLog DEF Completing, Launching, Working, PCs
<1>2. TellsOfRuns(u)'
  BY <1>0, <1>1, StillTellsOfRuns
<1>3. ASSUME u \in Reviewed PROVE EndOnRecord(u)'
  <2>1. CASE NoEnds(u)'
    BY <2>1, TaskEventIs DEF NoEnds, EndOnRecord
  <2>2. CASE log'[u] = log[u] /\ Added(u) = {}
    BY <1>0, <1>1, <1>3, <2>2, StillOnRecord
  <2> QED BY <1>1, <2>1, <2>2
<1>4. ASSUME ~Settle(w) \/ job[w].task # u PROVE ReviewOnRecord(u)'
  <2>1. rows'[u].role = rows[u].role
        /\ (rows[u].role = "reviewer" => rows'[u].ctx = rows[u].ctx)
    <3>1. CASE ~Settle(w)
      BY <1>0, <3>1, RoleStays
    <3>2. CASE Settle(w)
      <4>1. pc[w] \in Working
        BY <3>2 DEF Settle, Working, PCs
      <4>2. u \notin {held[w].task, held'[w].task}
        BY <1>0, <1>4, <3>2, <4>1, HandIsJob
      <4> QED BY <1>0, <4>2, TaskFrame
    <3> QED BY <3>1, <3>2
  <2>2. rows[u].role = "reviewer" => OfReviews(u)
    BY <1>0, <1>1, AtWork
  <2>3. CASE rows[u].role = "reviewer"
    BY <1>0, <1>1, <2>1, <2>2, <2>3, StillReviewed
  <2>4. CASE rows[u].role # "reviewer"
    BY <2>1, <2>4 DEF ReviewOnRecord
  <2> QED BY <2>3, <2>4
<1> QED BY <1>2, <1>3, <1>4

\* Two events, one after the other.
LEMMA InARow ==
  ASSUME NEW d \in Event, NEW e \in Event
  PROVE  /\ <<d>> \o <<e>> \in Seq(Event)
         /\ Len(<<d>> \o <<e>>) = 2 /\ DOMAIN (<<d>> \o <<e>>) = 1..2
         /\ (<<d>> \o <<e>>)[1] = d /\ (<<d>> \o <<e>>)[2] = e
<1>1. <<d>> \in Seq(Event) /\ Len(<<d>>) = 1 /\ <<d>>[1] = d
  OBVIOUS
<1>2. <<e>> \in Seq(Event) /\ Len(<<e>>) = 1 /\ <<e>>[1] = e
  OBVIOUS
<1> PICK a \in Seq(Event) : a = <<d>>
  BY <1>1
<1> PICK b \in Seq(Event) : b = <<e>>
  BY <1>2
<1>3. /\ a \o b \in Seq(Event) /\ Len(a \o b) = Len(a) + Len(b)
      /\ DOMAIN (a \o b) = 1..(Len(a) + Len(b))
      /\ \A i \in 1..Len(a) : (a \o b)[i] = a[i]
      /\ \A i \in 1..Len(b) : (a \o b)[Len(a) + i] = b[i]
  BY Behind
<1>4. Len(a) = 1 /\ Len(b) = 1 /\ a[1] = d /\ b[1] = e
  BY <1>1, <1>2
<1>5. (a \o b)[1] = d /\ (a \o b)[1 + 1] = e
  BY <1>3, <1>4
<1> QED BY <1>3, <1>4, <1>5

\* Where the second of two is then.
LEMMA SecondLast ==
  ASSUME NEW l \in Seq(Event), NEW s \in Seq(Event), Len(s) = 2
  PROVE  /\ Len(l) \in Nat /\ DOMAIN l = 1..Len(l)
         /\ Len(l) + 2 \in DOMAIN (l \o s) /\ (l \o s)[Len(l) + 2] = s[2]
<1>1. /\ DOMAIN l = 1..Len(l) /\ Len(l) \in Nat
      /\ DOMAIN (l \o s) = 1..(Len(l) + Len(s))
      /\ \A i \in 1..Len(s) : (l \o s)[Len(l) + i] = s[i]
  BY Behind
<1> QED BY <1>1

\* There is one last element.
LEMMA OneLast ==
  ASSUME NEW S \in SUBSET Nat, NEW p \in S, NEW q \in S,
         \A m \in S : m <= p, \A m \in S : m <= q
  PROVE  p = q
OBVIOUS

\* What the log shows once a run is accounted for.
LEMMA AccountTells ==
  ASSUME EndsInv, ApprovalInv, {"run.completed", "review.completed"} \subseteq Watched,
         NEW w \in Workers, TrailMove(w), Quiet(w), Account(w)
  PROVE  HasTold(w)'
<1> PICK t : t = job[w].task
  OBVIOUS
<1> PICK r : r = job[w].run
  OBVIOUS
<1> PICK o : o = job[w].outcome
  OBVIOUS
<1>0. /\ FlowInv /\ WorkflowTypeOK /\ WorkerInv(w) /\ Move(w) /\ HasTold(w)
      /\ log \in [Tasks -> Seq(Event)]
  BY Parts DEF EndsInv, ApprovalInv, Move, Step
<1>1. /\ pc[w] = "ran" /\ pc[w] \in HasResult /\ pc[w] \in HasRun /\ pc[w] \in Working
      /\ pc'[w] = "accounted" /\ job' = job /\ runs' = runs /\ opened' = opened
  BY <1>0 DEF Account, HasResult, HasRun, Working, PCs, Goto, WorkflowTypeOK
<1>2. /\ t \in Tasks /\ r = opened[t] /\ r \in RunIds /\ r \in Nat \ {0}
      /\ rows[t].role = job[w].role /\ TaskInv(t)
      /\ TellsOfRuns(t) /\ ReviewOnRecord(t)
  BY <1>0, <1>1, AtWork, RunNumber, Parts DEF ApprovalInv
<1>3. Tell(w, RunEnds(r, o))
  BY <1>0, <1>1, RanTells
<1> PICK done : done = Ev("run.completed", r)
  OBVIOUS
<1>4. done \in Event /\ Say("run.completed", r) = <<done>>
  <2>1. done \in Event /\ done.type = "run.completed"
    BY <1>2, EventsAre DEF EventTypes
  <2> QED BY <2>1, SaidIs DEF Say
<1>5. RunsGrow(t)
  BY <1>0, <1>2, MoveGrows
<1>6. ASSUME o = "succeeded" PROVE Coded(t, r)'
  <2>1. RunEnds(r, o) = <<done>>
    BY <1>4, <1>6 DEF RunEnds, Verdicts
  <2>2. <<done>> \in Seq(Event) /\ Len(<<done>>) = 1 /\ <<done>>[1] = done
    BY <1>4
  <2>3. log'[t] = log[t] \o <<done>>
    BY <1>0, <1>2, <1>3, <2>1, <2>2, TellEffect
  <2> PICK l \in Seq(Event) : l = log[t]
    BY <1>0, <1>2
  <2>4. /\ Len(l \o <<done>>) = Len(l) + 1 /\ Len(l) \in Nat
        /\ Len(l) + 1 \in DOMAIN (l \o <<done>>)
        /\ (l \o <<done>>)[Len(l) + 1] = done
    BY <2>2
  <2>5. \A m \in (Len(l) + 1 + 1)..(Len(l) + 1) : FALSE
    BY <2>4
  <2>6. CodedAt(t, r, Len(l) + 1)'
    BY <2>3, <2>4, <2>5 DEF CodedAt, Ev
  <2>7. \E j \in DOMAIN log'[t] : CodedAt(t, r, j)'
    BY <2>3, <2>4, <2>6
  <2> QED BY <2>7 DEF Coded
<1>7. ASSUME o = "approved" PROVE Approved(t, r)'
  <2>1. job[w].role = "reviewer" /\ runs[t][r].role = "reviewer"
    BY <1>0, <1>1, <1>7 DEF WorkerInv, Knows, OwnRun, Verdicts
  <2> PICK q : q = rows[t].ctx.run
    OBVIOUS
  <2>2. runs[t][r].parent = q
    <3> PICK last : last = runs[t][r].parent
      OBVIOUS
    <3>1. r \in 1..opened[t]
      BY <1>2
    <3>2. LatestCoded(t, last, r)
      BY <1>2, <2>1, <3>1 DEF TaskInv, ReviewsOf
    <3>3. LatestCoded(t, q, r + 1)
      BY <1>2, <2>1 DEF TaskInv, ReviewReady
    <3>4. ~IsCoded(t, r)
      BY <2>1 DEF IsCoded
    <3> PICK S : S = {m \in 1..(r - 1) : IsCoded(t, m)}
      OBVIOUS
    <3>5. S \subseteq Nat /\ last \in S /\ \A m \in S : m <= last
      <4>1. last \in 1..(r - 1) /\ IsCoded(t, last)
            /\ \A m \in 1..(r - 1) : IsCoded(t, m) => m <= last
        BY <3>2 DEF LatestCoded
      <4>2. 1..(r - 1) \subseteq Nat
        BY <1>2
      <4> QED BY <4>1, <4>2
    <3>6. q \in 1..((r + 1) - 1) /\ IsCoded(t, q)
          /\ \A m \in 1..((r + 1) - 1) : IsCoded(t, m) => m <= q
      BY <3>3 DEF LatestCoded
    <3>7. 1..((r + 1) - 1) = 1..(r - 1) \cup {r}
      BY <1>2
    <3>8. q \in S /\ \A m \in S : m <= q
      BY <3>4, <3>6, <3>7
    <3> QED BY <3>5, <3>8, OneLast
  <2> PICK j : CodedAt(t, q, j)
    BY <1>2, <2>1 DEF ReviewOnRecord, Coded
  <2> PICK told : told = ReviewEv(r, "approved")
    OBVIOUS
  <2>3. told \in Event /\ told.type = "review.completed" /\ SayVerdict(r, "approved") = <<told>>
    <3>1. told \in Event /\ told.type = "review.completed"
      BY <1>2, EventsAre DEF Verdicts
    <3> QED BY <3>1, SaidIs DEF SayVerdict
  <2> PICK s : s = <<done>> \o <<told>>
    OBVIOUS
  <2>4. RunEnds(r, o) = s
    BY <1>4, <1>7, <2>3 DEF RunEnds, Verdicts
  <2>5. /\ s \in Seq(Event) /\ Len(s) = 2 /\ s[1] = done /\ s[2] = told
        /\ DOMAIN s = 1..2
    BY <1>4, <2>3, InARow
  <2>6. log'[t] = log[t] \o s
    BY <1>0, <1>2, <1>3, <2>4, <2>5, TellEffect
  <2>7. Grows(t) /\ OfReviews(t)
    BY <1>2, <2>1, QuietLog
  <2>10. CodedAt(t, q, j)'
    BY <1>2, <2>7, StillCoded
  <2> PICK l \in Seq(Event) : l = log[t]
    BY <1>0, <1>2
  <2>11. /\ Len(l) \in Nat /\ Len(l) + 2 \in DOMAIN (l \o s) /\ (l \o s)[Len(l) + 2] = told
         /\ DOMAIN l = 1..Len(l)
    <3>1. s \in Seq(Event) /\ Len(s) = 2 /\ s[2] = told
      BY <2>5
    <3> QED BY <3>1, SecondLast
  <2>12. j \in 1..Len(l) /\ j < Len(l) + 2 /\ j \in DOMAIN log'[t]
    <3>1. j \in DOMAIN log[t] /\ j \in DOMAIN log'[t]
      BY <2>10 DEF CodedAt
    <3>2. j \in 1..Len(l)
      BY <2>11, <3>1
    <3> QED BY <2>11, <3>1, <3>2
  <2>13. /\ Len(l) + 2 \in DOMAIN log'[t] /\ log'[t][Len(l) + 2] = ReviewEv(r, "approved")'
         /\ runs'[t][r].parent = q
    BY <1>1, <2>2, <2>6, <2>11 DEF ReviewEv
  <2> QED BY <2>10, <2>12, <2>13 DEF Approved
<1>8. job'[w].task = t /\ job'[w].run = r /\ job'[w].outcome = o
  BY <1>1
<1> QED BY <1>1, <1>6, <1>7, <1>8 DEF HasTold

\* Between the end of a run and its release.
LEMMA AfterAccount ==
  ASSUME FlowInv, NEW w \in Workers, Move(w),
         pc[w] \in {"accounted", "excluded", "persisted"}, pc'[w] # "raised"
  PROVE  /\ SaveReviewContext(w) \/ ExcludeOrigin(w) \/ AttachPacket(w) \/ Settle(w)
         /\ job' = job /\ runs' = runs /\ opened' = opened
<1>0. WorkflowTypeOK
  BY Parts
<1>1. ~Raise(w)
  BY <1>0 DEF Raise, Goto, WorkflowTypeOK
<1>2. SaveReviewContext(w) \/ ExcludeOrigin(w) \/ AttachPacket(w) \/ Settle(w)
  BY <1>1 DEF Move, Step, Answer, Disturb, ClaimTask, MayClaim, Refuse, PreLaunch, OpenRun,
     LaunchAgent, PrepareFails, Interrupt, Account, Done, Requeue, Halt, ImplementerDone,
     VerifierDone, ReviewerDone, Abort, Waiting, GiveUp, LoseTask
<1>3. job' = job /\ runs' = runs /\ opened' = opened
  BY <1>2 DEF SaveReviewContext, ExcludeOrigin, AttachPacket, Settle
<1> QED BY <1>2, <1>3

\* From there on what is on record stays so, and becomes what the row says.
LEMMA AccountedTells ==
  ASSUME EndsInv, ApprovalInv, NEW w \in Workers, Quiet(w),
         pc[w] \in {"accounted", "excluded", "persisted"}, pc'[w] # "raised"
  PROVE  /\ HasTold(w)'
         /\ Settle(w) => ReviewOnRecord(job[w].task)'
<1> PICK t : t = job[w].task
  OBVIOUS
<1> PICK r : r = job[w].run
  OBVIOUS
<1>0. /\ FlowInv /\ WorkflowTypeOK /\ WorkerInv(w) /\ HasTold(w) /\ Move(w)
      /\ log \in [Tasks -> Seq(Event)]
  BY Parts DEF EndsInv, ApprovalInv, Quiet
<1>1. pc[w] \in HasRun /\ pc[w] \in HasResult /\ pc[w] \in Working
  BY DEF HasRun, HasResult, Working, PCs
<1>2. /\ t \in Tasks /\ r \in 1..opened[t] /\ TellsOfRuns(t) /\ ReviewOnRecord(t)
  BY <1>1, <1>0, AtWork, RunNumber DEF ApprovalInv
<1>3. /\ SaveReviewContext(w) \/ ExcludeOrigin(w) \/ AttachPacket(w) \/ Settle(w)
      /\ job' = job /\ runs' = runs /\ opened' = opened
  BY <1>0, AfterAccount
<1>4. Grows(t) /\ OfReviews(t)
  BY <1>2, QuietLog DEF Completing, Launching
<1>5. ASSUME NEW q, Coded(t, q) PROVE Coded(t, q)'
  <2> PICK j : CodedAt(t, q, j)
    BY <1>5 DEF Coded
  <2>1. CodedAt(t, q, j)'
    BY <1>2, <1>4, StillCoded
  <2> QED BY <2>1 DEF Coded, CodedAt
<1>6. Approved(t, r) => Approved(t, r)'
  BY <1>2, <1>4, StillApproved
<1>7. /\ job[w].outcome = "succeeded" /\ pc[w] # "excluded" => Coded(t, r)
      /\ job[w].outcome = "approved" => Approved(t, r)
  BY <1>0 DEF HasTold
<1>8. pc[w] = "excluded" => job[w].outcome # "succeeded"
  BY <1>0 DEF WorkerInv, Noted
<1>9. CASE ~Settle(w)
  <2>1. pc'[w] \in {"excluded", "persisted"}
    BY <1>0, <1>3, <1>9 DEF SaveReviewContext, ExcludeOrigin, AttachPacket, Goto, WorkflowTypeOK
  <2>2. pc'[w] = "persisted" /\ job[w].outcome = "succeeded" => Coded(t, r)'
    BY <1>5, <1>7, <1>8
  <2>3. job[w].outcome = "approved" => Approved(t, r)'
    BY <1>6, <1>7
  <2> QED BY <1>3, <1>9, <2>1, <2>2, <2>3 DEF HasTold
<1>10. CASE Settle(w)
  <2> PICK st : st = NextStatus(w)
    OBVIOUS
  <2> PICK ro : ro = NextRole(w)
    OBVIOUS
  <2>1. Settling(w, t, r, st, ro)
    BY <1>0, <1>10, SettleEffect
  <2>2. HasTold(w)'
    <3>1. pc'[w] = "released" /\ (t \in Reviewed /\ rows'[t].status = "accepted"
                                   => job[w].outcome = "approved")
      BY <2>1 DEF Settling
    <3>2. t \in Reviewed /\ rows'[t].status = "accepted" => r \in 1..opened'[t] /\ Approved(t, r)'
      BY <1>2, <1>3, <1>6, <1>7, <3>1
    <3> QED BY <1>3, <3>1, <3>2 DEF HasTold
  <2>3. ReviewOnRecord(t)'
    <3> PICK q : q = rows[t].ctx.run
      OBVIOUS
    <3>1. rows'[t].ctx.run = q
      BY <2>1 DEF Settling
    <3>2. CASE WantsReview(w)
      <4>1. q = r /\ job[w].outcome = "succeeded"
        BY <2>1, <3>2 DEF Settling, WantsReview
      <4>2. Coded(t, r)
        BY <1>7, <1>8, <4>1
      <4>3. Coded(t, q)'
        BY <1>5, <4>1, <4>2
      <4> QED BY <3>1, <4>3 DEF ReviewOnRecord
    <3>3. CASE ~WantsReview(w)
      <4>1. rows'[t].role = "reviewer" => rows[t].role = "reviewer"
        BY <2>1, <3>3 DEF Settling
      <4>2. rows'[t].role = "reviewer" => Coded(t, q)'
        BY <1>2, <1>5, <4>1 DEF ReviewOnRecord
      <4> QED BY <3>1, <4>2 DEF ReviewOnRecord
    <3> QED BY <3>2, <3>3
  <2> QED BY <1>3, <2>2, <2>3
<1> QED BY <1>9, <1>10
-----------------------------------------------------------------------------
(* Every step keeps it. *)

\* What the handler that goes on has told.
LEMMA OwnTold ==
  ASSUME EndsInv, ApprovalInv, {"run.completed", "review.completed"} \subseteq Watched,
         NEW w \in Workers, TrailMove(w), Quiet(w)
  PROVE  HasTold(w)'
<1>0. /\ FlowInv /\ WorkflowTypeOK /\ QueueTypeOK /\ Move(w) /\ pc[w] # "released"
  BY Parts DEF EndsInv, Quiet
<1>1. CASE Account(w)
  BY <1>1, AccountTells
<1>2. CASE pc[w] \in {"accounted", "excluded", "persisted"} /\ pc'[w] # "raised"
  BY <1>2, AccountedTells
<1>3. CASE ~Account(w) /\ ~(pc[w] \in {"accounted", "excluded", "persisted"} /\ pc'[w] # "raised")
  <2>1. pc'[w] \notin {"accounted", "excluded", "persisted"}
    BY <1>0, <1>3 DEF WorkflowTypeOK, Move, Step, Answer, Disturb, ClaimTask, Refuse, PreLaunch,
       OpenRun, LaunchAgent, PrepareFails, Interrupt, SaveReviewContext, ExcludeOrigin,
       AttachPacket, Settle, Done, Requeue, Halt, AfterFailure, Finish, Goto, ImplementerDone,
       VerifierDone, ReviewerDone, Abort, Raise, LoseTask, GiveUp, Waiting
  <2>2. ASSUME pc'[w] = "released" PROVE rows'[job'[w].task].status # "accepted"
    <3>1. /\ pc[w] \in Working /\ job'[w] = job[w]
          /\ Refuse(w) \/ GiveUp(w) \/ Settle(w)
      BY <1>0, <2>2, ReleasedNow
    <3>2. Refuse(w) \/ GiveUp(w)
      BY <1>3, <2>2, <3>1 DEF Settle
    <3>3. held[w].task = job[w].task /\ job[w].task \in Tasks
      BY <1>0, <3>1, AtWork
    <3>4. \E s \in {"awaiting_human", "failed"}, r \in {job[w].role}, n \in {held[w].attempts} :
            Release(w, s, r, n)
      BY <3>2 DEF Refuse, GiveUp
    <3>5. rows'[job[w].task].status \in {"awaiting_human", "failed"}
      BY <1>0, <3>3, <3>4, ReleaseEffect
    <3> QED BY <3>1, <3>5
  <2> QED BY <2>1, <2>2 DEF HasTold
<1> QED BY <1>1, <1>2, <1>3

\* What another handler has told.
LEMMA OtherTold ==
  ASSUME EndsInv, ApprovalInv, FlowInv', NEW w \in Workers, TrailMove(w), Quiet(w),
         NEW v \in Workers, v # w
  PROVE  HasTold(v)'
<1>0. /\ FlowInv /\ WorkflowTypeOK /\ Move(w) /\ HasTold(v) /\ Apart(w)
      /\ WorkflowTypeOK' /\ HolderOwnsRow'
  BY Parts DEF EndsInv, ApprovalInv, Quiet, TrailMove, FlowInv
<1>1. pc'[v] = pc[v] /\ job'[v] = job[v]
  BY <1>0, WorkerFrame
<1>2. CASE pc[v] \notin HasResult \cup {"released"}
  BY <1>0, <1>1, <1>2 DEF HasTold, HasResult
<1>4. CASE pc[v] = "released"
  <2>1. /\ job[v].task \in Tasks /\ rows'[job[v].task] = rows[job[v].task]
        /\ pc[w] \in Working => job[v].task # job[w].task
    BY <1>0, <1>4, ReleasedApart
  <2> PICK t \in Tasks : t = job[v].task
    BY <2>1
  <2>2. ~(pc[w] \in Working /\ job[w].task = t) /\ rows'[t] = rows[t] /\ TellsOfRuns(t)
    BY <2>1 DEF ApprovalInv
  <2>3. Grows(t) /\ OfReviews(t)
    BY <2>2, QuietLog DEF Completing, Launching, Working, PCs
  <2>4. pc[v] \notin HasResult
    BY <1>4 DEF HasResult
  <2> QED BY <1>0, <1>1, <2>2, <2>3, <2>4, StillTold
<1>3. CASE pc[v] \in HasResult
  <2>1. pc[v] \in Working /\ pc[v] \in HasRun
    BY <1>3 DEF HasResult, HasRun, Working, PCs
  <2> PICK t \in Tasks : t = job[v].task
    BY <1>0, <2>1, AtWork
  <2> PICK r : r = job[v].run
    OBVIOUS
  <2>2. r \in 1..opened[t] /\ TellsOfRuns(t)
    BY <1>0, <2>1, RunNumber DEF ApprovalInv
  <2>3. ~(pc[w] \in Working /\ job[w].task = t)
    BY <1>0, <2>1, OtherStep, AtWork
  <2>4. Grows(t) /\ OfReviews(t)
    BY <2>3, QuietLog DEF Completing, Launching, Working, PCs
  <2>5. pc[v] # "released"
    BY <1>3 DEF HasResult
  <2> QED BY <1>0, <1>1, <2>2, <2>4, <2>5, StillTold
<1> QED BY <1>2, <1>3, <1>4

LEMMA QuietApproval ==
  ASSUME EndsInv, ApprovalInv, FlowInv', {"run.completed", "review.completed"} \subseteq Watched,
         NEW w \in Workers, TrailMove(w), Quiet(w)
  PROVE  ApprovalInv'
<1>0. FlowInv /\ WorkflowTypeOK /\ Move(w)
  BY Parts DEF EndsInv, Quiet
<1>1. ASSUME NEW u \in Tasks, Settle(w), job[w].task = u PROVE ReviewOnRecord(u)'
  <2>1. pc[w] \in {"accounted", "excluded", "persisted"} /\ pc'[w] # "raised" /\ job' = job
    BY <1>0, <1>1 DEF Settle, Goto, WorkflowTypeOK
  <2>2. ReviewOnRecord(job[w].task)'
    BY <1>1, <2>1, AccountedTells
  <2> QED BY <1>1, <2>1, <2>2
<1>2. ASSUME NEW u \in Tasks
      PROVE  TellsOfRuns(u)' /\ ReviewOnRecord(u)' /\ (u \in Reviewed => EndOnRecord(u)')
  BY <1>1, <1>2, QuietTask
<1>3. ASSUME NEW v \in Workers PROVE HasTold(v)'
  BY <1>3, OwnTold, OtherTold
<1> QED BY <1>2, <1>3 DEF ApprovalInv

\* The event of a release puts the acceptance of its task on record.
LEMMA ReleaseOnRecord ==
  ASSUME EndsInv, ApprovalInv, NEW w \in Workers, pc[w] = "released", NEW t \in Tasks,
         NEW s, OfRelease(s, w), log'[t] = log[t] \o s, RunsGrow(t)
  PROVE  job[w].task = t =>
           /\ Grows(t) /\ OfOpened(t) /\ OfReviews(t)
           /\ t \in Reviewed => EndOnRecord(t)'
<1>0. log[t] \in Seq(Event) /\ s \in Seq(Event) /\ TellsOfRuns(t) /\ HasTold(w)
  BY DEF EndsInv, ApprovalInv, OfRelease
<1>1. Grows(t) /\ \A i \in Added(t) : \E m \in DOMAIN s : log'[t][i] = s[m]
  BY <1>0, LogGrows
<1>2. Len(log[t] \o s) = Len(log[t]) + Len(s) /\ Len(s) \in Nat /\ Len(log[t]) \in Nat
  BY <1>0
<1> SUFFICES ASSUME job[w].task = t
             PROVE  /\ OfOpened(t) /\ OfReviews(t)
                    /\ t \in Reviewed => EndOnRecord(t)'
  BY <1>1
<1>3. \A i \in Added(t) :
        /\ log'[t][i].type = TaskEvent(rows[t].status)
        /\ log'[t][i].run = job[w].run
  BY <1>1 DEF OfRelease
<1>4. OfOpened(t) /\ OfReviews(t)
  BY <1>3, TaskEventIs DEF OfOpened, OfReviews
<1>5. ASSUME t \in Reviewed, NEW i \in DOMAIN log'[t], log'[t][i].type = "task.completed"
      PROVE  /\ log'[t][i].run \in 1..opened'[t]
             /\ i = Len(log'[t]) /\ Approved(t, log[t][i].run)'
  <2>1. i \in 1..Len(log[t]) \/ i \in Added(t)
    BY <1>1 DEF Grows, Added
  <2>2. i \notin 1..Len(log[t])
    <3>1. NoEnds(t)
      BY NotOver
    <3> QED BY <1>1, <1>5, <3>1, TaskEventIs DEF NoEnds, Grows
  <2>3. rows[t].status = "accepted" /\ log'[t][i].run = job[w].run
    BY <1>3, <1>5, <2>1, <2>2, TaskEventIs
  <2> PICK r : r = job[w].run
    OBVIOUS
  <2>4. r \in 1..opened[t] /\ Approved(t, r)
    BY <1>0, <1>5, <2>3 DEF HasTold
  <2>5. Approved(t, r)'
    BY <1>0, <1>1, <1>4, <2>4, StillApproved
  <2>6. r \in 1..opened'[t]
    BY <1>1, <2>4 DEF Grows, RunsGrow
  <2>7. i = Len(log'[t])
    BY <1>2, <2>1, <2>2 DEF Added, OfRelease
  <2> QED BY <2>3, <2>5, <2>6, <2>7
<1>6. t \in Reviewed => EndOnRecord(t)'
  BY <1>5 DEF EndOnRecord
<1> QED BY <1>4, <1>6

\* A step that opens no run, and after which every handler is where it was or has
\* nothing to tell any more.
LEMMA RestApproval ==
  ASSUME EndsInv, ApprovalInv, runs' = runs, opened' = opened,
         \A t \in Tasks : /\ Grows(t) /\ OfOpened(t) /\ OfReviews(t)
                          /\ t \in Reviewed => EndOnRecord(t)'
                          /\ rows'[t].role = "reviewer" =>
                               rows[t].role = "reviewer" /\ rows'[t].ctx = rows[t].ctx,
         \A v \in Workers :
           \/ pc'[v] \in {"off", "idle"}
           \/ /\ pc'[v] = pc[v] /\ job'[v] = job[v]
              /\ pc[v] = "released" => rows'[job[v].task].status = rows[job[v].task].status
  PROVE  ApprovalInv'
<1>0. FlowInv /\ WorkflowTypeOK
  BY Parts DEF EndsInv
<1>1. ASSUME NEW t \in Tasks
      PROVE  TellsOfRuns(t)' /\ ReviewOnRecord(t)' /\ (t \in Reviewed => EndOnRecord(t)')
  <2>1. TellsOfRuns(t) /\ ReviewOnRecord(t)
    BY DEF ApprovalInv
  <2> QED BY <2>1, StillTellsOfRuns, StillReviewed
<1>2. ASSUME NEW v \in Workers PROVE HasTold(v)'
  <2>0. HasTold(v)
    BY DEF ApprovalInv
  <2>1. CASE pc'[v] \in {"off", "idle"}
    BY <2>1 DEF HasTold
  <2>2. CASE pc'[v] = pc[v] /\ job'[v] = job[v] /\ pc[v] \notin HasResult \cup {"released"}
    BY <2>2 DEF HasTold, HasResult
  <2>3. CASE /\ pc'[v] = pc[v] /\ job'[v] = job[v]
             /\ pc[v] = "released" => rows'[job[v].task].status = rows[job[v].task].status
             /\ pc[v] \in HasResult \cup {"released"}
    <3>1. job[v].task \in Tasks /\ (pc[v] \in HasResult => job[v].run \in 1..opened[job[v].task])
      <4>1. CASE pc[v] = "released"
        BY <4>1 DEF EndsInv, JustReleased, HasResult
      <4>2. CASE pc[v] \in HasResult
        <5>1. pc[v] \in Working /\ pc[v] \in HasRun
          BY <4>2 DEF HasResult, HasRun, Working, PCs
        <5> QED BY <1>0, <5>1, AtWork, RunNumber
      <4> QED BY <2>3, <4>1, <4>2
    <3> PICK t \in Tasks : t = job[v].task
      BY <3>1
    <3>2. Grows(t) /\ TellsOfRuns(t) /\ OfReviews(t)
      BY DEF ApprovalInv
    <3> QED BY <2>0, <2>3, <3>1, <3>2, StillTold
  <2> QED BY <2>1, <2>2, <2>3
<1> QED BY <1>1, <1>2 DEF ApprovalInv

\* A log of which nothing more is told.
LEMMA SilentTask ==
  ASSUME EndsInv, ApprovalInv, NEW t \in Tasks, log'[t] = log[t], RunsGrow(t)
  PROVE  /\ Grows(t) /\ OfOpened(t) /\ OfReviews(t)
         /\ t \in Reviewed => EndOnRecord(t)'
<1>1. log[t] \in Seq(Event) /\ TellsOfRuns(t) /\ (t \in Reviewed => EndOnRecord(t))
  BY DEF EndsInv, ApprovalInv
<1>2. Grows(t) /\ Added(t) = {}
  BY <1>1, LogStays
<1>3. OfOpened(t) /\ OfReviews(t)
  BY <1>2 DEF OfOpened, OfReviews
<1> QED BY <1>1, <1>2, <1>3, StillOnRecord

LEMMA RunsAreSame ==
  ASSUME FlowInv, runs' = runs, opened' = opened, NEW t \in Tasks
  PROVE  RunsGrow(t)
<1>1. WorkflowTypeOK
  BY Parts
<1>2. opened[t] \in Nat
  BY <1>1 DEF WorkflowTypeOK
<1> QED BY <1>2 DEF RunsGrow

LEMMA DoneApproval ==
  ASSUME EndsInv, ApprovalInv, NEW w \in Workers, Done(w), Tells(w)
  PROVE  ApprovalInv'
<1>0. /\ FlowInv /\ WorkflowTypeOK /\ Move(w) /\ pc[w] = "released" /\ JustReleased(w)
      /\ log \in [Tasks -> Seq(Event)] /\ rows' = rows /\ runs' = runs /\ opened' = opened
  BY Parts DEF EndsInv, Done, Move, Step, queueVars
<1>1. ASSUME NEW v \in Workers PROVE pc'[v] = "idle" \/ (pc'[v] = pc[v] /\ job'[v] = job[v])
  BY <1>0, <1>1, WorkerFrame DEF Done, Goto, WorkflowTypeOK
<1> PICK t \in Tasks : t = job[w].task
  BY <1>0 DEF JustReleased
<1> PICK s : s = Say(TaskEvent(rows[t].status), job[w].run)
  OBVIOUS
<1>2. Tell(w, s)
  BY <1>0 DEF Tells, Told
<1>3. job[w].run \in RunIds \cup {NoRun}
  BY <1>0 DEF WorkflowTypeOK, Job
<1>4. OfRelease(s, w)
  BY <1>3, ReleaseIsTold
<1>5. log'[t] = log[t] \o s /\ \A u \in Tasks : u # t => log'[u] = log[u]
  BY <1>0, <1>2, <1>4, TellEffect DEF OfRelease
<1>6. ASSUME NEW u \in Tasks
      PROVE  /\ Grows(u) /\ OfOpened(u) /\ OfReviews(u)
             /\ u \in Reviewed => EndOnRecord(u)'
  <2>1. RunsGrow(u)
    BY <1>0, RunsAreSame
  <2>2. CASE u = t
    <3>1. log'[u] = log[u] \o s
      BY <1>5, <2>2
    <3> QED BY <1>0, <1>4, <2>1, <2>2, <3>1, ReleaseOnRecord
  <2>3. CASE u # t
    BY <1>5, <2>1, <2>3, SilentTask
  <2> QED BY <2>2, <2>3
<1>7. \A u \in Tasks : /\ Grows(u) /\ OfOpened(u) /\ OfReviews(u)
                       /\ u \in Reviewed => EndOnRecord(u)'
                       /\ rows'[u].role = "reviewer" =>
                            rows[u].role = "reviewer" /\ rows'[u].ctx = rows[u].ctx
  BY <1>0, <1>6
<1>8. \A v \in Workers :
        \/ pc'[v] \in {"off", "idle"}
        \/ /\ pc'[v] = pc[v] /\ job'[v] = job[v]
           /\ pc[v] = "released" => rows'[job[v].task].status = rows[job[v].task].status
  BY <1>0, <1>1
<1> QED BY <1>0, <1>7, <1>8, RestApproval

\* A release that is taken back takes nothing from the record.
LEMMA LateApproval ==
  ASSUME EndsInv, ApprovalInv, NEW w \in Workers, LateRequeue(w), UNCHANGED log
  PROVE  ApprovalInv'
<1>0. FlowInv /\ QueueTypeOK
  BY Parts DEF EndsInv
<1> PICK t \in Tasks : t = job[w].task
  BY LateEffect
<1>1. /\ pc'[w] = "idle" /\ runs' = runs /\ opened' = opened
      /\ rows' = [rows EXCEPT ![t] = [rows[t] EXCEPT !.status = "queued", !.owner = NoWorker,
                                                     !.lease = NoLease]]
      /\ \A v \in Workers : v # w => pc'[v] = pc[v] /\ job'[v] = job[v]
      /\ \A v \in Workers : pc'[v] = "released" => job[v].task # t
  BY LateEffect
<1>2. ASSUME NEW u \in Tasks
      PROVE  /\ rows'[u].role = rows[u].role /\ rows'[u].ctx = rows[u].ctx
             /\ u # t => rows'[u] = rows[u]
  BY <1>0, <1>1 DEF QueueTypeOK, Row
<1>3. ASSUME NEW u \in Tasks
      PROVE  /\ Grows(u) /\ OfOpened(u) /\ OfReviews(u)
             /\ u \in Reviewed => EndOnRecord(u)'
  <2>1. RunsGrow(u) /\ log'[u] = log[u]
    BY <1>0, <1>1, RunsAreSame
  <2> QED BY <2>1, SilentTask
<1>4. \A u \in Tasks : /\ Grows(u) /\ OfOpened(u) /\ OfReviews(u)
                       /\ u \in Reviewed => EndOnRecord(u)'
                       /\ rows'[u].role = "reviewer" =>
                            rows[u].role = "reviewer" /\ rows'[u].ctx = rows[u].ctx
  BY <1>2, <1>3
<1>5. \A v \in Workers :
        \/ pc'[v] \in {"off", "idle"}
        \/ /\ pc'[v] = pc[v] /\ job'[v] = job[v]
           /\ pc[v] = "released" => rows'[job[v].task].status = rows[job[v].task].status
  <2>1. ASSUME NEW v \in Workers, pc[v] = "released" PROVE job[v].task \in Tasks
    BY <2>1 DEF EndsInv, JustReleased
  <2> QED BY <1>1, <1>2, <2>1
<1> QED BY <1>1, <1>4, <1>5, RestApproval

\* Nothing is told by the command line, by the clock and by an abort that is sent.
LEMMA OthersApproval ==
  ASSUME EndsInv, ApprovalInv, TrailOthers \/ UNCHANGED trailVars
  PROVE  ApprovalInv'
<1>0. /\ FlowInv /\ WorkflowTypeOK /\ QueueTypeOK /\ log' = log
      /\ runs' = runs /\ opened' = opened
  BY Parts DEF EndsInv, TrailOthers, trailVars, vars, Submit, Start, Stop, TimePasses, Abort,
     flowVars
<1>1. \A t \in Tasks :
        /\ rows'[t].role = "reviewer" => rows[t].role = "reviewer" /\ rows'[t].ctx = rows[t].ctx
        /\ rows[t].status # "absent" => rows'[t] = rows[t]
  <2>1. ASSUME NEW u \in Tasks, Submit(u), NEW t \in Tasks
        PROVE  /\ t # u => rows'[t] = rows[t]
               /\ rows'[u].role = "implementer" /\ rows[u].status = "absent"
    <3>1. PICK excl \in Presets : Enqueue(u, excl)
      BY <2>1 DEF Submit
    <3>2. rows' = [rows EXCEPT ![u] =
                     [AbsentRow EXCEPT !.status = "queued", !.at = now, !.excl = excl]]
          /\ rows[u].status = "absent"
      BY <3>1 DEF Enqueue
    <3>3. rows'[u] = [AbsentRow EXCEPT !.status = "queued", !.at = now, !.excl = excl]
          /\ (t # u => rows'[t] = rows[t])
      BY <1>0, <3>2 DEF QueueTypeOK
    <3>4. [AbsentRow EXCEPT !.status = "queued", !.at = now, !.excl = excl].role = "implementer"
      BY DEF AbsentRow
    <3> QED BY <3>2, <3>3, <3>4
  <2>2. CASE \E u \in Tasks : Submit(u)
    BY <2>1, <2>2
  <2>3. CASE Start \/ Stop \/ TimePasses \/ (\E w \in Workers : Abort(w)) \/ UNCHANGED trailVars
    BY <2>3 DEF Start, Forget, Stop, TimePasses, Tick, Abort, trailVars, vars, queueVars
  <2> QED BY <2>2, <2>3 DEF TrailOthers
<1>2. \/ pc' = pc /\ job' = job
      \/ \A v \in Workers : pc'[v] = "idle"
  BY DEF TrailOthers, Submit, Start, Stop, TimePasses, Abort, trailVars, vars, flowVars
<1>3. ASSUME NEW t \in Tasks
      PROVE  /\ Grows(t) /\ OfOpened(t) /\ OfReviews(t)
             /\ t \in Reviewed => EndOnRecord(t)'
  <2>1. RunsGrow(t) /\ log'[t] = log[t]
    BY <1>0, RunsAreSame
  <2> QED BY <2>1, SilentTask
<1>4. \A t \in Tasks : /\ Grows(t) /\ OfOpened(t) /\ OfReviews(t)
                       /\ t \in Reviewed => EndOnRecord(t)'
                       /\ rows'[t].role = "reviewer" =>
                            rows[t].role = "reviewer" /\ rows'[t].ctx = rows[t].ctx
  BY <1>1, <1>3
<1>5. ASSUME NEW v \in Workers, pc[v] = "released"
      PROVE  rows[job[v].task].status # "absent" /\ job[v].task \in Tasks
  BY <1>5 DEF EndsInv, JustReleased
<1>6. \A v \in Workers :
        \/ pc'[v] \in {"off", "idle"}
        \/ /\ pc'[v] = pc[v] /\ job'[v] = job[v]
           /\ pc[v] = "released" => rows'[job[v].task].status = rows[job[v].task].status
  BY <1>1, <1>2, <1>5
<1> QED BY <1>0, <1>4, <1>6, RestApproval

\* Whatever was told before the process died.
LEMMA CrashApproval ==
  ASSUME EndsInv, ApprovalInv, TrailCrash
  PROVE  ApprovalInv'
<1>0. /\ FlowInv /\ rows' = rows /\ runs' = runs /\ opened' = opened
      /\ \A v \in Workers : pc'[v] = "off"
  BY DEF EndsInv, TrailCrash, Crash, Forget
<1> PICK told : /\ \A t \in Tasks : told[t] \in LastWords(t)
                /\ log' = [t \in Tasks |-> log[t] \o told[t]]
  BY DEF TrailCrash
<1>1. ASSUME NEW t \in Tasks
      PROVE  TellsOfRuns(t)' /\ ReviewOnRecord(t)' /\ (t \in Reviewed => EndOnRecord(t)')
  <2>0. /\ RunsGrow(t) /\ TellsOfRuns(t) /\ ReviewOnRecord(t)
        /\ rows'[t] = rows[t] /\ log[t] \in Seq(Event)
    BY <1>0, RunsAreSame DEF ApprovalInv, EndsInv
  <2> PICK s : s = told[t]
    OBVIOUS
  <2>1. s \in LastWords(t) /\ log'[t] = log[t] \o s
    BY <1>1
  <2>2. ASSUME Grows(t), OfOpened(t), OfReviews(t), t \in Reviewed => EndOnRecord(t)'
        PROVE  TellsOfRuns(t)' /\ ReviewOnRecord(t)' /\ (t \in Reviewed => EndOnRecord(t)')
    BY <2>0, <2>2, StillTellsOfRuns, StillReviewed
  <2>3. CASE s = <<>>
    <3>0. \A l \in Seq(Event) : l \o <<>> = l
      OBVIOUS
    <3>1. log'[t] = log[t]
      BY <2>0, <2>1, <2>3, <3>0
    <3> QED BY <2>0, <2>2, <3>1, SilentTask
  <2>4. ASSUME NEW w \in Workers, pc[w] = "released", job[w].task = t, OfRelease(s, w)
        PROVE  TellsOfRuns(t)' /\ ReviewOnRecord(t)' /\ (t \in Reviewed => EndOnRecord(t)')
    <3>1. /\ Grows(t) /\ OfOpened(t) /\ OfReviews(t)
          /\ t \in Reviewed => EndOnRecord(t)'
      BY <2>0, <2>1, <2>4, ReleaseOnRecord
    <3> QED BY <2>2, <3>1
  <2>5. ASSUME NEW w \in Workers, pc[w] \in Working, job[w].task = t, Harmless(s, w)
        PROVE  TellsOfRuns(t)' /\ ReviewOnRecord(t)' /\ (t \in Reviewed => EndOnRecord(t)')
    <3>1. /\ Grows(t) /\ OfOpened(t) /\ NoEnds(t)'
          /\ OfReviews(t) \/ job[w].role # "reviewer"
      BY <2>0, <2>1, <2>5, HarmlessLog
    <3>2. EndOnRecord(t)'
      BY <3>1, TaskEventIs DEF NoEnds, EndOnRecord
    <3>3. CASE OfReviews(t)
      BY <2>2, <3>1, <3>2, <3>3
    <3>4. CASE job[w].role # "reviewer"
      <4>1. rows[t].role # "reviewer"
        BY <1>0, <2>5, <3>4, AtWork
      <4>2. ReviewOnRecord(t)'
        BY <2>0, <4>1 DEF ReviewOnRecord
      <4> QED BY <2>0, <3>1, <3>2, <4>2, StillTellsOfRuns
    <3> QED BY <3>1, <3>3, <3>4
  <2> QED BY <2>1, <2>3, <2>4, <2>5, LastWordsAre
<1>2. \A v \in Workers : HasTold(v)'
  BY <1>0 DEF HasTold
<1> QED BY <1>1, <1>2 DEF ApprovalInv

\* ApprovalInv is kept by every step, when the completions and the verdicts are
\* followed.
LEMMA ApprovalNext ==
  ASSUME {"run.completed", "review.completed"} \subseteq Watched
  PROVE  EndsInv /\ ApprovalInv /\ [TrailNext]_trailVars => ApprovalInv'
<1> SUFFICES ASSUME EndsInv, ApprovalInv, [TrailNext]_trailVars PROVE ApprovalInv'
  OBVIOUS
<1>1. CASE TrailOthers \/ UNCHANGED trailVars
  BY <1>1, OthersApproval
<1>2. CASE TrailCrash
  BY <1>2, CrashApproval
<1>3. ASSUME NEW w \in Workers, TrailMove(w) PROVE ApprovalInv'
  <2>1. FlowInv /\ FlowInv'
    BY TrailKeepsFlow DEF EndsInv
  <2>2. CASE Quiet(w)
    BY <1>3, <2>1, <2>2, QuietApproval
  <2>3. CASE Done(w) /\ Tells(w)
    BY <2>3, DoneApproval
  <2>4. CASE LateRequeue(w) /\ UNCHANGED log
    BY <2>4, LateApproval
  <2> QED BY <1>3, <2>1, <2>2, <2>3, <2>4, MoveTells
<1> QED BY <1>1, <1>2, <1>3 DEF TrailNext, TrailMove

LEMMA ApprovalInit == TrailInit => ApprovalInv
<1> SUFFICES ASSUME TrailInit PROVE ApprovalInv
  OBVIOUS
<1>1. /\ log = [t \in Tasks |-> <<>>] /\ \A w \in Workers : pc[w] = "off"
      /\ \A t \in Tasks : rows[t].role = "implementer"
  BY DEF TrailInit, Init, QueueInit, AbsentRow
<1> QED BY <1>1 DEF ApprovalInv, TellsOfRuns, ReviewOnRecord, EndOnRecord, HasTold

\* Whoever follows the log finds, for a reviewed task that was completed, the approval
\* by the run that completed it, of an implementation after which no other one was
\* completed (the events of runReviewer(), finishRun() and handleReviewerOutcome()).
THEOREM AcceptancesAreOnRecord ==
  ASSUME {"run.completed", "review.completed"} \subseteq Watched
  PROVE  TrailSpec => []AcceptanceOnRecord
<1>1. EndsInv /\ ApprovalInv => AcceptanceOnRecord
  <2> SUFFICES ASSUME EndsInv, ApprovalInv, NEW t \in Reviewed, NEW i \in DOMAIN log[t],
                      log[t][i].type = "task.completed"
               PROVE  \E j, k \in 1..i :
                        /\ j < k
                        /\ log[t][j] = Ev("run.completed", runs[t][log[t][i].run].parent)
                        /\ log[t][k] = ReviewEv(log[t][i].run, "approved")
                        /\ \A m \in (j+1)..i : log[t][m].type = "run.completed" =>
                             runs[t][log[t][m].run].role = "reviewer"
    BY DEF AcceptanceOnRecord
  <2>1. t \in Tasks /\ EndOnRecord(t) /\ log[t] \in Seq(Event)
    BY WorkflowAssumption DEF EndsInv, ApprovalInv
  <2>2. i = Len(log[t]) /\ Approved(t, log[t][i].run) /\ DOMAIN log[t] = 1..i
    BY <2>1 DEF EndOnRecord
  <2> QED BY <2>2 DEF Approved, CodedAt
<1>2. EndsInv /\ ApprovalInv /\ [TrailNext]_trailVars => ApprovalInv'
  BY ApprovalNext
<1>3. EndsInv /\ [TrailNext]_trailVars => EndsInv'
  BY EndsNext
<1> QED BY <1>1, <1>2, <1>3, ApprovalInit, EndsInit, PTL DEF TrailSpec
=============================================================================
