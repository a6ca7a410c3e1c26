-------------------------- MODULE SessionSnapshot --------------------------
(***************************************************************************)
(* What a reader in another process finds of a run, while it goes on and   *)
(* afterwards: SqliteSessionSnapshotReader (session-snapshot.ts), and what *)
(* reconstructWorktreeFromSessionSnapshot() (session-fork.ts) makes of it. *)
(*                                                                         *)
(* RunExecution and OrchestratorV0 take all that runTaskOnce() does        *)
(* between two awaits as one step.  Every write of it is a transaction of  *)
(* its own, and a reader that has none reads the task, its runs and their  *)
(* artifacts one after the other: between any of the writes.  So the       *)
(* journal of the writes says all that can ever be read, as nothing is     *)
(* taken back: three reads are three of its prefixes, each no shorter than *)
(* the one before.                                                         *)
(***************************************************************************)
EXTENDS OrchestratorV0, SequencesExt

VARIABLE journal   \* what was written of the run, and of its task because of it

sessionVars == <<flowVars, journal>>

\* The status of the row; the kind of an artifact, for its row with its URI; a
\* column of the task's row.
RunRow(status)  == [of |-> "run", is |-> status]
Artifact(kind)  == [of |-> "artifact", is |-> kind]
TaskRow(column) == [of |-> "task", is |-> column]

\* Which of the writes were made to a table.  No two artifacts of a run share a file
\* name: the place of one stands for its URI.
In(ws, table) == {n \in DOMAIN ws : ws[n].of = table}

\* The row has the status it was given last.
StatusAfter(ws) ==
  IF In(ws, "run") = {} THEN "none" ELSE ws[Max(In(ws, "run"))].is
-----------------------------------------------------------------------------
(* The writes of a version 1 run.  Version 0 has no row in task_queue, and get() *)
(* of the reader finds nothing of it.                                            *)

\* createRunContext(); the row gets its base_commit together with "running".
Opening == <<RunRow("preparing"), Artifact("task_capsule"), RunRow("running")>>

Brief      == IF role = "implementer" THEN <<>>
              ELSE <<Artifact("task_capsule"), Artifact("diff")>>
NotApplied == <<Artifact("stdout_tail"), Artifact("stderr_tail"), Artifact("diff")>>

Output  == <<Artifact("stdout_tail"), Artifact("stderr_tail")>>
Report  == <<Artifact("final_report")>>
Verdict == <<Artifact("review_verdict")>>

\* What runImplementer() and runReviewer() save once their agent is done.
AfterAgent ==
  IF role = "implementer"
  THEN {Output \o <<Artifact("diff")>> \o report \o <<Artifact("task_capsule")>> :
           report \in {<<>>, Report}}
  ELSE CASE outcome' \in Verdicts           -> {Output \o Verdict}
         [] outcome' = "reviewer_unusable"  -> {Output \o Verdict, Output \o Verdict \o Report}
         [] outcome' \in {"internal_error", "gave_up"} -> {Output \o Verdict \o Report}
         [] OTHER                           -> {Output}

\* What there is to save before the agent starts, or in its stead.
BeforeAgent ==
  CASE outcome' = "diff_apply_failed" -> {Opening \o NotApplied}
    [] outcome' = "context_failed"    -> {Opening}
    [] outcome' = "none"              -> {Opening \o Brief}
    [] OTHER -> {Opening \o Brief} \cup
                IF role = "reviewer" THEN {Opening \o NotApplied} ELSE {}

\* What a step saves before it ends the run, if it does, and when nothing fails.
Saves ==
  IF pc' = pc \/ pc = "stat" \/ outcome' = "interrupted" THEN {<<>>}
  ELSE CASE pc = "called" -> BeforeAgent
         [] pc = "agent"  -> AfterAgent
         [] pc = "verify" -> {<<Artifact("verification_output")>>}

\* Only after a success, a later write of the step may fail, and then the catch
\* fails the run that has succeeded.
Succeeds ==
  \/ pc = "agent" /\ ~Failed(AgentResult) /\ (role = "reviewer" \/ plan = 0)
  \/ pc = "verify" /\ Passed(results')

Ended == {"succeeded", "failed", "cancelled"}

\* How a step ends the run whose writes so far are ws; there must be a row to end.
Ends(ws) ==
  IF StatusAfter(ws) = run'.status THEN {<<>>}
  ELSE IF StatusAfter(ws) = "none" \/ run'.status \notin Ended THEN {}
  ELSE {<<RunRow(run'.status)>>} \cup
       IF run'.status = "failed" /\ outcome' \in {"internal_error", "gave_up"} /\ Succeeds
       THEN {<<RunRow("succeeded"), RunRow("failed")>>} ELSE {}

\* What there is to save after the agent or the commands follows the status.
Writes_StatusFirst ==
  \E saves \in Saves : \E end \in Ends(journal \o saves) :
    journal' = journal \o IF pc = "called" THEN saves \o end ELSE end \o saves

\* A write after those that were saved has failed: never one of a success, and none
\* of createRunContext() where the error is not answered as one of it.
Breaks(saved, end) ==
  /\ outcome' \in {"internal_error", "context_failed", "gave_up"}
  /\ RunRow("succeeded") \notin ToSet(end)
  /\ \/ outcome' = "context_failed" \/ run'.status \in {"none", "preparing"}
     \/ RunRow("running") \in ToSet(journal \o saved)

\* A step saves all there is to save, or up to a write that fails, and ends the run.
Writes ==
  \E saves \in Saves : \E saved \in Prefixes(saves) :
    \E end \in Ends(journal \o saved) :
      /\ saved = saves \/ Breaks(saved, end)
      /\ journal' = journal \o saved \o end

SessionStep ==
  /\ FlowNext
  /\ IF V1 THEN Writes ELSE UNCHANGED journal

\* What the worker's handler saves because of an implementer's run, when its task
\* is reviewed or goes on: the packet belongs to the run (persist()).
HandlerSaves ==
  CASE outcome = "succeeded" -> <<TaskRow("review_context")>>
    [] outcome \in {"verification_failed", "agent_nonzero_exit", "agent_timed_out", "quota"} ->
         <<Artifact("handoff_packet"), TaskRow("handoff_packet_uri")>>
    [] OTHER -> <<>>

\* All of it or what can be written.
HandlerStep ==
  /\ V1 /\ pc = "done" /\ role = "implementer"
  /\ \A n \in DOMAIN HandlerSaves : HandlerSaves[n] \notin ToSet(journal)
  /\ \E saved \in Prefixes(HandlerSaves) \ {<<>>} : journal' = journal \o saved
  /\ UNCHANGED flowVars

SessionInit == FlowInit /\ journal = <<>>
SessionNext == SessionStep \/ HandlerStep
SessionSpec == SessionInit /\ [][SessionNext]_sessionVars

\* The fairness of FairFlowSpec; nobody need have a handler.
FairSessionSpec ==
  /\ SessionSpec
  /\ WF_sessionVars((V0Step \/ V1Step) /\ SessionStep)
  /\ WF_sessionVars((FlowTimeout \/ FlowChildEnds) /\ SessionStep)
-----------------------------------------------------------------------------
(* The reader: the task after i writes, the runs after j, the artifacts after k. *)

Before(n) == SubSeq(journal, 1, n)

\* The artifacts are read first and the task last.
Snapshot_Backwards(i, j, k) ==
  [task      |-> {journal[n] : n \in In(Before(k), "task")},
   status    |-> StatusAfter(Before(j)),
   based     |-> RunRow("running") \in ToSet(Before(j)),
   artifacts |-> In(Before(i), "artifact")]

\* get(), as far as the run and what the task says of it goes: based says that it
\* has a base_commit.  Artifacts are those of the runs that were read.
Snapshot(i, j, k) ==
  LET status == StatusAfter(Before(j))
  IN  [task      |-> {journal[n] : n \in In(Before(i), "task")},
       status    |-> status,
       based     |-> RunRow("running") \in ToSet(Before(j)),
       artifacts |-> IF status = "none" THEN {} ELSE In(Before(k), "artifact")]

\* All that a reader may find at any time so far.
Snapshots ==
  UNION {{Snapshot(i, j, k) : i \in 0..j, k \in j..Len(journal)} : j \in 0..Len(journal)}
-----------------------------------------------------------------------------
(* The fork: reconstructWorktreeFromSessionSnapshot(), by the run or by the URI  *)
(* of an artifact.                                                               *)

DiffsIn(s) == {n \in s.artifacts : journal[n].is = "diff"}

SelectRun(s) ==
  IF s.status = "none" THEN "selected_run_not_found"
  ELSE IF DiffsIn(s) = {} THEN "diff_artifact_missing"
  ELSE IF \E m, n \in DiffsIn(s) : m # n THEN "multiple_diff_artifacts" ELSE "selected"

SelectUri(s, uri) ==
  IF uri \notin s.artifacts THEN "diff_artifact_uri_not_in_snapshot"
  ELSE IF journal[uri].is # "diff" THEN "diff_artifact_uri_not_diff" ELSE "selected"

\* What the work order asked for is preferred to what the run had.
Base_RefFirst(s, baseRef) ==
  IF baseRef THEN "base_ref" ELSE IF s.based THEN "base_commit" ELSE "snapshot_base_missing"

\* The commit the diff is applied to; baseRef says that the work order names one.
Base(s, baseRef) ==
  IF s.based THEN "base_commit" ELSE IF baseRef THEN "base_ref" ELSE "snapshot_base_missing"

\* The commit, or the error.
Fork(s, selection, baseRef) ==
  IF selection = "selected" THEN Base(s, baseRef) ELSE selection
-----------------------------------------------------------------------------
(* Properties. *)

\* Whatever the task's row refers to is in the snapshot with it, although nothing
\* makes the three reads one: the run under review, which succeeded and can be
\* forked, and the packet of a run that failed (get() reads in the opposite order of
\* the writes of runTaskOnce(), persist(), setReviewContext() and
\* setHandoffPacketUri()).
ReferencesAreMet ==
  \A s \in Snapshots :
    /\ TaskRow("review_context") \in s.task =>
         /\ s.status = "succeeded"
         /\ Fork(s, SelectRun(s), FALSE) = "base_commit"
    /\ TaskRow("handoff_packet_uri") \in s.task =>
         /\ s.status = "failed"
         /\ \E n \in s.artifacts : journal[n] = Artifact("handoff_packet")

\* A run that is shown as ended is shown with all it ever saved, but for the packet
\* made of it later; even where it is shown as a success that was taken back
\* (finishRun() comes after the artifacts, listRunsStmt before them).
EndedRunIsWhole ==
  \A s \in Snapshots : \A n \in In(journal, "artifact") :
    s.status \in Ended => n \in s.artifacts \/ journal[n].is = "handoff_packet"

\* A diff is put back on the commit it was made from.  The one way to the work
\* order's base_ref, which may have moved on, is a reader that saw the run in
\* preparation and its artifacts only when the agent was done.  And a run has never
\* two diffs to choose from, however its review went.
ForkedOnItsBase ==
  \A s \in Snapshots : \A uri \in In(journal, "artifact") :
    \A selection \in {SelectRun(s), SelectUri(s, uri)} :
      /\ selection # "multiple_diff_artifacts"
      /\ Fork(s, selection, TRUE) = "base_ref" => s.status = "preparing"
=============================================================================
