------------------------ MODULE SessionSnapshotProofs ------------------------
(***************************************************************************)
(* Proofs about SessionSnapshot, for any number of commands and any run:   *)
(* what a reader in another process can find is consistent, whichever of   *)
(* the writes it falls between.                                            *)
(*                                                                         *)
(* A snapshot is three prefixes of the journal, so what has to be known is *)
(* the order of the writes in it (JournalOK), which says nothing of where  *)
(* the run is.  SessionInv ties it to the run: which rows there can be at  *)
(* each place where runTaskOnce() waits (Journal).  The invariant of       *)
(* RunExecutionProofs has to go with it, since what the handler saves      *)
(* depends on the answer, and a reader relates that to the row.            *)
(***************************************************************************)
EXTENDS SessionSnapshot, RunExecutionProofs, SequenceTheorems

Written == Open \cup Ended \cup
  {"task_capsule", "diff", "stdout_tail", "stderr_tail", "final_report",
   "review_verdict", "verification_output", "handoff_packet",
   "review_context", "handoff_packet_uri"}

Entry == [of : {"run", "artifact", "task"}, is : Written]

\* A run has no way back: each status comes after those of a lower rank.
Rank(status) ==
  IF status = "preparing" THEN 0
  ELSE IF status = "running" THEN 1
  ELSE IF status = "succeeded" THEN 2 ELSE 3

Ranked(ws) ==
  /\ \A n \in In(ws, "run") : ws[n].is \in Open \cup Ended
  /\ \A m, n \in In(ws, "run") : m < n => Rank(ws[m].is) < Rank(ws[n].is)

\* Nothing is saved of a run that has ended but the packet.
Settled(ws) ==
  \A m \in In(ws, "run") : \A n \in In(ws, "artifact") :
    m < n /\ ws[m].is \in Ended => ws[n].is = "handoff_packet"

HasDiff(ws) == \E n \in DOMAIN ws : ws[n] = Artifact("diff")

\* There is one diff at most, and what it applies to was noted before.
DiffOK(ws) ==
  /\ \A m, n \in DOMAIN ws : ws[m] = Artifact("diff") /\ ws[n] = Artifact("diff") => m = n
  /\ \A n \in DOMAIN ws : ws[n] = Artifact("diff") =>
       \E m \in DOMAIN ws : m < n /\ ws[m] = RunRow("running")

\* The task refers to a run whose status is final and to what was saved before.
RefersBack(ws) ==
  /\ \A m \in In(ws, "run") : \A n \in In(ws, "task") : m < n
  /\ \A n \in In(ws, "task") :
       /\ ws[n] = TaskRow("review_context") =>
            /\ StatusAfter(ws) = "succeeded"
            /\ \E m \in DOMAIN ws : m < n /\ ws[m] = Artifact("diff")
       /\ ws[n] = TaskRow("handoff_packet_uri") =>
            /\ StatusAfter(ws) = "failed"
            /\ \E m \in DOMAIN ws : m < n /\ ws[m] = Artifact("handoff_packet")

JournalOK(ws) ==
  ws \in Seq(Entry) /\ Ranked(ws) /\ Settled(ws) /\ DiffOK(ws) /\ RefersBack(ws)

\* As long as a run goes on it has no end, and its task does not refer to it.
GoingOn(ws) ==
  /\ \A n \in In(ws, "run") : ws[n].is \notin Ended
  /\ In(ws, "task") = {}

\* What was written when runTaskOnce() waits there, or has answered.
Journal ==
  /\ JournalOK(journal)
  /\ StatusAfter(journal) = run.status
  /\ pc = "called" => journal = <<>>
  /\ pc # "done" => GoingOn(journal)
  /\ pc \in {"stat", "agent"} /\ role = "implementer" => ~HasDiff(journal)
  /\ pc = "verify" => role = "implementer" /\ HasDiff(journal)
  /\ pc = "done" /\ role = "implementer" /\ outcome = "succeeded" => HasDiff(journal)

SessionInv ==
  /\ EitherInv
  /\ V0 => journal = <<>>
  /\ V1 => Journal
-----------------------------------------------------------------------------
(* The journal and its prefixes. *)

\* Where the rows of a table are, is where they were, and where they were added.
LEMMA InIsPlace ==
  ASSUME NEW ws \in Seq(Entry), NEW table, NEW n
  PROVE  n \in In(ws, table) <=> n \in 1..Len(ws) /\ ws[n].of = table
BY DEF In

\* An entry is its table and what it says.
LEMMA RunEntry ==
  ASSUME NEW ws \in Seq(Entry), NEW n \in 1..Len(ws), ws[n].of = "run"
  PROVE  ws[n] = RunRow(ws[n].is)
<1> PICK e \in Entry : e = ws[n]
  OBVIOUS
<1>1. e = [of |-> e.of, is |-> e.is]
  BY DEF Entry
<1> QED BY <1>1 DEF RunRow

\* So is that of an artifact.
LEMMA ArtifactEntry ==
  ASSUME NEW ws \in Seq(Entry), NEW n \in 1..Len(ws), ws[n].of = "artifact"
  PROVE  ws[n] = Artifact(ws[n].is)
<1> PICK e \in Entry : e = ws[n]
  OBVIOUS
<1>1. e = [of |-> e.of, is |-> e.is]
  BY DEF Entry
<1> QED BY <1>1 DEF Artifact

\* Of two rows of a run the later one has the higher rank, so one is the last.
LEMMA LastStatusIs ==
  ASSUME NEW ws \in Seq(Entry), NEW m \in In(ws, "run"),
         \A n \in In(ws, "run") : n <= m
  PROVE  StatusAfter(ws) = ws[m].is
<1>1. \A n \in In(ws, "run") : n \in Nat
  BY DEF In
<1>2. Max(In(ws, "run")) = m
  <2>1. m \in In(ws, "run") /\ \A n \in In(ws, "run") : m >= n
    BY <1>1
  <2>2. \A x \in In(ws, "run") : (\A n \in In(ws, "run") : x >= n) => x = m
    BY <1>1
  <2> QED BY <2>1, <2>2 DEF Max
<1> QED BY <1>2 DEF StatusAfter

\* A row that was given a status has one, and it is that of its last write.
LEMMA StatusIsWritten ==
  ASSUME NEW ws \in Seq(Entry), Ranked(ws), In(ws, "run") # {}
  PROVE  \E m \in In(ws, "run") : /\ StatusAfter(ws) = ws[m].is
                                  /\ \A n \in In(ws, "run") : n <= m
<1>1. /\ \A n \in In(ws, "run") : n \in Nat
      /\ \A n \in In(ws, "run") : Rank(ws[n].is) \in {0, 1, 2, 3}
  BY DEF In, Rank
<1>2. \E m \in In(ws, "run") : \A n \in In(ws, "run") : Rank(ws[n].is) <= Rank(ws[m].is)
  <2>1. ASSUME NEW k \in {0, 1, 2, 3}, NEW m \in In(ws, "run"), Rank(ws[m].is) = k,
               \A n \in In(ws, "run") : \A h \in {0, 1, 2, 3} : h > k => Rank(ws[n].is) # h
        PROVE  \A n \in In(ws, "run") : Rank(ws[n].is) <= Rank(ws[m].is)
    BY <1>1, <2>1
  <2> DEFINE Has(k) == \E m \in In(ws, "run") : Rank(ws[m].is) = k
  <2>2. ASSUME NEW k \in {0, 1, 2, 3}, Has(k), \A h \in {0, 1, 2, 3} : h > k => ~Has(h)
        PROVE  \E m \in In(ws, "run") :
                 \A n \in In(ws, "run") : Rank(ws[n].is) <= Rank(ws[m].is)
    <3>1. PICK m \in In(ws, "run") : Rank(ws[m].is) = k
      BY <2>2
    <3>2. \A n \in In(ws, "run") : \A h \in {0, 1, 2, 3} : h > k => Rank(ws[n].is) # h
      BY <2>2
    <3> QED BY <2>1, <3>1, <3>2
  <2>3. Has(0) \/ Has(1) \/ Has(2) \/ Has(3)
    BY <1>1
  <2> HIDE DEF Has
  <2>4. Has(3) \/ (Has(2) /\ ~Has(3)) \/ (Has(1) /\ ~Has(2) /\ ~Has(3))
               \/ (Has(0) /\ ~Has(1) /\ ~Has(2) /\ ~Has(3))
    BY <2>3
  <2>5. \E k \in {0, 1, 2, 3} : Has(k) /\ \A h \in {0, 1, 2, 3} : h > k => ~Has(h)
    BY <2>4
  <2> QED BY <2>2, <2>5
<1>3. PICK m \in In(ws, "run") :
        \A n \in In(ws, "run") : Rank(ws[n].is) <= Rank(ws[m].is)
  BY <1>2
<1>4. \A n \in In(ws, "run") : n <= m
  <2> SUFFICES ASSUME NEW n \in In(ws, "run"), m < n PROVE FALSE
    BY <1>1
  <2>1. Rank(ws[m].is) < Rank(ws[n].is)
    BY DEF Ranked
  <2>2. Rank(ws[n].is) <= Rank(ws[m].is)
    BY <1>3
  <2> QED BY <1>1, <2>1, <2>2
<1> QED BY <1>3, <1>4, LastStatusIs

\* And it is one a row can have.
LEMMA StatusIsStatus ==
  ASSUME NEW ws \in Seq(Entry), Ranked(ws)
  PROVE  /\ StatusAfter(ws) \in {"none"} \cup Open \cup Ended
         /\ StatusAfter(ws) = "none" <=> In(ws, "run") = {}
<1>1. CASE In(ws, "run") = {}
  BY <1>1 DEF StatusAfter
<1>2. CASE In(ws, "run") # {}
  BY <1>2, StatusIsWritten DEF Ranked, Open, Ended
<1> QED BY <1>1, <1>2

\* The status of a row depends on nothing that is not a write of it.
LEMMA StatusKept ==
  ASSUME NEW ws \in Seq(Entry), NEW vs \in Seq(Entry), Ranked(ws),
         In(vs, "run") = In(ws, "run"),
         \A n \in In(ws, "run") : vs[n] = ws[n]
  PROVE  StatusAfter(vs) = StatusAfter(ws) /\ Ranked(vs)
<1>1. Ranked(vs)
  BY DEF Ranked
<1>2. ASSUME In(ws, "run") = {} PROVE StatusAfter(vs) = StatusAfter(ws)
  BY <1>2 DEF StatusAfter
<1>3. ASSUME In(ws, "run") # {} PROVE StatusAfter(vs) = StatusAfter(ws)
  <2>1. PICK m \in In(ws, "run") : /\ StatusAfter(ws) = ws[m].is
                                  /\ \A n \in In(ws, "run") : n <= m
    BY <1>3, StatusIsWritten
  <2>2. StatusAfter(vs) = vs[m].is
    BY <2>1, LastStatusIs
  <2> QED BY <2>1, <2>2
<1> QED BY <1>1, <1>2, <1>3

\* What is added to a journal is found behind it.
LEMMA Joined ==
  ASSUME NEW ws \in Seq(Entry), NEW xs \in Seq(Entry)
  PROVE  /\ ws \o xs \in Seq(Entry)
         /\ \A n \in 1..Len(ws) : (ws \o xs)[n] = ws[n]
         /\ \A n \in 1..Len(xs) : (ws \o xs)[Len(ws) + n] = xs[n]
         /\ \A n \in 1..Len(ws \o xs) :
              n \in 1..Len(ws) \/ \E m \in 1..Len(xs) : n = Len(ws) + m
         /\ Len(ws \o xs) = Len(ws) + Len(xs)
<1>1. /\ ws \o xs \in Seq(Entry) /\ Len(ws \o xs) = Len(ws) + Len(xs)
      /\ Len(ws) \in Nat /\ Len(xs) \in Nat
  OBVIOUS
<1>2. \A n \in 1..Len(ws) : (ws \o xs)[n] = ws[n]
  OBVIOUS
<1>3. \A n \in 1..Len(xs) : (ws \o xs)[Len(ws) + n] = xs[n]
  BY <1>1
<1>4. ASSUME NEW n \in 1..Len(ws \o xs), n \notin 1..Len(ws)
      PROVE  \E m \in 1..Len(xs) : n = Len(ws) + m
  <2>1. n - Len(ws) \in 1..Len(xs) /\ n = Len(ws) + (n - Len(ws))
    BY <1>1, <1>4
  <2> QED BY <2>1
<1> QED BY <1>1, <1>2, <1>3, <1>4
-----------------------------------------------------------------------------
(* What is written to a journal that is in order. *)

\* Artifacts of a run that goes on, one diff among them at most and none if there
\* is one, are in order behind its journal.
LEMMA SavedKeeps ==
  ASSUME NEW ws, NEW xs \in Seq(Entry), JournalOK(ws), GoingOn(ws),
         \A n \in DOMAIN xs : xs[n].of = "artifact",
         \A m, n \in DOMAIN xs : xs[m] = Artifact("diff") /\ xs[n] = Artifact("diff") => m = n,
         HasDiff(xs) => ~HasDiff(ws) /\ StatusAfter(ws) = "running"
  PROVE  /\ JournalOK(ws \o xs) /\ GoingOn(ws \o xs)
         /\ StatusAfter(ws \o xs) = StatusAfter(ws)
         /\ HasDiff(ws \o xs) <=> HasDiff(ws) \/ HasDiff(xs)
<1> DEFINE vs == ws \o xs
<1>1. ws \in Seq(Entry) /\ vs \in Seq(Entry)
  BY Joined DEF JournalOK
<1>2. /\ \A n \in 1..Len(ws) : vs[n] = ws[n]
      /\ \A n \in 1..Len(xs) : vs[Len(ws) + n] = xs[n]
      /\ \A n \in 1..Len(vs) :
           n \in 1..Len(ws) \/ \E m \in 1..Len(xs) : n = Len(ws) + m
      /\ Len(vs) = Len(ws) + Len(xs)
      /\ Len(ws) \in Nat /\ Len(xs) \in Nat
  BY <1>1, Joined
<1>3. /\ DOMAIN ws = 1..Len(ws) /\ DOMAIN xs = 1..Len(xs) /\ DOMAIN vs = 1..Len(vs)
  BY <1>1
<1> HIDE DEF vs
<1>4. /\ In(vs, "run") = In(ws, "run") /\ In(vs, "task") = {} /\ In(ws, "task") = {}
      /\ \A n \in In(ws, "run") : vs[n] = ws[n] /\ n \in 1..Len(ws)
  <2>1. ASSUME NEW n \in 1..Len(vs), n \notin 1..Len(ws) PROVE vs[n].of = "artifact"
    <3>1. PICK m \in 1..Len(xs) : n = Len(ws) + m
      BY <1>2, <2>1
    <3>2. xs[m].of = "artifact" /\ vs[n] = xs[m]
      BY <1>2, <1>3, <3>1
    <3> QED BY <3>2
  <2>2. \A n \in 1..Len(ws) : n \in 1..Len(vs)
    BY <1>2
  <2>3. ASSUME NEW table \in {"run", "task"} PROVE In(vs, table) = In(ws, table)
    <3>1. In(vs, table) = {n \in 1..Len(vs) : vs[n].of = table}
      BY <1>3 DEF In
    <3>2. In(ws, table) = {n \in 1..Len(ws) : ws[n].of = table}
      BY <1>3 DEF In
    <3>3. \A n \in 1..Len(vs) : vs[n].of = table => n \in 1..Len(ws)
      BY <2>1
    <3> QED BY <1>2, <2>2, <3>1, <3>2, <3>3
  <2> QED BY <1>2, <1>3, <2>3 DEF In, GoingOn
<1>5. StatusAfter(vs) = StatusAfter(ws) /\ Ranked(vs) /\ Ranked(ws)
  BY <1>1, <1>4, StatusKept DEF JournalOK
<1>6. GoingOn(vs)
  BY <1>4 DEF GoingOn
<1>7. Settled(vs) /\ RefersBack(vs)
  BY <1>4, <1>6 DEF Settled, RefersBack, GoingOn
<1>8. HasDiff(vs) <=> HasDiff(ws) \/ HasDiff(xs)
  <2>1. ASSUME HasDiff(ws) PROVE HasDiff(vs)
    <3>1. PICK n \in 1..Len(ws) : ws[n] = Artifact("diff")
      BY <1>3, <2>1 DEF HasDiff
    <3>2. n \in DOMAIN vs /\ vs[n] = Artifact("diff")
      BY <1>2, <1>3, <3>1
    <3> QED BY <3>2 DEF HasDiff
  <2>2. ASSUME HasDiff(xs) PROVE HasDiff(vs)
    <3>1. PICK n \in 1..Len(xs) : xs[n] = Artifact("diff")
      BY <1>3, <2>2 DEF HasDiff
    <3>2. Len(ws) + n \in DOMAIN vs /\ vs[Len(ws) + n] = Artifact("diff")
      BY <1>2, <1>3, <3>1
    <3> QED BY <3>2 DEF HasDiff
  <2>3. ASSUME HasDiff(vs) PROVE HasDiff(ws) \/ HasDiff(xs)
    <3>1. PICK n \in 1..Len(vs) : vs[n] = Artifact("diff")
      BY <1>3, <2>3 DEF HasDiff
    <3>2. CASE n \in 1..Len(ws)
      BY <1>2, <1>3, <3>1, <3>2 DEF HasDiff
    <3>3. CASE n \notin 1..Len(ws)
      <4>1. PICK m \in 1..Len(xs) : n = Len(ws) + m
        BY <1>2, <3>3
      <4> QED BY <1>2, <1>3, <3>1, <4>1 DEF HasDiff
    <3> QED BY <3>2, <3>3
  <2> QED BY <2>1, <2>2, <2>3
<1>9. DiffOK(vs)
  <2>1. ASSUME NEW m \in DOMAIN vs, NEW n \in DOMAIN vs,
               vs[m] = Artifact("diff"), vs[n] = Artifact("diff")
        PROVE  m = n
    <3>1. CASE m \in 1..Len(ws) /\ n \in 1..Len(ws)
      BY <1>2, <1>3, <2>1, <3>1 DEF JournalOK, DiffOK
    <3>2. CASE m \notin 1..Len(ws) /\ n \notin 1..Len(ws)
      <4>1. PICK m1 \in 1..Len(xs) : m = Len(ws) + m1
        BY <1>2, <1>3, <3>2
      <4>2. PICK n1 \in 1..Len(xs) : n = Len(ws) + n1
        BY <1>2, <1>3, <3>2
      <4>3. xs[m1] = Artifact("diff") /\ xs[n1] = Artifact("diff")
        BY <1>2, <2>1, <4>1, <4>2
      <4>4. m1 = n1
        BY <1>3, <4>3
      <4> QED BY <4>1, <4>2, <4>4
    <3>3. ASSUME NEW a \in 1..Len(ws), NEW b \in DOMAIN vs, b \notin 1..Len(ws),
                 vs[a] = Artifact("diff"), vs[b] = Artifact("diff")
          PROVE  FALSE
      <4>1. PICK b1 \in 1..Len(xs) : b = Len(ws) + b1
        BY <1>2, <1>3, <3>3
      <4>2. HasDiff(ws) /\ HasDiff(xs)
        BY <1>2, <1>3, <3>3, <4>1 DEF HasDiff
      <4> QED BY <4>2
    <3> QED BY <2>1, <3>1, <3>2, <3>3
  <2>2. ASSUME NEW n \in DOMAIN vs, vs[n] = Artifact("diff")
        PROVE  \E m \in DOMAIN vs : m < n /\ vs[m] = RunRow("running")
    <3>1. CASE n \in 1..Len(ws)
      <4>1. PICK m \in 1..Len(ws) : m < n /\ ws[m] = RunRow("running")
        BY <1>2, <1>3, <2>2, <3>1 DEF JournalOK, DiffOK
      <4>2. m \in DOMAIN vs /\ vs[m] = ws[m]
        BY <1>2, <1>3, <4>1
      <4> QED BY <4>1, <4>2
    <3>2. CASE n \notin 1..Len(ws)
      <4>1. PICK n1 \in 1..Len(xs) : n = Len(ws) + n1
        BY <1>2, <1>3, <3>2
      <4>2. StatusAfter(ws) = "running"
        BY <1>2, <1>3, <2>2, <4>1 DEF HasDiff
      <4>3. In(ws, "run") # {}
        BY <4>2 DEF StatusAfter
      <4>4. PICK m \in In(ws, "run") : ws[m].is = "running"
        BY <1>1, <1>5, <4>2, <4>3, StatusIsWritten
      <4>5. ws[m] = RunRow("running") /\ m \in 1..Len(ws)
        BY <1>1, <4>4, InIsPlace, RunEntry
      <4>6. m \in DOMAIN vs /\ m < n /\ vs[m] = ws[m]
        BY <1>2, <1>3, <4>1, <4>5
      <4> QED BY <4>5, <4>6
    <3> QED BY <3>1, <3>2
  <2> QED BY <2>1, <2>2 DEF DiffOK
<1> QED BY <1>1, <1>5, <1>6, <1>7, <1>8, <1>9 DEF JournalOK, vs

\* A status of a higher rank is the one the row has from then on.
LEMMA RowKeeps ==
  ASSUME NEW ws, NEW status \in Open \cup Ended, JournalOK(ws), In(ws, "task") = {},
         \A n \in In(ws, "run") : Rank(ws[n].is) < Rank(status)
  PROVE  /\ JournalOK(Append(ws, RunRow(status)))
         /\ In(Append(ws, RunRow(status)), "task") = {}
         /\ StatusAfter(Append(ws, RunRow(status))) = status
         /\ HasDiff(ws) => HasDiff(Append(ws, RunRow(status)))
         /\ \A n \in In(Append(ws, RunRow(status)), "run") :
              \/ n \in In(ws, "run") /\ Append(ws, RunRow(status))[n] = ws[n]
              \/ Append(ws, RunRow(status))[n] = RunRow(status)
<1> DEFINE vs == Append(ws, RunRow(status))
<1>0. RunRow(status) \in Entry
  BY DEF RunRow, Entry, Written
<1>1. ws \in Seq(Entry) /\ vs \in Seq(Entry)
  BY <1>0 DEF JournalOK
<1>2. /\ \A n \in 1..Len(ws) : vs[n] = ws[n]
      /\ vs[Len(ws) + 1] = RunRow(status)
      /\ Len(vs) = Len(ws) + 1
      /\ Len(ws) \in Nat
      /\ DOMAIN ws = 1..Len(ws) /\ DOMAIN vs = 1..(Len(ws) + 1)
  BY <1>0, <1>1
<1> HIDE DEF vs
<1>3. \A n \in DOMAIN vs : n \in DOMAIN ws \/ n = Len(ws) + 1
  BY <1>2
<1>4. /\ In(vs, "run") = In(ws, "run") \cup {Len(ws) + 1}
      /\ In(vs, "task") = {} /\ In(vs, "artifact") = In(ws, "artifact")
  BY <1>2, <1>3 DEF In, RunRow
<1>5. \A n \in In(ws, "run") \cup In(ws, "artifact") :
        n \in 1..Len(ws) /\ vs[n] = ws[n] /\ n < Len(ws) + 1
  BY <1>2 DEF In
<1>6. StatusAfter(vs) = status
  <2>1. \A n \in In(vs, "run") : n <= Len(ws) + 1
    BY <1>2, <1>4, <1>5
  <2> QED BY <1>1, <1>2, <1>4, <2>1, LastStatusIs DEF RunRow
<1>7. Ranked(vs)
  <2>1. \A n \in In(vs, "run") : vs[n].is \in Open \cup Ended
    BY <1>2, <1>4, <1>5 DEF JournalOK, Ranked, RunRow
  <2>2. ASSUME NEW m \in In(vs, "run"), NEW n \in In(vs, "run"), m < n
        PROVE  Rank(vs[m].is) < Rank(vs[n].is)
    <3>1. m \in In(ws, "run")
      BY <1>2, <1>4, <1>5, <2>2
    <3>2. CASE n \in In(ws, "run")
      BY <1>5, <2>2, <3>1, <3>2 DEF JournalOK, Ranked
    <3>3. CASE n = Len(ws) + 1
      BY <1>2, <1>5, <3>1, <3>3 DEF RunRow
    <3> QED BY <1>4, <3>2, <3>3
  <2> QED BY <2>1, <2>2 DEF Ranked
<1>8. Settled(vs)
  <2> SUFFICES ASSUME NEW m \in In(vs, "run"), NEW n \in In(ws, "artifact"),
                      m < n, vs[m].is \in Ended
               PROVE  vs[n].is = "handoff_packet"
    BY <1>4 DEF Settled
  <2>1. m \in In(ws, "run")
    BY <1>2, <1>4, <1>5
  <2> QED BY <1>5, <2>1 DEF JournalOK, Settled
<1>9. DiffOK(vs) /\ (HasDiff(ws) => HasDiff(vs))
  <2>1. \A n \in DOMAIN vs : vs[n] = Artifact("diff") => n \in DOMAIN ws /\ ws[n] = vs[n]
    BY <1>2, <1>3 DEF RunRow, Artifact
  <2>2. \A n \in DOMAIN ws : n \in DOMAIN vs /\ ws[n] = vs[n]
    BY <1>2
  <2> QED BY <2>1, <2>2 DEF JournalOK, DiffOK, HasDiff
<1>10. RefersBack(vs)
  BY <1>4 DEF RefersBack
<1>11. \A n \in In(vs, "run") :
         (n \in In(ws, "run") /\ vs[n] = ws[n]) \/ vs[n] = RunRow(status)
  BY <1>2, <1>4, <1>5
<1> QED BY <1>1, <1>4, <1>6, <1>7, <1>8, <1>9, <1>10, <1>11 DEF JournalOK, vs

\* What a step ends the run with is in order behind what it has saved of it, and
\* leaves the row with the run's status.
LEMMA EndKeeps ==
  ASSUME NEW ws, JournalOK(ws), GoingOn(ws), NEW end \in Ends(ws)
  PROVE  /\ JournalOK(ws \o end) /\ In(ws \o end, "task") = {}
         /\ StatusAfter(ws \o end) = run'.status
         /\ HasDiff(ws) => HasDiff(ws \o end)
         /\ end = <<>> \/ run'.status \in Ended
<1>1. /\ ws \in Seq(Entry) /\ Ranked(ws) /\ In(ws, "task") = {}
      /\ \A n \in In(ws, "run") : ws[n].is \in Open
  BY DEF JournalOK, GoingOn, Ranked
<1>2. CASE StatusAfter(ws) = run'.status
  <2>1. end = <<>>
    BY <1>2 DEF Ends
  <2>2. ws \o end = ws
    BY <1>1, <2>1
  <2> QED BY <1>1, <1>2, <2>1, <2>2
<1>3. CASE StatusAfter(ws) # run'.status
  <2>1. /\ run'.status \in Ended
        /\ \/ end = <<RunRow(run'.status)>>
           \/ run'.status = "failed" /\ end = <<RunRow("succeeded"), RunRow("failed")>>
    BY <1>3 DEF Ends
  <2>2. \A status \in Ended : \A n \in In(ws, "run") : Rank(ws[n].is) < Rank(status)
    BY <1>1 DEF Open, Ended, Rank
  <2>3. CASE end = <<RunRow(run'.status)>>
    <3>1. ws \o end = Append(ws, RunRow(run'.status))
      BY <1>1, <2>3
    <3> QED BY <1>1, <2>1, <2>2, <3>1, RowKeeps
  <2>4. CASE run'.status = "failed" /\ end = <<RunRow("succeeded"), RunRow("failed")>>
    <3> DEFINE vs == Append(ws, RunRow("succeeded"))
    <3>1. /\ JournalOK(vs) /\ In(vs, "task") = {} /\ (HasDiff(ws) => HasDiff(vs))
          /\ \A n \in In(vs, "run") : \/ n \in In(ws, "run") /\ vs[n] = ws[n]
                                      \/ vs[n] = RunRow("succeeded")
      BY <1>1, <2>2, RowKeeps DEF Ended
    <3>2. ws \o end = Append(vs, RunRow("failed"))
      BY <1>1, <2>4
    <3> HIDE DEF vs
    <3>3. \A n \in In(vs, "run") : Rank(vs[n].is) < Rank("failed")
      BY <2>2, <3>1 DEF Ended, Rank, RunRow
    <3>4. /\ JournalOK(Append(vs, RunRow("failed")))
          /\ In(Append(vs, RunRow("failed")), "task") = {}
          /\ StatusAfter(Append(vs, RunRow("failed"))) = "failed"
          /\ HasDiff(vs) => HasDiff(Append(vs, RunRow("failed")))
      BY <3>1, <3>3, RowKeeps DEF Ended
    <3> QED BY <2>1, <2>4, <3>1, <3>2, <3>4
  <2> QED BY <2>1, <2>3, <2>4
<1> QED BY <1>2, <1>3

\* The packet of a run is saved when the run has ended.
LEMMA PacketKeeps ==
  ASSUME NEW ws, JournalOK(ws)
  PROVE  /\ JournalOK(Append(ws, Artifact("handoff_packet")))
         /\ StatusAfter(Append(ws, Artifact("handoff_packet"))) = StatusAfter(ws)
         /\ HasDiff(ws) => HasDiff(Append(ws, Artifact("handoff_packet")))
<1> DEFINE packet == Artifact("handoff_packet")
<1> DEFINE vs == Append(ws, packet)
<1>0. packet \in Entry /\ packet.of = "artifact" /\ packet.is = "handoff_packet"
  BY DEF Artifact, Entry, Written
<1>1. ws \in Seq(Entry) /\ vs \in Seq(Entry)
  BY <1>0 DEF JournalOK
<1>2. /\ \A n \in 1..Len(ws) : vs[n] = ws[n]
      /\ vs[Len(ws) + 1] = packet
      /\ Len(vs) = Len(ws) + 1 /\ Len(ws) \in Nat
      /\ DOMAIN ws = 1..Len(ws) /\ DOMAIN vs = 1..(Len(ws) + 1)
  BY <1>0, <1>1
<1> HIDE DEF vs
<1>3. \A n \in DOMAIN vs : n \in DOMAIN ws \/ n = Len(ws) + 1
  BY <1>2
<1>4. /\ In(vs, "run") = In(ws, "run") /\ In(vs, "task") = In(ws, "task")
      /\ In(vs, "artifact") = In(ws, "artifact") \cup {Len(ws) + 1}
  BY <1>0, <1>2, <1>3 DEF In
<1>5. \A n \in DOMAIN ws : n \in DOMAIN vs /\ vs[n] = ws[n]
  BY <1>2
<1>6. \A table : In(ws, table) \subseteq DOMAIN ws
  BY DEF In
<1>7. StatusAfter(vs) = StatusAfter(ws) /\ Ranked(vs)
  BY <1>1, <1>4, <1>5, <1>6, StatusKept DEF JournalOK
<1>8. Settled(vs)
  BY <1>0, <1>2, <1>4, <1>5, <1>6 DEF JournalOK, Settled
<1>9. DiffOK(vs) /\ (HasDiff(ws) => HasDiff(vs))
  <2>1. \A n \in DOMAIN vs : vs[n] = Artifact("diff") => n \in DOMAIN ws /\ ws[n] = vs[n]
    BY <1>0, <1>2, <1>3, <1>5 DEF Artifact
  <2> QED BY <1>5, <2>1 DEF JournalOK, DiffOK, HasDiff
<1>10. RefersBack(vs)
  BY <1>4, <1>5, <1>6, <1>7 DEF JournalOK, RefersBack
<1> QED BY <1>1, <1>7, <1>8, <1>9, <1>10 DEF JournalOK, vs

\* The task's row refers to a run that has ended that way, and to what is there.
LEMMA ReferenceKeeps ==
  ASSUME NEW ws, NEW column \in {"review_context", "handoff_packet_uri"}, JournalOK(ws),
         column = "review_context" => StatusAfter(ws) = "succeeded" /\ HasDiff(ws),
         column = "handoff_packet_uri" =>
           /\ StatusAfter(ws) = "failed"
           /\ \E n \in DOMAIN ws : ws[n] = Artifact("handoff_packet")
  PROVE  /\ JournalOK(Append(ws, TaskRow(column)))
         /\ StatusAfter(Append(ws, TaskRow(column))) = StatusAfter(ws)
         /\ HasDiff(ws) => HasDiff(Append(ws, TaskRow(column)))
<1> DEFINE vs == Append(ws, TaskRow(column))
<1>0. TaskRow(column) \in Entry /\ TaskRow(column).of = "task"
  BY DEF TaskRow, Entry, Written
<1>1. ws \in Seq(Entry) /\ vs \in Seq(Entry)
  BY <1>0 DEF JournalOK
<1>2. /\ \A n \in 1..Len(ws) : vs[n] = ws[n]
      /\ vs[Len(ws) + 1] = TaskRow(column)
      /\ Len(vs) = Len(ws) + 1 /\ Len(ws) \in Nat
      /\ DOMAIN ws = 1..Len(ws) /\ DOMAIN vs = 1..(Len(ws) + 1)
  BY <1>0, <1>1
<1> HIDE DEF vs
<1>3. \A n \in DOMAIN vs : n \in DOMAIN ws \/ n = Len(ws) + 1
  BY <1>2
<1>4. /\ In(vs, "run") = In(ws, "run") /\ In(vs, "artifact") = In(ws, "artifact")
      /\ In(vs, "task") = In(ws, "task") \cup {Len(ws) + 1}
  BY <1>0, <1>2, <1>3 DEF In
<1>5. \A n \in DOMAIN ws : n \in DOMAIN vs /\ vs[n] = ws[n] /\ n < Len(ws) + 1
  BY <1>2
<1>6. \A table : In(ws, table) \subseteq DOMAIN ws
  BY DEF In
<1>7. StatusAfter(vs) = StatusAfter(ws) /\ Ranked(vs)
  BY <1>1, <1>4, <1>5, <1>6, StatusKept DEF JournalOK
<1>8. Settled(vs)
  BY <1>4, <1>5, <1>6 DEF JournalOK, Settled
<1>9. DiffOK(vs) /\ (HasDiff(ws) => HasDiff(vs))
  <2>1. \A n \in DOMAIN vs : vs[n] = Artifact("diff") => n \in DOMAIN ws /\ ws[n] = vs[n]
    BY <1>2, <1>3, <1>5 DEF Artifact, TaskRow
  <2> QED BY <1>5, <2>1 DEF JournalOK, DiffOK, HasDiff
<1>10. RefersBack(vs)
  <2>1. \A m \in In(vs, "run") : \A n \in In(vs, "task") : m < n
    BY <1>4, <1>5, <1>6 DEF JournalOK, RefersBack
  <2>2. ASSUME NEW n \in In(vs, "task")
        PROVE  /\ vs[n] = TaskRow("review_context") =>
                    /\ StatusAfter(vs) = "succeeded"
                    /\ \E m \in DOMAIN vs : m < n /\ vs[m] = Artifact("diff")
               /\ vs[n] = TaskRow("handoff_packet_uri") =>
                    /\ StatusAfter(vs) = "failed"
                    /\ \E m \in DOMAIN vs : m < n /\ vs[m] = Artifact("handoff_packet")
    <3>1. CASE n \in In(ws, "task")
      BY <1>5, <1>6, <1>7, <3>1 DEF JournalOK, RefersBack
    <3>2. CASE n = Len(ws) + 1
      BY <1>2, <1>5, <1>7, <3>2 DEF HasDiff, TaskRow
    <3> QED BY <1>4, <3>1, <3>2
  <2> QED BY <2>1, <2>2 DEF RefersBack
<1> QED BY <1>1, <1>7, <1>8, <1>9, <1>10 DEF JournalOK, vs
-----------------------------------------------------------------------------
(* What a step saves. *)

\* Part of what there is to save says the same at the same places.
LEMMA PartIsPrefix ==
  ASSUME NEW saves \in Seq(Entry), NEW saved \in Prefixes(saves)
  PROVE  /\ saved \in Seq(Entry) /\ Len(saved) <= Len(saves)
         /\ \A n \in 1..Len(saved) : n \in 1..Len(saves) /\ saved[n] = saves[n]
<1>1. PICK l \in 0..Len(saves) : saved = SubSeq(saves, 1, l)
  BY DEF Prefixes
<1> QED BY <1>1

\* The writes there are of a run are told apart.
LEMMA ArtifactsDiffer ==
  /\ \A status \in Open : RunRow(status) \in Entry /\ RunRow(status).of = "run"
  /\ Artifact("diff") \in Entry /\ Artifact("diff").of = "artifact"
  /\ \A kind \in {"task_capsule", "stdout_tail", "stderr_tail", "final_report",
                  "review_verdict", "verification_output"} :
       /\ Artifact(kind) \in Entry /\ Artifact(kind).of = "artifact"
       /\ Artifact(kind) # Artifact("diff")
BY DEF Artifact, RunRow, Entry, Written

\* A run begins with its row, the capsule and the row again, now with a base commit;
\* what follows are artifacts, and a diff only where a review is prepared.
LEMMA BeginningIs ==
  ASSUME NEW saves \in BeforeAgent, role \in {"implementer", "reviewer"},
         outcome' = "diff_apply_failed" => role = "reviewer"
  PROVE  /\ saves \in Seq(Entry) /\ Len(saves) >= 3
         /\ saves[1] = RunRow("preparing") /\ saves[3] = RunRow("running")
         /\ \A n \in 1..Len(saves) : n \notin {1, 3} => saves[n].of = "artifact"
         /\ \A n \in 1..Len(saves) : saves[n] = Artifact("diff") =>
              n > 3 /\ n = Len(saves) /\ role = "reviewer"
<1> DEFINE start == <<RunRow("preparing"), Artifact("task_capsule"), RunRow("running")>>
<1>1. \/ saves = start \o <<Artifact("stdout_tail"), Artifact("stderr_tail"), Artifact("diff")>>
         /\ role = "reviewer"
      \/ saves = start
      \/ saves = start \o <<>>
      \/ saves = start \o <<Artifact("task_capsule"), Artifact("diff")>> /\ role = "reviewer"
  BY DEF BeforeAgent, Opening, NotApplied, Brief
<1> PICK prep \in Entry : prep = RunRow("preparing") /\ prep.of = "run"
  BY ArtifactsDiffer DEF Open
<1> PICK going \in Entry : going = RunRow("running") /\ going.of = "run"
  BY ArtifactsDiffer DEF Open
<1> PICK diff \in Entry : diff = Artifact("diff") /\ diff.of = "artifact"
  BY ArtifactsDiffer
<1> PICK capsule \in Entry :
           capsule = Artifact("task_capsule") /\ capsule.of = "artifact" /\ capsule # diff
  BY ArtifactsDiffer
<1> PICK out \in Entry :
           out = Artifact("stdout_tail") /\ out.of = "artifact" /\ out # diff
  BY ArtifactsDiffer
<1> PICK err \in Entry :
           err = Artifact("stderr_tail") /\ err.of = "artifact" /\ err # diff
  BY ArtifactsDiffer
<1>2. CASE saves = <<prep, capsule, going>> \o <<out, err, diff>> /\ role = "reviewer"
  <2>1. /\ saves \in Seq(Entry) /\ Len(saves) = 6
        /\ saves[1] = prep /\ saves[2] = capsule /\ saves[3] = going
        /\ saves[4] = out /\ saves[5] = err /\ saves[6] = diff
    BY <1>2
  <2> QED BY <1>2, <2>1
<1>3. CASE saves = <<prep, capsule, going>>
  BY <1>3
<1>4. CASE saves = <<prep, capsule, going>> \o <<capsule, diff>> /\ role = "reviewer"
  <2>1. /\ saves \in Seq(Entry) /\ Len(saves) = 5
        /\ saves[1] = prep /\ saves[2] = capsule /\ saves[3] = going
        /\ saves[4] = capsule /\ saves[5] = diff
    BY <1>4
  <2> QED BY <1>4, <2>1
<1>5. CASE saves = <<prep, capsule, going>> \o <<>>
  <2>1. saves = <<prep, capsule, going>>
    BY <1>5
  <2> QED BY <1>3, <2>1
<1> QED BY <1>1, <1>2, <1>3, <1>4, <1>5

\* Behind the agent of an implementer there is one diff, behind a reviewer's none.
LEMMA BehindAgentIs ==
  ASSUME NEW saves \in AfterAgent, role \in {"implementer", "reviewer"}
  PROVE  /\ saves \in Seq(Entry)
         /\ \A n \in 1..Len(saves) : saves[n].of = "artifact"
         /\ \A n \in 1..Len(saves) : saves[n] = Artifact("diff") => n = 3
         /\ HasDiff(saves) <=> role = "implementer"
<1> PICK diff \in Entry : diff = Artifact("diff") /\ diff.of = "artifact"
  BY ArtifactsDiffer
<1> PICK capsule \in Entry :
           capsule = Artifact("task_capsule") /\ capsule.of = "artifact" /\ capsule # diff
  BY ArtifactsDiffer
<1> PICK out \in Entry :
           out = Artifact("stdout_tail") /\ out.of = "artifact" /\ out # diff
  BY ArtifactsDiffer
<1> PICK err \in Entry :
           err = Artifact("stderr_tail") /\ err.of = "artifact" /\ err # diff
  BY ArtifactsDiffer
<1> PICK final \in Entry :
           final = Artifact("final_report") /\ final.of = "artifact" /\ final # diff
  BY ArtifactsDiffer
<1> PICK ruling \in Entry :
           ruling = Artifact("review_verdict") /\ ruling.of = "artifact" /\ ruling # diff
  BY ArtifactsDiffer
<1>1. CASE role = "implementer"
  <2>1. \E report \in {<<>>, <<final>>} :
          saves = (<<out, err>> \o <<diff>>) \o report \o <<capsule>>
    BY <1>1 DEF AfterAgent, Output, Report
  <2>2. CASE saves = (<<out, err>> \o <<diff>>) \o <<>> \o <<capsule>>
    <3>1. /\ saves \in Seq(Entry) /\ Len(saves) = 4
          /\ saves[1] = out /\ saves[2] = err /\ saves[3] = diff /\ saves[4] = capsule
      BY <2>2
    <3> QED BY <1>1, <3>1 DEF HasDiff
  <2>3. CASE saves = (<<out, err>> \o <<diff>>) \o <<final>> \o <<capsule>>
    <3>1. /\ saves \in Seq(Entry) /\ Len(saves) = 5
          /\ saves[1] = out /\ saves[2] = err /\ saves[3] = diff
          /\ saves[4] = final /\ saves[5] = capsule
      BY <2>3
    <3> QED BY <1>1, <3>1 DEF HasDiff
  <2> QED BY <2>1, <2>2, <2>3
<1>2. CASE role = "reviewer"
  <2>1. \/ saves = <<out, err>> \/ saves = <<out, err>> \o <<ruling>>
        \/ saves = (<<out, err>> \o <<ruling>>) \o <<final>>
    BY <1>2 DEF AfterAgent, Verdicts, Output, Verdict, Report
  <2>2. CASE saves = <<out, err>>
    BY <1>2, <2>2 DEF HasDiff
  <2>3. CASE saves = <<out, err>> \o <<ruling>>
    <3>1. /\ saves \in Seq(Entry) /\ Len(saves) = 3
          /\ saves[1] = out /\ saves[2] = err /\ saves[3] = ruling
      BY <2>3
    <3> QED BY <1>2, <3>1 DEF HasDiff
  <2>4. CASE saves = (<<out, err>> \o <<ruling>>) \o <<final>>
    <3>1. /\ saves \in Seq(Entry) /\ Len(saves) = 4
          /\ saves[1] = out /\ saves[2] = err /\ saves[3] = ruling /\ saves[4] = final
      BY <2>4
    <3> QED BY <1>2, <3>1 DEF HasDiff
  <2> QED BY <2>1, <2>2, <2>3, <2>4
<1> QED BY <1>1, <1>2

\* Whatever part of a beginning was saved is in order.
LEMMA BeginningKeeps ==
  ASSUME NEW saves \in BeforeAgent, NEW saved \in Prefixes(saves),
         role \in {"implementer", "reviewer"},
         outcome' = "diff_apply_failed" => role = "reviewer"
  PROVE  /\ JournalOK(saved) /\ GoingOn(saved)
         /\ role = "implementer" => ~HasDiff(saved)
<1>1. /\ saves \in Seq(Entry) /\ Len(saves) >= 3
      /\ saves[1] = RunRow("preparing") /\ saves[3] = RunRow("running")
      /\ \A n \in 1..Len(saves) : n \notin {1, 3} => saves[n].of = "artifact"
      /\ \A n \in 1..Len(saves) : saves[n] = Artifact("diff") =>
           n > 3 /\ n = Len(saves) /\ role = "reviewer"
  BY BeginningIs
<1>2. /\ saved \in Seq(Entry) /\ DOMAIN saved = 1..Len(saved) /\ Len(saved) \in Nat
      /\ \A n \in 1..Len(saved) : n \in 1..Len(saves) /\ saved[n] = saves[n]
  BY <1>1, PartIsPrefix
<1>3. /\ \A n \in In(saved, "run") : /\ n \in 1..Len(saved) /\ n \in {1, 3}
                                     /\ saved[1] = RunRow("preparing")
                                     /\ n = 3 => saved[3] = RunRow("running")
      /\ In(saved, "task") = {}
  BY <1>1, <1>2 DEF In, RunRow
<1>4. Ranked(saved) /\ GoingOn(saved)
  BY <1>3 DEF Ranked, GoingOn, Rank, RunRow, Open, Ended
<1>5. Settled(saved) /\ RefersBack(saved)
  BY <1>3, <1>4 DEF Settled, RefersBack, GoingOn
<1>6. \A n \in DOMAIN saved : saved[n] = Artifact("diff") =>
        n > 3 /\ n = Len(saves) /\ role = "reviewer" /\ 3 \in DOMAIN saved
        /\ saved[3] = RunRow("running")
  BY <1>1, <1>2
<1>7. DiffOK(saved) /\ (role = "implementer" => ~HasDiff(saved))
  BY <1>6 DEF DiffOK, HasDiff
<1> QED BY <1>2, <1>4, <1>5, <1>7 DEF JournalOK
-----------------------------------------------------------------------------
(* The steps of a run, as far as its writes go. *)

V1Goes ==
  \/ pc' = pc /\ UNCHANGED <<run, outcome>>
  \/ pc = "called" /\ pc' = "stat" /\ run'.status = "running" /\ outcome' = "none"
  \/ pc = "stat" /\ pc' = "agent" /\ UNCHANGED <<run, outcome>>
  \/ pc = "agent" /\ pc' = "verify" /\ role = "implementer" /\ UNCHANGED <<run, outcome>>

V1Answers ==
  /\ pc # "done" /\ pc' = "done"
  /\ pc \in {"called", "stat"} => outcome' # "succeeded"
  /\ outcome' = "diff_apply_failed" => role = "reviewer"

\* A run that is not answered goes on from one place where it waits to the next.
LEMMA V1Moves ==
  ASSUME V1, RunInv, FlowNext
  PROVE  /\ role' = role /\ flow' = flow
         /\ V1Goes \/ V1Answers
<1>0. run \in Run /\ (pc \in {"stat", "agent", "verify"} => run.status = "running")
      /\ (pc = "called" => run = [status |-> "none", events |-> {}])
      /\ (pc # "done" => outcome = "none")
  BY DEF RunInv, RunTypeOK, UnderWay
<1>a. pc = "called" => Running \in Run /\ Running.status = "running"
  BY <1>0 DEF Running, Run, Open
<1>1. V1Step \/ V1Abort \/ FlowTimeout \/ FlowChildEnds \/ (ChildExits /\ UNCHANGED v0Vars)
  BY DEF FlowNext, V0Step, V0, V1
<1>2. CASE V1Abort \/ FlowTimeout \/ FlowChildEnds \/ (ChildExits /\ UNCHANGED v0Vars)
  BY <1>2 DEF V1Abort, Abort, FlowTimeout, Timeout, AgentTimesOut, CommandTimesOut,
              FlowChildEnds, ChildEnds, ChildExits, ownVars, v0Vars, V1Goes
<1>3. CASE V1Step
  <2>0. UNCHANGED v0Vars /\ role' = role
    BY <1>3 DEF V1Step, Step, Prepare, PrepareFails, BriefFails, DiffRefused, Launch,
                LaunchFails, AgentInterrupted, AgentEnds, AgentPasses,
                CommandInterrupted, CommandEnds, CommandPasses
  <2> SUFFICES V1Goes \/ V1Answers
    BY <2>0 DEF v0Vars
  <2>1. CASE Prepare
    BY <1>0, <1>a, <2>1 DEF Prepare, V1Goes
  <2>2. CASE PrepareFails
    BY <2>2 DEF PrepareFails, Answer, V1Answers
  <2>3. CASE BriefFails
    <3>1. pc = "called" /\ Caught(Running)
      BY <2>3 DEF BriefFails
    <3> QED BY <1>a, <3>1, CaughtEnds DEF V1Answers
  <2>4. CASE DiffRefused
    <3>1. /\ pc = "called" /\ role = "reviewer"
          /\ \/ \E f \in Finished(Running, "failed") :
                  (f.ok /\ Answer(f.run, "diff_apply_failed")) \/ Rejected(f.run)
             \/ Rejected(Running)
      BY <2>4 DEF DiffRefused
    <3>2. CASE Rejected(Running)
      BY <1>a, <3>1, <3>2, RejectedEnds DEF V1Answers
    <3>3. ASSUME NEW f \in Finished(Running, "failed"),
                 (f.ok /\ Answer(f.run, "diff_apply_failed")) \/ Rejected(f.run)
          PROVE  V1Answers
      <4>1. f.run \in Run
        BY <1>a, <3>1, FinishedIsRun
      <4>2. CASE Answer(f.run, "diff_apply_failed")
        BY <3>1, <4>2 DEF Answer, V1Answers
      <4>3. CASE Rejected(f.run)
        BY <3>1, <4>1, <4>3, RejectedEnds DEF V1Answers
      <4> QED BY <3>3, <4>2, <4>3
    <3> QED BY <3>1, <3>2, <3>3
  <2>5. CASE Launch
    BY <2>5 DEF Launch, V1Goes
  <2>6. CASE LaunchFails
    <3>1. pc = "stat" /\ (Conclude("failed", "spawn_failed") \/ Interrupted)
      BY <2>6 DEF LaunchFails
    <3> QED BY <1>0, <3>1, ConcludeEnds, InterruptedEnds DEF V1Answers
  <2>7. CASE AgentInterrupted \/ CommandInterrupted
    <3>1. pc \in {"agent", "verify"} /\ Interrupted
      BY <2>7 DEF AgentInterrupted, CommandInterrupted
    <3> QED BY <1>0, <3>1, InterruptedEnds DEF V1Answers
  <2>8. CASE AgentEnds
    <3>1. /\ pc = "agent"
          /\ \/ Caught(run)
             \/ \E status \in {"succeeded", "failed"} :
                  \E o \in {"agent_timed_out", "agent_nonzero_exit", "quota",
                            "reviewer_unusable", "succeeded"} \cup Verdicts :
                    Conclude(status, o)
      BY <2>8 DEF AgentEnds, Reasons
    <3>2. CASE Caught(run)
      BY <1>0, <3>1, <3>2, CaughtEnds DEF V1Answers
    <3>3. ASSUME NEW status \in {"succeeded", "failed"},
                 NEW o \in {"agent_timed_out", "agent_nonzero_exit", "quota",
                            "reviewer_unusable", "succeeded"} \cup Verdicts,
                 Conclude(status, o)
          PROVE  V1Answers
      BY <1>0, <3>1, <3>3, ConcludeEnds DEF V1Answers, Verdicts
    <3> QED BY <3>1, <3>2, <3>3
  <2>9. CASE AgentPasses
    BY <2>9 DEF AgentPasses, V1Goes
  <2>10. CASE CommandEnds
    <3>1. /\ pc = "verify"
          /\ \/ Caught(run) \/ Conclude("succeeded", "succeeded")
             \/ Conclude("failed", "verification_failed")
      BY <2>10 DEF CommandEnds
    <3> QED BY <1>0, <3>1, CaughtEnds, ConcludeEnds DEF V1Answers
  <2>11. CASE CommandPasses
    BY <2>11 DEF CommandPasses, V1Goes
  <2> QED BY <1>3, <2>1, <2>2, <2>3, <2>4, <2>5, <2>6, <2>7, <2>8, <2>9, <2>10, <2>11
      DEF V1Step, Step
<1> QED BY <1>1, <1>2, <1>3

\* Behind the beginning only artifacts are saved, and a diff only behind an agent.
LEMMA LaterSavesAre ==
  ASSUME pc \in {"stat", "agent", "verify"} \/ pc' = pc, role \in {"implementer", "reviewer"},
         NEW saves \in Saves, NEW saved \in Prefixes(saves)
  PROVE  /\ saved \in Seq(Entry)
         /\ \A n \in DOMAIN saved : saved[n].of = "artifact"
         /\ \A n \in DOMAIN saved : saved[n] = Artifact("diff") => n = 3
         /\ HasDiff(saved) => pc = "agent" /\ pc' # pc /\ role = "implementer"
         /\ pc' = pc \/ pc = "stat" => saved = <<>>
<1>1. CASE saves = <<>>
  <2>1. <<>> \in Seq(Entry) /\ Len(<<>>) = 0
    OBVIOUS
  <2>2. saved \in Seq(Entry) /\ Len(saved) <= 0
    BY <1>1, <2>1, PartIsPrefix
  <2>3. saved = <<>>
    BY <2>2
  <2> QED BY <2>2, <2>3 DEF HasDiff
<1>2. CASE pc = "agent" /\ pc' # pc /\ saves \in AfterAgent
  <2>1. /\ saves \in Seq(Entry)
        /\ \A n \in 1..Len(saves) : saves[n].of = "artifact"
        /\ \A n \in 1..Len(saves) : saves[n] = Artifact("diff") => n = 3
        /\ HasDiff(saves) <=> role = "implementer"
    BY <1>2, BehindAgentIs
  <2>2. /\ saved \in Seq(Entry) /\ DOMAIN saved = 1..Len(saved)
        /\ \A n \in 1..Len(saved) : n \in 1..Len(saves) /\ saved[n] = saves[n]
    BY <2>1, PartIsPrefix
  <2>3. HasDiff(saved) => HasDiff(saves)
    BY <2>1, <2>2 DEF HasDiff
  <2> QED BY <1>2, <2>1, <2>2, <2>3
<1>3. CASE pc = "verify" /\ pc' # pc /\ saves = <<Artifact("verification_output")>>
  <2>1. /\ Artifact("verification_output") \in Entry
        /\ Artifact("verification_output").of = "artifact"
        /\ Artifact("verification_output") # Artifact("diff")
    BY ArtifactsDiffer
  <2>2. saves \in Seq(Entry) /\ Len(saves) = 1 /\ saves[1] = Artifact("verification_output")
    BY <1>3, <2>1
  <2>3. /\ saved \in Seq(Entry) /\ DOMAIN saved = 1..Len(saved)
        /\ \A n \in 1..Len(saved) : n \in 1..Len(saves) /\ saved[n] = saves[n]
    BY <2>2, PartIsPrefix
  <2>4. \A n \in DOMAIN saved : saved[n] = Artifact("verification_output")
    BY <2>2, <2>3
  <2> QED BY <1>3, <2>1, <2>3, <2>4 DEF HasDiff
<1> QED BY <1>1, <1>2, <1>3 DEF Saves
-----------------------------------------------------------------------------
(* The invariant. *)

\* Nothing has been written before the run is called.
LEMMA SessionStarts == SessionInit => SessionInv
<1> SUFFICES ASSUME SessionInit PROVE SessionInv
  OBVIOUS
<1>1. EitherInv /\ journal = <<>> /\ pc = "called" /\ run.status = "none"
  BY EitherInit DEF SessionInit, FlowInit, Init
<1>2. <<>> \in Seq(Entry) /\ DOMAIN <<>> = {}
  OBVIOUS
<1>3. /\ \A table : In(journal, table) = {}
      /\ ~HasDiff(journal)
  BY <1>1, <1>2 DEF In, HasDiff
<1>4. JournalOK(journal)
  BY <1>1, <1>2, <1>3 DEF JournalOK, Ranked, Settled, DiffOK, RefersBack
<1>5. StatusAfter(journal) = "none"
  BY <1>3 DEF StatusAfter
<1> QED BY <1>1, <1>3, <1>4, <1>5 DEF SessionInv, Journal, GoingOn

\* What is saved in a run, and what ends it, is in order behind what was.
LEMMA WritesKeep ==
  ASSUME RunInv, Journal, role' = role, V1Goes \/ V1Answers, Writes
  PROVE  Journal'
<1>1. PICK saves \in Saves : \E saved \in Prefixes(saves) :
        \E end \in Ends(journal \o saved) :
          /\ saved = saves \/ Breaks(saved, end)
          /\ journal' = journal \o saved \o end
  BY DEF Writes
<1>2. PICK saved \in Prefixes(saves) :
        \E end \in Ends(journal \o saved) :
          /\ saved = saves \/ Breaks(saved, end)
          /\ journal' = journal \o saved \o end
  BY <1>1
<1>3. PICK end \in Ends(journal \o saved) :
          /\ saved = saves \/ Breaks(saved, end)
          /\ journal' = (journal \o saved) \o end
  BY <1>2
<1>4. /\ role \in {"implementer", "reviewer"}
      /\ pc \in {"called", "stat", "agent", "verify", "done"}
      /\ pc \in {"stat", "agent", "verify"} => run.status = "running"
      /\ pc # "done" => outcome = "none"
  BY DEF RunInv, RunTypeOK, UnderWay
<1>5. /\ JournalOK(journal) /\ journal \in Seq(Entry)
      /\ StatusAfter(journal) = run.status
      /\ pc = "called" => journal = <<>>
      /\ pc # "done" => GoingOn(journal)
      /\ pc \in {"stat", "agent"} /\ role = "implementer" => ~HasDiff(journal)
      /\ pc = "verify" => role = "implementer" /\ HasDiff(journal)
      /\ pc = "done" /\ role = "implementer" /\ outcome = "succeeded" => HasDiff(journal)
  BY DEF Journal, JournalOK
<1>6. Breaks(saved, end) =>
        outcome' \in {"internal_error", "context_failed", "gave_up"}
  BY DEF Breaks
<1>7. CASE pc' = pc /\ UNCHANGED <<run, outcome>>
  <2>1. saved = <<>>
    BY <1>4, <1>7, LaterSavesAre
  <2>2. journal \o saved = journal
    BY <1>5, <2>1
  <2>3. end = <<>>
    BY <1>3, <1>5, <1>7, <2>2 DEF Ends
  <2>4. journal' = journal
    BY <1>3, <1>5, <2>2, <2>3
  <2> QED BY <1>5, <1>7, <2>4 DEF Journal
<1>8. CASE pc = "called" /\ pc' # pc
  <2>0. pc' \in {"stat", "done"}
        /\ (pc' = "stat" => run'.status = "running")
        /\ (pc' = "done" => outcome' # "succeeded")
        /\ (outcome' = "diff_apply_failed" => role = "reviewer")
    BY <1>8 DEF V1Goes, V1Answers
  <2>1. saves \in BeforeAgent \/ saves = <<>>
    BY <1>8 DEF Saves
  <2>2. JournalOK(saved) /\ GoingOn(saved) /\ (role = "implementer" => ~HasDiff(saved))
    <3>1. CASE saves \in BeforeAgent
      BY <1>4, <2>0, <3>1, BeginningKeeps
    <3>2. CASE saves = <<>>
      <4>1. <<>> \in Seq(Entry) /\ Len(<<>>) = 0
        OBVIOUS
      <4>2. saved \in Seq(Entry) /\ Len(saved) <= 0
        BY <3>2, <4>1, PartIsPrefix
      <4>3. saved = <<>>
        BY <4>2
      <4>4. saved = journal
        BY <1>5, <1>8, <4>3
      <4>5. ~HasDiff(saved)
        BY <4>3 DEF HasDiff
      <4> QED BY <1>5, <1>8, <4>4, <4>5
    <3> QED BY <2>1, <3>1, <3>2
  <2>3. journal \o saved = saved
    <3>1. saved \in Seq(Entry)
      BY <2>2 DEF JournalOK
    <3> QED BY <1>5, <1>8, <3>1
  <2>4. /\ JournalOK(journal') /\ StatusAfter(journal') = run'.status
        /\ end = <<>> \/ run'.status \in Ended
    BY <1>3, <2>2, <2>3, EndKeeps
  <2>5. pc' = "stat" => journal' = saved
    <3>1. pc' = "stat" => end = <<>>
      BY <2>0, <2>4 DEF Ended
    <3> QED BY <1>3, <2>2, <2>3, <3>1 DEF JournalOK
  <2> QED BY <1>4, <2>0, <2>2, <2>4, <2>5 DEF Journal
<1>9. CASE pc \in {"stat", "agent", "verify"} /\ pc' # pc
  <2>0. /\ pc' \in {"agent", "verify", "done"}
        /\ pc' = "agent" => pc = "stat"
        /\ pc' = "verify" => pc = "agent" /\ role = "implementer"
        /\ pc' # "done" => run'.status = "running" /\ outcome' = "none"
        /\ pc' = "done" /\ pc = "stat" => outcome' # "succeeded"
    BY <1>4, <1>9 DEF V1Goes, V1Answers
  <2>1. /\ saved \in Seq(Entry)
        /\ \A n \in DOMAIN saved : saved[n].of = "artifact"
        /\ \A n \in DOMAIN saved : saved[n] = Artifact("diff") => n = 3
        /\ HasDiff(saved) => pc = "agent" /\ role = "implementer"
        /\ pc = "stat" => saved = <<>>
    BY <1>4, <1>9, LaterSavesAre
  <2>2. /\ JournalOK(journal \o saved) /\ GoingOn(journal \o saved)
        /\ HasDiff(journal \o saved) <=> HasDiff(journal) \/ HasDiff(saved)
    <3>1. HasDiff(saved) => ~HasDiff(journal) /\ StatusAfter(journal) = "running"
      BY <1>4, <1>5, <1>9, <2>1
    <3> QED BY <1>5, <1>9, <2>1, <3>1, SavedKeeps
  <2>3. /\ JournalOK(journal') /\ StatusAfter(journal') = run'.status
        /\ HasDiff(journal \o saved) => HasDiff(journal')
        /\ end = <<>> \/ run'.status \in Ended
    BY <1>3, <2>2, EndKeeps
  <2>4. pc' # "done" => journal' = journal \o saved
    <3>1. pc' # "done" => end = <<>>
      BY <2>0, <2>3 DEF Ended
    <3> QED BY <1>3, <2>2, <3>1 DEF JournalOK
  <2>5. pc = "agent" /\ role = "implementer"
          /\ (pc' = "verify" \/ outcome' = "succeeded") => HasDiff(journal')
    <3> SUFFICES ASSUME pc = "agent", role = "implementer",
                        pc' = "verify" \/ outcome' = "succeeded"
                 PROVE  HasDiff(journal')
      OBVIOUS
    <3>1. outcome' \in {"none", "succeeded"}
      BY <2>0
    <3>2. saved = saves /\ saves \in AfterAgent
      BY <1>3, <1>6, <1>9, <3>1 DEF Saves
    <3>3. HasDiff(saved)
      BY <3>2, <1>4, BehindAgentIs
    <3> QED BY <2>2, <2>3, <3>3
  <2>6. pc = "verify" => HasDiff(journal')
    BY <1>5, <2>2, <2>3
  <2>7. pc' = "agent" /\ role = "implementer" => ~HasDiff(journal')
    BY <1>5, <2>0, <2>1, <2>2, <2>4
  <2> QED BY <1>9, <2>0, <2>2, <2>3, <2>4, <2>5, <2>6, <2>7 DEF Journal
<1>10. pc' = pc => UNCHANGED <<run, outcome>>
  BY DEF V1Goes, V1Answers
<1> QED BY <1>4, <1>7, <1>8, <1>9, <1>10 DEF V1Goes, V1Answers

\* What the handler saves fits the run it saves it because of.
LEMMA HandlerKeeps ==
  ASSUME RunInv, Journal, HandlerStep
  PROVE  Journal'
<1>1. /\ pc = "done" /\ role = "implementer" /\ UNCHANGED flowVars
      /\ \E saved \in Prefixes(HandlerSaves) \ {<<>>} : journal' = journal \o saved
  BY DEF HandlerStep
<1>2. UNCHANGED <<pc, role, run, outcome>>
  BY <1>1 DEF flowVars, vars
<1>3. PICK saved \in Prefixes(HandlerSaves) : saved # <<>> /\ journal' = journal \o saved
  BY <1>1
<1>4. PICK l \in 0..Len(HandlerSaves) : saved = SubSeq(HandlerSaves, 1, l)
  BY <1>3 DEF Prefixes
<1>5. /\ JournalOK(journal) /\ journal \in Seq(Entry)
      /\ StatusAfter(journal) = run.status
      /\ outcome = "succeeded" => HasDiff(journal)
  BY <1>1 DEF Journal, JournalOK
<1>6. SUFFICES /\ JournalOK(journal') /\ StatusAfter(journal') = StatusAfter(journal)
               /\ HasDiff(journal) => HasDiff(journal')
  BY <1>1, <1>2, <1>5 DEF Journal
<1> PICK packet \in Entry : packet = Artifact("handoff_packet")
  BY DEF Artifact, Entry, Written
<1> PICK reviewed \in Entry : reviewed = TaskRow("review_context")
  BY DEF TaskRow, Entry, Written
<1> PICK handed \in Entry : handed = TaskRow("handoff_packet_uri")
  BY DEF TaskRow, Entry, Written
<1>7. CASE outcome = "succeeded"
  <2>1. HandlerSaves = <<reviewed>>
    BY <1>7 DEF HandlerSaves
  <2>2. Len(saved) = 1 /\ saved[1] = reviewed /\ saved \in Seq(Entry)
    BY <1>3, <1>4, <2>1
  <2>3. journal' = Append(journal, reviewed)
    <3>1. <<reviewed>> \in Seq(Entry) /\ Len(<<reviewed>>) = 1
          /\ \A i \in 1..1 : saved[i] = <<reviewed>>[i]
      BY <2>2
    <3>2. saved = <<reviewed>>
      BY <2>2, <3>1, SeqEqual
    <3> QED BY <1>3, <1>5, <3>2
  <2>4. StatusAfter(journal) = "succeeded" /\ HasDiff(journal)
    BY <1>5, <1>7 DEF RunInv, RunGuarantees, AnswerTellsStatus
  <2> QED BY <1>5, <2>3, <2>4, ReferenceKeeps
<1>8. CASE outcome \in {"verification_failed", "agent_nonzero_exit", "agent_timed_out", "quota"}
  <2>1. HandlerSaves = <<packet, handed>>
    BY <1>8 DEF HandlerSaves
  <2>2. /\ saved \in Seq(Entry) /\ saved[1] = packet
        /\ Len(saved) = 1 \/ (Len(saved) = 2 /\ saved[2] = handed)
    BY <1>3, <1>4, <2>1
  <2>3. StatusAfter(journal) = "failed"
    BY <1>5, <1>8 DEF RunInv, RunGuarantees, AnswerTellsStatus
  <2> DEFINE ws == Append(journal, packet)
  <2>4. /\ JournalOK(ws) /\ StatusAfter(ws) = "failed" /\ (HasDiff(journal) => HasDiff(ws))
    BY <1>5, <2>3, PacketKeeps
  <2>5. ws \in Seq(Entry) /\ \E n \in DOMAIN ws : ws[n] = packet
    <3>1. ws \in Seq(Entry) /\ Len(journal) + 1 \in DOMAIN ws /\ ws[Len(journal) + 1] = packet
      BY <1>5
    <3> QED BY <3>1
  <2>6. journal' = ws \/ journal' = Append(ws, handed)
    <3>1. CASE Len(saved) = 1
      <4>1. <<packet>> \in Seq(Entry) /\ Len(<<packet>>) = 1
            /\ \A i \in 1..1 : saved[i] = <<packet>>[i]
        BY <2>2
      <4>2. saved = <<packet>>
        BY <2>2, <3>1, <4>1, SeqEqual
      <4> QED BY <1>3, <1>5, <4>2
    <3>2. CASE Len(saved) = 2 /\ saved[2] = handed
      <4>1. <<packet, handed>> \in Seq(Entry) /\ Len(<<packet, handed>>) = 2
            /\ \A i \in 1..2 : saved[i] = <<packet, handed>>[i]
        BY <2>2, <3>2
      <4>2. saved = <<packet, handed>>
        BY <2>2, <3>2, <4>1, SeqEqual
      <4>3. journal \o <<packet, handed>> = Append(Append(journal, packet), handed)
        BY <1>5
      <4> QED BY <1>3, <4>2, <4>3
    <3> QED BY <2>2, <3>1, <3>2
  <2> HIDE DEF ws
  <2>7. CASE journal' = ws
    BY <2>3, <2>4, <2>7
  <2>8. CASE journal' = Append(ws, handed)
    BY <2>3, <2>4, <2>5, <2>8, ReferenceKeeps
  <2> QED BY <2>6, <2>7, <2>8
<1>9. CASE outcome \notin {"succeeded", "verification_failed", "agent_nonzero_exit",
                           "agent_timed_out", "quota"}
  <2>1. HandlerSaves = <<>>
    BY <1>9 DEF HandlerSaves
  <2>2. FALSE
    BY <1>3, <1>4, <2>1
  <2> QED BY <2>2
<1> QED BY <1>7, <1>8, <1>9

\* No step takes the journal out of order.
LEMMA SessionSteps == SessionInv /\ [SessionNext]_sessionVars => SessionInv'
<1> SUFFICES ASSUME SessionInv, [SessionNext]_sessionVars PROVE SessionInv'
  OBVIOUS
<1>1. CASE SessionStep
  <2>1. EitherInv' /\ flow' = flow
    BY <1>1, EitherNext
    DEF SessionInv, SessionStep, FlowNext, V0Step, V1Step, V1Abort, FlowTimeout,
        FlowChildEnds, v0Vars
  <2>2. CASE V1
    <3>1. RunInv /\ Journal /\ FlowNext /\ Writes
      BY <1>1, <2>2 DEF SessionInv, EitherInv, SessionStep
    <3>2. Journal'
      BY <2>2, <3>1, V1Moves, WritesKeep
    <3> QED BY <2>1, <2>2, <3>2 DEF SessionInv, V0, V1
  <2>3. CASE ~V1
    BY <1>1, <2>1, <2>3 DEF SessionInv, SessionStep, V0, V1
  <2> QED BY <2>2, <2>3
<1>2. CASE HandlerStep
  <2>1. V1 /\ UNCHANGED flowVars
    BY <1>2 DEF HandlerStep
  <2>2. EitherInv' /\ flow' = flow
    BY <2>1, EitherNext DEF SessionInv, flowVars, v0Vars
  <2>3. Journal'
    BY <1>2, <2>1, HandlerKeeps DEF SessionInv, EitherInv
  <2> QED BY <2>1, <2>2, <2>3 DEF SessionInv, V0, V1
<1>3. CASE UNCHANGED sessionVars
  <2>1. UNCHANGED flowVars /\ journal' = journal
    BY <1>3 DEF sessionVars
  <2>2. EitherInv' /\ UNCHANGED <<flow, pc, role, run, outcome>>
    BY <2>1, EitherNext DEF SessionInv, flowVars, vars, v0Vars
  <2> QED BY <2>1, <2>2 DEF SessionInv, Journal, V0, V1
<1> QED BY <1>1, <1>2, <1>3 DEF SessionNext

\* The inductive invariant.
LEMMA SessionInvariant == SessionSpec => []SessionInv
BY SessionStarts, SessionSteps, PTL DEF SessionSpec
-----------------------------------------------------------------------------
(* What a reader finds. *)

\* A prefix of the journal has its writes at their places.
LEMMA BeforeIs ==
  ASSUME journal \in Seq(Entry), NEW n \in 0..Len(journal)
  PROVE  /\ Before(n) \in Seq(Entry) /\ Len(Before(n)) = n
         /\ \A m \in 1..n : m \in 1..Len(journal) /\ Before(n)[m] = journal[m]
         /\ \A table : \A m : m \in In(Before(n), table) <=>
                              m \in 1..n /\ m \in In(journal, table)
<1>1. /\ Before(n) \in Seq(Entry) /\ Len(Before(n)) = n /\ DOMAIN Before(n) = 1..n
      /\ \A m \in 1..n : m \in 1..Len(journal) /\ Before(n)[m] = journal[m]
  BY DEF Before
<1>2. DOMAIN journal = 1..Len(journal)
  OBVIOUS
<1> QED BY <1>1, <1>2 DEF In

\* And its rows are in the same order.
LEMMA BeforeRanked ==
  ASSUME JournalOK(journal), NEW n \in 0..Len(journal)
  PROVE  Ranked(Before(n))
<1>1. /\ \A m \in 1..n : m \in 1..Len(journal) /\ Before(n)[m] = journal[m]
      /\ \A m \in In(Before(n), "run") : m \in 1..n /\ m \in In(journal, "run")
  BY BeforeIs DEF JournalOK
<1> QED BY <1>1 DEF JournalOK, Ranked

\* What a reader found of the row was written among the first j writes, and last.
LEMMA ReadStatusIs ==
  ASSUME JournalOK(journal), NEW j \in 0..Len(journal), StatusAfter(Before(j)) # "none"
  PROVE  \E m \in 1..j : /\ m \in In(journal, "run")
                         /\ journal[m] = RunRow(StatusAfter(Before(j)))
                         /\ \A n \in In(journal, "run") : n <= j => n <= m
<1>1. /\ journal \in Seq(Entry) /\ Before(j) \in Seq(Entry) /\ Ranked(Before(j))
      /\ \A m \in 1..j : m \in 1..Len(journal) /\ Before(j)[m] = journal[m]
      /\ \A m : m \in In(Before(j), "run") <=> m \in 1..j /\ m \in In(journal, "run")
  BY BeforeIs, BeforeRanked DEF JournalOK
<1>2. In(Before(j), "run") # {}
  BY DEF StatusAfter
<1>3. PICK m \in In(Before(j), "run") : /\ StatusAfter(Before(j)) = Before(j)[m].is
                                        /\ \A n \in In(Before(j), "run") : n <= m
  BY <1>1, <1>2, StatusIsWritten
<1>4. /\ m \in 1..j /\ m \in In(journal, "run") /\ journal[m].of = "run"
      /\ journal[m].is = StatusAfter(Before(j)) /\ m \in 1..Len(journal)
  BY <1>1, <1>3 DEF In
<1>5. journal[m] = RunRow(StatusAfter(Before(j)))
  BY <1>1, <1>4, RunEntry
<1>6. \A n \in In(journal, "run") : n \in 1..Len(journal)
  BY <1>1 DEF In
<1>7. \A n \in In(journal, "run") : n <= j => n <= m
  BY <1>1, <1>3, <1>6
<1> QED BY <1>4, <1>5, <1>7

\* What is in a snapshot.
LEMMA SnapshotIs ==
  ASSUME journal \in Seq(Entry), NEW s \in Snapshots
  PROVE  \E j \in 0..Len(journal) : \E i \in 0..j : \E k \in j..Len(journal) :
           /\ \A row \in s.task : \E n \in 1..i : n \in In(journal, "task") /\ journal[n] = row
           /\ s.status = StatusAfter(Before(j))
           /\ s.based <=> \E n \in 1..j : journal[n] = RunRow("running")
           /\ \A n : n \in s.artifacts <=>
                s.status # "none" /\ n \in 1..k /\ n \in In(journal, "artifact")
<1>1. PICK j \in 0..Len(journal) :
        s \in {Snapshot(i, j, k) : i \in 0..j, k \in j..Len(journal)}
  BY DEF Snapshots
<1>2. PICK i \in 0..j, k \in j..Len(journal) : s = Snapshot(i, j, k)
  BY <1>1
<1>3. /\ s.task = {journal[n] : n \in In(Before(i), "task")}
      /\ s.status = StatusAfter(Before(j))
      /\ s.based = (RunRow("running") \in ToSet(Before(j)))
      /\ s.artifacts = IF s.status = "none" THEN {} ELSE In(Before(k), "artifact")
  BY <1>2 DEF Snapshot
<1>4. i \in 0..Len(journal) /\ k \in 0..Len(journal)
  BY <1>2
<1>5. \A m : m \in In(Before(i), "task") <=> m \in 1..i /\ m \in In(journal, "task")
  BY <1>4, BeforeIs
<1>6. \A m : m \in In(Before(k), "artifact") <=> m \in 1..k /\ m \in In(journal, "artifact")
  BY <1>4, BeforeIs
<1>7. RunRow("running") \in ToSet(Before(j)) <=> \E n \in 1..j : journal[n] = RunRow("running")
  <2>1. /\ Before(j) \in Seq(Entry) /\ Len(Before(j)) = j /\ DOMAIN Before(j) = 1..j
        /\ \A m \in 1..j : Before(j)[m] = journal[m]
    BY BeforeIs
  <2> QED BY <2>1 DEF ToSet
<1>8. \A row \in s.task : \E n \in 1..i : n \in In(journal, "task") /\ journal[n] = row
  BY <1>3, <1>5
<1>9. \A n : n \in s.artifacts <=>
        s.status # "none" /\ n \in 1..k /\ n \in In(journal, "artifact")
  BY <1>3, <1>6
<1>10. s.based <=> \E n \in 1..j : journal[n] = RunRow("running")
  BY <1>3, <1>7
<1> QED BY <1>2, <1>3, <1>8, <1>9, <1>10

\* A run shown as ended has nothing to come but its packet.
LEMMA EndedIsWhole == SessionInv => EndedRunIsWhole
<1> SUFFICES ASSUME JournalOK(journal), NEW s \in Snapshots,
                    NEW n \in In(journal, "artifact"), s.status \in Ended
             PROVE  n \in s.artifacts \/ journal[n].is = "handoff_packet"
  <2>1. ASSUME journal = <<>> PROVE In(journal, "artifact") = {}
    BY <2>1 DEF In
  <2> QED BY <2>1 DEF SessionInv, EitherInv, V0, V1, Journal, EndedRunIsWhole
<1>0. journal \in Seq(Entry)
  BY DEF JournalOK
<1>1. PICK j \in 0..Len(journal) : \E k \in j..Len(journal) :
        /\ s.status = StatusAfter(Before(j))
        /\ \A m : m \in s.artifacts <=>
             s.status # "none" /\ m \in 1..k /\ m \in In(journal, "artifact")
  BY <1>0, SnapshotIs
<1>a. PICK k \in j..Len(journal) :
        /\ s.status = StatusAfter(Before(j))
        /\ \A m : m \in s.artifacts <=>
             s.status # "none" /\ m \in 1..k /\ m \in In(journal, "artifact")
  BY <1>1
<1>2. s.status # "none"
  BY DEF Ended
<1>3. PICK m \in 1..j : m \in In(journal, "run") /\ journal[m] = RunRow(s.status)
  BY <1>a, <1>2, ReadStatusIs
<1>4. journal[m].is \in Ended
  BY <1>3 DEF RunRow
<1>5. n \in 1..Len(journal)
  BY <1>0 DEF In
<1>6. m < n => journal[n].is = "handoff_packet"
  BY <1>3, <1>4 DEF JournalOK, Settled
<1>7. m >= n => n \in s.artifacts
  BY <1>a, <1>2, <1>5
<1> QED BY <1>5, <1>6, <1>7

\* A diff that is selected is the one there is, and the running row came before it.
LEMMA SelectedIsBased ==
  ASSUME JournalOK(journal), NEW s \in Snapshots, NEW uri \in In(journal, "artifact"),
         NEW selection \in {SelectRun(s), SelectUri(s, uri)}
  PROVE  /\ selection # "multiple_diff_artifacts"
         /\ selection \in {"selected", "selected_run_not_found", "diff_artifact_missing",
                           "diff_artifact_uri_not_in_snapshot", "diff_artifact_uri_not_diff"}
         /\ selection = "selected" =>
              \E n \in s.artifacts : journal[n] = Artifact("diff")
<1>0. journal \in Seq(Entry)
  BY DEF JournalOK
<1>1. \A n \in s.artifacts : n \in 1..Len(journal) /\ journal[n].of = "artifact"
  BY <1>0, SnapshotIs DEF In
<1>2. \A n \in s.artifacts : journal[n].is = "diff" => journal[n] = Artifact("diff")
  BY <1>0, <1>1, ArtifactEntry
<1>3. ~\E m, n \in DiffsIn(s) : m # n
  <2>1. \A n \in DiffsIn(s) : n \in DOMAIN journal /\ journal[n] = Artifact("diff")
    BY <1>0, <1>1, <1>2 DEF DiffsIn
  <2> QED BY <2>1 DEF JournalOK, DiffOK
<1>4. CASE selection = SelectRun(s)
  <2>1. SelectRun(s) = "selected" => DiffsIn(s) # {}
    BY DEF SelectRun
  <2> QED BY <1>2, <1>3, <1>4, <2>1 DEF SelectRun, DiffsIn
<1>5. CASE selection = SelectUri(s, uri)
  BY <1>2, <1>5 DEF SelectUri
<1> QED BY <1>4, <1>5

\* Only a reader that saw the run in preparation may leave its base.
LEMMA ForkIsOnBase == SessionInv => ForkedOnItsBase
<1> SUFFICES ASSUME JournalOK(journal), NEW s \in Snapshots,
                    NEW uri \in In(journal, "artifact"),
                    NEW selection \in {SelectRun(s), SelectUri(s, uri)}
             PROVE  /\ selection # "multiple_diff_artifacts"
                    /\ Fork(s, selection, TRUE) = "base_ref" => s.status = "preparing"
  <2>1. ASSUME journal = <<>> PROVE In(journal, "artifact") = {}
    BY <2>1 DEF In
  <2> QED BY <2>1 DEF SessionInv, EitherInv, V0, V1, Journal, ForkedOnItsBase
<1>0. journal \in Seq(Entry)
  BY DEF JournalOK
<1>1. /\ selection # "multiple_diff_artifacts"
      /\ selection \in {"selected", "selected_run_not_found", "diff_artifact_missing",
                        "diff_artifact_uri_not_in_snapshot", "diff_artifact_uri_not_diff"}
      /\ selection = "selected" => \E n \in s.artifacts : journal[n] = Artifact("diff")
  BY SelectedIsBased
<1> SUFFICES ASSUME Fork(s, selection, TRUE) = "base_ref" PROVE s.status = "preparing"
  BY <1>1
<1>2. selection = "selected" /\ ~s.based
  BY <1>1 DEF Fork, Base
<1>3. PICK n \in s.artifacts : journal[n] = Artifact("diff")
  BY <1>1, <1>2
<1>4. PICK j \in 0..Len(journal) : \E k \in j..Len(journal) :
        /\ s.status = StatusAfter(Before(j))
        /\ s.based <=> \E m \in 1..j : journal[m] = RunRow("running")
        /\ \A m : m \in s.artifacts <=>
             s.status # "none" /\ m \in 1..k /\ m \in In(journal, "artifact")
  BY <1>0, SnapshotIs
<1>5. s.status # "none" /\ n \in In(journal, "artifact") /\ n \in 1..Len(journal)
  BY <1>0, <1>3, <1>4 DEF In
<1>6. PICK r \in 1..(n - 1) : journal[r] = RunRow("running")
  <2>1. n \in DOMAIN journal
    BY <1>0, <1>5
  <2>2. PICK r \in DOMAIN journal : r < n /\ journal[r] = RunRow("running")
    BY <1>3, <2>1 DEF JournalOK, DiffOK
  <2>3. r \in 1..(n - 1)
    BY <1>0, <1>5, <2>2
  <2> QED BY <2>2, <2>3
<1>7. j < r
  BY <1>2, <1>4, <1>5, <1>6
<1>8. PICK m \in 1..j : m \in In(journal, "run") /\ journal[m] = RunRow(s.status)
  BY <1>4, <1>5, ReadStatusIs
<1>9. journal[m].is = s.status /\ s.status \in Open \cup Ended
  BY <1>8 DEF RunRow, JournalOK, Ranked
<1>10. s.status \notin Ended
  <2>1. m < n /\ journal[n].is = "diff"
    BY <1>3, <1>5, <1>6, <1>7, <1>8 DEF Artifact
  <2> QED BY <1>5, <1>8, <1>9, <2>1 DEF JournalOK, Settled
<1>11. s.status # "running"
  BY <1>2, <1>4, <1>8
<1> QED BY <1>9, <1>10, <1>11 DEF Open

\* What the task's row refers to had been written when it was, and is read with it.
LEMMA TaskIsMet == SessionInv => ReferencesAreMet
<1> SUFFICES ASSUME JournalOK(journal), NEW s \in Snapshots
             PROVE  /\ TaskRow("review_context") \in s.task =>
                         /\ s.status = "succeeded"
                         /\ Fork(s, SelectRun(s), FALSE) = "base_commit"
                    /\ TaskRow("handoff_packet_uri") \in s.task =>
                         /\ s.status = "failed"
                         /\ \E n \in s.artifacts : journal[n] = Artifact("handoff_packet")
  <2>1. ASSUME journal = <<>>, NEW s \in Snapshots PROVE s.task = {}
    <3>1. journal \in Seq(Entry) /\ In(journal, "task") = {}
      BY <2>1 DEF In
    <3> QED BY <3>1, SnapshotIs
  <2> QED BY <2>1 DEF SessionInv, EitherInv, V0, V1, Journal, ReferencesAreMet
<1>0. journal \in Seq(Entry) /\ DOMAIN journal = 1..Len(journal)
  BY DEF JournalOK
<1> DEFINE Seen(i, j, k) ==
      /\ \A row \in s.task : \E n \in 1..i : n \in In(journal, "task") /\ journal[n] = row
      /\ s.status = StatusAfter(Before(j))
      /\ s.based <=> \E n \in 1..j : journal[n] = RunRow("running")
      /\ \A n : n \in s.artifacts <=>
           s.status # "none" /\ n \in 1..k /\ n \in In(journal, "artifact")
<1>1. \E j \in 0..Len(journal) : \E i \in 0..j : \E k \in j..Len(journal) : Seen(i, j, k)
  BY <1>0, SnapshotIs
<1>2. PICK j \in 0..Len(journal) : \E i \in 0..j : \E k \in j..Len(journal) : Seen(i, j, k)
  BY <1>1
<1>3. PICK i \in 0..j : \E k \in j..Len(journal) : Seen(i, j, k)
  BY <1>2
<1>4. PICK k \in j..Len(journal) : Seen(i, j, k)
  BY <1>3
<1>5. \A row \in s.task : \E n \in 1..i : n \in In(journal, "task") /\ journal[n] = row
  BY <1>4
<1>6. /\ s.status = StatusAfter(Before(j))
      /\ s.based <=> \E n \in 1..j : journal[n] = RunRow("running")
      /\ \A n : n \in s.artifacts <=>
           s.status # "none" /\ n \in 1..k /\ n \in In(journal, "artifact")
  BY <1>4
<1> HIDE DEF Seen
\* The run's rows were all written before, so its status is the one it has now.
<1>7. ASSUME NEW n \in 1..i, n \in In(journal, "task") PROVE s.status = StatusAfter(journal)
  <2>1. \A m \in In(journal, "run") : m \in 1..Len(journal) /\ m < n /\ m \in 1..j
    BY <1>0, <1>7 DEF JournalOK, RefersBack, In
  <2>2. /\ Before(j) \in Seq(Entry) /\ Ranked(journal)
        /\ \A m \in 1..j : Before(j)[m] = journal[m]
        /\ \A m : m \in In(Before(j), "run") <=> m \in 1..j /\ m \in In(journal, "run")
    BY <1>0, BeforeIs DEF JournalOK
  <2>3. In(Before(j), "run") = In(journal, "run")
    BY <2>1, <2>2
  <2>4. \A m \in In(journal, "run") : Before(j)[m] = journal[m]
    BY <2>1, <2>2
  <2> QED BY <1>0, <1>6, <2>2, <2>3, <2>4, StatusKept
<1>8. ASSUME TaskRow("review_context") \in s.task
      PROVE  s.status = "succeeded" /\ Fork(s, SelectRun(s), FALSE) = "base_commit"
  <2>1. PICK n \in 1..i : n \in In(journal, "task") /\ journal[n] = TaskRow("review_context")
    BY <1>5, <1>8
  <2>2. /\ StatusAfter(journal) = "succeeded"
        /\ \E m \in DOMAIN journal : m < n /\ journal[m] = Artifact("diff")
    BY <2>1 DEF JournalOK, RefersBack
  <2>3. s.status = "succeeded"
    BY <1>7, <2>1, <2>2
  <2>4. PICK m \in DOMAIN journal : m < n /\ journal[m] = Artifact("diff")
    BY <2>2
  <2>5. m \in s.artifacts /\ journal[m].is = "diff"
    BY <1>0, <1>6, <2>3, <2>4 DEF In, Artifact
  <2>6. SelectRun(s) = "selected"
    <3>1. DiffsIn(s) # {}
      BY <2>5 DEF DiffsIn
    <3>2. SelectRun(s) \in {"selected", "multiple_diff_artifacts"}
      BY <2>3, <3>1 DEF SelectRun
    <3>3. m \in In(journal, "artifact")
      BY <1>6, <2>5
    <3> QED BY <3>2, <3>3, SelectedIsBased
  <2>7. s.based
    <3>1. PICK r \in DOMAIN journal : r < m /\ journal[r] = RunRow("running")
      BY <2>4 DEF JournalOK, DiffOK
    <3>2. r \in 1..j
      BY <1>0, <2>4, <3>1
    <3> QED BY <1>6, <3>1, <3>2
  <2> QED BY <2>3, <2>6, <2>7 DEF Fork, Base
<1>9. ASSUME TaskRow("handoff_packet_uri") \in s.task
      PROVE  /\ s.status = "failed"
             /\ \E n \in s.artifacts : journal[n] = Artifact("handoff_packet")
  <2>1. PICK n \in 1..i : n \in In(journal, "task")
                          /\ journal[n] = TaskRow("handoff_packet_uri")
    BY <1>5, <1>9
  <2>2. /\ StatusAfter(journal) = "failed"
        /\ \E m \in DOMAIN journal : m < n /\ journal[m] = Artifact("handoff_packet")
    BY <2>1 DEF JournalOK, RefersBack
  <2>3. s.status = "failed"
    BY <1>7, <2>1, <2>2
  <2>4. PICK m \in DOMAIN journal : m < n /\ journal[m] = Artifact("handoff_packet")
    BY <2>2
  <2>5. m \in s.artifacts
    BY <1>0, <1>6, <2>3, <2>4 DEF In, Artifact
  <2> QED BY <2>3, <2>4, <2>5
<1> QED BY <1>8, <1>9
-----------------------------------------------------------------------------
\* The steps of the session are steps of the run, or of nobody in it.
LEMMA SessionIsFlow == SessionSpec => FlowSpec
<1>1. SessionInit => FlowInit
  BY DEF SessionInit
<1>2. [SessionNext]_sessionVars => [FlowNext]_flowVars
  BY DEF SessionNext, SessionStep, HandlerStep, sessionVars
<1> QED BY <1>1, <1>2, PTL DEF SessionSpec, FlowSpec

\* What the task's row refers to is in the snapshot with it, although its three reads
\* are not one (SqliteSessionSnapshotReader.get(), persist(), setReviewContext(),
\* setHandoffPacketUri()).
THEOREM ReferencesMet == SessionSpec => []ReferencesAreMet
BY TaskIsMet, SessionInvariant, PTL

\* A run that is shown as ended is shown with all that was saved of it, but for its
\* packet (finishRun() after saveText(), listRunsStmt before artifactsByRunId()).
THEOREM EndedIsComplete == SessionSpec => []EndedRunIsWhole
BY EndedIsWhole, SessionInvariant, PTL

\* A diff is put back on the commit it was made from, unless the reader saw the run
\* in preparation; and there are never two diffs to choose from
\* (reconstructWorktreeFromSessionSnapshot()).
THEOREM ForkFindsItsBase == SessionSpec => []ForkedOnItsBase
BY ForkIsOnBase, SessionInvariant, PTL

\* And what is promised of a run is true of it while it is read: the journal and its
\* handler get in the way of nothing.
THEOREM SessionKeepsPromises ==
  SessionSpec => [](/\ RunTypeOK /\ SuccessIsEarned /\ NothingLeft
                    /\ InterruptedIsCancelled /\ AnswerTellsStatus
                    /\ AgentAnswersFirst /\ LogTellsAnswer)
BY SessionIsFlow, EitherKeepsPromises, AgentComesFirst, LogAgrees, PTL
=============================================================================
