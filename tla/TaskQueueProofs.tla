-------------------------- MODULE TaskQueueProofs --------------------------
(***************************************************************************)
(* Proofs about TaskQueue, for any tasks, workers, agents and leases.      *)
(*                                                                         *)
(* QueueInv is the inductive invariant.  OneHolder alone is not inductive: *)
(* a worker's claim is exclusive because a row that somebody holds is      *)
(* "dispatched" (HolderOwnsRow), and the claim's condition on the lease    *)
(* plays no part because a queued row never has one (OwnedIffDispatched).  *)
(***************************************************************************)
EXTENDS TaskQueue, TLAPS

QueueInv == QueueTypeOK /\ HolderOwnsRow /\ OwnedIffDispatched
-----------------------------------------------------------------------------
\* A row that can be claimed is queued and free, whatever the clock says: no
\* queued row has a lease that could run out (claimSelectStmt).
LEMMA ClaimableIsFree ==
  ASSUME QueueInv, NEW t \in Tasks, Claimable(t)
  PROVE  /\ rows[t].status = "queued"
         /\ \A w \in Workers : held[w].task # t
<1>1. rows[t].status = "queued"
  BY DEF Claimable
<1>2. ASSUME NEW w \in Workers, held[w].task = t PROVE FALSE
  <2>1. t # NoTask
    BY QueueAssumption
  <2>2. rows[t].status = "dispatched"
    BY <1>2, <2>1 DEF QueueInv, HolderOwnsRow
  <2> QED BY <1>1, <2>2
<1> QED BY <1>1, <1>2

\* A worker that holds a task holds one the table knows.
LEMMA HeldIsTask ==
  ASSUME QueueTypeOK, NEW w \in Workers, held[w].task # NoTask
  PROVE  held[w].task \in Tasks
BY DEF QueueTypeOK, Entry

\* The row a release leaves is a row.
LEMMA ReleasedIsRow ==
  ASSUME NEW row \in Row, NEW s \in Statuses, NEW r \in Roles, NEW n \in Nat
  PROVE  Released(row, s, r, n) \in Row
BY DEF Released, Row, NoLease
-----------------------------------------------------------------------------
\* The initial table, clock, maps and entries have their types.
LEMMA InitType == QueueInit => QueueTypeOK
<1> SUFFICES ASSUME QueueInit PROVE QueueTypeOK
  OBVIOUS
<1>1. AbsentRow \in Row
  BY DEF AbsentRow, Row, Statuses, Roles, NoLease, Contexts, NoRun
<1>2. NotCached \in CacheLine /\ NoEntry \in Entry
  BY DEF NotCached, CacheLine, NoEntry, Entry, Roles
<1> QED BY <1>1, <1>2 DEF QueueInit, QueueTypeOK

\* No operation of the queue writes a value of the wrong type.
LEMMA NextType == QueueTypeOK /\ [QueueNext]_queueVars => QueueTypeOK'
<1> SUFFICES ASSUME QueueTypeOK, [QueueNext]_queueVars PROVE QueueTypeOK'
  OBVIOUS
<1>1. ASSUME NEW t \in Tasks, NEW excl \in SUBSET Agents, Enqueue(t, excl)
      PROVE  QueueTypeOK'
  <2>1. [AbsentRow EXCEPT !.status = "queued", !.at = now, !.excl = excl] \in Row
    BY DEF QueueTypeOK, AbsentRow, Row, Statuses, Roles, NoLease, Contexts, NoRun
  <2> QED BY <1>1, <2>1 DEF QueueTypeOK, Enqueue
<1>2. ASSUME NEW w \in Workers, NEW t \in Tasks, Claim(w, t)
      PROVE  QueueTypeOK'
  <2>1. rows[t] \in Row /\ now + LeaseTicks \in Nat
    BY QueueAssumption DEF QueueTypeOK
  <2>2. rows' \in [Tasks -> Row]
    BY <1>2, <2>1 DEF QueueTypeOK, Claim, Row, Statuses
  <2>3. held' \in [Workers -> Entry]
    BY <1>2, <2>1 DEF QueueTypeOK, Claim, Row, Entry
  <2>4. cache' \in [Workers -> [Tasks -> CacheLine]]
    BY <1>2, <2>1 DEF QueueTypeOK, Claim, FillCache, Row, CacheLine
  <2> QED BY <1>2, <2>2, <2>3, <2>4 DEF QueueTypeOK, Claim
<1>3. ASSUME NEW w \in Workers, NEW s \in Statuses, NEW r \in Roles, NEW n \in Nat,
             Release(w, s, r, n)
      PROVE  QueueTypeOK'
  <2>1. held[w].task \in Tasks
    BY <1>3, HeldIsTask DEF Release
  <2>2. Released(rows[held[w].task], s, r, n) \in Row
    BY <2>1, ReleasedIsRow DEF QueueTypeOK
  <2>3. NoEntry \in Entry
    BY DEF NoEntry, Entry, Roles
  <2> QED BY <1>3, <2>2, <2>3 DEF QueueTypeOK, Release
<1>4. ASSUME NEW w \in Workers, NEW ctx \in Contexts, SetReviewContext(w, ctx)
      PROVE  QueueTypeOK'
  <2>1. held[w].task \in Tasks
    BY <1>4, HeldIsTask DEF SetReviewContext
  <2>2. [rows[held[w].task] EXCEPT !.ctx = ctx] \in Row
    BY <2>1 DEF QueueTypeOK, Row
  <2> QED BY <1>4, <2>1, <2>2 DEF QueueTypeOK, SetReviewContext
<1>5. ASSUME NEW w \in Workers, NEW agents \in SUBSET Agents, AddExcludes(w, agents)
      PROVE  QueueTypeOK'
  <2>1. held[w].task \in Tasks
    BY <1>5, HeldIsTask DEF AddExcludes
  <2>2. MergedExcludes(held[w].task, agents) \in SUBSET Agents
    BY <2>1 DEF QueueTypeOK, Row, MergedExcludes
  <2> DEFINE merged == MergedExcludes(held[w].task, agents)
  <2>3. [rows[held[w].task] EXCEPT !.excl = merged] \in Row
    BY <2>1, <2>2 DEF QueueTypeOK, Row
  <2>4. [known |-> TRUE, excl |-> merged] \in CacheLine
    BY <2>2 DEF CacheLine
  <2> QED BY <1>5, <2>1, <2>3, <2>4 DEF QueueTypeOK, AddExcludes
<1>6. ASSUME NEW w \in Workers, NEW p \in RunIds \cup {NoRun}, SetPacket(w, p)
      PROVE  QueueTypeOK'
  <2>1. held[w].task \in Tasks
    BY <1>6, HeldIsTask DEF SetPacket
  <2>2. [rows[held[w].task] EXCEPT !.packet = p] \in Row
    BY <2>1 DEF QueueTypeOK, Row
  <2> QED BY <1>6, <2>1, <2>2 DEF QueueTypeOK, SetPacket
<1>7. ASSUME NEW w \in Workers, Abandon(w) PROVE QueueTypeOK'
  <2>1. NoEntry \in Entry
    BY DEF NoEntry, Entry, Roles
  <2> QED BY <1>7, <2>1 DEF QueueTypeOK, Abandon
<1>8. CASE Forget
  <2>1. NotCached \in CacheLine /\ NoEntry \in Entry
    BY DEF NotCached, CacheLine, NoEntry, Entry, Roles
  <2> QED BY <1>8, <2>1 DEF QueueTypeOK, Forget
<1>9. CASE Tick
  BY <1>9 DEF QueueTypeOK, Tick
<1>10. CASE UNCHANGED queueVars
  BY <1>10 DEF QueueTypeOK, queueVars
<1>11. ASSUME NEW w \in Workers, NEW s \in Statuses \ {"absent", "dispatched"}, NEW r \in Roles,
              NEW n \in {held[w].attempts, held[w].attempts + 1} \cap 0..MaxAttempts,
              Release(w, s, r, n)
       PROVE  QueueTypeOK'
  <2>1. n \in Nat
    BY QueueAssumption
  <2> QED BY <1>3, <1>11, <2>1
<1> QED BY <1>1, <1>2, <1>4, <1>5, <1>6, <1>7, <1>8, <1>9, <1>10, <1>11 DEF QueueNext
-----------------------------------------------------------------------------
\* What a handler notes in the row it holds (the review context, exclusions, the
\* packet) leaves everything the queue goes by alone.
Annotate(w) ==
  \/ \E ctx \in Contexts : SetReviewContext(w, ctx)
  \/ \E agents \in SUBSET Agents : AddExcludes(w, agents)
  \/ \E p \in RunIds \cup {NoRun} : SetPacket(w, p)

LEMMA AnnotateKeeps ==
  ASSUME QueueTypeOK, NEW w \in Workers, Annotate(w)
  PROVE  /\ held' = held
         /\ held[w].task \in Tasks
         /\ \A t \in Tasks : /\ rows'[t].status   = rows[t].status
                             /\ rows'[t].role     = rows[t].role
                             /\ rows'[t].owner    = rows[t].owner
                             /\ rows'[t].lease    = rows[t].lease
                             /\ rows'[t].attempts = rows[t].attempts
                             /\ rows[t].excl \subseteq rows'[t].excl
                             /\ t # held[w].task => rows'[t] = rows[t]
<1> DEFINE own == held[w].task
<1> DEFINE Keeps(row) == /\ row.status   = rows[own].status
                         /\ row.role     = rows[own].role
                         /\ row.owner    = rows[own].owner
                         /\ row.lease    = rows[own].lease
                         /\ row.attempts = rows[own].attempts
                         /\ rows[own].excl \subseteq row.excl
<1>1. own # NoTask /\ held' = held
  BY DEF Annotate, SetReviewContext, AddExcludes, SetPacket
<1>2. own \in Tasks /\ rows[own] \in Row
  BY <1>1, HeldIsTask DEF QueueTypeOK
<1>3. ASSUME NEW row, rows' = [rows EXCEPT ![own] = row], Keeps(row)
      PROVE  \A t \in Tasks : /\ rows'[t].status   = rows[t].status
                              /\ rows'[t].role     = rows[t].role
                              /\ rows'[t].owner    = rows[t].owner
                              /\ rows'[t].lease    = rows[t].lease
                              /\ rows'[t].attempts = rows[t].attempts
                              /\ rows[t].excl \subseteq rows'[t].excl
                              /\ t # own => rows'[t] = rows[t]
  BY <1>2, <1>3 DEF QueueTypeOK
<1>4. \E row : rows' = [rows EXCEPT ![own] = row] /\ Keeps(row)
  <2>1. ASSUME NEW ctx \in Contexts, SetReviewContext(w, ctx)
        PROVE  \E row : rows' = [rows EXCEPT ![own] = row] /\ Keeps(row)
    <3> WITNESS [rows[own] EXCEPT !.ctx = ctx]
    <3> QED BY <1>2, <2>1 DEF SetReviewContext, Row
  <2>2. ASSUME NEW agents \in SUBSET Agents, AddExcludes(w, agents)
        PROVE  \E row : rows' = [rows EXCEPT ![own] = row] /\ Keeps(row)
    <3> WITNESS [rows[own] EXCEPT !.excl = rows[own].excl \cup agents]
    <3> QED BY <1>2, <2>2 DEF AddExcludes, MergedExcludes, Row
  <2>3. ASSUME NEW p \in RunIds \cup {NoRun}, SetPacket(w, p)
        PROVE  \E row : rows' = [rows EXCEPT ![own] = row] /\ Keeps(row)
    <3> WITNESS [rows[own] EXCEPT !.packet = p]
    <3> QED BY <1>2, <2>3 DEF SetPacket, Row
  <2> QED BY <2>1, <2>2, <2>3 DEF Annotate
<1> HIDE DEF own, Keeps
<1>5. PICK row : rows' = [rows EXCEPT ![own] = row] /\ Keeps(row)
  BY <1>4
<1> QED BY <1>1, <1>2, <1>3, <1>5 DEF own

\* Every worker at work owns the row it works on, after any operation.
LEMMA NextHolder == QueueInv /\ [QueueNext]_queueVars => HolderOwnsRow'
<1> SUFFICES ASSUME QueueInv, [QueueNext]_queueVars,
                    NEW v \in Workers, held'[v].task # NoTask
             PROVE  LET row == rows'[held'[v].task]
                    IN  /\ row.status = "dispatched"
                        /\ row.owner = v
                        /\ row.role = held'[v].role
                        /\ row.attempts = held'[v].attempts
  BY DEF HolderOwnsRow
<1> USE DEF QueueInv
<1> DEFINE Same == held'[v] = held[v] /\ rows'[held[v].task] = rows[held[v].task]
<1>0. ASSUME Same PROVE held[v].task # NoTask
  BY <1>0
<1>1. ASSUME NEW t \in Tasks, NEW excl \in SUBSET Agents, Enqueue(t, excl)
      PROVE  Same
  <2>1. held[v].task # NoTask /\ held[v].task \in Tasks
    BY <1>1, HeldIsTask DEF Enqueue
  <2>2. held[v].task # t
    BY <1>1, <2>1 DEF Enqueue, HolderOwnsRow
  <2> QED BY <1>1, <2>1, <2>2 DEF Enqueue, QueueTypeOK
<1>2. ASSUME NEW w \in Workers, NEW t \in Tasks, Claim(w, t), v # w
      PROVE  Same
  <2>1. held'[v] = held[v] /\ held[v].task # NoTask
    BY <1>2 DEF Claim, QueueTypeOK
  <2>2. held[v].task \in Tasks
    BY <2>1, HeldIsTask
  <2>3. held[v].task # t
    BY <1>2, ClaimableIsFree DEF Claim, NextClaimable
  <2> QED BY <1>2, <2>1, <2>2, <2>3 DEF Claim, QueueTypeOK
<1>3. ASSUME NEW t \in Tasks, Claim(v, t)
      PROVE  /\ held'[v].task = t
             /\ rows'[t].status = "dispatched"
             /\ rows'[t].owner = v
             /\ rows'[t].role = held'[v].role
             /\ rows'[t].attempts = held'[v].attempts
  BY <1>3 DEF Claim, QueueTypeOK, Row
<1>4. ASSUME NEW w \in Workers, NEW s, NEW r, NEW n, Release(w, s, r, n)
      PROVE  Same
  <2>1. v # w
    BY <1>4 DEF Release, QueueTypeOK, NoEntry
  <2>2. held'[v] = held[v] /\ held[v].task # NoTask /\ held[w].task # NoTask
    BY <1>4, <2>1 DEF Release, QueueTypeOK
  <2>3. held[v].task # held[w].task
    BY <2>1, <2>2 DEF HolderOwnsRow
  <2>4. held[v].task \in Tasks
    BY <2>2, HeldIsTask
  <2> QED BY <1>4, <2>2, <2>3, <2>4 DEF Release, QueueTypeOK
<1>5. ASSUME NEW w \in Workers, Annotate(w)
      PROVE  /\ held'[v] = held[v] /\ held[v].task # NoTask
             /\ rows'[held[v].task].status = rows[held[v].task].status
             /\ rows'[held[v].task].owner = rows[held[v].task].owner
             /\ rows'[held[v].task].role = rows[held[v].task].role
             /\ rows'[held[v].task].attempts = rows[held[v].task].attempts
  <2>1. held'[v] = held[v] /\ held[v].task # NoTask
    BY <1>5, AnnotateKeeps
  <2> QED BY <1>5, <2>1, HeldIsTask, AnnotateKeeps
<1>6. ASSUME NEW w \in Workers, Abandon(w) PROVE Same
  BY <1>6 DEF Abandon, QueueTypeOK, NoEntry
<1>7. ~Forget
  BY DEF Forget, NoEntry
<1>8. ASSUME Tick \/ UNCHANGED queueVars PROVE Same
  BY <1>8 DEF Tick, queueVars
<1>9. ASSUME Same PROVE /\ rows'[held'[v].task].status = "dispatched"
                        /\ rows'[held'[v].task].owner = v
                        /\ rows'[held'[v].task].role = held'[v].role
                        /\ rows'[held'[v].task].attempts = held'[v].attempts
  BY <1>0, <1>9 DEF HolderOwnsRow
<1>10. CASE \E w \in Workers, t \in Tasks : Claim(w, t)
  BY <1>2, <1>3, <1>9, <1>10
<1>11. CASE \E w \in Workers : Annotate(w)
  BY <1>5, <1>11 DEF HolderOwnsRow
<1> QED BY <1>1, <1>4, <1>6, <1>7, <1>8, <1>9, <1>10, <1>11 DEF QueueNext, Annotate

\* A row has an owner and a lease exactly while it is dispatched, after any
\* operation.
LEMMA NextOwned == QueueInv /\ [QueueNext]_queueVars => OwnedIffDispatched'
<1> SUFFICES ASSUME QueueInv, [QueueNext]_queueVars, NEW t \in Tasks
             PROVE  /\ rows'[t].status = "dispatched" <=> rows'[t].owner # NoWorker
                    /\ rows'[t].status = "dispatched" <=> rows'[t].lease # NoLease
  BY DEF OwnedIffDispatched
<1> USE DEF QueueInv
<1> DEFINE Good(row) == /\ row.status = "dispatched" <=> row.owner # NoWorker
                        /\ row.status = "dispatched" <=> row.lease # NoLease
<1>0. Good(rows[t])
  BY DEF OwnedIffDispatched
<1>1. ASSUME NEW u \in Tasks, NEW excl \in SUBSET Agents, Enqueue(u, excl)
      PROVE  Good(rows'[t])
  BY <1>0, <1>1 DEF Enqueue, QueueTypeOK, AbsentRow
<1>2. ASSUME NEW w \in Workers, NEW u \in Tasks, Claim(w, u)
      PROVE  Good(rows'[t])
  <2>1. now + LeaseTicks # NoLease /\ w # NoWorker
    BY QueueAssumption DEF QueueTypeOK, NoLease
  <2>2. CASE t # u
    BY <1>0, <1>2, <2>2 DEF Claim, QueueTypeOK
  <2>3. CASE t = u
    <3>1. /\ rows'[t].status = "dispatched"
          /\ rows'[t].owner = w
          /\ rows'[t].lease = now + LeaseTicks
      BY <1>2, <2>3 DEF Claim, QueueTypeOK, Row
    <3> QED BY <2>1, <3>1
  <2> QED BY <2>2, <2>3
<1>3. ASSUME NEW w \in Workers, NEW s \in Statuses \ {"absent", "dispatched"},
             NEW r, NEW n, Release(w, s, r, n)
      PROVE  Good(rows'[t])
  <2>1. CASE t # held[w].task
    BY <1>0, <1>3, <2>1 DEF Release, QueueTypeOK
  <2>2. CASE t = held[w].task
    <3>1. rows'[t] = Released(rows[t], s, r, n) /\ rows[t] \in Row
      BY <1>3, <2>2 DEF Release, QueueTypeOK
    <3>2. /\ rows'[t].status = s
          /\ rows'[t].owner = NoWorker
          /\ rows'[t].lease = NoLease
      BY <3>1 DEF Released, Row
    <3> QED BY <3>2
  <2> QED BY <2>1, <2>2
<1>4. ASSUME NEW w \in Workers, Annotate(w) PROVE Good(rows'[t])
  <2>1. /\ rows'[t].status = rows[t].status
        /\ rows'[t].owner = rows[t].owner
        /\ rows'[t].lease = rows[t].lease
    BY <1>4, AnnotateKeeps
  <2> QED BY <1>0, <2>1
<1>5. ASSUME rows' = rows PROVE Good(rows'[t])
  BY <1>0, <1>5
<1>6. ASSUME \/ \E w \in Workers : Abandon(w)
             \/ Forget \/ Tick \/ UNCHANGED queueVars
      PROVE  rows' = rows
  BY <1>6 DEF Abandon, Forget, Tick, queueVars
<1> QED BY <1>1, <1>2, <1>3, <1>4, <1>5, <1>6 DEF QueueNext, Annotate
-----------------------------------------------------------------------------
\* QueueInv holds at first and is kept by every operation.
THEOREM QueueInvariant == QueueSpec => []QueueInv
<1>1. QueueInit => QueueInv
  <2> SUFFICES ASSUME QueueInit PROVE QueueInv
    OBVIOUS
  <2>1. HolderOwnsRow
    BY DEF QueueInit, HolderOwnsRow, NoEntry
  <2>2. OwnedIffDispatched
    BY DEF QueueInit, OwnedIffDispatched, AbsentRow
  <2> QED BY <2>1, <2>2, InitType DEF QueueInv
<1>2. QueueInv /\ [QueueNext]_queueVars => QueueInv'
  BY NextType, NextHolder, NextOwned DEF QueueInv
<1> QED BY <1>1, <1>2, PTL DEF QueueSpec

\* The table, the maps and the entries always have their types (the schema of
\* task_queue, TaskQueueEntry).
THEOREM TypeCorrect == QueueSpec => []QueueTypeOK
<1>1. QueueInv => QueueTypeOK
  BY DEF QueueInv
<1> QED BY <1>1, QueueInvariant, PTL

\* Two workers never hold the same task, for any number of workers and tasks, any
\* length of the lease and any clock (claim() and its conditional update).
THEOREM Exclusive == QueueSpec => []OneHolder
<1>1. QueueInv => OneHolder
  <2> SUFFICES ASSUME QueueInv, NEW v \in Workers, NEW w \in Workers, v # w,
                      held[v].task # NoTask, held[v].task = held[w].task
               PROVE  FALSE
    BY DEF OneHolder
  <2>1. rows[held[v].task].owner = v /\ rows[held[w].task].owner = w
    BY DEF QueueInv, HolderOwnsRow
  <2> QED BY <2>1
<1> QED BY <1>1, QueueInvariant, PTL

\* The copy of the row a worker works from is never stale, and the row names it.
THEOREM HolderIsOwner == QueueSpec => []HolderOwnsRow
<1>1. QueueInv => HolderOwnsRow
  BY DEF QueueInv
<1> QED BY <1>1, QueueInvariant, PTL

\* A row has an owner and a lease exactly while it is dispatched: the second
\* disjunct of the claim's WHERE clause never frees a row.
THEOREM OwnedWhileDispatched == QueueSpec => []OwnedIffDispatched
<1>1. QueueInv => OwnedIffDispatched
  BY DEF QueueInv
<1> QED BY <1>1, QueueInvariant, PTL
-----------------------------------------------------------------------------
\* Nothing is excluded for a task that was not submitted.
AbsentExcludesNone == \A t \in Tasks : rows[t].status = "absent" => rows[t].excl = {}

\* An operation changes a row that is neither queued, nor dispatched, nor new in
\* no way; it takes no exclusion away; and it leaves no row absent that was not.
LEMMA RowSteps ==
  ASSUME QueueInv, AbsentExcludesNone, [QueueNext]_queueVars, NEW t \in Tasks
  PROVE  /\ rows[t].status \in Terminal => rows'[t] = rows[t]
         /\ rows[t].excl \subseteq rows'[t].excl
         /\ rows'[t].status = "absent" => rows'[t] = rows[t]
<1> USE DEF QueueInv
<1> DEFINE Fine == /\ rows[t].status \in Terminal => rows'[t] = rows[t]
                   /\ rows[t].excl \subseteq rows'[t].excl
                   /\ rows'[t].status = "absent" => rows'[t] = rows[t]
<1>0. rows[t] \in Row
  BY DEF QueueTypeOK
<1>1. ASSUME NEW u \in Tasks, NEW excl \in SUBSET Agents, Enqueue(u, excl)
      PROVE  Fine
  <2>1. CASE u # t
    BY <1>1, <2>1 DEF Enqueue, QueueTypeOK
  <2>2. CASE u = t
    <3>1. rows'[t].status = "queued" /\ rows[t].status = "absent"
      BY <1>1, <2>2 DEF Enqueue, QueueTypeOK, AbsentRow
    <3>2. rows[t].excl = {}
      BY <3>1 DEF AbsentExcludesNone
    <3> QED BY <3>1, <3>2 DEF Terminal
  <2> QED BY <2>1, <2>2
<1>2. ASSUME NEW w \in Workers, NEW u \in Tasks, Claim(w, u)
      PROVE  Fine
  <2>1. CASE u # t
    BY <1>2, <2>1 DEF Claim, QueueTypeOK
  <2>2. CASE u = t
    <3>1. rows[t].status = "queued"
      BY <1>2, <2>2 DEF Claim, NextClaimable, Claimable
    <3>2. rows'[t].status = "dispatched" /\ rows'[t].excl = rows[t].excl
      BY <1>0, <1>2, <2>2 DEF Claim, QueueTypeOK, Row
    <3> QED BY <3>1, <3>2 DEF Terminal
  <2> QED BY <2>1, <2>2
<1>3. ASSUME NEW w \in Workers, NEW s \in Statuses \ {"absent", "dispatched"},
             NEW r, NEW n, Release(w, s, r, n)
      PROVE  Fine
  <2>1. CASE held[w].task # t
    BY <1>3, <2>1 DEF Release, QueueTypeOK
  <2>2. CASE held[w].task = t
    <3>1. rows[t].status = "dispatched"
      BY <1>3, <2>2 DEF Release, HolderOwnsRow
    <3>2. rows'[t] = Released(rows[t], s, r, n)
      BY <1>3, <2>2 DEF Release, QueueTypeOK
    <3>3. rows'[t].status = s /\ rows'[t].excl = rows[t].excl
      BY <1>0, <3>2 DEF Released, Row
    <3> QED BY <3>1, <3>3 DEF Terminal
  <2> QED BY <2>1, <2>2
<1>4. ASSUME NEW w \in Workers, Annotate(w) PROVE Fine
  <2>1. rows[held[w].task].status = "dispatched"
    BY <1>4 DEF HolderOwnsRow, Annotate, SetReviewContext, AddExcludes, SetPacket
  <2>2. /\ rows[t].excl \subseteq rows'[t].excl
        /\ rows'[t].status = rows[t].status
        /\ t # held[w].task => rows'[t] = rows[t]
    BY <1>4, AnnotateKeeps
  <2> QED BY <2>1, <2>2 DEF Terminal
<1>5. ASSUME \/ \E w \in Workers : Abandon(w)
             \/ Forget \/ Tick \/ UNCHANGED queueVars
      PROVE  Fine
  BY <1>5 DEF Abandon, Forget, Tick, queueVars
<1> QED BY <1>1, <1>2, <1>3, <1>4, <1>5 DEF QueueNext, Annotate

\* QueueInv, with what the workers' maps add to it.
MapInv == QueueInv /\ AbsentExcludesNone /\ CacheBehindTable

\* A worker's map gets what the table says, or keeps what it had.
LEMMA NextMap == MapInv /\ [QueueNext]_queueVars => CacheBehindTable'
<1> SUFFICES ASSUME MapInv, [QueueNext]_queueVars, NEW v \in Workers, NEW t \in Tasks
             PROVE  cache'[v][t].excl \subseteq rows'[t].excl
  BY DEF CacheBehindTable
<1> USE DEF MapInv, QueueInv
<1>1. rows[t].excl \subseteq rows'[t].excl
  BY RowSteps
<1>2. cache[v][t].excl \subseteq rows[t].excl
  BY DEF CacheBehindTable
<1>3. ASSUME cache' = cache PROVE cache'[v][t].excl \subseteq rows'[t].excl
  BY <1>1, <1>2, <1>3
<1>4. ASSUME NEW w \in Workers, NEW u \in Tasks, Claim(w, u)
      PROVE  cache'[v][t].excl \subseteq rows'[t].excl
  <2>1. \/ cache'[v][t] = cache[v][t]
        \/ u = t /\ cache'[v][t].excl = rows[t].excl
    BY <1>4 DEF Claim, FillCache, QueueTypeOK
  <2> QED BY <1>1, <1>2, <2>1
<1>5. ASSUME NEW w \in Workers, NEW agents \in SUBSET Agents, AddExcludes(w, agents)
      PROVE  cache'[v][t].excl \subseteq rows'[t].excl
  <2>1. held[w].task \in Tasks
    BY <1>5, HeldIsTask DEF AddExcludes
  <2>2. CASE v = w /\ t = held[w].task
    <3>1. cache'[v][t].excl = MergedExcludes(t, agents)
      BY <1>5, <2>2 DEF AddExcludes, QueueTypeOK
    <3>2. rows'[t].excl = MergedExcludes(t, agents)
      BY <1>5, <2>2 DEF AddExcludes, QueueTypeOK, Row
    <3> QED BY <3>1, <3>2
  <2>3. CASE ~(v = w /\ t = held[w].task)
    <3>1. cache'[v][t] = cache[v][t]
      BY <1>5, <2>1, <2>3 DEF AddExcludes, QueueTypeOK
    <3> QED BY <1>1, <1>2, <3>1
  <2> QED BY <2>2, <2>3
<1>6. ASSUME Forget PROVE cache'[v][t].excl \subseteq rows'[t].excl
  BY <1>6 DEF Forget, NotCached
<1>7. CASE \/ \E u \in Tasks, excl \in SUBSET Agents : Enqueue(u, excl)
           \/ \E w \in Workers : \E s, r, n : Release(w, s, r, n)
           \/ \E w \in Workers : \E ctx : SetReviewContext(w, ctx)
           \/ \E w \in Workers : \E p : SetPacket(w, p)
           \/ \E w \in Workers : Abandon(w)
           \/ Tick \/ UNCHANGED queueVars
  BY <1>3, <1>7 DEF Enqueue, Release, SetReviewContext, SetPacket, Abandon, Tick, queueVars
<1> QED BY <1>4, <1>5, <1>6, <1>7 DEF QueueNext

\* MapInv holds at first and is kept by every operation.
LEMMA MapInvariant == QueueSpec => []MapInv
<1>1. QueueInit => AbsentExcludesNone /\ CacheBehindTable
  BY DEF QueueInit, AbsentExcludesNone, CacheBehindTable, AbsentRow, NotCached
<1>2. MapInv /\ [QueueNext]_queueVars => AbsentExcludesNone'
  <2> SUFFICES ASSUME MapInv, [QueueNext]_queueVars, NEW t \in Tasks,
                      rows'[t].status = "absent"
               PROVE  rows'[t].excl = {}
    BY DEF AbsentExcludesNone
  <2>1. rows'[t] = rows[t]
    BY RowSteps DEF MapInv
  <2> QED BY <2>1 DEF MapInv, AbsentExcludesNone
<1>3. QueueInv /\ (AbsentExcludesNone /\ CacheBehindTable) => MapInv
  BY DEF MapInv
<1>4. MapInv /\ QueueInv' /\ [QueueNext]_queueVars => MapInv'
  BY <1>2, NextMap DEF MapInv
<1> QED BY <1>1, <1>3, <1>4, QueueInvariant, PTL DEF QueueSpec

\* A worker's map of exclusions may lag behind the table and is never ahead of it.
THEOREM MapsLagOnly == QueueSpec => []CacheBehindTable
<1>1. MapInv => CacheBehindTable
  BY DEF MapInv
<1> QED BY <1>1, MapInvariant, PTL

\* A task that is accepted, failed or handed to a human stays so, as long as only
\* the worker that holds a row releases it (TERMINAL_STATUSES, the claim's WHERE).
THEOREM TerminalStays == QueueSpec => TerminalIsFinal
<1>1. MapInv /\ [QueueNext]_queueVars =>
        [\A t \in Tasks : rows[t].status \in Terminal => rows'[t] = rows[t]]_queueVars
  BY RowSteps DEF MapInv
<1> QED BY <1>1, MapInvariant, PTL DEF QueueSpec, TerminalIsFinal

\* Exclusions in the table are never taken back (addWorkOrderExcludeAgentIds()).
THEOREM ExclusionsStay == QueueSpec => ExclusionsGrow
<1>1. MapInv /\ [QueueNext]_queueVars =>
        [\A t \in Tasks : rows[t].excl \subseteq rows'[t].excl]_queueVars
  BY RowSteps DEF MapInv
<1> QED BY <1>1, MapInvariant, PTL DEF QueueSpec, ExclusionsGrow
=============================================================================
