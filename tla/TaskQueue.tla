----------------------------- MODULE TaskQueue -----------------------------
(***************************************************************************)
(* The persistent task queue: the task_queue table of                      *)
(* src/src/storage/queue-store.ts behind the wrapper of                    *)
(* src/src/queue/task-queue.ts.                                            *)
(*                                                                         *)
(* A row carries a task's status, the role of its next run, the worker     *)
(* that holds it and the lease of that worker.  Each worker has a wrapper  *)
(* of its own, with its own map of work orders (makeV1WorkerServices in    *)
(* run-command.ts builds one per worker), so the exclusions a worker reads *)
(* may be older than the ones in the table: both are state here.           *)
(*                                                                         *)
(* The module also states the discipline of the queue's clients: only the  *)
(* worker that claimed a row annotates it or releases it, and it releases  *)
(* it once.  TaskWorkflow, which EXTENDS this module, shows that the       *)
(* worker's handler keeps to it.                                           *)
(***************************************************************************)
EXTENDS Integers, FiniteSets

CONSTANTS Tasks,      \* task_id values
          Workers,    \* worker ids, the owner tokens of leases
          Agents,     \* agent_id values
          NoTask,     \* no entry in hand
          NoWorker,   \* current_owner_run_id is null
          NoAgent,    \* no implementer recorded
          LeaseTicks, \* lease duration, in ticks of the clock
          MaxNow,     \* bound: the clock stops here
          MaxAttempts,\* bound on attempts in QueueNext
          RunIds      \* bound: run numbers, the n-th run of a task

ASSUME QueueAssumption ==
  /\ NoTask \notin Tasks
  /\ NoWorker \notin Workers
  /\ NoAgent \notin Agents
  /\ LeaseTicks \in Nat \ {0}
  /\ MaxNow \in Nat
  /\ MaxAttempts \in Nat
  /\ RunIds \subseteq Nat \ {0}

VARIABLES rows,   \* [Tasks -> Row]: the table
          now,    \* the clock the store reads
          cache,  \* [Workers -> [Tasks -> SUBSET Agents or NotCached]]: exclude_agent_ids of each worker's work orders
          held    \* [Workers -> Entry]: the entry a worker's loop has claimed and not released

queueVars == <<rows, now, cache, held>>
-----------------------------------------------------------------------------
Roles    == {"implementer", "reviewer"}
Terminal == {"accepted", "failed", "awaiting_human"}
Statuses == {"absent", "queued", "dispatched"} \cup Terminal

NoLease   == -1      \* lease_expires_at is null
NoRun     == 0       \* no run, no handoff packet
NoContext == [run |-> NoRun, agent |-> NoAgent]

\* The review context: the implementer run under review and its agent.
Contexts == {NoContext} \cup [run : RunIds, agent : Agents]

\* packet names the implementer run whose handoff packet is pending.
Row == [status   : Statuses,
        role     : Roles,
        owner    : Workers \cup {NoWorker},
        lease    : Nat \cup {NoLease},
        attempts : Nat,
        at       : Nat,
        excl     : SUBSET Agents,
        ctx      : Contexts,
        packet   : RunIds \cup {NoRun}]

AbsentRow == [status |-> "absent", role |-> "implementer", owner |-> NoWorker,
              lease |-> NoLease, attempts |-> 0, at |-> 0, excl |-> {},
              ctx |-> NoContext, packet |-> NoRun]

Entry   == [task : Tasks \cup {NoTask}, role : Roles, attempts : Nat]
NoEntry == [task |-> NoTask, role |-> "implementer", attempts |-> 0]

\* What a worker's map of work orders says of a task: nothing yet, or a set.
CacheLine == [known : BOOLEAN, excl : SUBSET Agents]
NotCached == [known |-> FALSE, excl |-> {}]

QueueTypeOK ==
  /\ rows \in [Tasks -> Row]
  /\ now \in Nat
  /\ cache \in [Workers -> [Tasks -> CacheLine]]
  /\ held \in [Workers -> Entry]

QueueInit ==
  /\ rows = [t \in Tasks |-> AbsentRow]
  /\ now = 0
  /\ cache = [w \in Workers |-> [t \in Tasks |-> NotCached]]
  /\ held = [w \in Workers |-> NoEntry]
-----------------------------------------------------------------------------
(* The store's operations.  A definition named X_Y is the operation X with    *)
(* the bug Y: no specification uses it, it shows that a property can fail.    *)

\* Without status = 'queued', a lease that ran out frees a row still in use.
Claimable_LeaseOnly(t) ==
  \/ rows[t].status = "queued" /\ rows[t].owner = NoWorker
  \/ rows[t].status = "dispatched" /\ rows[t].lease < now

\* Without status = 'queued', a row nobody owns is free, whatever its status.
Claimable_AnyStatus(t) == rows[t].status # "absent" /\ rows[t].owner = NoWorker

\* Without IS NULL, the comparison is never true of a row that nobody owns.
Claimable_NullCompared(t) ==
  rows[t].status = "queued" /\ rows[t].lease # NoLease /\ rows[t].lease < now

\* The WHERE clause of claimSelectStmt and claimUpdateStmt.  In SQL a null
\* lease compares with nothing.
Claimable(t) ==
  /\ rows[t].status = "queued"
  /\ \/ rows[t].owner = NoWorker
     \/ rows[t].lease # NoLease /\ rows[t].lease < now

\* ORDER BY enqueued_at LIMIT 1: rows of the same instant come in any order.
NextClaimable(t) ==
  /\ Claimable(t)
  /\ \A u \in Tasks : Claimable(u) => rows[t].at <= rows[u].at

\* The primary key refuses a second row of the same task.
Enqueue(t, excl) ==
  /\ rows[t].status = "absent"
  /\ rows' = [rows EXCEPT ![t] =
                [AbsentRow EXCEPT !.status = "queued", !.at = now, !.excl = excl]]
  /\ UNCHANGED <<now, cache, held>>

\* The wrapper works out the lease from the work order of the row it is about to
\* claim: the worker's map is filled from the table when the task is not in it,
\* and an older entry is left alone.
FillCache(w, t) ==
  cache' = IF cache[w][t].known THEN cache
           ELSE [cache EXCEPT ![w][t] = [known |-> TRUE, excl |-> rows[t].excl]]

\* claim(): select and conditional update in one transaction.
Claim(w, t) ==
  /\ held[w].task = NoTask
  /\ NextClaimable(t)
  /\ rows' = [rows EXCEPT ![t].status = "dispatched",
                          ![t].owner = w,
                          ![t].lease = now + LeaseTicks]
  /\ held' = [held EXCEPT ![w] = [task |-> t, role |-> rows[t].role,
                                  attempts |-> rows[t].attempts]]
  /\ FillCache(w, t)
  /\ UNCHANGED now

Released_KeepsLease(row, status, role, attempts) ==
  [row EXCEPT !.status = status, !.role = role, !.attempts = attempts,
              !.owner = NoWorker]

\* The patch of a failed task names no role, and null is written.
Released_NullRole(row, status, role, attempts) ==
  [row EXCEPT !.status = status, !.attempts = attempts,
              !.role = IF status = "failed" THEN "null" ELSE role,
              !.owner = NoWorker, !.lease = NoLease]

\* What release() leaves of a row when the patch clears the owner and the lease.
Released(row, status, role, attempts) ==
  [row EXCEPT !.status = status, !.role = role, !.attempts = attempts,
              !.owner = NoWorker, !.lease = NoLease]

\* release() of the entry in hand, with the next status, role and attempts.
Release(w, status, role, attempts) ==
  /\ held[w].task # NoTask
  /\ LET t == held[w].task
     IN  rows' = [rows EXCEPT ![t] = Released(rows[t], status, role, attempts)]
  /\ held' = [held EXCEPT ![w] = NoEntry]
  /\ UNCHANGED <<now, cache>>

\* setReviewContext(): the inputs of the next review.
SetReviewContext(w, ctx) ==
  /\ held[w].task # NoTask
  /\ rows' = [rows EXCEPT ![held[w].task].ctx = ctx]
  /\ UNCHANGED <<now, cache, held>>

MergedExcludes_Replaced(t, agents) == agents

\* The new exclusions: what the row says now, and the agents.
MergedExcludes(t, agents) == rows[t].excl \cup agents

\* The table is updated, and the map of the worker that did so is not.
AddExcludes_TableOnly(w, agents) ==
  /\ held[w].task # NoTask
  /\ rows' = [rows EXCEPT ![held[w].task].excl = @ \cup agents]
  /\ UNCHANGED <<now, cache, held>>

\* addWorkOrderExcludeAgentIds(): re-reads the row, adds the agents, and puts the
\* result in this worker's map and in no other.
AddExcludes(w, agents) ==
  /\ held[w].task # NoTask
  /\ LET t    == held[w].task
         excl == MergedExcludes(t, agents)
     IN  /\ rows' = [rows EXCEPT ![t].excl = excl]
         /\ cache' = [cache EXCEPT ![w][t] = [known |-> TRUE, excl |-> excl]]
  /\ UNCHANGED <<now, held>>

\* setHandoffPacketUri(): the packet of run p is pending, or none is (NoRun).
SetPacket(w, p) ==
  /\ held[w].task # NoTask
  /\ rows' = [rows EXCEPT ![held[w].task].packet = p]
  /\ UNCHANGED <<now, cache, held>>

\* The loop gives an entry up without having released it: release() threw and
\* the loop swallowed the error.
Abandon(w) ==
  /\ held[w].task # NoTask
  /\ held' = [held EXCEPT ![w] = NoEntry]
  /\ UNCHANGED <<rows, now, cache>>

\* The process ends, by a crash or after a stop: entries and maps are gone, the
\* table stays as it is.
Forget ==
  /\ held' = [w \in Workers |-> NoEntry]
  /\ cache' = [w \in Workers |-> [t \in Tasks |-> NotCached]]
  /\ UNCHANGED <<rows, now>>

Tick ==
  /\ now < MaxNow
  /\ now' = now + 1
  /\ UNCHANGED <<rows, cache, held>>

QueueNext ==
  \/ \E t \in Tasks, excl \in SUBSET Agents : Enqueue(t, excl)
  \/ \E w \in Workers, t \in Tasks : Claim(w, t)
  \/ \E w \in Workers, s \in Statuses \ {"absent", "dispatched"}, r \in Roles :
        \E n \in {held[w].attempts, held[w].attempts + 1} \cap 0..MaxAttempts :
           Release(w, s, r, n)
  \/ \E w \in Workers, ctx \in Contexts \ {NoContext} : SetReviewContext(w, ctx)
  \/ \E w \in Workers, agents \in SUBSET Agents : AddExcludes(w, agents)
  \/ \E w \in Workers, p \in RunIds \cup {NoRun} : SetPacket(w, p)
  \/ \E w \in Workers : Abandon(w)
  \/ Forget
  \/ Tick

QueueSpec == QueueInit /\ [][QueueNext]_queueVars
-----------------------------------------------------------------------------
(* Properties. *)

\* Two workers never hold the same task, even when the lease of the first has
\* run out while it is still at work (claim() and its conditional update).
OneHolder ==
  \A v, w \in Workers :
    v # w /\ held[v].task # NoTask => held[v].task # held[w].task

\* A worker at work is the owner its row names, and the copy of the row it
\* works from (claim()'s result) is not stale: nobody else moved the row.
HolderOwnsRow ==
  \A w \in Workers : held[w].task # NoTask =>
    LET row == rows[held[w].task]
    IN  /\ row.status = "dispatched"
        /\ row.owner = w
        /\ row.role = held[w].role
        /\ row.attempts = held[w].attempts

\* A row names an owner, and has a lease, exactly while it is dispatched:
\* release() clears both with the status.
OwnedIffDispatched ==
  \A t \in Tasks :
    /\ rows[t].status = "dispatched" <=> rows[t].owner # NoWorker
    /\ rows[t].status = "dispatched" <=> rows[t].lease # NoLease

\* The exclusions in a worker's map were in the table once: they may lag, they
\* are never ahead (getWorkOrder() and addWorkOrderExcludeAgentIds()).
CacheBehindTable ==
  \A w \in Workers, t \in Tasks : cache[w][t].excl \subseteq rows[t].excl

\* A task that is accepted, failed or handed to a human stays so, and its row is
\* never claimed again.
TerminalIsFinal ==
  [][\A t \in Tasks : rows[t].status \in Terminal => rows'[t] = rows[t]]_queueVars

\* The exclusions of a task only grow (exclude_agent_ids is monotonic).
ExclusionsGrow ==
  [][\A t \in Tasks : rows[t].excl \subseteq rows'[t].excl]_queueVars

\* What the contracts say of leases: a row whose lease has run out and that no
\* worker holds any more can be claimed again.
ExpiredLeaseReclaimable ==
  \A t \in Tasks :
    /\ rows[t].lease # NoLease
    /\ rows[t].lease < now
    /\ \A w \in Workers : held[w].task # t
    => Claimable(t)
=============================================================================
