----------------------------- MODULE AgentQueue -----------------------------
(***************************************************************************)
(* The durable task queue of the hosted agent: the tables agent_tasks and  *)
(* agent_task_events and the stored procedures through which every caller  *)
(* in the repository writes them (supabase/migrations).  Every procedure   *)
(* is one database transaction, so it is one action; a call whose guard is *)
(* false raises an exception, which rolls back and leaves no trace.        *)
(*                                                                         *)
(* Abstractions.  One owner (every procedure is restricted to auth.uid()). *)
(* state->>'status' is not kept apart from the status column: the trigger  *)
(* agent_checkpoint_guard forces them to agree ('pending' for 'queued').   *)
(* The rest of the state document is an opaque value of Progress.  Time is *)
(* a counter; lease_seconds is a number of its ticks.  not_before is left  *)
(* out: nothing sets it, so a row is due from its creation.  The owner's   *)
(* table privileges would also allow UPDATE statements outside the         *)
(* procedures; no code in the repository issues one.                       *)
(***************************************************************************)
EXTENDS Integers, FiniteSets

CONSTANTS
    TaskIds,        \* the task ids rows can be created for
    Trusted,        \* those that match 'keirin-readonly-status-check.%'
    MaxAttempts,    \* the max_attempts column of each row
    Workers,        \* worker ids
    NoWorker,       \* SQL null in lease_owner
    LeaseSeconds,   \* the lease lengths a caller may ask for
    Progress,       \* contents of the state document
    InitProgress,   \* its content when the row is created
    Activities,     \* what agent_append_event may be asked to append
    MaxLag,         \* bound: how long a call waits after reading the clock
    MaxRevision,    \* bound: no row is written past this revision
    MaxNow          \* bound: the clock stops here

ASSUME QueueAssumption ==
    /\ Trusted \subseteq TaskIds
    /\ MaxAttempts \in [TaskIds -> Nat \ {0}]
    /\ NoWorker \notin Workers
    /\ LeaseSeconds \subseteq Nat \ {0}
    /\ InitProgress \in Progress
    /\ MaxLag \in Nat
    /\ MaxRevision \in Nat
    /\ MaxNow \in Nat

\* The ledger accepts any event type; no caller in the repository appends an
\* entry under one of the procedures' own names.
ASSUME ActivityAssumption ==
    \A e \in Activities :
        e.event_type \notin {"lease_claimed", "lease_checkpoint_saved",
                             "lease_released", "lease_expiry_reconciled",
                             "checkpoint_saved"}

VARIABLES
    tasks,          \* agent_tasks: one row per task id
    events,         \* agent_task_events, the append-only ledger
    now             \* clock_timestamp() of the database

queueVars == <<tasks, events, now>>

Statuses == {"queued", "running", "blocked", "completed", "failed"}
LeasedSaveStatuses == {"running", "blocked", "completed", "failed"}
ActiveStatuses == {"queued", "running"}
NoTime == 0             \* SQL null in lease_expires_at
Absent == "absent"      \* no row with this task id

Row == [status : Statuses \cup {Absent}, revision : Nat, attempt_count : Nat,
        lease_owner : Workers \cup {NoWorker}, lease_generation : Nat,
        lease_expires_at : Nat, state : Progress]

LeaseEvents == {"lease_claimed", "lease_checkpoint_saved", "lease_released",
                "lease_expiry_reconciled"}
Event == [task : TaskIds, event_type : LeaseEvents \cup {"checkpoint_saved"},
          worker : Workers \cup {NoWorker}, generation : Nat,
          revision : Nat, status : Statuses]

\* A procedure reads clock_timestamp() into v_now before it waits for the row
\* lock, so what it compares with an expiry may be older than the commit.
ClockReadings == {v \in 0..now : v + MaxLag >= now}

-----------------------------------------------------------------------------

Exists(t) == tasks[t].status # Absent

\* lease_owner is not null and lease_expires_at > now
LeaseLive(t) ==
    /\ tasks[t].lease_owner # NoWorker
    /\ tasks[t].lease_expires_at > now

\* Mutant: the index covers running rows only.
ActiveSlotFreeRunningOnly(t, status) ==
    t \in Trusted /\ status = "running" =>
        \A u \in Trusted \ {t} : tasks[u].status # "running"

\* The partial unique index over trusted runs that are queued or running.
ActiveSlotFree(t, status) ==
    t \in Trusted /\ status \in ActiveStatuses =>
        \A u \in Trusted \ {t} : tasks[u].status \notin ActiveStatuses

\* The row trigger agent_checkpoint_event: one entry for every row written.
CheckpointEvent(t, row) ==
    [task |-> t, event_type |-> "checkpoint_saved", worker |-> NoWorker,
     generation |-> 0, revision |-> row.revision, status |-> row.status]

\* The entry a lease procedure adds, with the worker and the generation it was
\* called with.
LeaseEvent(t, type, w, generation, row) ==
    [task |-> t, event_type |-> type, worker |-> w,
     generation |-> generation, revision |-> row.revision,
     status |-> row.status]

\* Mutant: the event trigger does not fire on updates.
WriteRowUnlogged(t, row, extra) ==
    /\ tasks[t].status # "completed"
    /\ tasks[t].revision < MaxRevision
    /\ tasks' = [tasks EXCEPT ![t] = row]
    /\ events' = events \cup extra
    /\ UNCHANGED now

\* An UPDATE of row t: agent_checkpoint_guard refuses it when the row is
\* completed, agent_checkpoint_event logs it.  extra is what the procedure
\* itself inserts into the ledger.
WriteRow(t, row, extra) ==
    /\ tasks[t].status # "completed"
    /\ tasks[t].revision < MaxRevision
    /\ tasks' = [tasks EXCEPT ![t] = row]
    /\ events' = events \cup {CheckpointEvent(t, row)} \cup extra
    /\ UNCHANGED now

-----------------------------------------------------------------------------

NewRow == [status |-> "queued", revision |-> 0, attempt_count |-> 0,
           lease_owner |-> NoWorker, lease_generation |-> 0,
           lease_expires_at |-> NoTime, state |-> InitProgress]

agent_create_checkpoint(t) ==
    /\ ~Exists(t)
    /\ ActiveSlotFree(t, "queued")
    /\ tasks' = [tasks EXCEPT ![t] = NewRow]
    /\ events' = events \cup {CheckpointEvent(t, NewRow)}
    /\ UNCHANGED now

\* Mutant: the save as it was before leases, blind to the owner.
SaveIgnoringLease(t, expected_revision, status, state) ==
    /\ Exists(t)
    /\ tasks[t].revision = expected_revision
    /\ ActiveSlotFree(t, status)
    /\ WriteRow(t, [tasks[t] EXCEPT !.status = status, !.state = state,
                                    !.revision = @ + 1], {})

\* The unfenced save: compare-and-swap on the revision, refused while any
\* worker owns a lease.
agent_save_checkpoint(t, expected_revision, status, state) ==
    /\ Exists(t)
    /\ tasks[t].revision = expected_revision
    /\ tasks[t].lease_owner = NoWorker
    /\ ActiveSlotFree(t, status)
    /\ WriteRow(t, [tasks[t] EXCEPT !.status = status, !.state = state,
                                    !.revision = @ + 1], {})

Claimable(t) ==
    /\ tasks[t].status = "queued"
    /\ tasks[t].attempt_count < MaxAttempts[t]

\* Mutant: the claim does not spend an attempt.
ClaimedRowFree(t, w, seconds, v_now) ==
    [tasks[t] EXCEPT !.status = "running",
                     !.revision = @ + 1,
                     !.lease_owner = w,
                     !.lease_generation = @ + 1,
                     !.lease_expires_at = v_now + seconds]

ClaimedRow(t, w, seconds, v_now) ==
    [tasks[t] EXCEPT !.status = "running",
                     !.revision = @ + 1,
                     !.attempt_count = @ + 1,
                     !.lease_owner = w,
                     !.lease_generation = @ + 1,
                     !.lease_expires_at = v_now + seconds]

\* Both claim procedures write the same row.  agent_claim_next_task takes the
\* oldest claimable row that no other transaction has locked (SKIP LOCKED), so
\* any claimable row may be the one it takes; agent_claim_task is given t.
agent_claim_task(t, w, seconds, v_now) ==
    /\ Claimable(t)
    /\ LET row == ClaimedRow(t, w, seconds, v_now)
       IN  WriteRow(t, row, {LeaseEvent(t, "lease_claimed", w,
                                    row.lease_generation, row)})

agent_claim_next_task(w, seconds, v_now) ==
    \E t \in TaskIds : agent_claim_task(t, w, seconds, v_now)

\* The fenced save: revision, owner, generation and expiry must all match.  A
\* status other than 'running' gives the lease up.
LeasedSaveRow(t, status, state, seconds, v_now) ==
    [tasks[t] EXCEPT
        !.status = status,
        !.state = state,
        !.revision = @ + 1,
        !.lease_owner = IF status = "running" THEN @ ELSE NoWorker,
        !.lease_expires_at = IF status = "running" THEN v_now + seconds
                                                  ELSE NoTime]

\* Mutant: the save relies on the revision and the generation alone.
SaveLeasedNoLiveness(t, revision, w, generation, status, state, seconds, v_now) ==
    /\ tasks[t].revision = revision
    /\ tasks[t].lease_generation = generation
    /\ LET row  == LeasedSaveRow(t, status, state, seconds, v_now)
           type == IF status = "running" THEN "lease_checkpoint_saved"
                                         ELSE "lease_released"
       IN  WriteRow(t, row, {LeaseEvent(t, type, w, generation, row)})

agent_save_leased_checkpoint(t, revision, w, generation, status, state, seconds, v_now) ==
    /\ tasks[t].revision = revision
    /\ tasks[t].status = "running"
    /\ tasks[t].lease_owner = w
    /\ tasks[t].lease_generation = generation
    /\ tasks[t].lease_expires_at > v_now
    /\ LET row  == LeasedSaveRow(t, status, state, seconds, v_now)
           type == IF status = "running" THEN "lease_checkpoint_saved"
                                         ELSE "lease_released"
       IN  WriteRow(t, row, {LeaseEvent(t, type, w, generation, row)})

\* Mutant: expired work goes back to the queue.
ReconcileToQueue(t, expected_revision, generation, state, v_now) ==
    /\ tasks[t].revision = expected_revision
    /\ tasks[t].status = "running"
    /\ tasks[t].lease_generation = generation
    /\ tasks[t].lease_owner # NoWorker
    /\ tasks[t].lease_expires_at <= v_now
    /\ LET row == [tasks[t] EXCEPT !.status = "queued",
                                   !.state = state,
                                   !.revision = @ + 1,
                                   !.lease_owner = NoWorker,
                                   !.lease_expires_at = NoTime]
       IN  WriteRow(t, row, {LeaseEvent(t, "lease_expiry_reconciled",
                                        tasks[t].lease_owner, generation, row)})

\* An expired lease is never requeued: it can only be moved to blocked.
agent_reconcile_expired_lease(t, expected_revision, generation, state, v_now) ==
    /\ tasks[t].revision = expected_revision
    /\ tasks[t].status = "running"
    /\ tasks[t].lease_generation = generation
    /\ tasks[t].lease_owner # NoWorker
    /\ tasks[t].lease_expires_at <= v_now
    /\ LET row == [tasks[t] EXCEPT !.status = "blocked",
                                   !.state = state,
                                   !.revision = @ + 1,
                                   !.lease_owner = NoWorker,
                                   !.lease_expires_at = NoTime]
       IN  WriteRow(t, row, {LeaseEvent(t, "lease_expiry_reconciled",
                                        tasks[t].lease_owner, generation, row)})

\* The ledger's foreign key: the task must exist.
agent_append_event(t, e) ==
    /\ Exists(t)
    /\ e.task = t
    /\ events' = events \cup {e}
    /\ UNCHANGED <<tasks, now>>

Tick ==
    /\ now < MaxNow
    /\ now' = now + 1
    /\ UNCHANGED <<tasks, events>>

-----------------------------------------------------------------------------

QueueInit ==
    /\ tasks = [t \in TaskIds |->
                  [status |-> Absent, revision |-> 0, attempt_count |-> 0,
                   lease_owner |-> NoWorker, lease_generation |-> 0,
                   lease_expires_at |-> NoTime, state |-> InitProgress]]
    /\ events = {}
    /\ now = 0

\* Any authenticated caller, with any arguments, at any time: arguments may be
\* stale copies, the answers of calls whose response was lost, or retries.
Create     == \E t \in TaskIds : agent_create_checkpoint(t)
Save       == \E t \in TaskIds, r \in 0..MaxRevision, s \in Statuses, p \in Progress :
                  agent_save_checkpoint(t, r, s, p)
Claim      == \E w \in Workers, n \in LeaseSeconds, v \in ClockReadings :
                  agent_claim_next_task(w, n, v)
SaveLeased == \E t \in TaskIds, r \in 0..MaxRevision, w \in Workers,
                 g \in 1..MaxRevision, s \in LeasedSaveStatuses,
                 p \in Progress, n \in LeaseSeconds, v \in ClockReadings :
                  agent_save_leased_checkpoint(t, r, w, g, s, p, n, v)
Reconcile  == \E t \in TaskIds, r \in 0..MaxRevision, g \in 1..MaxRevision,
                 p \in Progress, v \in ClockReadings :
                  agent_reconcile_expired_lease(t, r, g, p, v)
AppendActivity == \E t \in TaskIds, e \in Activities : agent_append_event(t, e)

QueueNext == Create \/ Save \/ Claim \/ SaveLeased \/ Reconcile \/ AppendActivity \/ Tick

QueueSpec == QueueInit /\ [][QueueNext]_queueVars

-----------------------------------------------------------------------------
(* Properties *)

\* The ledger entries of lease procedures, the part of the ledger whose
\* meaning the queue itself guarantees.
LeaseLog == {e \in events : e.event_type \in LeaseEvents}

\* Types of the two tables (the CHECK constraints on statuses and counters).
QueueTypeOK ==
    /\ tasks \in [TaskIds -> Row]
    /\ events \subseteq Event \cup Activities
    /\ now \in Nat

\* No procedure ever relies on the table's CHECK constraints to abort it: the
\* owner and the expiry of a lease are null together, a lease belongs to a
\* running row that was claimed, and the attempt budget is never exceeded.
LeaseShape ==
    \A t \in TaskIds :
        /\ tasks[t].lease_owner = NoWorker <=> tasks[t].lease_expires_at = NoTime
        /\ tasks[t].lease_owner # NoWorker =>
               tasks[t].status = "running" /\ tasks[t].lease_generation >= 1
        /\ tasks[t].attempt_count <= MaxAttempts[t]

\* The fencing token is the number of attempts ever started, so it can be
\* trusted to grow by one with each claim and with nothing else.
GenerationCountsAttempts ==
    \A t \in TaskIds : tasks[t].lease_generation = tasks[t].attempt_count

\* A fencing token is handed out once: two claims of a task never return the
\* same lease_generation, whichever workers made them.
FenceTokenUnique ==
    \A a, b \in LeaseLog :
        /\ a.event_type = "lease_claimed"
        /\ b.event_type = "lease_claimed"
        /\ a.task = b.task
        /\ a.generation = b.generation
        => a = b

\* Fencing: in the order in which the database accepted them (the revision),
\* the writes of lease holders never go back to an older generation.
FencingOrder ==
    \A a, b \in LeaseLog :
        a.task = b.task /\ a.revision < b.revision => a.generation <= b.generation

\* Once a lease is released or reconciled, its generation writes no more: a
\* worker that wakes up late, and an operator acting on an old snapshot, are
\* both refused.
NoWriteAfterEnd ==
    \A a, b \in LeaseLog :
        /\ a.event_type \in {"lease_released", "lease_expiry_reconciled"}
        /\ a.task = b.task
        /\ a.generation = b.generation
        => b.revision <= a.revision

\* What fencing promises, whatever stale, late or repeated calls arrive: tokens
\* are handed out once, accepted writes never go back to an older one, and a
\* token whose lease ended writes no more.
FencedWrites == FenceTokenUnique /\ FencingOrder /\ NoWriteAfterEnd

\* All the lease entries of one generation name one worker.
OneWorkerPerGeneration ==
    \A a, b \in LeaseLog :
        a.task = b.task /\ a.generation = b.generation => a.worker = b.worker

\* The ledger is a gap-free audit trail: it holds exactly one checkpoint_saved
\* entry for each revision a row went through, and the last one has its status.
LedgerGapFree ==
    \A t \in TaskIds : Exists(t) =>
        LET saved == {e \in events : e.task = t /\ e.event_type = "checkpoint_saved"}
        IN  /\ {e.revision : e \in saved} = 0..tasks[t].revision
            /\ \A a, b \in saved : a.revision = b.revision => a = b
            /\ \E e \in saved : /\ e.revision = tasks[t].revision
                                /\ e.status = tasks[t].status

\* At most one trusted status run is queued or running (the comment of the
\* single-active index: one approval must not become several active runs).
SingleActiveTrustedRun ==
    \A t, u \in Trusted :
        /\ tasks[t].status \in ActiveStatuses
        /\ tasks[u].status \in ActiveStatuses
        => t = u

HolderStep ==
    \A t \in TaskIds :
        LeaseLive(t) /\ tasks'[t] # tasks[t] =>
            \E e \in events' \ events :
                /\ e.task = t
                /\ e.event_type \in {"lease_checkpoint_saved", "lease_released"}
                /\ e.worker = tasks[t].lease_owner
                /\ e.generation = tasks[t].lease_generation

\* While a lease is live, the only thing that can happen to its row is a write
\* that the ledger records as the holder's, under the holder's generation.
LiveLeaseOnlyHolderWrites == [][HolderStep]_queueVars

NoRequeueStep ==
    \A t \in TaskIds :
        /\ tasks[t].lease_owner # NoWorker => tasks'[t].status # "queued"
        /\ tasks'[t].lease_generation # tasks[t].lease_generation =>
               /\ tasks[t].status = "queued"
               /\ tasks[t].attempt_count < MaxAttempts[t]

\* Leased work never goes back to the queue in one step, so an expired lease
\* cannot be retried without an explicit decision; and every claim starts from
\* 'queued' with attempts left.
ExpiredLeaseNeverRequeued == [][NoRequeueStep]_queueVars

-----------------------------------------------------------------------------
(* What the properties above need to be inductive *)

\* A task id with no row has never been written.
AbsentUntouched ==
    \A t \in TaskIds : ~Exists(t) =>
        /\ tasks[t].revision = 0
        /\ tasks[t].attempt_count = 0
        /\ tasks[t].lease_owner = NoWorker
        /\ \A e \in events : e.task # t

\* The ledger never runs ahead of its row, and the entries of a generation
\* that still holds the lease are the holder's and do not end it.
LedgerBehindRow ==
    /\ \A e \in LeaseLog :
          /\ e.generation \in 1..tasks[e.task].lease_generation
          /\ e.revision \in 1..tasks[e.task].revision
          /\ /\ tasks[e.task].lease_owner # NoWorker
             /\ e.generation = tasks[e.task].lease_generation
             => /\ e.worker = tasks[e.task].lease_owner
                /\ e.event_type \in {"lease_claimed", "lease_checkpoint_saved"}
    /\ \A e \in events : e.event_type = "checkpoint_saved" =>
          e.revision \in 0..tasks[e.task].revision

\* The inductive invariant of the queue: rows and ledger agree about every
\* generation, whatever stale or repeated calls the procedures meet.
QueueInv ==
    /\ QueueTypeOK
    /\ LeaseShape
    /\ GenerationCountsAttempts
    /\ AbsentUntouched
    /\ LedgerBehindRow
    /\ FenceTokenUnique
    /\ FencingOrder
    /\ NoWriteAfterEnd
    /\ OneWorkerPerGeneration
=============================================================================
