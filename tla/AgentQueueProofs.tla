-------------------------- MODULE AgentQueueProofs --------------------------
(***************************************************************************)
(* The queue's guarantees for any number of tasks, workers and revisions.  *)
(* QueueInv is inductive; each step lemma below treats one procedure.      *)
(***************************************************************************)
EXTENDS AgentQueue, TLAPS

\* The part of QueueInv that speaks of the ledger entries of lease procedures.
LogInv ==
    /\ LedgerBehindRow
    /\ FenceTokenUnique
    /\ FencingOrder
    /\ NoWriteAfterEnd
    /\ OneWorkerPerGeneration

\* What a write of row t by a lease procedure adds to the ledger.
LogsLease(t, type, w, row) ==
    events' = events \cup {CheckpointEvent(t, row)}
                     \cup {LeaseEvent(t, type, w, row.lease_generation, row)}

-----------------------------------------------------------------------------

\* Every entry a lease procedure wrote is a typed Event (an activity is not
\* one of them).
LEMMA LeaseLogTyped ==
    ASSUME QueueTypeOK
    PROVE  /\ LeaseLog \subseteq Event
           /\ {e \in events : e.event_type = "checkpoint_saved"} \subseteq Event
BY ActivityAssumption DEF QueueTypeOK, LeaseLog, LeaseEvents

\* A row written without a lease entry leaves LeaseLog as it was.
LEMMA LeaseLogSame ==
    ASSUME NEW t, NEW row, events' = events \cup {CheckpointEvent(t, row)}
    PROVE  LeaseLog' = LeaseLog
BY DEF LeaseLog, CheckpointEvent, LeaseEvents

\* A row written by a lease procedure adds exactly its entry.
LEMMA LeaseLogGrows ==
    ASSUME NEW t, NEW row, NEW w, NEW type \in LeaseEvents,
           LogsLease(t, type, w, row)
    PROVE  LeaseLog' = LeaseLog \cup {LeaseEvent(t, type, w, row.lease_generation, row)}
BY DEF LeaseLog, CheckpointEvent, LeaseEvent, LeaseEvents, LogsLease

\* The initial state, with both tables empty.
LEMMA InitInv == QueueInit => QueueInv
<1>. SUFFICES ASSUME QueueInit PROVE QueueInv
  OBVIOUS
<1>1. QueueTypeOK /\ LeaseShape /\ GenerationCountsAttempts
  BY QueueAssumption DEF QueueInit, QueueTypeOK, Row, LeaseShape, NoTime,
     Absent, GenerationCountsAttempts
<1>2. events = {} /\ LeaseLog = {}
  BY DEF QueueInit, LeaseLog
<1>3. AbsentUntouched
  BY <1>2 DEF QueueInit, AbsentUntouched
<1>. QED
  BY <1>1, <1>2, <1>3 DEF QueueInv, LedgerBehindRow, FenceTokenUnique,
     FencingOrder, NoWriteAfterEnd, OneWorkerPerGeneration

-----------------------------------------------------------------------------

\* A write that leaves the lease alone (create, unfenced save) is invisible to
\* the lease entries: they stay behind the row, whose generation is the same.
LEMMA PlainWriteLog ==
    ASSUME QueueInv, NEW t \in TaskIds, NEW row \in Row,
           tasks' = [tasks EXCEPT ![t] = row],
           events' = events \cup {CheckpointEvent(t, row)},
           row.revision >= tasks[t].revision,
           row.lease_generation = tasks[t].lease_generation,
           row.lease_owner = tasks[t].lease_owner
    PROVE  LogInv'
<1>1. LeaseLog' = LeaseLog
  BY LeaseLogSame
<1>2. LeaseLog \subseteq Event
  BY LeaseLogTyped DEF QueueInv
<1>3. LedgerBehindRow'
  <2>1. \A e \in events : e.event_type = "checkpoint_saved" => e \in Event
    BY LeaseLogTyped DEF QueueInv
  <2>2. \A e \in events' : e.event_type = "checkpoint_saved" =>
           e.revision \in 0..tasks'[e.task].revision
    BY <2>1 DEF QueueInv, QueueTypeOK, LedgerBehindRow, CheckpointEvent, Row, Event
  <2>3. \A e \in LeaseLog :
           /\ tasks'[e.task].lease_generation = tasks[e.task].lease_generation
           /\ tasks'[e.task].lease_owner = tasks[e.task].lease_owner
           /\ tasks'[e.task].revision \in Nat
           /\ tasks[e.task].revision \in Nat
           /\ tasks'[e.task].revision >= tasks[e.task].revision
    BY <1>2 DEF QueueInv, QueueTypeOK, Row, Event
  <2>. QED
    BY <1>1, <1>2, <2>2, <2>3 DEF QueueInv, LedgerBehindRow, Event
<1>. QED
  BY <1>1, <1>3 DEF LogInv, QueueInv, FenceTokenUnique, FencingOrder,
     NoWriteAfterEnd, OneWorkerPerGeneration

\* A claim opens a generation above every entry of the task.
LEMMA ClaimLog ==
    ASSUME QueueInv, NEW t \in TaskIds, NEW row \in Row, NEW w \in Workers,
           tasks' = [tasks EXCEPT ![t] = row],
           LogsLease(t, "lease_claimed", w, row),
           row.revision = tasks[t].revision + 1,
           row.lease_generation = tasks[t].lease_generation + 1,
           row.lease_owner = w
    PROVE  LogInv'
<1>. DEFINE new == LeaseEvent(t, "lease_claimed", w, row.lease_generation, row)
<1>1. LeaseLog' = LeaseLog \cup {new}
  BY LeaseLogGrows DEF LeaseEvents
<1>2. LeaseLog \subseteq Event
  BY LeaseLogTyped DEF QueueInv
<1>3. /\ new.task = t /\ new.event_type = "lease_claimed" /\ new.worker = w
      /\ new.generation = tasks[t].lease_generation + 1
      /\ new.revision = tasks[t].revision + 1
  BY DEF LeaseEvent
<1>4. tasks[t].lease_generation \in Nat /\ tasks[t].revision \in Nat
  BY DEF QueueInv, QueueTypeOK, Row
<1>5. \A e \in LeaseLog :
         /\ e.generation \in Nat /\ e.revision \in Nat
         /\ e.task = t => /\ e.generation < new.generation
                          /\ e.revision < new.revision
  BY <1>2, <1>3, <1>4 DEF QueueInv, LedgerBehindRow, Event
<1>6. LedgerBehindRow'
  <2>1. \A e \in events' : e.event_type = "checkpoint_saved" =>
           e.revision \in 0..tasks'[e.task].revision
    <3>1. \A e \in events : e.event_type = "checkpoint_saved" => e \in Event
      BY LeaseLogTyped DEF QueueInv
    <3>. QED
      BY <3>1, <1>4 DEF QueueInv, QueueTypeOK, LedgerBehindRow, LogsLease,
         CheckpointEvent, LeaseEvent, Row, Event
  <2>2. tasks'[t] = row /\ \A u \in TaskIds \ {t} : tasks'[u] = tasks[u]
    BY DEF QueueInv, QueueTypeOK
  <2>3. \A e \in LeaseLog : e.task \in TaskIds
    BY <1>2 DEF Event
  <2>4. \A e \in LeaseLog' :
          /\ e.generation \in 1..tasks'[e.task].lease_generation
          /\ e.revision \in 1..tasks'[e.task].revision
          /\ /\ tasks'[e.task].lease_owner # NoWorker
             /\ e.generation = tasks'[e.task].lease_generation
             => /\ e.worker = tasks'[e.task].lease_owner
                /\ e.event_type \in {"lease_claimed", "lease_checkpoint_saved"}
    <3>. SUFFICES ASSUME NEW e \in LeaseLog'
                  PROVE  /\ e.generation \in 1..tasks'[e.task].lease_generation
                         /\ e.revision \in 1..tasks'[e.task].revision
                         /\ /\ tasks'[e.task].lease_owner # NoWorker
                            /\ e.generation = tasks'[e.task].lease_generation
                            => /\ e.worker = tasks'[e.task].lease_owner
                               /\ e.event_type \in {"lease_claimed", "lease_checkpoint_saved"}
      OBVIOUS
    <3>1. CASE e = new
      BY <3>1, <2>2, <1>3, <1>4
    <3>2. CASE e \in LeaseLog /\ e.task = t
      BY <3>2, <2>2, <1>3, <1>4, <1>5 DEF QueueInv, LedgerBehindRow
    <3>3. CASE e \in LeaseLog /\ e.task # t
      BY <3>3, <2>2, <2>3 DEF QueueInv, LedgerBehindRow
    <3>. QED
      BY <1>1, <3>1, <3>2, <3>3
  <2>. QED
    BY <2>1, <2>4 DEF LedgerBehindRow
<1>7. FenceTokenUnique' /\ OneWorkerPerGeneration'
  BY <1>1, <1>3, <1>4, <1>5 DEF QueueInv, FenceTokenUnique, OneWorkerPerGeneration
<1>8. FencingOrder'
  BY <1>1, <1>3, <1>4, <1>5 DEF QueueInv, FencingOrder
<1>9. NoWriteAfterEnd'
  BY <1>1, <1>3, <1>4, <1>5 DEF QueueInv, NoWriteAfterEnd
<1>. QED
  BY <1>6, <1>7, <1>8, <1>9 DEF LogInv

\* A write by the holder's generation, or one that ends it: no entry has ended
\* this generation yet and all of them name the holder.
LEMMA HolderLog ==
    ASSUME QueueInv, NEW t \in TaskIds, NEW row \in Row, NEW type \in LeaseEvents,
           tasks' = [tasks EXCEPT ![t] = row],
           LogsLease(t, type, tasks[t].lease_owner, row),
           row.revision = tasks[t].revision + 1,
           row.lease_generation = tasks[t].lease_generation,
           tasks[t].lease_owner # NoWorker,
           \/ type = "lease_checkpoint_saved" /\ row.lease_owner = tasks[t].lease_owner
           \/ /\ type \in {"lease_released", "lease_expiry_reconciled"}
              /\ row.lease_owner = NoWorker
    PROVE  LogInv'
<1>. DEFINE w   == tasks[t].lease_owner
            new == LeaseEvent(t, type, w, row.lease_generation, row)
<1>1. LeaseLog' = LeaseLog \cup {new}
  BY LeaseLogGrows
<1>2. LeaseLog \subseteq Event
  BY LeaseLogTyped DEF QueueInv
<1>3. /\ new.task = t /\ new.event_type = type /\ new.worker = w
      /\ new.generation = tasks[t].lease_generation
      /\ new.revision = tasks[t].revision + 1
  BY DEF LeaseEvent
<1>4. /\ tasks[t].lease_generation \in Nat /\ tasks[t].revision \in Nat
      /\ tasks[t].lease_generation >= 1
  BY DEF QueueInv, QueueTypeOK, Row, LeaseShape
<1>5. \A e \in LeaseLog :
         /\ e.generation \in Nat /\ e.revision \in Nat
         /\ e.task = t => /\ e.generation <= new.generation
                          /\ e.revision < new.revision
         /\ e.task = t /\ e.generation = new.generation =>
               /\ e.worker = w
               /\ e.event_type \in {"lease_claimed", "lease_checkpoint_saved"}
  BY <1>2, <1>3, <1>4 DEF QueueInv, LedgerBehindRow, Event
<1>6. LedgerBehindRow'
  <2>1. \A e \in events' : e.event_type = "checkpoint_saved" =>
           e.revision \in 0..tasks'[e.task].revision
    <3>1. \A e \in events : e.event_type = "checkpoint_saved" => e \in Event
      BY LeaseLogTyped DEF QueueInv
    <3>. QED
      BY <3>1, <1>4 DEF QueueInv, QueueTypeOK, LedgerBehindRow, LogsLease,
         CheckpointEvent, LeaseEvent, LeaseEvents, Row, Event
  <2>2. tasks'[t] = row /\ \A u \in TaskIds \ {t} : tasks'[u] = tasks[u]
    BY DEF QueueInv, QueueTypeOK
  <2>3. \A e \in LeaseLog : e.task \in TaskIds
    BY <1>2 DEF Event
  <2>4. ASSUME NEW e \in LeaseLog'
        PROVE  /\ e.generation \in 1..tasks'[e.task].lease_generation
               /\ e.revision \in 1..tasks'[e.task].revision
               /\ /\ tasks'[e.task].lease_owner # NoWorker
                  /\ e.generation = tasks'[e.task].lease_generation
                  => /\ e.worker = tasks'[e.task].lease_owner
                     /\ e.event_type \in {"lease_claimed", "lease_checkpoint_saved"}
    <3>1. CASE e = new
      BY <3>1, <2>2, <1>3, <1>4
    <3>2. CASE e \in LeaseLog /\ e.task = t
      BY <3>2, <2>2, <1>3, <1>4, <1>5 DEF QueueInv, LedgerBehindRow
    <3>3. CASE e \in LeaseLog /\ e.task # t
      BY <3>3, <2>2, <2>3 DEF QueueInv, LedgerBehindRow
    <3>. QED
      BY <1>1, <3>1, <3>2, <3>3
  <2>. QED
    BY <2>1, <2>4 DEF LedgerBehindRow
<1>7. FenceTokenUnique'
  BY <1>1, <1>3 DEF QueueInv, FenceTokenUnique
<1>8. OneWorkerPerGeneration'
  BY <1>1, <1>3, <1>5 DEF QueueInv, OneWorkerPerGeneration
<1>9. FencingOrder'
  BY <1>1, <1>3, <1>4, <1>5 DEF QueueInv, FencingOrder
<1>10. NoWriteAfterEnd'
  BY <1>1, <1>3, <1>4, <1>5 DEF QueueInv, NoWriteAfterEnd
<1>. QED
  BY <1>6, <1>7, <1>8, <1>9, <1>10 DEF LogInv

-----------------------------------------------------------------------------
(* The rows the procedures write, field by field *)

Saved(r, status, state) ==
    [r EXCEPT !.status = status, !.state = state, !.revision = @ + 1]

ClaimedBy(r, w, time) ==
    [r EXCEPT !.status = "running", !.revision = @ + 1,
              !.attempt_count = @ + 1, !.lease_owner = w,
              !.lease_generation = @ + 1, !.lease_expires_at = time]

Leased(r, status, state, w, time) ==
    [r EXCEPT !.status = status, !.state = state, !.revision = @ + 1,
              !.lease_owner = w, !.lease_expires_at = time]

\* The row an unfenced save writes, field by field, and its type.
LEMMA SavedRow ==
    ASSUME NEW r \in Row, NEW status \in Statuses, NEW state \in Progress, NEW row,
           row = Saved(r, status, state)
    PROVE  /\ row \in Row
           /\ row.status = status
           /\ row.revision = r.revision + 1
           /\ row.attempt_count = r.attempt_count
           /\ row.lease_owner = r.lease_owner
           /\ row.lease_generation = r.lease_generation
           /\ row.lease_expires_at = r.lease_expires_at
<1>1. row = [status |-> status, revision |-> r.revision + 1,
             attempt_count |-> r.attempt_count, lease_owner |-> r.lease_owner,
             lease_generation |-> r.lease_generation,
             lease_expires_at |-> r.lease_expires_at, state |-> state]
  BY DEF Row, Saved
<1>. QED
  BY <1>1 DEF Row

\* The row a claim writes, field by field, and its type.
LEMMA ClaimRow ==
    ASSUME NEW r \in Row, NEW w \in Workers, NEW time \in Nat, NEW row,
           row = ClaimedBy(r, w, time)
    PROVE  /\ row \in Row
           /\ row.status = "running"
           /\ row.revision = r.revision + 1
           /\ row.attempt_count = r.attempt_count + 1
           /\ row.lease_owner = w
           /\ row.lease_generation = r.lease_generation + 1
           /\ row.lease_expires_at = time
<1>1. row = [status |-> "running", revision |-> r.revision + 1,
             attempt_count |-> r.attempt_count + 1, lease_owner |-> w,
             lease_generation |-> r.lease_generation + 1,
             lease_expires_at |-> time, state |-> r.state]
  BY DEF Row, ClaimedBy
<1>. QED
  BY <1>1 DEF Row, Statuses

\* The row a holder or a reconciliation writes, field by field, and its type.
LEMMA LeaseRow ==
    ASSUME NEW r \in Row, NEW status \in Statuses, NEW state \in Progress,
           NEW w \in Workers \cup {NoWorker}, NEW time \in Nat, NEW row,
           row = Leased(r, status, state, w, time)
    PROVE  /\ row \in Row
           /\ row.status = status
           /\ row.revision = r.revision + 1
           /\ row.attempt_count = r.attempt_count
           /\ row.lease_owner = w
           /\ row.lease_generation = r.lease_generation
           /\ row.lease_expires_at = time
<1>1. row = [status |-> status, revision |-> r.revision + 1,
             attempt_count |-> r.attempt_count, lease_owner |-> w,
             lease_generation |-> r.lease_generation,
             lease_expires_at |-> time, state |-> state]
  BY DEF Row, Leased
<1>. QED
  BY <1>1 DEF Row

-----------------------------------------------------------------------------
(* One lemma for each step of the queue *)

\* The conjuncts of QueueInv that speak of rows, for a write of row t.
LEMMA RowWrite ==
    ASSUME QueueInv, NEW t \in TaskIds, NEW row \in Row,
           tasks' = [tasks EXCEPT ![t] = row],
           row.status # Absent,
           row.lease_generation = row.attempt_count,
           row.lease_owner = NoWorker <=> row.lease_expires_at = NoTime,
           row.lease_owner # NoWorker =>
               row.status = "running" /\ row.lease_generation >= 1,
           row.attempt_count <= MaxAttempts[t],
           \A e \in events' \ events : e.task = t
    PROVE  LeaseShape' /\ GenerationCountsAttempts' /\ AbsentUntouched'
<1>1. tasks'[t] = row /\ \A u \in TaskIds \ {t} : tasks'[u] = tasks[u]
  BY DEF QueueInv, QueueTypeOK
<1>. QED
  BY <1>1 DEF QueueInv, LeaseShape, GenerationCountsAttempts, AbsentUntouched, Exists

\* agent_create_checkpoint keeps the invariant: the new row is untouched.
LEMMA CreateStep == ASSUME QueueInv, Create PROVE QueueInv'
<1>1. PICK t \in TaskIds : agent_create_checkpoint(t)
  BY DEF Create
<1>2. /\ tasks[t].revision = 0 /\ tasks[t].lease_generation = 0
      /\ tasks[t].lease_owner = NoWorker
  BY <1>1 DEF agent_create_checkpoint, QueueInv, AbsentUntouched, GenerationCountsAttempts
<1>3. NewRow \in Row
  BY QueueAssumption DEF NewRow, Row, Statuses, NoTime
<1>4. /\ tasks' = [tasks EXCEPT ![t] = NewRow]
      /\ events' = events \cup {CheckpointEvent(t, NewRow)}
      /\ now' = now
  BY <1>1 DEF agent_create_checkpoint
<1>. HIDE DEF NewRow
<1>n. /\ NewRow.status = "queued" /\ NewRow.revision = 0
      /\ NewRow.attempt_count = 0 /\ NewRow.lease_generation = 0
      /\ NewRow.lease_owner = NoWorker /\ NewRow.lease_expires_at = NoTime
  BY DEF NewRow
<1>5. LogInv'
  <2>1. /\ NewRow.revision >= tasks[t].revision
        /\ NewRow.lease_generation = tasks[t].lease_generation
        /\ NewRow.lease_owner = tasks[t].lease_owner
    BY <1>2, <1>n
  <2>. QED
    BY <1>3, <1>4, <2>1, PlainWriteLog
<1>6. QueueTypeOK'
  BY <1>3, <1>4 DEF QueueInv, QueueTypeOK, CheckpointEvent, NewRow, Event, Statuses
<1>7. LeaseShape' /\ GenerationCountsAttempts' /\ AbsentUntouched'
  <2>1. NewRow.status # Absent /\ NewRow.attempt_count <= MaxAttempts[t]
    BY <1>n, QueueAssumption DEF Absent
  <2>2. \A e \in events' \ events : e.task = t
    BY <1>4 DEF CheckpointEvent
  <2>. QED
    BY <1>3, <1>4, <1>n, <2>1, <2>2, RowWrite
<1>. QED
  BY <1>5, <1>6, <1>7 DEF QueueInv, LogInv

\* agent_save_checkpoint keeps the invariant: it only meets rows without a lease.
LEMMA SaveStep == ASSUME QueueInv, Save PROVE QueueInv'
<1>1. PICK t \in TaskIds, r \in 0..MaxRevision, s \in Statuses, p \in Progress :
          agent_save_checkpoint(t, r, s, p)
  BY DEF Save
<1>. DEFINE row == [tasks[t] EXCEPT !.status = s, !.state = p, !.revision = @ + 1]
<1>2. /\ tasks' = [tasks EXCEPT ![t] = row]
      /\ events' = events \cup {CheckpointEvent(t, row)}
      /\ now' = now
  BY <1>1 DEF agent_save_checkpoint, WriteRow
<1>3. tasks[t] \in Row
  BY DEF QueueInv, QueueTypeOK
<1>4. tasks[t].lease_owner = NoWorker
  BY <1>1 DEF agent_save_checkpoint
<1>d. row = Saved(tasks[t], s, p)
  BY DEF Saved
<1>. HIDE DEF row
<1>f. /\ row \in Row /\ row.status = s /\ row.revision = tasks[t].revision + 1
      /\ row.attempt_count = tasks[t].attempt_count
      /\ row.lease_owner = tasks[t].lease_owner
      /\ row.lease_generation = tasks[t].lease_generation
      /\ row.lease_expires_at = tasks[t].lease_expires_at
  BY <1>3, <1>d, SavedRow
<1>r. row \in Row /\ row.revision >= tasks[t].revision
  BY <1>3, <1>f DEF Row
<1>5. LogInv'
  BY <1>2, <1>r, <1>f, PlainWriteLog
<1>6. QueueTypeOK'
  <2>1. CheckpointEvent(t, row) \in Event
    BY <1>r, <1>f DEF CheckpointEvent, Row, Event
  <2>. QED
    BY <1>2, <1>r, <2>1 DEF QueueInv, QueueTypeOK
<1>7. LeaseShape' /\ GenerationCountsAttempts' /\ AbsentUntouched'
  <2>1. /\ row.status # Absent
        /\ row.lease_generation = row.attempt_count
        /\ row.lease_owner = NoWorker /\ row.lease_expires_at = NoTime
        /\ row.attempt_count <= MaxAttempts[t]
    BY <1>4, <1>f DEF QueueInv, LeaseShape, GenerationCountsAttempts, Statuses, Absent
  <2>2. \A e \in events' \ events : e.task = t
    BY <1>2 DEF CheckpointEvent
  <2>. QED
    BY <1>2, <1>r, <2>1, <2>2, RowWrite
<1>. QED
  BY <1>5, <1>6, <1>7 DEF QueueInv, LogInv

\* A claim, by either procedure, keeps the invariant.
LEMMA ClaimStep == ASSUME QueueInv, Claim PROVE QueueInv'
<1>1. PICK w \in Workers, n \in LeaseSeconds, v \in ClockReadings, t \in TaskIds :
          agent_claim_task(t, w, n, v)
  BY DEF Claim, agent_claim_next_task
<1>. DEFINE row == ClaimedRow(t, w, n, v)
<1>2. /\ tasks' = [tasks EXCEPT ![t] = row]
      /\ LogsLease(t, "lease_claimed", w, row)
      /\ now' = now
  BY <1>1 DEF agent_claim_task, WriteRow, LogsLease
<1>3. tasks[t] \in Row /\ n \in Nat /\ n >= 1 /\ v \in Nat
  BY QueueAssumption DEF QueueInv, QueueTypeOK, ClockReadings
<1>d. row = ClaimedBy(tasks[t], w, v + n)
  BY DEF ClaimedBy, ClaimedRow
<1>. HIDE DEF row
<1>5. /\ row \in Row
      /\ row.status = "running" /\ row.lease_owner = w
      /\ row.revision = tasks[t].revision + 1
      /\ row.lease_generation = tasks[t].lease_generation + 1
      /\ row.attempt_count = tasks[t].attempt_count + 1
      /\ row.lease_expires_at = v + n
  <2>1. v + n \in Nat
    BY <1>3
  <2>. QED
    BY <1>3, <1>d, <2>1, ClaimRow
<1>4. row \in Row
  BY <1>5
<1>6. LogInv'
  BY <1>2, <1>4, <1>5, ClaimLog
<1>7. QueueTypeOK'
  BY <1>2, <1>4, <1>5 DEF QueueInv, QueueTypeOK, LogsLease, CheckpointEvent,
     LeaseEvent, LeaseEvents, Row, Event, Statuses
<1>8. LeaseShape' /\ GenerationCountsAttempts' /\ AbsentUntouched'
  <2>1. /\ row.status # Absent
        /\ row.lease_generation = row.attempt_count
        /\ row.lease_owner # NoWorker /\ row.lease_expires_at # NoTime
        /\ row.lease_generation >= 1
    BY <1>3, <1>5, QueueAssumption DEF Absent, NoTime, QueueInv, GenerationCountsAttempts, Row
  <2>2. row.attempt_count <= MaxAttempts[t]
    BY <1>1, <1>3, <1>5, QueueAssumption DEF agent_claim_task, Claimable, Row
  <2>3. \A e \in events' \ events : e.task = t
    BY <1>2 DEF LogsLease, CheckpointEvent, LeaseEvent
  <2>. QED
    BY <1>2, <1>4, <1>5, <2>1, <2>2, <2>3, RowWrite
<1>. QED
  BY <1>6, <1>7, <1>8 DEF QueueInv, LogInv

\* The two procedures that write a row whose lease is held: what they share.
LEMMA HolderWrite ==
    ASSUME QueueInv, NEW t \in TaskIds, NEW type \in LeaseEvents,
           NEW status \in Statuses, NEW state \in Progress,
           NEW w \in Workers \cup {NoWorker}, NEW time \in Nat, NEW row,
           row = Leased(tasks[t], status, state, w, time),
           tasks' = [tasks EXCEPT ![t] = row],
           LogsLease(t, type, tasks[t].lease_owner, row),
           now' = now,
           tasks[t].lease_owner # NoWorker,
           \/ /\ type = "lease_checkpoint_saved"
              /\ status = "running" /\ w = tasks[t].lease_owner /\ time # NoTime
           \/ /\ type \in {"lease_released", "lease_expiry_reconciled"}
              /\ w = NoWorker /\ time = NoTime
    PROVE  QueueInv'
<1>1. tasks[t] \in Row
  BY DEF QueueInv, QueueTypeOK
<1>2. /\ row \in Row /\ row.status = status
      /\ row.revision = tasks[t].revision + 1
      /\ row.attempt_count = tasks[t].attempt_count
      /\ row.lease_owner = w
      /\ row.lease_generation = tasks[t].lease_generation
      /\ row.lease_expires_at = time
  BY <1>1, LeaseRow
<1>3. LogInv'
  BY <1>2, HolderLog
<1>4. QueueTypeOK'
  <2>1. CheckpointEvent(t, row) \in Event
    BY <1>2 DEF CheckpointEvent, Row, Event
  <2>2. LeaseEvent(t, type, tasks[t].lease_owner, row.lease_generation, row) \in Event
    BY <1>1, <1>2 DEF LeaseEvent, Row, Event
  <2>. QED
    BY <1>2, <2>1, <2>2 DEF QueueInv, QueueTypeOK, LogsLease
<1>5. LeaseShape' /\ GenerationCountsAttempts' /\ AbsentUntouched'
  <2>1. /\ row.status # Absent
        /\ row.lease_generation = row.attempt_count
        /\ row.lease_generation >= 1
        /\ row.attempt_count <= MaxAttempts[t]
    BY <1>2 DEF QueueInv, LeaseShape, GenerationCountsAttempts, Statuses, Absent
  <2>2. /\ row.lease_owner = NoWorker <=> row.lease_expires_at = NoTime
        /\ row.lease_owner # NoWorker => row.status = "running"
    BY <1>2
  <2>3. \A e \in events' \ events : e.task = t
    BY DEF LogsLease, CheckpointEvent, LeaseEvent
  <2>. QED
    BY <1>2, <2>1, <2>2, <2>3, RowWrite
<1>. QED
  BY <1>3, <1>4, <1>5 DEF QueueInv, LogInv

\* agent_save_leased_checkpoint keeps the invariant: it is a write by the holder.
LEMMA SaveLeasedStep == ASSUME QueueInv, SaveLeased PROVE QueueInv'
<1>1. PICK t \in TaskIds, r \in 0..MaxRevision, w \in Workers,
           g \in 1..MaxRevision, s \in LeasedSaveStatuses,
           p \in Progress, n \in LeaseSeconds, v \in ClockReadings :
          agent_save_leased_checkpoint(t, r, w, g, s, p, n, v)
  BY DEF SaveLeased
<1>. DEFINE row == LeasedSaveRow(t, s, p, n, v)
<1>2. tasks[t].lease_owner = w /\ w # NoWorker
  BY <1>1, QueueAssumption DEF agent_save_leased_checkpoint
<1>3. n \in Nat /\ n >= 1 /\ v \in Nat /\ v + n \in Nat /\ v + n # NoTime
  BY QueueAssumption DEF ClockReadings, QueueInv, QueueTypeOK, NoTime
<1>4. s \in Statuses
  BY DEF LeasedSaveStatuses, Statuses
<1>5. tasks' = [tasks EXCEPT ![t] = row] /\ now' = now
  BY <1>1 DEF agent_save_leased_checkpoint, WriteRow
<1>8. row.lease_generation = g
  <2>1. tasks[t] \in Row /\ tasks[t].lease_generation = g
    BY <1>1 DEF agent_save_leased_checkpoint, QueueInv, QueueTypeOK
  <2>. QED
    BY <2>1 DEF LeasedSaveRow, Row
<1>6. CASE s = "running"
  <2>1. row = Leased(tasks[t], s, p, tasks[t].lease_owner, v + n)
    BY <1>6 DEF LeasedSaveRow, Leased
  <2>2. LogsLease(t, "lease_checkpoint_saved", tasks[t].lease_owner, row)
    BY <1>1, <1>2, <1>6, <1>8 DEF agent_save_leased_checkpoint, WriteRow, LogsLease
  <2>. HIDE DEF row
  <2>3. tasks[t].lease_owner \in Workers \cup {NoWorker}
    BY <1>2
  <2>4. "lease_checkpoint_saved" \in LeaseEvents
    BY DEF LeaseEvents
  <2>. QED
    BY <1>2, <1>3, <1>4, <1>5, <1>6, <2>1, <2>2, <2>3, <2>4, HolderWrite
<1>7. CASE s # "running"
  <2>1. row = Leased(tasks[t], s, p, NoWorker, NoTime)
    BY <1>7 DEF LeasedSaveRow, Leased
  <2>2. LogsLease(t, "lease_released", tasks[t].lease_owner, row)
    BY <1>1, <1>2, <1>7, <1>8 DEF agent_save_leased_checkpoint, WriteRow, LogsLease
  <2>. HIDE DEF row
  <2>3. "lease_released" \in LeaseEvents /\ NoTime \in Nat
    BY DEF LeaseEvents, NoTime
  <2>. QED
    BY <1>2, <1>4, <1>5, <2>1, <2>2, <2>3, HolderWrite
<1>. QED
  BY <1>6, <1>7

\* agent_reconcile_expired_lease keeps the invariant: it ends the generation.
LEMMA ReconcileStep == ASSUME QueueInv, Reconcile PROVE QueueInv'
<1>1. PICK t \in TaskIds, r \in 0..MaxRevision, g \in 1..MaxRevision,
           p \in Progress, v \in ClockReadings :
          agent_reconcile_expired_lease(t, r, g, p, v)
  BY DEF Reconcile
<1>. DEFINE row == Leased(tasks[t], "blocked", p, NoWorker, NoTime)
<1>2. tasks[t].lease_owner # NoWorker
  BY <1>1 DEF agent_reconcile_expired_lease
<1>3. /\ tasks' = [tasks EXCEPT ![t] = row] /\ now' = now
      /\ LogsLease(t, "lease_expiry_reconciled", tasks[t].lease_owner, row)
  BY <1>1 DEF agent_reconcile_expired_lease, WriteRow, LogsLease, Leased
<1>. HIDE DEF row
<1>4. row = Leased(tasks[t], "blocked", p, NoWorker, NoTime)
  BY DEF row
<1>5. /\ "lease_expiry_reconciled" \in LeaseEvents /\ NoTime \in Nat
      /\ "blocked" \in Statuses
  BY DEF LeaseEvents, NoTime, Statuses
<1>. QED
  BY <1>2, <1>3, <1>4, <1>5, HolderWrite

\* agent_append_event keeps the invariant: an activity is no lease entry.
LEMMA AppendStep == ASSUME QueueInv, AppendActivity PROVE QueueInv'
<1>1. PICK t \in TaskIds, e \in Activities : agent_append_event(t, e)
  BY DEF AppendActivity
<1>2. /\ Exists(t) /\ e.task = t
      /\ tasks' = tasks /\ now' = now /\ events' = events \cup {e}
  BY <1>1 DEF agent_append_event
<1>3. LeaseLog' = LeaseLog
  BY <1>2, ActivityAssumption DEF LeaseLog, LeaseEvents
<1>4. LedgerBehindRow'
  BY <1>2, <1>3, ActivityAssumption DEF QueueInv, LedgerBehindRow
<1>. QED
  BY <1>2, <1>3, <1>4 DEF QueueInv, QueueTypeOK, LeaseShape,
     GenerationCountsAttempts, AbsentUntouched, Exists, FenceTokenUnique,
     FencingOrder, NoWriteAfterEnd, OneWorkerPerGeneration

\* The clock alone disturbs nothing.
LEMMA IdleStep ==
    ASSUME QueueInv, Tick \/ UNCHANGED queueVars PROVE QueueInv'
<1>1. tasks' = tasks /\ events' = events /\ now' \in Nat
  BY DEF Tick, queueVars, QueueInv, QueueTypeOK
<1>2. LeaseLog' = LeaseLog
  BY <1>1 DEF LeaseLog
<1>. QED
  BY <1>1, <1>2 DEF QueueInv, QueueTypeOK, LeaseShape, LedgerBehindRow,
     GenerationCountsAttempts, AbsentUntouched, Exists, FenceTokenUnique,
     FencingOrder, NoWriteAfterEnd, OneWorkerPerGeneration

-----------------------------------------------------------------------------

\* Every step keeps the invariant.
LEMMA QueueNextInv == ASSUME QueueInv, [QueueNext]_queueVars PROVE QueueInv'
BY CreateStep, SaveStep, ClaimStep, SaveLeasedStep, ReconcileStep,
   AppendStep, IdleStep DEF QueueNext

\* QueueInv holds whatever calls, retries and clock readings the queue meets.
THEOREM QueueInvariant == QueueSpec => []QueueInv
<1>1. QueueInv /\ [QueueNext]_queueVars => QueueInv'
  BY QueueNextInv
<1>. QED
  BY InitInv, <1>1, PTL DEF QueueSpec

\* The tables keep their column types and the CHECK constraints on leases and
\* attempts are never what aborts a procedure.
THEOREM LeaseShapeHolds == QueueSpec => [](QueueTypeOK /\ LeaseShape)
<1>1. QueueInv => QueueTypeOK /\ LeaseShape
  BY DEF QueueInv
<1>. QED
  BY QueueInvariant, <1>1, PTL

\* No two claims of a task ever return the same fencing token.
THEOREM FenceTokensUnique == QueueSpec => []FenceTokenUnique
<1>1. QueueInv => FenceTokenUnique
  BY DEF QueueInv
<1>. QED
  BY QueueInvariant, <1>1, PTL

\* The accepted writes of lease holders are ordered by generation: a worker
\* that was replaced never gets a write in behind its successor.
THEOREM WritesAreFenced == QueueSpec => []FencingOrder
<1>1. QueueInv => FencingOrder
  BY DEF QueueInv
<1>. QED
  BY QueueInvariant, <1>1, PTL

\* After a release or a reconciliation the generation writes no more.
THEOREM EndedLeasesStaySilent == QueueSpec => []NoWriteAfterEnd
<1>1. QueueInv => NoWriteAfterEnd
  BY DEF QueueInv
<1>. QED
  BY QueueInvariant, <1>1, PTL

\* Fencing as a whole: the tokens are unique, the accepted writes are in their
\* order, and an ended lease writes no more.
THEOREM FencingHolds == QueueSpec => []FencedWrites
<1>1. FenceTokenUnique /\ FencingOrder /\ NoWriteAfterEnd => FencedWrites
  BY DEF FencedWrites
<1>. QED
  BY FenceTokensUnique, WritesAreFenced, EndedLeasesStaySilent, <1>1, PTL

\* A row under a live lease is written by a save of its holder, or not at all.
LEMMA OnlyHolderWrites == ASSUME QueueInv, [QueueNext]_queueVars PROVE HolderStep
<1>. SUFFICES ASSUME NEW t \in TaskIds, LeaseLive(t), tasks'[t] # tasks[t]
              PROVE  \E e \in events' \ events :
                        /\ e.task = t
                        /\ e.event_type \in {"lease_checkpoint_saved", "lease_released"}
                        /\ e.worker = tasks[t].lease_owner
                        /\ e.generation = tasks[t].lease_generation
  BY DEF HolderStep
<1>0. /\ tasks[t].lease_owner # NoWorker /\ tasks[t].lease_expires_at > now
      /\ tasks[t].status = "running" /\ tasks[t] \in Row /\ now \in Nat
  BY DEF LeaseLive, QueueInv, LeaseShape, QueueTypeOK
<1>1. CASE Create
  BY <1>0, <1>1 DEF Create, agent_create_checkpoint, Exists, Absent, QueueInv, QueueTypeOK
<1>2. CASE Save
  BY <1>0, <1>2 DEF Save, agent_save_checkpoint, WriteRow, QueueInv, QueueTypeOK
<1>3. CASE Claim
  BY <1>0, <1>3 DEF Claim, agent_claim_next_task, agent_claim_task, Claimable,
     WriteRow, QueueInv, QueueTypeOK
<1>4. CASE SaveLeased
  <2>1. PICK u \in TaskIds, r \in 0..MaxRevision, w \in Workers,
             g \in 1..MaxRevision, s \in LeasedSaveStatuses,
             p \in Progress, n \in LeaseSeconds, v \in ClockReadings :
            agent_save_leased_checkpoint(u, r, w, g, s, p, n, v)
    BY <1>4 DEF SaveLeased
  <2>2. u = t
    BY <2>1 DEF agent_save_leased_checkpoint, WriteRow, QueueInv, QueueTypeOK
  <2>. DEFINE row  == LeasedSaveRow(t, s, p, n, v)
              type == IF s = "running" THEN "lease_checkpoint_saved"
                                       ELSE "lease_released"
              new  == LeaseEvent(t, type, w, g, row)
  <2>3. /\ tasks[t].lease_owner = w /\ tasks[t].lease_generation = g
        /\ new \in events'
    BY <2>1, <2>2 DEF agent_save_leased_checkpoint, WriteRow
  <2>4. /\ row.revision = tasks[t].revision + 1
        /\ row.lease_generation = tasks[t].lease_generation
    BY <1>0 DEF LeasedSaveRow, Row
  <2>5. /\ new.task = t /\ new.event_type = type /\ new.worker = w
        /\ new.generation = g /\ new.revision = tasks[t].revision + 1
    BY <2>3, <2>4 DEF LeaseEvent
  <2>6. new \notin events
    <3>. HIDE DEF new, row
    <3>1. new \in events => new \in LeaseLog
      BY <2>5 DEF LeaseLog, LeaseEvents
    <3>2. new \in LeaseLog => new.revision <= tasks[t].revision
      BY <1>0, <2>5 DEF QueueInv, LedgerBehindRow, Row
    <3>. QED
      BY <1>0, <2>5, <3>1, <3>2 DEF Row
  <2>. HIDE DEF new, row
  <2>7. type \in {"lease_checkpoint_saved", "lease_released"}
    OBVIOUS
  <2>. QED
    BY <2>3, <2>5, <2>6, <2>7
<1>5. CASE Reconcile
  <2>1. PICK u \in TaskIds, r \in 0..MaxRevision, g \in 1..MaxRevision,
             p \in Progress, v \in ClockReadings :
            agent_reconcile_expired_lease(u, r, g, p, v)
    BY <1>5 DEF Reconcile
  <2>2. u # t
    BY <1>0, <2>1 DEF agent_reconcile_expired_lease, ClockReadings, Row
  <2>. QED
    BY <2>1, <2>2 DEF agent_reconcile_expired_lease, WriteRow, QueueInv, QueueTypeOK
<1>6. CASE AppendActivity \/ Tick \/ UNCHANGED queueVars
  BY <1>6 DEF AppendActivity, agent_append_event, Tick, queueVars
<1>. QED
  BY <1>1, <1>2, <1>3, <1>4, <1>5, <1>6 DEF QueueNext

\* All lease entries of a generation name the worker that claimed it.
THEOREM GenerationsHaveOneWorker == QueueSpec => []OneWorkerPerGeneration
<1>1. QueueInv => OneWorkerPerGeneration
  BY DEF QueueInv
<1>. QED
  BY QueueInvariant, <1>1, PTL
\* While a lease is live nobody but its holder changes the row: the unfenced
\* save sees the owner, a claim needs 'queued', and a reconciliation needs the
\* expiry to have passed when it read the clock.
THEOREM LiveLeasesAreExclusive == QueueSpec => LiveLeaseOnlyHolderWrites
<1>1. QueueInv /\ [QueueNext]_queueVars => [HolderStep]_queueVars
  BY OnlyHolderWrites
<1>. QED
  BY QueueInvariant, <1>1, PTL DEF QueueSpec, LiveLeaseOnlyHolderWrites

\* Leased work is never put back in the queue, and a new generation is only
\* ever opened by a claim of queued work with attempts left.
THEOREM LeasedWorkNeverRequeued == QueueSpec => ExpiredLeaseNeverRequeued
<1>1. ASSUME QueueInv, [QueueNext]_queueVars PROVE [NoRequeueStep]_queueVars
  <2>. SUFFICES ASSUME NEW t \in TaskIds
                PROVE  /\ tasks[t].lease_owner # NoWorker => tasks'[t].status # "queued"
                       /\ tasks'[t].lease_generation # tasks[t].lease_generation =>
                             /\ tasks[t].status = "queued"
                             /\ tasks[t].attempt_count < MaxAttempts[t]
    BY DEF NoRequeueStep
  <2>0. /\ tasks[t] \in Row
        /\ tasks[t].lease_owner # NoWorker => tasks[t].status = "running"
    BY <1>1 DEF QueueInv, LeaseShape, QueueTypeOK
  <2>1. CASE Create
    BY <1>1, <2>0, <2>1 DEF Create, agent_create_checkpoint, Exists, Absent, NewRow,
       QueueInv, QueueTypeOK, AbsentUntouched, GenerationCountsAttempts
  <2>2. CASE Save
    <3>1. PICK u \in TaskIds, r \in 0..MaxRevision, s \in Statuses, p \in Progress :
              agent_save_checkpoint(u, r, s, p)
      BY <2>2 DEF Save
    <3>2. /\ tasks[u].lease_owner = NoWorker
          /\ tasks' = [tasks EXCEPT ![u] = Saved(tasks[u], s, p)]
      BY <3>1 DEF agent_save_checkpoint, WriteRow, Saved
    <3>3. u = t => tasks'[t].lease_generation = tasks[t].lease_generation
      BY <1>1, <2>0, <3>2, SavedRow DEF QueueInv, QueueTypeOK
    <3>. QED
      BY <1>1, <2>0, <3>2, <3>3 DEF QueueInv, QueueTypeOK
  <2>3. CASE Claim
    <3>1. PICK w \in Workers, n \in LeaseSeconds, v \in ClockReadings, u \in TaskIds :
              agent_claim_task(u, w, n, v)
      BY <2>3 DEF Claim, agent_claim_next_task
    <3>. QED
      BY <1>1, <2>0, <3>1 DEF agent_claim_task, Claimable, WriteRow, QueueInv, QueueTypeOK
  <2>4. CASE SaveLeased
    <3>1. PICK u \in TaskIds, r \in 0..MaxRevision, w \in Workers,
               g \in 1..MaxRevision, s \in LeasedSaveStatuses,
               p \in Progress, n \in LeaseSeconds, v \in ClockReadings :
              agent_save_leased_checkpoint(u, r, w, g, s, p, n, v)
      BY <2>4 DEF SaveLeased
    <3>2. tasks' = [tasks EXCEPT ![u] = LeasedSaveRow(u, s, p, n, v)]
      BY <3>1 DEF agent_save_leased_checkpoint, WriteRow
    <3>3. /\ LeasedSaveRow(t, s, p, n, v).status = s
          /\ LeasedSaveRow(t, s, p, n, v).lease_generation = tasks[t].lease_generation
      BY <2>0 DEF LeasedSaveRow, Row
    <3>4. s # "queued"
      BY DEF LeasedSaveStatuses
    <3>. QED
      BY <1>1, <2>0, <3>2, <3>3, <3>4 DEF QueueInv, QueueTypeOK
  <2>5. CASE Reconcile
    <3>1. PICK u \in TaskIds, r \in 0..MaxRevision, g \in 1..MaxRevision,
               p \in Progress, v \in ClockReadings :
              agent_reconcile_expired_lease(u, r, g, p, v)
      BY <2>5 DEF Reconcile
    <3>. DEFINE row == Leased(tasks[u], "blocked", p, NoWorker, NoTime)
    <3>2. tasks' = [tasks EXCEPT ![u] = row]
      BY <3>1 DEF agent_reconcile_expired_lease, WriteRow, Leased
    <3>d. row = Leased(tasks[u], "blocked", p, NoWorker, NoTime)
      OBVIOUS
    <3>. HIDE DEF row
    <3>3. u = t => row.status = "blocked" /\ row.lease_generation = tasks[t].lease_generation
      <4>1. "blocked" \in Statuses /\ NoTime \in Nat
        BY DEF Statuses, NoTime
      <4>. QED
        BY <2>0, <3>d, <4>1, LeaseRow
    <3>. QED
      BY <1>1, <2>0, <3>2, <3>3 DEF QueueInv, QueueTypeOK
  <2>6. CASE AppendActivity \/ Tick \/ UNCHANGED queueVars
    BY <2>0, <2>6 DEF AppendActivity, agent_append_event, Tick, queueVars
  <2>. QED
    BY <1>1, <2>1, <2>2, <2>3, <2>4, <2>5, <2>6 DEF QueueNext
<1>. QED
  BY QueueInvariant, <1>1, PTL DEF QueueSpec, ExpiredLeaseNeverRequeued
-----------------------------------------------------------------------------

\* Every step writes at most one row, and a row that becomes active either was
\* active before or found the trusted slot free.
LEMMA ActiveStep ==
    ASSUME QueueInv, [QueueNext]_queueVars
    PROVE  \/ tasks' = tasks
           \/ \E t \in TaskIds : \E row \in Row :
                 /\ tasks' = [tasks EXCEPT ![t] = row]
                 /\ \/ row.status \notin ActiveStatuses
                    \/ tasks[t].status \in ActiveStatuses
                    \/ ActiveSlotFree(t, row.status)
<1>1. CASE Create
  <2>1. PICK t \in TaskIds : agent_create_checkpoint(t)
    BY <1>1 DEF Create
  <2>2. NewRow \in Row /\ NewRow.status = "queued"
    BY QueueAssumption DEF NewRow, Row, Statuses, NoTime
  <2>. QED
    BY <2>1, <2>2 DEF agent_create_checkpoint
<1>2. CASE Save
  <2>1. PICK t \in TaskIds, r \in 0..MaxRevision, s \in Statuses, p \in Progress :
            agent_save_checkpoint(t, r, s, p)
    BY <1>2 DEF Save
  <2>2. PICK row : row = Saved(tasks[t], s, p)
    OBVIOUS
  <2>3. tasks' = [tasks EXCEPT ![t] = row] /\ ActiveSlotFree(t, s)
    BY <2>1, <2>2 DEF agent_save_checkpoint, WriteRow, Saved
  <2>4. row \in Row /\ row.status = s
    BY <2>2, SavedRow DEF QueueInv, QueueTypeOK
  <2>. QED
    BY <2>3, <2>4
<1>3. CASE Claim
  <2>1. PICK w \in Workers, n \in LeaseSeconds, v \in ClockReadings, t \in TaskIds :
            agent_claim_task(t, w, n, v)
    BY <1>3 DEF Claim, agent_claim_next_task
  <2>2. PICK row : row = ClaimedBy(tasks[t], w, v + n)
    OBVIOUS
  <2>3. tasks' = [tasks EXCEPT ![t] = row] /\ tasks[t].status = "queued"
    BY <2>1, <2>2 DEF agent_claim_task, Claimable, ClaimedRow, WriteRow, ClaimedBy
  <2>4. v + n \in Nat
    BY QueueAssumption DEF ClockReadings, QueueInv, QueueTypeOK
  <2>5. row \in Row
    BY <2>2, <2>4, ClaimRow DEF QueueInv, QueueTypeOK
  <2>. QED
    BY <2>3, <2>5 DEF ActiveStatuses
<1>4. CASE SaveLeased
  <2>1. PICK t \in TaskIds, r \in 0..MaxRevision, w \in Workers,
             g \in 1..MaxRevision, s \in LeasedSaveStatuses,
             p \in Progress, n \in LeaseSeconds, v \in ClockReadings :
            agent_save_leased_checkpoint(t, r, w, g, s, p, n, v)
    BY <1>4 DEF SaveLeased
  <2>2. PICK row : row = LeasedSaveRow(t, s, p, n, v)
    OBVIOUS
  <2>3. tasks' = [tasks EXCEPT ![t] = row] /\ tasks[t].status = "running"
    BY <2>1, <2>2 DEF agent_save_leased_checkpoint, WriteRow
  <2>4. v + n \in Nat /\ NoTime \in Nat /\ s \in Statuses
    BY QueueAssumption DEF ClockReadings, QueueInv, QueueTypeOK, NoTime,
       LeasedSaveStatuses, Statuses
  <2>5. tasks[t] \in Row /\ tasks[t].lease_owner \in Workers \cup {NoWorker}
    BY DEF QueueInv, QueueTypeOK, Row
  <2>6. \/ row = Leased(tasks[t], s, p, tasks[t].lease_owner, v + n)
        \/ row = Leased(tasks[t], s, p, NoWorker, NoTime)
    BY <2>2 DEF LeasedSaveRow, Leased
  <2>7. CASE row = Leased(tasks[t], s, p, tasks[t].lease_owner, v + n)
    <3>0. PICK time \in Nat, o \in Workers \cup {NoWorker} :
              time = v + n /\ o = tasks[t].lease_owner
      BY <2>4, <2>5
    <3>1. row \in Row
      <4>1. row = Leased(tasks[t], s, p, o, time)
        BY <2>7, <3>0
      <4>. QED
        BY <2>4, <2>5, <4>1, LeaseRow
    <3>. QED
      BY <2>3, <3>1 DEF ActiveStatuses
  <2>8. CASE row = Leased(tasks[t], s, p, NoWorker, NoTime)
    <3>1. row \in Row
      BY <2>4, <2>5, <2>8, LeaseRow
    <3>. QED
      BY <2>3, <3>1 DEF ActiveStatuses
  <2>. QED
    BY <2>6, <2>7, <2>8
<1>5. CASE Reconcile
  <2>1. PICK t \in TaskIds, r \in 0..MaxRevision, g \in 1..MaxRevision,
             p \in Progress, v \in ClockReadings :
            agent_reconcile_expired_lease(t, r, g, p, v)
    BY <1>5 DEF Reconcile
  <2>2. PICK row : row = Leased(tasks[t], "blocked", p, NoWorker, NoTime)
    OBVIOUS
  <2>3. tasks' = [tasks EXCEPT ![t] = row] /\ tasks[t].status = "running"
    BY <2>1, <2>2 DEF agent_reconcile_expired_lease, WriteRow, Leased
  <2>4. "blocked" \in Statuses /\ NoTime \in Nat
    BY DEF Statuses, NoTime
  <2>5. row \in Row
    BY <2>2, <2>4, LeaseRow DEF QueueInv, QueueTypeOK
  <2>. QED
    BY <2>3, <2>5 DEF ActiveStatuses
<1>6. CASE AppendActivity \/ Tick \/ UNCHANGED queueVars
  BY <1>6 DEF AppendActivity, agent_append_event, Tick, queueVars
<1>. QED
  BY <1>1, <1>2, <1>3, <1>4, <1>5, <1>6 DEF QueueNext

\* The partial unique index is enough: however rows are created, saved back to
\* the queue or claimed, one trusted run at most is queued or running.
THEOREM OneActiveTrustedRun == QueueSpec => []SingleActiveTrustedRun
<1>1. QueueInit => SingleActiveTrustedRun
  BY QueueAssumption DEF QueueInit, SingleActiveTrustedRun, ActiveStatuses, Absent
<1>2. ASSUME QueueInv, SingleActiveTrustedRun, [QueueNext]_queueVars
      PROVE  SingleActiveTrustedRun'
  <2>1. CASE tasks' = tasks
    BY <1>2, <2>1 DEF SingleActiveTrustedRun
  <2>2. ASSUME NEW t \in TaskIds, NEW row \in Row,
               tasks' = [tasks EXCEPT ![t] = row],
               \/ row.status \notin ActiveStatuses
               \/ tasks[t].status \in ActiveStatuses
               \/ ActiveSlotFree(t, row.status)
        PROVE  SingleActiveTrustedRun'
    <3>1. tasks'[t] = row /\ \A u \in TaskIds \ {t} : tasks'[u] = tasks[u]
      BY <1>2, <2>2 DEF QueueInv, QueueTypeOK
    <3>. QED
      BY <1>2, <2>2, <3>1, QueueAssumption DEF SingleActiveTrustedRun, ActiveSlotFree
  <2>. QED
    BY <1>2, <2>1, <2>2, ActiveStep
<1>. QED
  BY QueueInvariant, <1>1, <1>2, PTL DEF QueueSpec

-----------------------------------------------------------------------------
(* The ledger as an audit trail *)

\* The entries of the row trigger for one task.
Trail(t) == {e \in events : e.task = t /\ e.event_type = "checkpoint_saved"}

\* A row written with its checkpoint entry, and no other, extends its own trail.
LEMMA TrailGrows ==
    ASSUME NEW t \in TaskIds, NEW row, NEW extra,
           events' = events \cup {CheckpointEvent(t, row)} \cup extra,
           \A e \in extra : e.event_type # "checkpoint_saved"
    PROVE  /\ Trail(t)' = Trail(t) \cup {CheckpointEvent(t, row)}
           /\ \A u \in TaskIds \ {t} : Trail(u)' = Trail(u)
<1>1. /\ CheckpointEvent(t, row).task = t
      /\ CheckpointEvent(t, row).event_type = "checkpoint_saved"
  BY DEF CheckpointEvent
<1>. QED
  BY <1>1 DEF Trail

\* What one step does to a row and to its trail: nothing, or one revision and
\* its entry together.
Extends(t, row) ==
    /\ tasks' = [tasks EXCEPT ![t] = row]
    /\ row.status # Absent
    /\ IF Exists(t)
       THEN /\ row.revision = tasks[t].revision + 1 /\ tasks[t].revision < MaxRevision
            /\ row.lease_generation - tasks[t].lease_generation \in {0, 1}
            /\ \/ row.lease_owner = NoWorker \/ tasks[t].lease_owner # NoWorker
               \/ row.lease_generation = tasks[t].lease_generation + 1
       ELSE row.revision = 0 /\ row.lease_generation = 0 /\ row.lease_owner = NoWorker
    /\ Trail(t)' = Trail(t) \cup {CheckpointEvent(t, row)}
    /\ \A u \in TaskIds \ {t} : Trail(u)' = Trail(u)

\* A procedure that updates a row logs the revision it has made.
LEMMA WriteExtends ==
    ASSUME QueueTypeOK, NEW t \in TaskIds, NEW row, NEW extra, WriteRow(t, row, extra), Exists(t),
           row.status # Absent, row.revision = tasks[t].revision + 1,
           row.lease_generation - tasks[t].lease_generation \in {0, 1},
           \/ row.lease_owner = NoWorker \/ tasks[t].lease_owner # NoWorker
           \/ row.lease_generation = tasks[t].lease_generation + 1,
           \A e \in extra : e.event_type # "checkpoint_saved"
    PROVE  Extends(t, row)
BY TrailGrows DEF WriteRow, Extends

\* Every step extends at most one trail.
LEMMA LoggedStep ==
    ASSUME QueueInv, [QueueNext]_queueVars
    PROVE  \/ tasks' = tasks /\ \A u \in TaskIds : Trail(u)' = Trail(u)
           \/ \E t \in TaskIds : \E row : Extends(t, row)
<1>. QueueTypeOK
  BY DEF QueueInv
<1>1. CASE Create
  <2>1. PICK t \in TaskIds : agent_create_checkpoint(t)
    BY <1>1 DEF Create
  <2>2. /\ events' = events \cup {CheckpointEvent(t, NewRow)}
        /\ CheckpointEvent(t, NewRow).task = t
        /\ CheckpointEvent(t, NewRow).event_type = "checkpoint_saved"
    BY <2>1 DEF agent_create_checkpoint, CheckpointEvent
  <2>3. /\ NewRow.status # Absent /\ NewRow.revision = 0
        /\ NewRow.lease_generation = 0 /\ NewRow.lease_owner = NoWorker
    BY DEF NewRow, Absent
  <2>4. /\ Trail(t)' = Trail(t) \cup {CheckpointEvent(t, NewRow)}
        /\ \A u \in TaskIds \ {t} : Trail(u)' = Trail(u)
    BY <2>2 DEF Trail
  <2>5. Extends(t, NewRow)
    BY <2>1, <2>3, <2>4 DEF agent_create_checkpoint, Extends
  <2>. QED
    BY <2>5
<1>2. CASE Save
  <2>1. PICK t \in TaskIds, r \in 0..MaxRevision, s \in Statuses, p \in Progress :
            agent_save_checkpoint(t, r, s, p)
    BY <1>2 DEF Save
  <2>2. PICK row : row = Saved(tasks[t], s, p)
    OBVIOUS
  <2>3. WriteRow(t, row, {}) /\ Exists(t)
    BY <2>1, <2>2 DEF agent_save_checkpoint, Saved
  <2>4. /\ row.status = s /\ row.revision = tasks[t].revision + 1
        /\ row.lease_generation - tasks[t].lease_generation \in {0, 1}
        /\ row.lease_owner = NoWorker
    BY <2>1, <2>2, SavedRow DEF QueueTypeOK, Row, agent_save_checkpoint
  <2>. QED
    BY <2>3, <2>4, WriteExtends DEF Statuses, Absent
<1>3. CASE Claim
  <2>1. PICK w \in Workers, n \in LeaseSeconds, v \in ClockReadings, t \in TaskIds :
            agent_claim_task(t, w, n, v)
    BY <1>3 DEF Claim, agent_claim_next_task
  <2>2. PICK row : row = ClaimedBy(tasks[t], w, v + n)
    OBVIOUS
  <2>3. /\ WriteRow(t, row, {LeaseEvent(t, "lease_claimed", w, row.lease_generation, row)})
        /\ tasks[t].status = "queued"
    BY <2>1, <2>2 DEF agent_claim_task, Claimable, ClaimedRow, ClaimedBy
  <2>4. v + n \in Nat
    BY QueueAssumption DEF ClockReadings, QueueTypeOK
  <2>5. /\ row.status = "running" /\ row.revision = tasks[t].revision + 1
        /\ row.lease_generation - tasks[t].lease_generation \in {0, 1}
        /\ row.lease_generation = tasks[t].lease_generation + 1
    BY <2>2, <2>4, ClaimRow DEF QueueTypeOK, Row
  <2>6. \A e \in {LeaseEvent(t, "lease_claimed", w, row.lease_generation, row)} :
           e.event_type # "checkpoint_saved"
    BY DEF LeaseEvent
  <2>. QED
    BY <2>3, <2>5, <2>6, WriteExtends DEF Exists, Absent
<1>4. CASE SaveLeased
  <2>1. PICK t \in TaskIds, r \in 0..MaxRevision, w \in Workers,
             g \in 1..MaxRevision, s \in LeasedSaveStatuses,
             p \in Progress, n \in LeaseSeconds, v \in ClockReadings :
            agent_save_leased_checkpoint(t, r, w, g, s, p, n, v)
    BY <1>4 DEF SaveLeased
  <2>2. PICK row : row = LeasedSaveRow(t, s, p, n, v)
    OBVIOUS
  <2>3. PICK type \in LeaseEvents :
           WriteRow(t, row, {LeaseEvent(t, type, w, g, row)})
    BY <2>1, <2>2 DEF agent_save_leased_checkpoint, LeaseEvents
  <2>4. tasks[t] \in Row /\ tasks[t].status = "running" /\ tasks[t].lease_owner # NoWorker
    BY <2>1, QueueAssumption DEF agent_save_leased_checkpoint, QueueTypeOK
  <2>5. /\ row.status = s /\ row.revision = tasks[t].revision + 1
        /\ row.lease_generation - tasks[t].lease_generation \in {0, 1}
    BY <2>2, <2>4 DEF LeasedSaveRow, Row
  <2>6. \A e \in {LeaseEvent(t, type, w, g, row)} : e.event_type # "checkpoint_saved"
    BY DEF LeaseEvent, LeaseEvents
  <2>. QED
    BY <2>3, <2>4, <2>5, <2>6, WriteExtends DEF Exists, Absent, LeasedSaveStatuses
<1>5. CASE Reconcile
  <2>1. PICK t \in TaskIds, r \in 0..MaxRevision, g \in 1..MaxRevision,
             p \in Progress, v \in ClockReadings :
            agent_reconcile_expired_lease(t, r, g, p, v)
    BY <1>5 DEF Reconcile
  <2>2. PICK row : row = Leased(tasks[t], "blocked", p, NoWorker, NoTime)
    OBVIOUS
  <2>3. PICK e : e = LeaseEvent(t, "lease_expiry_reconciled", tasks[t].lease_owner, g, row)
    OBVIOUS
  <2>4. WriteRow(t, row, {e}) /\ tasks[t].status = "running"
    BY <2>1, <2>2, <2>3 DEF agent_reconcile_expired_lease, Leased
  <2>5. "blocked" \in Statuses /\ NoTime \in Nat
    BY DEF Statuses, NoTime
  <2>6. /\ row.status = "blocked" /\ row.revision = tasks[t].revision + 1
        /\ row.lease_generation - tasks[t].lease_generation \in {0, 1}
        /\ row.lease_owner = NoWorker
    <3>1. PICK old \in Row : old = tasks[t]
      BY DEF QueueTypeOK
    <3>2. /\ row.status = "blocked" /\ row.revision = old.revision + 1
          /\ row.lease_generation = old.lease_generation /\ row.lease_owner = NoWorker
      <4>1. row = Leased(old, "blocked", p, NoWorker, NoTime)
        BY <2>2, <3>1
      <4>. QED
        BY <2>5, <4>1, LeaseRow
    <3>. QED
      BY <3>1, <3>2 DEF Row
  <2>7. e.event_type # "checkpoint_saved"
    BY <2>3 DEF LeaseEvent
  <2>. QED
    BY <2>4, <2>6, <2>7, WriteExtends DEF Exists, Absent
<1>6. CASE AppendActivity
  BY <1>6, ActivityAssumption DEF AppendActivity, agent_append_event, Trail
<1>7. CASE Tick \/ UNCHANGED queueVars
  BY <1>7 DEF Tick, queueVars, Trail
<1>. QED
  BY <1>1, <1>2, <1>3, <1>4, <1>5, <1>6, <1>7 DEF QueueNext

\* The trail of one row: an entry for each of its revisions, one for each, and
\* the last with the row's status.
GapFree(t) ==
    Exists(t) =>
        /\ {e.revision : e \in Trail(t)} = 0..tasks[t].revision
        /\ \A a, b \in Trail(t) : a.revision = b.revision => a = b
        /\ \E e \in Trail(t) : /\ e.revision = tasks[t].revision
                               /\ e.status = tasks[t].status

\* The audit trail has no gap, no double and no stale end, whatever calls the
\* procedures accept.
THEOREM LedgerHasNoGap == QueueSpec => []LedgerGapFree
<1>1. LedgerGapFree <=> \A t \in TaskIds : GapFree(t)
  BY DEF LedgerGapFree, GapFree, Trail
<1>2. QueueInit => LedgerGapFree
  BY DEF QueueInit, LedgerGapFree, Exists, Absent
<1>3. ASSUME QueueInv, LedgerGapFree, [QueueNext]_queueVars
      PROVE  LedgerGapFree'
  <2>1. tasks \in [TaskIds -> Row]
    BY <1>3 DEF QueueInv, QueueTypeOK
  <2>. SUFFICES ASSUME NEW u \in TaskIds PROVE GapFree(u)'
    BY DEF LedgerGapFree, GapFree, Trail
  <2>2. GapFree(u)
    BY <1>1, <1>3
  <2>3. CASE tasks'[u] = tasks[u] /\ Trail(u)' = Trail(u)
    BY <2>2, <2>3 DEF GapFree, Exists
  <2>4. ASSUME NEW row, Extends(u, row) PROVE GapFree(u)'
    <3>1. /\ tasks'[u] = row /\ row.status # Absent
          /\ Trail(u)' = Trail(u) \cup {CheckpointEvent(u, row)}
      BY <2>1, <2>4 DEF Extends
    <3>2. /\ CheckpointEvent(u, row).revision = row.revision
          /\ CheckpointEvent(u, row).status = row.status
      BY DEF CheckpointEvent
    <3>. DEFINE E == CheckpointEvent(u, row)
    <3>3. CASE Exists(u)
      <4>1. PICK n \in Nat : n = tasks[u].revision
        BY <2>1 DEF Row
      <4>2. E.revision = n + 1 /\ E.status = row.status /\ row.revision = n + 1
        BY <2>4, <3>2, <3>3, <4>1 DEF Extends
      <4>3. /\ {e.revision : e \in Trail(u)} = 0..n
            /\ \A a, b \in Trail(u) : a.revision = b.revision => a = b
        BY <2>2, <3>3, <4>1 DEF GapFree
      <4>. HIDE DEF E
      <4>4. \A e \in Trail(u) : e.revision \in 0..n
        BY <4>3
      <4>5. {e.revision : e \in Trail(u) \cup {E}} = 0..(n + 1)
        <5>1. {e.revision : e \in Trail(u) \cup {E}} = 0..n \cup {n + 1}
          BY <4>2, <4>3
        <5>. QED
          BY <5>1
      <4>6. \A a, b \in Trail(u) \cup {E} : a.revision = b.revision => a = b
        BY <4>2, <4>3, <4>4
      <4>7. Trail(u)' = Trail(u) \cup {E}
        BY <3>1 DEF E
      <4>. QED
        BY <3>1, <4>2, <4>5, <4>6, <4>7 DEF GapFree
    <3>4. CASE ~Exists(u)
      <4>1. Trail(u) = {}
        BY <1>3, <3>4 DEF QueueInv, AbsentUntouched, Trail
      <4>2. E.revision = 0 /\ row.revision = 0 /\ E.status = row.status
        BY <2>4, <3>2, <3>4 DEF Extends
      <4>3. Trail(u)' = {E}
        BY <3>1, <4>1
      <4>. HIDE DEF E
      <4>4. {e.revision : e \in {E}} = 0..0
        BY <4>2
      <4>. QED
        BY <3>1, <4>2, <4>3, <4>4 DEF GapFree
    <3>. QED
      BY <3>3, <3>4
  <2>5. ASSUME NEW t \in TaskIds, NEW row, Extends(t, row), t # u
        PROVE  tasks'[u] = tasks[u] /\ Trail(u)' = Trail(u)
    BY <2>1, <2>5 DEF Extends
  <2>. QED
    BY <1>3, <2>3, <2>4, <2>5, LoggedStep
<1>. QED
  BY <1>2, <1>3, QueueInvariant, PTL DEF QueueSpec

-----------------------------------------------------------------------------
(* For the modules that compose the queue with its callers *)

\* A row is claimed by writing it, so a generation never exceeds a revision, and
\* a revision never exceeds its bound.
CountersBounded ==
    \A t \in TaskIds : /\ tasks[t].lease_generation <= tasks[t].revision
                       /\ tasks[t].revision <= MaxRevision

\* The initial rows.
LEMMA CountersBoundedInit == QueueInit => CountersBounded
BY QueueAssumption DEF QueueInit, CountersBounded

\* Every step of the queue keeps the counters bounded.
LEMMA CountersBoundedStep ==
    ASSUME QueueInv, CountersBounded, [QueueNext]_queueVars
    PROVE  CountersBounded'
<1>1. tasks \in [TaskIds -> Row]
  BY DEF QueueInv, QueueTypeOK
<1>2. CASE tasks' = tasks
  BY <1>2 DEF CountersBounded
<1>3. ASSUME NEW t \in TaskIds, NEW row, Extends(t, row) PROVE CountersBounded'
  <2>1. tasks'[t] = row /\ \A u \in TaskIds \ {t} : tasks'[u] = tasks[u]
    BY <1>1, <1>3 DEF Extends
  <2>2. PICK g \in Nat, n \in Nat : g = tasks[t].lease_generation /\ n = tasks[t].revision
    BY <1>1 DEF Row
  <2>3. row \in Row
    <3>1. tasks' \in [TaskIds -> Row]
      BY QueueNextInv DEF QueueInv, QueueTypeOK
    <3>. QED
      BY <2>1, <3>1
  <2>4. PICK h \in Nat, m \in Nat : h = row.lease_generation /\ m = row.revision
    BY <2>3 DEF Row
  <2>5. h <= m /\ m <= MaxRevision
    BY <1>3, <2>2, <2>4, QueueAssumption DEF Extends, CountersBounded
  <2>. QED
    BY <2>1, <2>4, <2>5 DEF CountersBounded
<1>. QED
  BY <1>2, <1>3, LoggedStep

\* Whatever arguments a caller makes up, a fenced save that the database accepts
\* is a step of the queue.
LEMMA AcceptedSaveLeased ==
    ASSUME QueueInv, CountersBounded,
           NEW t \in TaskIds, NEW r, NEW w \in Workers, NEW g, NEW s \in LeasedSaveStatuses,
           NEW p \in Progress, NEW n \in LeaseSeconds, NEW v \in ClockReadings,
           agent_save_leased_checkpoint(t, r, w, g, s, p, n, v)
    PROVE  SaveLeased
<1>1. /\ r = tasks[t].revision /\ g = tasks[t].lease_generation
      /\ tasks[t].lease_owner = w /\ tasks[t].revision < MaxRevision
  BY DEF agent_save_leased_checkpoint, WriteRow
<1>2. tasks[t].revision \in Nat /\ tasks[t].lease_generation \in Nat
  BY DEF QueueInv, QueueTypeOK, Row
<1>3. g >= 1 /\ g <= r
  BY <1>1, <1>2, QueueAssumption DEF QueueInv, LeaseShape, CountersBounded
<1>4. r \in 0..MaxRevision /\ g \in 1..MaxRevision
  BY <1>1, <1>2, <1>3, QueueAssumption
<1>. QED
  BY <1>4 DEF SaveLeased

\* So is a reconciliation,
LEMMA AcceptedReconcile ==
    ASSUME QueueInv, CountersBounded,
           NEW t \in TaskIds, NEW r, NEW g, NEW p \in Progress, NEW v \in ClockReadings,
           agent_reconcile_expired_lease(t, r, g, p, v)
    PROVE  Reconcile
<1>1. /\ r = tasks[t].revision /\ g = tasks[t].lease_generation
      /\ tasks[t].lease_owner # NoWorker /\ tasks[t].revision < MaxRevision
  BY DEF agent_reconcile_expired_lease, WriteRow
<1>2. tasks[t].revision \in Nat /\ tasks[t].lease_generation \in Nat
  BY DEF QueueInv, QueueTypeOK, Row
<1>3. g >= 1 /\ g <= r
  BY <1>1, <1>2 DEF QueueInv, LeaseShape, CountersBounded
<1>4. r \in 0..MaxRevision /\ g \in 1..MaxRevision
  BY <1>1, <1>2, <1>3, QueueAssumption
<1>. QED
  BY <1>4 DEF Reconcile

\* and an unfenced save.
LEMMA AcceptedSave ==
    ASSUME QueueInv, NEW t \in TaskIds, NEW r, NEW s \in Statuses, NEW p \in Progress,
           agent_save_checkpoint(t, r, s, p)
    PROVE  Save
<1>1. r = tasks[t].revision /\ tasks[t].revision < MaxRevision
  BY DEF agent_save_checkpoint, WriteRow
<1>2. tasks[t].revision \in Nat
  BY DEF QueueInv, QueueTypeOK, Row
<1>3. r \in 0..MaxRevision
  BY <1>1, <1>2, QueueAssumption
<1>. QED
  BY <1>3 DEF Save

\* A claim hands out the next generation.
LEMMA AcceptedClaim ==
    ASSUME QueueInv, NEW t \in TaskIds, NEW w \in Workers, NEW n \in LeaseSeconds,
           NEW v \in ClockReadings, agent_claim_task(t, w, n, v)
    PROVE  /\ Claim
           /\ tasks'[t] \in Row
           /\ tasks'[t].lease_generation = tasks[t].lease_generation + 1
           /\ \A u \in TaskIds \ {t} : tasks'[u] = tasks[u]
<1>1. Claim
  BY DEF Claim, agent_claim_next_task
<1>2. PICK row : row = ClaimedBy(tasks[t], w, v + n)
  OBVIOUS
<1>3. tasks' = [tasks EXCEPT ![t] = row]
  BY <1>2 DEF agent_claim_task, ClaimedRow, WriteRow, ClaimedBy
<1>4. tasks \in [TaskIds -> Row] /\ v + n \in Nat
  BY QueueAssumption DEF ClockReadings, QueueInv, QueueTypeOK
<1>5. row \in Row /\ row.lease_generation = tasks[t].lease_generation + 1
  BY <1>2, <1>4, ClaimRow
<1>. QED
  BY <1>1, <1>3, <1>4, <1>5

\* Nothing is taken back: no entry of the ledger, no generation and no revision;
\* a row that keeps its revision is the same, and a lease begins with a claim.
LEMMA QueueGrows ==
    ASSUME QueueInv, [QueueNext]_queueVars
    PROVE  /\ events \subseteq events' /\ LeaseLog \subseteq LeaseLog' /\ now <= now'
           /\ \A t \in TaskIds :
                 /\ tasks[t].lease_generation <= tasks'[t].lease_generation
                 /\ Exists(t) =>
                       /\ Exists(t)' /\ tasks[t].revision <= tasks'[t].revision
                       /\ tasks'[t].revision = tasks[t].revision => tasks'[t] = tasks[t]
                 /\ /\ tasks'[t].lease_owner # NoWorker
                    /\ tasks'[t].lease_generation = tasks[t].lease_generation
                    => tasks[t].lease_owner # NoWorker
<1>1. events \subseteq events' /\ now <= now'
  <2>0. now \in Nat
    BY DEF QueueInv, QueueTypeOK
  <2>1. ASSUME NEW t, NEW row, NEW extra, WriteRow(t, row, extra)
        PROVE  events \subseteq events' /\ now <= now'
    BY <2>0, <2>1 DEF WriteRow
  <2>2. CASE Create \/ AppendActivity \/ Tick \/ UNCHANGED queueVars
    BY <2>0, <2>2 DEF Create, agent_create_checkpoint, AppendActivity, agent_append_event, Tick,
       queueVars
  <2>3. CASE Save
    BY <2>1, <2>3 DEF Save, agent_save_checkpoint
  <2>4. CASE Claim
    BY <2>1, <2>4 DEF Claim, agent_claim_next_task, agent_claim_task
  <2>5. CASE SaveLeased
    BY <2>1, <2>5 DEF SaveLeased, agent_save_leased_checkpoint
  <2>6. CASE Reconcile
    BY <2>1, <2>6 DEF Reconcile, agent_reconcile_expired_lease
  <2>. QED
    BY <2>2, <2>3, <2>4, <2>5, <2>6 DEF QueueNext
<1>2. LeaseLog \subseteq LeaseLog'
  BY <1>1 DEF LeaseLog
<1>3. tasks \in [TaskIds -> Row] /\ tasks' \in [TaskIds -> Row]
  BY QueueNextInv DEF QueueInv, QueueTypeOK
<1>. SUFFICES ASSUME NEW t \in TaskIds
              PROVE  /\ tasks[t].lease_generation <= tasks'[t].lease_generation
                     /\ Exists(t) =>
                           /\ Exists(t)' /\ tasks[t].revision <= tasks'[t].revision
                           /\ tasks'[t].revision = tasks[t].revision => tasks'[t] = tasks[t]
                     /\ /\ tasks'[t].lease_owner # NoWorker
                        /\ tasks'[t].lease_generation = tasks[t].lease_generation
                        => tasks[t].lease_owner # NoWorker
  BY <1>1, <1>2
<1>4. PICK g \in Nat, h \in Nat, m \in Nat, n \in Nat :
        /\ g = tasks[t].lease_generation /\ h = tasks'[t].lease_generation
        /\ m = tasks[t].revision /\ n = tasks'[t].revision
  BY <1>3 DEF Row
<1>5. CASE tasks'[t] = tasks[t]
  BY <1>4, <1>5 DEF Exists
<1>6. CASE \E row : Extends(t, row)
  <2>1. PICK row : Extends(t, row)
    BY <1>6
  <2>2. tasks'[t] = row /\ row.status # Absent
    BY <1>3, <2>1 DEF Extends
  <2>3. CASE Exists(t)
    BY <1>4, <2>1, <2>2, <2>3 DEF Extends, Exists
  <2>4. CASE ~Exists(t)
    <3>1. g = 0 /\ row.lease_owner = NoWorker
      BY <1>4, <2>1, <2>4 DEF Extends, QueueInv, AbsentUntouched, GenerationCountsAttempts
    <3>. QED
      BY <1>4, <2>2, <2>4, <3>1
  <2>. QED
    BY <2>3, <2>4
<1>7. ASSUME NEW u \in TaskIds, NEW row, Extends(u, row), u # t PROVE tasks'[t] = tasks[t]
  BY <1>3, <1>7 DEF Extends
<1>. QED
  BY <1>5, <1>6, <1>7, LoggedStep
=============================================================================
