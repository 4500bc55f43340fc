--------------------------- MODULE HostedRunProofs ---------------------------
(***************************************************************************)
(* Hosted execution for any number of runs, tasks, workers and revisions,  *)
(* any lease length, and calls that arrive late or never.  Every step is a *)
(* step of the queue, so QueueInv carries over; HostedInv adds what ties   *)
(* a run, a call without a caller, a provider read, an inspection and the  *)
(* evidence to the row and the generation they are about.                  *)
(***************************************************************************)
EXTENDS HostedRun, AgentQueueProofs, TLAPS

RunState == [pc : {"idle", "claimed", "running", "ended"}, at : 0..17,
             task : TaskIds \cup {NoTask}, row : Row, verified : BOOLEAN]
EvidenceRecord == [task : TaskIds, event_type : EvidenceTypes, verified : BOOLEAN,
                   generation : Nat, revision : Nat]
ClaimCalls == [op : {"claim"}, worker : Workers, tasks : SUBSET TaskIds]
SaveCalls == [op : {"save"}, worker : Workers, task : TaskIds, revision : Nat, generation : Nat,
              status : LeasedSaveStatuses, state : Progress]
AppendCalls == [op : {"append"}, event : EvidenceRecord]
InspectionPcs == {"idle", "row1", "row2", "first", "alarm", "changed", "reconcile", "report"}

\* The types of runs, calls and inspection, and of the evidence in the ledger.
HostedTypeOK ==
    /\ run \in [Runs -> RunState]
    /\ pending \subseteq ClaimCalls \cup SaveCalls \cup AppendCalls
    /\ insp \in [pc : InspectionPcs, task : TaskIds \cup {NoTask}, row : Row,
                 first : {insp.first}]
    /\ \A e \in events : e.event_type \in EvidenceTypes => e \in EvidenceRecord

Active(r) == run[r].pc \in {"claimed", "running"}

\* A lease is known by its task and generation.
Token(r) == <<run[r].task, run[r].row.lease_generation>>
CallToken(c) == IF c.op = "append" THEN <<c.event.task, c.event.generation>>
                                   ELSE <<c.task, c.generation>>

\* A row read earlier: not ahead of the table, and the same where the revision is.
Snap(t, row) ==
    /\ t \in TaskIds /\ row.status # Absent /\ Exists(t)
    /\ row.lease_generation <= tasks[t].lease_generation
    /\ row.revision <= tasks[t].revision
    /\ row.revision = tasks[t].revision => row = tasks[t]

\* A run holds the row its last call returned; while that lease has not run out
\* nobody else has written it, and the ledger knows the lease as this worker's.
Holds(r) ==
    /\ Snap(run[r].task, run[r].row)
    /\ run[r].row.status = "running" /\ run[r].row.lease_owner = WorkerId[r]
    /\ run[r].row.lease_generation >= 1 /\ run[r].row.revision >= 1
    /\ run[r].row.lease_expires_at > now => run[r].row = tasks[run[r].task]
    /\ \E l \in LeaseLog : /\ l.task = run[r].task /\ l.worker = WorkerId[r]
                           /\ l.generation = run[r].row.lease_generation

\* A run that was accepted executes the first attempt of its own task, and has
\* recorded it before the third call of the script and not before the second.
OnScript(r) ==
    /\ run[r].task = Expected[r]
    /\ run[r].row.lease_generation = 1
    /\ run[r].at >= 1
    /\ run[r].at <= 2 => ProgressRank(run[r].row.state) = 0
    /\ run[r].at >= 3 => ProgressRank(run[r].row.state) >= 1

RunsInv ==
    \A r \in Runs :
        /\ Active(r) => Holds(r)
        /\ run[r].pc = "claimed" =>
              run[r].row.lease_generation = run[r].row.attempt_count
        /\ run[r].pc = "running" => OnScript(r)

\* No two runs, and no run and no late call, act under the same lease.
TokensInv ==
    /\ \A r, q \in Runs : Active(r) /\ Active(q) /\ Token(r) = Token(q) => r = q
    /\ \A r \in Runs, c \in pending : Active(r) /\ c.op # "claim" => CallToken(c) # Token(r)
    /\ \A c, d \in pending :
          c.op # "claim" /\ d.op # "claim" /\ CallToken(c) = CallToken(d) => c = d

\* What a late call may still do.
PendingInv ==
    \A c \in pending :
        /\ c.op = "save" =>
              /\ Exists(c.task)
              /\ c.generation \in 1..tasks[c.task].lease_generation
              /\ c.revision <= tasks[c.task].revision
              /\ c.revision = tasks[c.task].revision =>
                    ProgressRank(c.state) >= ProgressRank(tasks[c.task].state)
              /\ c.status # "blocked" => \E r \in Runs : c.task = Expected[r]
        /\ c.op = "append" =>
              /\ Exists(c.event.task)
              /\ c.event.generation \in 1..tasks[c.event.task].lease_generation
              /\ c.event.revision \in 1..tasks[c.event.task].revision

\* An inspection under way holds a row it has read.
InspectionInv == insp.pc # "idle" => Snap(insp.task, insp.row)

\* A provider read was made under a live lease of the first generation, after
\* the attempt was recorded.
ReadsInv ==
    \A a \in reads :
        /\ a.task \in TaskIds /\ a.generation = 1 /\ a.live
        /\ 1 <= tasks[a.task].lease_generation
        /\ \E r \in Runs : a.task = Expected[r]
        /\ \E l \in LeaseLog : l.task = a.task /\ l.generation = 1 /\ l.worker = a.worker
        /\ tasks[a.task].lease_owner # NoWorker /\ tasks[a.task].lease_generation = 1 =>
              ProgressRank(tasks[a.task].state) >= 1

\* The lease entries of a task that is nobody's own.
ForeignInv ==
    \A e \in LeaseLog :
        (\A r \in Runs : e.task # Expected[r]) =>
            \/ e.event_type = "lease_claimed"
            \/ e.event_type # "lease_checkpoint_saved" /\ e.status = "blocked"

Observed(t, g) ==
    {e \in events : e.event_type = "github_observation" /\ e.task = t /\ e.generation = g}
Verified(t, g) ==
    {e \in events : e.event_type = "github_verification" /\ e.task = t /\ e.generation = g}

\* An observation, a later verification with this verdict, both before revision
\* n, and no verification with another verdict.
Backed(t, g, n, verdict) ==
    /\ \E o \in Observed(t, g), v \in Verified(t, g) :
          /\ o.revision < v.revision /\ v.revision <= n
          /\ v.verified = verdict
    /\ \A v \in Verified(t, g) : v.verified = verdict

\* What a run has put into the ledger by the time it is at each call.
RunEvidence(r) ==
    LET t == run[r].task  g == run[r].row.lease_generation  n == run[r].row.revision
    IN  /\ run[r].pc = "claimed" \/ run[r].at <= 14 => Verified(t, g) = {}
        /\ run[r].pc = "running" /\ run[r].at >= 8 => \E o \in Observed(t, g) : o.revision <= n
        /\ run[r].pc = "running" /\ run[r].at >= 9 => \E o \in Observed(t, g) : o.revision < n
        /\ run[r].pc = "running" /\ run[r].at >= 15 => Backed(t, g, n, run[r].verified)
        /\ run[r].pc = "running" /\ run[r].at = 17 => run[r].verified = TRUE

EvidenceInv ==
    /\ \A e \in events : e.event_type \in EvidenceTypes => ~Ahead(tasks[e.task], e)
    /\ \A r \in Runs : Active(r) => RunEvidence(r)
    /\ \A c \in pending : c.op = "save" /\ c.status = "completed" =>
          Backed(c.task, c.generation, c.revision, TRUE)

\* A lease that was released is nobody's any more, and its completion is backed.
ReleasedInv ==
    \A e \in LeaseLog : e.event_type = "lease_released" =>
        /\ \A r \in Runs : Active(r) => Token(r) # <<e.task, e.generation>>
        /\ \A c \in pending : c.op = "append" => CallToken(c) # <<e.task, e.generation>>
        /\ e.status = "completed" => Backed(e.task, e.generation, e.revision - 1, TRUE)

\* The inductive invariant.
HostedInv ==
    /\ QueueInv /\ CountersBounded
    /\ HostedTypeOK
    /\ RunsInv
    /\ TokensInv
    /\ PendingInv
    /\ InspectionInv
    /\ ReadsInv
    /\ ForeignInv
    /\ EvidenceInv
    /\ ReleasedInv

-----------------------------------------------------------------------------
(* What a step of the queue leaves true of those who take no part in it *)

\* The calls of the script, by their place in it.
LEMMA ScriptSteps ==
    ASSUME NEW i \in 1..17
    PROVE  /\ Script[i] = "start" <=> i = 1
           /\ Script[i] = "attempt" <=> i = 2
           /\ Script[i] = "fence" <=> i \in {3, 5, 6, 8, 10, 12, 13, 15}
           /\ Script[i] = "get_main" <=> i = 4
           /\ Script[i] = "observe" <=> i = 7
           /\ Script[i] = "save" <=> i = 9
           /\ Script[i] = "get_ci" <=> i = 11
           /\ Script[i] = "verify" <=> i = 14
           /\ Script[i] = "step_completed" <=> i = 16
           /\ Script[i] = "completed" <=> i = 17
<1>1. /\ Script[1] = "start" /\ Script[2] = "attempt" /\ Script[3] = "fence"
      /\ Script[4] = "get_main" /\ Script[5] = "fence" /\ Script[6] = "fence"
      /\ Script[7] = "observe" /\ Script[8] = "fence" /\ Script[9] = "save"
      /\ Script[10] = "fence" /\ Script[11] = "get_ci" /\ Script[12] = "fence"
      /\ Script[13] = "fence" /\ Script[14] = "verify" /\ Script[15] = "fence"
      /\ Script[16] = "step_completed" /\ Script[17] = "completed"
  BY DEF Script
<1>2. \/ i = 1 \/ i = 2 \/ i = 3 \/ i = 4 \/ i = 5 \/ i = 6 \/ i = 7 \/ i = 8 \/ i = 9
      \/ i = 10 \/ i = 11 \/ i = 12 \/ i = 13 \/ i = 14 \/ i = 15 \/ i = 16 \/ i = 17
  OBVIOUS
<1>. QED
  BY <1>1, <1>2

\* The rank of a document is a number.
LEMMA RankTyped == ASSUME NEW p PROVE ProgressRank(p) \in 0..2
BY DEF ProgressRank

\* The tables before and after a step are typed.
LEMMA TablesTyped ==
    ASSUME HostedInv, [QueueNext]_queueVars
    PROVE  /\ tasks \in [TaskIds -> Row] /\ tasks' \in [TaskIds -> Row]
           /\ now \in Nat /\ now' \in Nat
           /\ QueueInv /\ CountersBounded /\ QueueInv' /\ CountersBounded'
<1>1. QueueInv /\ CountersBounded /\ QueueInv' /\ CountersBounded'
  BY QueueNextInv, CountersBoundedStep DEF HostedInv
<1>. QED
  BY <1>1 DEF QueueInv, QueueTypeOK

\* A row read earlier stays one.
LEMMA SnapKeeps ==
    ASSUME HostedInv, [QueueNext]_queueVars, NEW t, NEW row \in Row, Snap(t, row)
    PROVE  Snap(t, row)'
<1>1. /\ t \in TaskIds /\ row.status # Absent /\ Exists(t)
      /\ row.lease_generation <= tasks[t].lease_generation
      /\ row.revision <= tasks[t].revision
      /\ row.revision = tasks[t].revision => row = tasks[t]
  BY DEF Snap
<1>2. /\ Exists(t)' /\ tasks[t].lease_generation <= tasks'[t].lease_generation
      /\ tasks[t].revision <= tasks'[t].revision
      /\ tasks'[t].revision = tasks[t].revision => tasks'[t] = tasks[t]
  BY <1>1, QueueGrows DEF HostedInv
<1>3. PICK a \in Nat, b \in Nat, c \in Nat, d \in Nat, i \in Nat, j \in Nat :
        /\ a = row.revision /\ b = tasks[t].revision /\ c = tasks'[t].revision
        /\ d = row.lease_generation /\ i = tasks[t].lease_generation
        /\ j = tasks'[t].lease_generation
  BY <1>1, TablesTyped DEF Row
<1>4. row.revision = tasks'[t].revision => row = tasks'[t]
  BY <1>1, <1>2, <1>3
<1>. QED
  BY <1>1, <1>2, <1>3, <1>4 DEF Snap

\* A run goes on holding its row unless somebody saves under its lease.
LEMMA HoldsKeeps ==
    ASSUME HostedInv, [QueueNext]_queueVars, NEW q \in Runs, Active(q),
           run'[q].task = run[q].task, run'[q].row = run[q].row,
           \A e \in events' \ events :
               e.event_type \in {"lease_checkpoint_saved", "lease_released"} =>
                   <<e.task, e.generation>> # Token(q)
    PROVE  Holds(q)'
<1>1. PICK t \in TaskIds \cup {NoTask}, row \in Row : t = run[q].task /\ row = run[q].row
  BY DEF HostedInv, HostedTypeOK, RunState
<1>2. /\ Snap(t, row) /\ row.status = "running" /\ row.lease_owner = WorkerId[q]
      /\ row.lease_generation >= 1 /\ row.revision >= 1
      /\ row.lease_expires_at > now => row = tasks[t]
  BY <1>1 DEF HostedInv, RunsInv, Holds
<1>3. PICK l \in LeaseLog : /\ l.task = t /\ l.worker = WorkerId[q]
                            /\ l.generation = row.lease_generation
  BY <1>1 DEF HostedInv, RunsInv, Holds
<1>4. Snap(t, row)' /\ l \in LeaseLog'
  BY <1>2, SnapKeeps, QueueGrows DEF HostedInv
<1>5. row.lease_expires_at > now' => row = tasks'[t]
  <2>. SUFFICES ASSUME row.lease_expires_at > now' PROVE tasks'[t] = tasks[t] /\ row = tasks[t]
    OBVIOUS
  <2>1. now <= now' /\ now \in Nat /\ now' \in Nat /\ row.lease_expires_at \in Nat
    BY TablesTyped, QueueGrows DEF Row
  <2>2. row.lease_expires_at > now /\ row = tasks[t] /\ t \in TaskIds
    BY <1>2, <2>1 DEF Snap
  <2>3. LeaseLive(t)
    BY <1>2, <2>2, RunAssumption, QueueAssumption DEF LeaseLive
  <2>4. ASSUME tasks'[t] # tasks[t] PROVE FALSE
    <3>1. PICK e \in events' \ events :
            /\ e.task = t /\ e.event_type \in {"lease_checkpoint_saved", "lease_released"}
            /\ e.generation = tasks[t].lease_generation
      BY <2>2, <2>3, <2>4, TablesTyped, OnlyHolderWrites DEF HolderStep
    <3>. QED
      BY <1>1, <2>2, <3>1 DEF Token
  <2>. QED
    BY <2>2, <2>4
<1>. QED
  BY <1>1, <1>2, <1>3, <1>4, <1>5 DEF Holds

\* Late calls stay as late as they were.
LEMMA PendingKeeps ==
    ASSUME HostedInv, [QueueNext]_queueVars, pending' \subseteq pending
    PROVE  PendingInv'
<1>1. ASSUME NEW c \in pending, c.op = "save"
      PROVE  /\ Exists(c.task)'
             /\ c.generation \in 1..tasks'[c.task].lease_generation
             /\ c.revision <= tasks'[c.task].revision
             /\ c.revision = tasks'[c.task].revision =>
                   ProgressRank(c.state) >= ProgressRank(tasks'[c.task].state)
             /\ c.status # "blocked" => \E r \in Runs : c.task = Expected[r]
  <2>1. c \in SaveCalls
    BY <1>1 DEF HostedInv, HostedTypeOK, ClaimCalls, AppendCalls
  <2>2. PICK t \in TaskIds, n \in Nat, g \in Nat :
          t = c.task /\ n = c.revision /\ g = c.generation
    BY <2>1 DEF SaveCalls
  <2>3. /\ Exists(t) /\ g \in 1..tasks[t].lease_generation /\ n <= tasks[t].revision
        /\ n = tasks[t].revision => ProgressRank(c.state) >= ProgressRank(tasks[t].state)
        /\ c.status # "blocked" => \E r \in Runs : t = Expected[r]
    BY <1>1, <2>2 DEF HostedInv, PendingInv
  <2>4. /\ Exists(t)' /\ tasks[t].lease_generation <= tasks'[t].lease_generation
        /\ tasks[t].revision <= tasks'[t].revision
        /\ tasks'[t].revision = tasks[t].revision => tasks'[t] = tasks[t]
    BY <2>3, QueueGrows DEF HostedInv
  <2>5. PICK i \in Nat, j \in Nat, k \in Nat, m \in Nat :
          /\ i = tasks[t].lease_generation /\ j = tasks'[t].lease_generation
          /\ k = tasks[t].revision /\ m = tasks'[t].revision
    BY TablesTyped DEF Row
  <2>6. n = m => n = k
    BY <2>3, <2>4, <2>5
  <2>. QED
    BY <2>2, <2>3, <2>4, <2>5, <2>6
<1>2. ASSUME NEW c \in pending, c.op = "append"
      PROVE  /\ Exists(c.event.task)'
             /\ c.event.generation \in 1..tasks'[c.event.task].lease_generation
             /\ c.event.revision \in 1..tasks'[c.event.task].revision
  <2>1. c \in AppendCalls
    BY <1>2 DEF HostedInv, HostedTypeOK, ClaimCalls, SaveCalls
  <2>2. PICK t \in TaskIds, n \in Nat, g \in Nat :
          t = c.event.task /\ n = c.event.revision /\ g = c.event.generation
    BY <2>1 DEF AppendCalls, EvidenceRecord
  <2>3. /\ Exists(t) /\ g \in 1..tasks[t].lease_generation /\ n \in 1..tasks[t].revision
    BY <1>2, <2>2 DEF HostedInv, PendingInv
  <2>4. /\ Exists(t)' /\ tasks[t].lease_generation <= tasks'[t].lease_generation
        /\ tasks[t].revision <= tasks'[t].revision
    BY <2>3, QueueGrows DEF HostedInv
  <2>5. PICK i \in Nat, j \in Nat, k \in Nat, m \in Nat :
          /\ i = tasks[t].lease_generation /\ j = tasks'[t].lease_generation
          /\ k = tasks[t].revision /\ m = tasks'[t].revision
    BY TablesTyped DEF Row
  <2>. QED
    BY <2>2, <2>3, <2>4, <2>5
<1>. QED
  BY <1>1, <1>2 DEF PendingInv

\* So does the inspection.
LEMMA InspectionKeeps ==
    ASSUME HostedInv, [QueueNext]_queueVars, insp' = insp
    PROVE  InspectionInv'
<1>1. PICK t \in TaskIds \cup {NoTask}, row \in Row : t = insp.task /\ row = insp.row
  BY DEF HostedInv, HostedTypeOK
<1>2. insp.pc # "idle" => Snap(t, row)'
  BY <1>1, SnapKeeps DEF HostedInv, InspectionInv
<1>. QED
  BY <1>1, <1>2 DEF InspectionInv

\* What was true of the reads stays true, as progress under a lease is not undone.
LEMMA ReadsKeep ==
    ASSUME HostedInv, [QueueNext]_queueVars, ForwardStep, reads' = reads
    PROVE  ReadsInv'
<1>. SUFFICES ASSUME NEW a \in reads
              PROVE  /\ a.task \in TaskIds /\ a.generation = 1 /\ a.live
                     /\ 1 <= tasks'[a.task].lease_generation
                     /\ \E r \in Runs : a.task = Expected[r]
                     /\ \E l \in LeaseLog' : /\ l.task = a.task /\ l.generation = 1
                                             /\ l.worker = a.worker
                     /\ /\ tasks'[a.task].lease_owner # NoWorker
                        /\ tasks'[a.task].lease_generation = 1
                        => ProgressRank(tasks'[a.task].state) >= 1
  BY DEF ReadsInv
<1>1. PICK t \in TaskIds : t = a.task
  BY DEF HostedInv, ReadsInv
<1>2. /\ a.generation = 1 /\ a.live /\ 1 <= tasks[t].lease_generation
      /\ \E r \in Runs : t = Expected[r]
      /\ \E l \in LeaseLog : l.task = t /\ l.generation = 1 /\ l.worker = a.worker
      /\ tasks[t].lease_owner # NoWorker /\ tasks[t].lease_generation = 1 =>
            ProgressRank(tasks[t].state) >= 1
  BY <1>1 DEF HostedInv, ReadsInv
<1>3. /\ LeaseLog \subseteq LeaseLog'
      /\ tasks[t].lease_generation <= tasks'[t].lease_generation
      /\ /\ tasks'[t].lease_owner # NoWorker
         /\ tasks'[t].lease_generation = tasks[t].lease_generation
         => tasks[t].lease_owner # NoWorker
  BY QueueGrows DEF HostedInv
<1>4. PICK i \in Nat, j \in Nat :
        i = tasks[t].lease_generation /\ j = tasks'[t].lease_generation
  BY TablesTyped DEF Row
<1>5. ASSUME tasks'[t].lease_owner # NoWorker, tasks'[t].lease_generation = 1
      PROVE  ProgressRank(tasks'[t].state) >= 1
  <2>1. tasks[t].lease_generation = 1 /\ tasks[t].lease_owner # NoWorker
    BY <1>2, <1>3, <1>4, <1>5
  <2>2. PICK x \in 0..2, y \in 0..2 :
          x = ProgressRank(tasks[t].state) /\ y = ProgressRank(tasks'[t].state)
    BY RankTyped
  <2>3. x >= 1 /\ y >= x
    BY <1>2, <2>1, <2>2 DEF ForwardStep
  <2>. QED
    BY <2>2, <2>3
<1>. QED
  BY <1>1, <1>2, <1>3, <1>4, <1>5

\* A step that appends no evidence leaves all that is said about it.
LEMMA EvidenceSame ==
    ASSUME events \subseteq events',
           \A e \in events' \ events : e.event_type \notin EvidenceTypes
    PROVE  /\ \A t, g : Observed(t, g)' = Observed(t, g) /\ Verified(t, g)' = Verified(t, g)
           /\ \A t, g, n, b : Backed(t, g, n, b)' <=> Backed(t, g, n, b)
<1>1. \A t, g : Observed(t, g)' = Observed(t, g) /\ Verified(t, g)' = Verified(t, g)
  BY DEF Observed, Verified, EvidenceTypes
<1>. QED
  BY <1>1 DEF Backed

\* Evidence that was behind its row stays behind it.
LEMMA EvidenceBehind ==
    ASSUME HostedInv, [QueueNext]_queueVars, NEW e \in events, e.event_type \in EvidenceTypes
    PROVE  e \in EvidenceRecord /\ ~Ahead(tasks'[e.task], e)
<1>1. e \in EvidenceRecord /\ ~Ahead(tasks[e.task], e)
  BY DEF HostedInv, HostedTypeOK, EvidenceInv
<1>2. PICK t \in TaskIds, g \in Nat, n \in Nat :
        t = e.task /\ g = e.generation /\ n = e.revision
  BY <1>1 DEF EvidenceRecord
<1>3. PICK i \in Nat, j \in Nat, k \in Nat, m \in Nat :
        /\ i = tasks[t].lease_generation /\ j = tasks'[t].lease_generation
        /\ k = tasks[t].revision /\ m = tasks'[t].revision
  BY TablesTyped DEF Row
<1>4. g <= i /\ n <= k
  BY <1>1, <1>2, <1>3 DEF Ahead
<1>5. i <= j /\ k <= m
  <2>1. Exists(t)
    BY <1>2 DEF HostedInv, QueueInv, AbsentUntouched
  <2>. QED
    BY <1>3, <2>1, QueueGrows DEF HostedInv
<1>. QED
  BY <1>1, <1>2, <1>3, <1>4, <1>5 DEF Ahead

\* A step of the queue that no run takes, and that saves under no lease.
LEMMA OutsideStep ==
    ASSUME HostedInv, [QueueNext]_queueVars, ForwardStep,
           \A e \in events' \ events :
               \/ e.event_type = "checkpoint_saved" \/ e.event_type = "lease_claimed"
               \/ e.event_type = "lease_expiry_reconciled" /\ e.status = "blocked",
           run' = run, pending' \subseteq pending, reads' = reads,
           insp' \in [pc : InspectionPcs, task : TaskIds \cup {NoTask}, row : Row,
                      first : {insp'.first}],
           InspectionInv'
    PROVE  HostedInv'
<1>1. QueueInv' /\ CountersBounded' /\ events \subseteq events' /\ LeaseLog \subseteq LeaseLog'
  BY TablesTyped, QueueGrows
<1>2. /\ \A e \in events' \ events : e.event_type \notin EvidenceTypes
      /\ \A e \in events' \ events :
            e.event_type \notin {"lease_checkpoint_saved", "lease_released"}
  BY DEF EvidenceTypes
<1>3. HostedTypeOK'
  BY <1>2, EvidenceBehind DEF HostedInv, HostedTypeOK
<1>4. RunsInv'
  <2>1. \A q \in Runs : Active(q) => Holds(q)'
    BY <1>2, HoldsKeeps
  <2>2. \A q \in Runs : (Active(q)' <=> Active(q)) /\ (OnScript(q)' <=> OnScript(q))
    BY DEF Active, OnScript
  <2>. QED
    BY <2>1, <2>2 DEF HostedInv, RunsInv
<1>5. \A q \in Runs : Active(q)' = Active(q) /\ Token(q)' = Token(q)
  BY DEF Active, Token
<1>6. TokensInv'
  BY <1>5 DEF HostedInv, TokensInv
<1>7. PendingInv' /\ ReadsInv'
  BY PendingKeeps, ReadsKeep
<1>8. ForeignInv'
  BY DEF HostedInv, ForeignInv, LeaseLog, LeaseEvents
<1>9. EvidenceInv'
  <2>1. \A e \in events' : e.event_type \in EvidenceTypes => ~Ahead(tasks'[e.task], e)
    BY <1>2, EvidenceBehind
  <2>2. \A q \in Runs : RunEvidence(q)' <=> RunEvidence(q)
    BY <1>1, <1>2, EvidenceSame DEF RunEvidence
  <2>3. \A c \in pending : Backed(c.task, c.generation, c.revision, TRUE)' <=>
                           Backed(c.task, c.generation, c.revision, TRUE)
    BY <1>1, <1>2, EvidenceSame
  <2>. QED
    BY <1>5, <2>1, <2>2, <2>3 DEF HostedInv, EvidenceInv
<1>10. ReleasedInv'
  <2>1. \A e \in LeaseLog' : e.event_type = "lease_released" => e \in LeaseLog
    BY <1>2 DEF LeaseLog
  <2>2. \A e \in LeaseLog : Backed(e.task, e.generation, e.revision - 1, TRUE)' <=>
                            Backed(e.task, e.generation, e.revision - 1, TRUE)
    BY <1>1, <1>2, EvidenceSame
  <2>. QED
    BY <1>5, <2>1, <2>2 DEF HostedInv, ReleasedInv
<1>. QED
  BY <1>1, <1>3, <1>4, <1>6, <1>7, <1>8, <1>9, <1>10 DEF HostedInv

-----------------------------------------------------------------------------
(* Fenced saves *)

\* What a fenced save that was accepted has found and done.
SaveDone(t, n, w, g, s, p) ==
    /\ SaveLeased
    /\ tasks[t].revision = n /\ tasks[t].lease_generation = g
    /\ n \in Nat /\ g \in Nat /\ tasks[t].lease_owner = w
    /\ tasks'[t] \in Row /\ tasks'[t].status = s /\ tasks'[t].state = p
    /\ tasks'[t].revision = n + 1 /\ tasks'[t].lease_generation = g
    /\ s = "running" => tasks'[t].lease_owner = w
    /\ \A u \in TaskIds \ {t} : tasks'[u] = tasks[u]
    /\ \E new \in events' :
          /\ new.event_type = IF s = "running" THEN "lease_checkpoint_saved"
                                               ELSE "lease_released"
          /\ new.task = t /\ new.worker = w /\ new.generation = g
          /\ new.revision = n + 1 /\ new.status = s
          /\ \A e \in events' \ events : e.event_type = "checkpoint_saved" \/ e = new

\* An accepted save is one of the queue's, with that effect.
LEMMA SaveEffect ==
    ASSUME HostedInv, NEW t \in TaskIds, NEW n, NEW w \in Workers, NEW g,
           NEW s \in LeasedSaveStatuses, NEW p \in Progress, NEW v \in ClockReadings,
           agent_save_leased_checkpoint(t, n, w, g, s, p, LeaseLength, v)
    PROVE  SaveDone(t, n, w, g, s, p)
<1>1. SaveLeased
  BY RunAssumption, AcceptedSaveLeased DEF HostedInv
<1>2. /\ tasks[t].revision = n /\ tasks[t].lease_generation = g /\ tasks[t].lease_owner = w
  BY DEF agent_save_leased_checkpoint
<1>3. PICK old \in Row : old = tasks[t] /\ old.revision \in Nat /\ old.lease_generation \in Nat
  BY DEF HostedInv, QueueInv, QueueTypeOK, Row
<1>4. PICK type : type = IF s = "running" THEN "lease_checkpoint_saved" ELSE "lease_released"
  OBVIOUS
<1>5. PICK row : row = LeasedSaveRow(t, s, p, LeaseLength, v)
  OBVIOUS
<1>6. WriteRow(t, row, {LeaseEvent(t, type, w, g, row)})
  BY <1>4, <1>5 DEF agent_save_leased_checkpoint
<1>7. /\ row.status = s /\ row.state = p /\ row.revision = n + 1
      /\ row.lease_generation = g /\ (s = "running" => row.lease_owner = w)
  BY <1>2, <1>3, <1>5 DEF LeasedSaveRow, Row
<1>8. tasks' \in [TaskIds -> Row] /\ tasks \in [TaskIds -> Row]
  BY <1>1, TablesTyped DEF QueueNext
<1>9. tasks'[t] = row /\ \A u \in TaskIds \ {t} : tasks'[u] = tasks[u]
  BY <1>6, <1>8 DEF WriteRow
<1>10. PICK new : new = LeaseEvent(t, type, w, g, row)
  OBVIOUS
<1>11. /\ new.event_type = type /\ new.task = t /\ new.worker = w /\ new.generation = g
       /\ new.revision = n + 1 /\ new.status = s
  BY <1>7, <1>10 DEF LeaseEvent
<1>12. new \in events' /\ \A e \in events' \ events : e.event_type = "checkpoint_saved" \/ e = new
  BY <1>6, <1>10 DEF WriteRow, CheckpointEvent
<1>. QED
  BY <1>1, <1>2, <1>3, <1>4, <1>7, <1>8, <1>9, <1>11, <1>12 DEF SaveDone

\* Evidence for a completion is evidence for a later one.
LEMMA BackedLater ==
    ASSUME HostedTypeOK, NEW t, NEW g, NEW b, NEW n \in Nat, NEW m \in Nat, n <= m,
           Backed(t, g, n, b)
    PROVE  Backed(t, g, m, b)
<1>1. PICK o \in Observed(t, g), v \in Verified(t, g) :
        o.revision < v.revision /\ v.revision <= n /\ v.verified = b
  BY DEF Backed
<1>2. v.revision \in Nat
  BY DEF HostedTypeOK, Verified, EvidenceTypes, EvidenceRecord
<1>3. v.revision <= m
  BY <1>1, <1>2
<1>. QED
  BY <1>1, <1>3 DEF Backed

\* The run's call was a save that keeps the lease: it takes the row it wrote and
\* goes on to the next call.
Continues(q, t) ==
    /\ run[q].pc = "running" /\ run'[q].pc = "running"
    /\ run[q].at \notin {4, 7, 11, 14} /\ run'[q].at = run[q].at + 1
    /\ run[q].at = 16 => run[q].verified
    /\ run[q].at = 1 => ProgressRank(tasks'[t].state) = 0
    /\ run[q].at >= 2 => ProgressRank(tasks'[t].state) >= 1
    /\ run'[q].task = run[q].task /\ run'[q].row = tasks'[t]
    /\ run'[q].verified = run[q].verified

\* Nobody but the run that saves acts under the lease it saves under.
SavedAlone(t, g, w, s) ==
    /\ \A c \in pending' : c.op # "claim" => CallToken(c) # <<t, g>>
    /\ \A q \in Runs : Active(q)' =>
          /\ Active(q)
          /\ \/ run'[q] = run[q] /\ Token(q) # <<t, g>>
             \/ s = "running" /\ Token(q) = <<t, g>> /\ WorkerId[q] = w /\ Continues(q, t)

\* A save, by whoever holds the lease: the run that goes on or ends with it, or
\* nobody any more.
LEMMA SaveInv ==
    ASSUME HostedInv, NEW t \in TaskIds, NEW n, NEW w \in Workers, NEW g,
           NEW s \in LeasedSaveStatuses, NEW p \in Progress, NEW v \in ClockReadings,
           agent_save_leased_checkpoint(t, n, w, g, s, p, LeaseLength, v),
           ProgressRank(p) >= ProgressRank(tasks[t].state),
           s # "blocked" => \E r \in Runs : t = Expected[r],
           s = "completed" => Backed(t, g, n, TRUE),
           run' \in [Runs -> RunState], pending' \subseteq pending, reads' = reads, insp' = insp,
           SavedAlone(t, g, w, s)
    PROVE  HostedInv' /\ ForwardStep /\ SaveLeased
<1>0. SaveDone(t, n, w, g, s, p)
  BY SaveEffect
<1>. /\ \A c \in pending' : c.op # "claim" => CallToken(c) # <<t, g>>
     /\ \A q \in Runs : Active(q)' =>
           /\ Active(q)
           /\ \/ run'[q] = run[q] /\ Token(q) # <<t, g>>
              \/ s = "running" /\ Token(q) = <<t, g>> /\ WorkerId[q] = w /\ Continues(q, t)
  BY DEF SavedAlone
<1>1. /\ SaveLeased
      /\ tasks[t].revision = n /\ tasks[t].lease_generation = g /\ n \in Nat /\ g \in Nat
      /\ tasks[t].lease_owner = w
      /\ tasks'[t] \in Row /\ tasks'[t].status = s /\ tasks'[t].state = p
      /\ tasks'[t].revision = n + 1 /\ tasks'[t].lease_generation = g
      /\ s = "running" => tasks'[t].lease_owner = w
      /\ \A u \in TaskIds \ {t} : tasks'[u] = tasks[u]
  BY <1>0 DEF SaveDone
<1>2. PICK new \in events' :
        /\ new.event_type = IF s = "running" THEN "lease_checkpoint_saved" ELSE "lease_released"
        /\ new.task = t /\ new.worker = w /\ new.generation = g
        /\ new.revision = n + 1 /\ new.status = s
        /\ \A e \in events' \ events : e.event_type = "checkpoint_saved" \/ e = new
  BY <1>0 DEF SaveDone
<1>3. ForwardStep
  <2>1. \A u \in TaskIds \ {t} : ProgressRank(tasks'[u].state) >= ProgressRank(tasks[u].state)
    BY <1>1, RankTyped
  <2>2. ProgressRank(tasks'[t].state) >= ProgressRank(tasks[t].state)
    BY <1>1
  <2>. QED
    BY <2>1, <2>2 DEF ForwardStep
<1>4. QueueNext /\ [QueueNext]_queueVars
  BY <1>1 DEF QueueNext
<1>5. QueueInv' /\ CountersBounded' /\ events \subseteq events' /\ LeaseLog \subseteq LeaseLog'
  BY <1>4, TablesTyped, QueueGrows
<1>6. /\ \A e \in events' \ events : e.event_type \notin EvidenceTypes
      /\ \A e \in events' \ events :
            e.event_type \in {"lease_checkpoint_saved", "lease_released"} =>
                <<e.task, e.generation>> = <<t, g>>
  BY <1>2 DEF EvidenceTypes
<1>7. HostedTypeOK'
  BY <1>4, <1>6, EvidenceBehind DEF HostedInv, HostedTypeOK
<1>8. \A q \in Runs : Active(q)' => Token(q)' = Token(q)
  BY <1>1 DEF Token, Continues
<1>9. RunsInv'
  <2>. SUFFICES ASSUME NEW q \in Runs, Active(q)'
                PROVE  /\ Holds(q)'
                       /\ run'[q].pc = "claimed" =>
                             run'[q].row.lease_generation = run'[q].row.attempt_count
                       /\ run'[q].pc = "running" => OnScript(q)'
    BY DEF RunsInv, Active
  <2>1. CASE run'[q] = run[q] /\ Token(q) # <<t, g>>
    <3>1. Holds(q)'
      BY <1>4, <1>6, <2>1, HoldsKeeps
    <3>2. OnScript(q)' <=> OnScript(q)
      BY <2>1 DEF OnScript
    <3>. QED
      BY <2>1, <3>1, <3>2 DEF HostedInv, RunsInv
  <2>2. CASE s = "running" /\ Token(q) = <<t, g>> /\ WorkerId[q] = w /\ Continues(q, t)
    <3>1. /\ run[q].task = t /\ run[q].row.lease_generation = g
          /\ run'[q].task = t /\ run'[q].row = tasks'[t]
      BY <2>2 DEF Token, Continues
    <3>2. g = 1 /\ t = Expected[q] /\ run[q].at \in 1..17
      BY <2>2, <3>1 DEF Continues, HostedInv, RunsInv, OnScript, HostedTypeOK, RunState
    <3>3. new \in LeaseLog'
      BY <1>2, <2>2 DEF LeaseLog, LeaseEvents
    <3>4. PICK row \in Row : row = tasks'[t]
      BY <1>1
    <3>5. Holds(q)'
      <4>1. row.status # Absent /\ row.revision \in Nat /\ row.lease_generation \in Nat
        BY <1>1, <2>2, <3>4 DEF Absent, Row
      <4>2. Snap(t, row)'
        BY <3>4, <4>1 DEF Snap, Exists
      <4>3. Snap(run[q].task, run[q].row)'
        BY <3>1, <3>4, <4>2
      <4>. QED
        BY <1>1, <1>2, <2>2, <3>1, <3>2, <3>3, <4>3 DEF Holds
    <3>6. OnScript(q)'
      BY <1>1, <2>2, <3>1, <3>2 DEF OnScript, Continues
    <3>. QED
      BY <2>2, <3>5, <3>6 DEF Continues
  <2>. QED
    BY <2>1, <2>2
<1>10. TokensInv'
  BY <1>8 DEF HostedInv, TokensInv
<1>11. PendingInv' /\ InspectionInv' /\ ReadsInv'
  BY <1>3, <1>4, PendingKeeps, InspectionKeeps, ReadsKeep
<1>12. ForeignInv'
  <2>. SUFFICES ASSUME NEW e \in LeaseLog', \A r \in Runs : e.task # Expected[r]
                PROVE  \/ e.event_type = "lease_claimed"
                       \/ e.event_type # "lease_checkpoint_saved" /\ e.status = "blocked"
    BY DEF ForeignInv
  <2>1. CASE e \in LeaseLog
    BY <2>1 DEF HostedInv, ForeignInv
  <2>2. CASE e = new
    BY <1>2, <2>2
  <2>. QED
    BY <1>2, <2>1, <2>2 DEF LeaseLog, LeaseEvents
<1>13. /\ \A a, b : Observed(a, b)' = Observed(a, b) /\ Verified(a, b)' = Verified(a, b)
       /\ \A a, b, c, d : Backed(a, b, c, d)' <=> Backed(a, b, c, d)
  BY <1>5, <1>6, EvidenceSame
<1>14. EvidenceInv'
  <2>1. \A e \in events' : e.event_type \in EvidenceTypes => ~Ahead(tasks'[e.task], e)
    BY <1>4, <1>6, EvidenceBehind
  <2>2. \A c \in pending' : c.op = "save" /\ c.status = "completed" =>
           Backed(c.task, c.generation, c.revision, TRUE)'
    BY <1>13 DEF HostedInv, EvidenceInv
  <2>3. ASSUME NEW q \in Runs, Active(q)' PROVE RunEvidence(q)'
    <3>1. RunEvidence(q)
      BY <2>3 DEF HostedInv, EvidenceInv
    <3>2. CASE run'[q] = run[q]
      BY <1>13, <3>1, <3>2 DEF RunEvidence
    <3>3. CASE Token(q) = <<t, g>> /\ Continues(q, t)
      <4>1. /\ run[q].task = t /\ run[q].row.lease_generation = g
            /\ run'[q].task = t /\ run'[q].row = tasks'[t]
        BY <3>3 DEF Token, Continues
      <4>2. PICK i \in 0..17, b \in BOOLEAN, m \in Nat :
              i = run[q].at /\ b = run[q].verified /\ m = run[q].row.revision
        BY DEF HostedInv, HostedTypeOK, RunState, Row
      <4>3. m <= n
        BY <1>1, <2>3, <4>1, <4>2 DEF HostedInv, RunsInv, Holds, Snap
      <4>4. /\ i <= 14 => Verified(t, g) = {}
            /\ i >= 8 => \E o \in Observed(t, g) : o.revision <= m
            /\ i >= 15 => Backed(t, g, m, b)
        BY <3>1, <3>3, <4>1, <4>2 DEF RunEvidence, Continues
      <4>5. /\ run'[q].at = i + 1 /\ run'[q].verified = b /\ i \notin {4, 7, 11, 14}
            /\ i = 16 => b /\ run'[q].pc = "running"
        BY <3>3, <4>2 DEF Continues
      <4>6. i >= 8 => \E o \in Observed(t, g) : o.revision < n + 1
        <5>1. \A o \in Observed(t, g) : o.revision \in Nat
          BY DEF Observed, HostedInv, HostedTypeOK, EvidenceTypes, EvidenceRecord
        <5>. QED
          BY <1>1, <4>3, <4>4, <5>1
      <4>7. i >= 8 => \E o \in Observed(t, g) : o.revision <= n + 1
        <5>1. \A o \in Observed(t, g) : o.revision \in Nat
          BY DEF Observed, HostedInv, HostedTypeOK, EvidenceTypes, EvidenceRecord
        <5>. QED
          BY <1>1, <4>6, <5>1
      <4>8. i >= 15 => Backed(t, g, n + 1, b)
        <5>1. m <= n + 1 /\ n + 1 \in Nat
          BY <1>1, <4>3
        <5>. QED
          BY <4>4, <5>1, BackedLater DEF HostedInv
      <4>9. /\ i + 1 <= 14 => Verified(t, g)' = {}
            /\ i + 1 >= 8 => \E o \in Observed(t, g)' : o.revision <= n + 1
            /\ i + 1 >= 9 => \E o \in Observed(t, g)' : o.revision < n + 1
            /\ i + 1 >= 15 => Backed(t, g, n + 1, b)'
            /\ i + 1 = 17 => b = TRUE
        <5>1. (i + 1 >= 8 => i >= 8) /\ (i + 1 >= 9 => i >= 8) /\ (i + 1 >= 15 => i >= 15)
              /\ (i + 1 <= 14 => i <= 14) /\ (i + 1 = 17 => i = 16)
          BY <4>5
        <5>. QED
          BY <1>13, <4>4, <4>5, <4>6, <4>7, <4>8, <5>1
      <4>10. /\ run'[q].row.revision = n + 1 /\ run'[q].row.lease_generation = g
             /\ run'[q].pc = "running" /\ run'[q].task = t
        BY <1>1, <3>3, <4>1 DEF Continues
      <4>. QED
        BY <4>5, <4>9, <4>10 DEF RunEvidence, Backed, Observed, Verified
    <3>. QED
      BY <2>3, <3>2, <3>3
  <2>. QED
    BY <2>1, <2>2, <2>3 DEF EvidenceInv
<1>15. ReleasedInv'
  <2>. SUFFICES ASSUME NEW e \in LeaseLog', e.event_type = "lease_released"
                PROVE  /\ \A q \in Runs : Active(q)' => Token(q)' # <<e.task, e.generation>>
                       /\ \A c \in pending' : c.op = "append" =>
                             CallToken(c) # <<e.task, e.generation>>
                       /\ e.status = "completed" =>
                             Backed(e.task, e.generation, e.revision - 1, TRUE)'
    BY DEF ReleasedInv
  <2>1. CASE e \in LeaseLog
    BY <1>8, <1>13, <2>1 DEF HostedInv, ReleasedInv
  <2>2. CASE e = new
    <3>1. s # "running" /\ e.task = t /\ e.generation = g /\ e.status = s
          /\ e.revision = n + 1 /\ e.revision - 1 = n
      BY <1>1, <1>2, <2>2
    <3>. QED
      BY <1>8, <1>13, <3>1
  <2>. QED
    BY <1>2, <2>1, <2>2 DEF LeaseLog
<1>. QED
  BY <1>1, <1>3, <1>5, <1>7, <1>9, <1>10, <1>11, <1>12, <1>14, <1>15 DEF HostedInv

-----------------------------------------------------------------------------
(* Claims *)

\* What a claim that was accepted has found and done.
ClaimDone(t, w) ==
    /\ Claim /\ ForwardStep
    /\ tasks'[t] \in Row /\ tasks'[t].status = "running" /\ tasks'[t].lease_owner = w
    /\ tasks'[t].lease_generation = tasks[t].lease_generation + 1
    /\ tasks'[t].revision = tasks[t].revision + 1
    /\ tasks'[t].lease_generation = tasks'[t].attempt_count
    /\ \E new \in events' :
          /\ new.event_type = "lease_claimed" /\ new.task = t /\ new.worker = w
          /\ new.generation = tasks[t].lease_generation + 1
          /\ \A e \in events' \ events : e.event_type = "checkpoint_saved" \/ e = new

\* An accepted claim is one of the queue's, with that effect.
LEMMA ClaimEffect ==
    ASSUME HostedInv, NEW t \in TaskIds, NEW w \in Workers, NEW v \in ClockReadings,
           agent_claim_task(t, w, LeaseLength, v)
    PROVE  ClaimDone(t, w)
<1>1. /\ Claim /\ tasks'[t] \in Row
      /\ tasks'[t].lease_generation = tasks[t].lease_generation + 1
      /\ \A u \in TaskIds \ {t} : tasks'[u] = tasks[u]
  BY AcceptedClaim, RunAssumption DEF HostedInv
<1>2. PICK row : row = ClaimedRow(t, w, LeaseLength, v)
  OBVIOUS
<1>3. WriteRow(t, row, {LeaseEvent(t, "lease_claimed", w, row.lease_generation, row)})
  BY <1>2 DEF agent_claim_task
<1>4. tasks \in [TaskIds -> Row] /\ tasks[t] \in Row
  BY DEF HostedInv, QueueInv, QueueTypeOK
<1>5. tasks'[t] = row
  BY <1>3, <1>4 DEF WriteRow
<1>6. /\ row.status = "running" /\ row.lease_owner = w /\ row.state = tasks[t].state
      /\ row.revision = tasks[t].revision + 1
  BY <1>2, <1>4 DEF ClaimedRow, Row
<1>7. ForwardStep
  <2>1. tasks'[t].state = tasks[t].state
    BY <1>5, <1>6
  <2>2. \A u \in TaskIds : tasks'[u].state = tasks[u].state
    BY <1>1, <2>1
  <2>. QED
    BY <2>2, RankTyped DEF ForwardStep
<1>8. PICK new : new = LeaseEvent(t, "lease_claimed", w, row.lease_generation, row)
  OBVIOUS
<1>9. /\ new.event_type = "lease_claimed" /\ new.task = t /\ new.worker = w
      /\ new.generation = tasks[t].lease_generation + 1
  BY <1>1, <1>5, <1>8 DEF LeaseEvent
<1>10. new \in events' /\ \A e \in events' \ events : e.event_type = "checkpoint_saved" \/ e = new
  BY <1>3, <1>8 DEF WriteRow, CheckpointEvent
<1>11. tasks'[t].lease_generation = tasks'[t].attempt_count
  <2>1. QueueInv'
    BY <1>1, QueueNextInv DEF HostedInv, QueueNext
  <2>. QED
    BY <2>1 DEF QueueInv, GenerationCountsAttempts
<1>. QED
  BY <1>1, <1>5, <1>6, <1>7, <1>9, <1>10, <1>11 DEF ClaimDone

\* A run that claims holds a lease that nobody has acted under before.
LEMMA ClaimedInv ==
    ASSUME HostedInv, NEW r \in Runs, Claimed(r)
    PROVE  HostedInv' /\ ForwardStep /\ Claim
<1>1. PICK t \in Claims[r], v \in ClockReadings :
        /\ agent_claim_task(t, WorkerId[r], LeaseLength, v)
        /\ run' = [run EXCEPT ![r] = [@ EXCEPT !.pc = "claimed", !.task = t, !.row = tasks'[t]]]
  BY DEF Claimed
<1>2. t \in TaskIds /\ WorkerId[r] \in Workers /\ Claims[r] \subseteq TaskIds
  BY RunAssumption
<1>3. ClaimDone(t, WorkerId[r])
  BY <1>1, <1>2, ClaimEffect
<1>4. /\ Claim /\ ForwardStep /\ tasks'[t] \in Row /\ tasks'[t].status = "running"
      /\ tasks'[t].lease_owner = WorkerId[r]
      /\ tasks'[t].lease_generation = tasks[t].lease_generation + 1
      /\ tasks'[t].revision = tasks[t].revision + 1
      /\ tasks'[t].lease_generation = tasks'[t].attempt_count
  BY <1>3 DEF ClaimDone
<1>5. PICK new \in events' :
        /\ new.event_type = "lease_claimed" /\ new.task = t /\ new.worker = WorkerId[r]
        /\ new.generation = tasks[t].lease_generation + 1
        /\ \A e \in events' \ events : e.event_type = "checkpoint_saved" \/ e = new
  BY <1>3 DEF ClaimDone
<1>6. [QueueNext]_queueVars
  BY <1>4 DEF QueueNext
<1>7. PICK row \in Row, g \in Nat, n \in Nat :
        row = tasks'[t] /\ g = tasks[t].lease_generation /\ n = tasks[t].revision
  BY <1>2, <1>4 DEF HostedInv, QueueInv, QueueTypeOK, Row
<1>8. /\ row.status = "running" /\ row.lease_owner = WorkerId[r]
      /\ row.lease_generation = g + 1 /\ row.revision = n + 1
      /\ row.lease_generation = row.attempt_count
  BY <1>4, <1>7
<1>9. /\ run[r].pc = "idle" /\ pending' = pending /\ reads' = reads /\ insp' = insp
  BY DEF Claimed
<1>10. /\ run' \in [Runs -> RunState] /\ \A q \in Runs \ {r} : run'[q] = run[q]
       /\ run'[r].pc = "claimed" /\ run'[r].task = t /\ run'[r].row = row
  <2>1. run \in [Runs -> RunState] /\ run[r] \in RunState
    BY DEF HostedInv, HostedTypeOK
  <2>2. PICK x : x = [run[r] EXCEPT !.pc = "claimed", !.task = t, !.row = row]
    OBVIOUS
  <2>3. run' = [run EXCEPT ![r] = x]
    BY <1>1, <1>7, <2>2
  <2>4. x \in RunState /\ x.pc = "claimed" /\ x.task = t /\ x.row = row
    BY <1>2, <2>1, <2>2 DEF RunState
  <2>. QED
    BY <2>1, <2>3, <2>4
<1>11. /\ ~Active(r) /\ Active(r)' /\ Token(r)' = <<t, g + 1>>
       /\ \A q \in Runs \ {r} : Active(q)' = Active(q) /\ Token(q)' = Token(q)
  BY <1>8, <1>9, <1>10 DEF Active, Token
<1>12. /\ \A e \in events' \ events : e.event_type \notin EvidenceTypes
       /\ \A e \in events' \ events :
             e.event_type \notin {"lease_checkpoint_saved", "lease_released"}
  BY <1>5 DEF EvidenceTypes
<1>13. /\ QueueInv' /\ CountersBounded' /\ events \subseteq events'
       /\ LeaseLog \subseteq LeaseLog' /\ new \in LeaseLog'
  <2>1. new \in LeaseLog'
    BY <1>5 DEF LeaseLog, LeaseEvents
  <2>. QED
    BY <1>6, <2>1, TablesTyped, QueueGrows
<1>14. HostedTypeOK'
  BY <1>6, <1>9, <1>10, <1>12, EvidenceBehind DEF HostedInv, HostedTypeOK
<1>15. RunsInv'
  <2>1. Holds(r)'
    <3>1. row.status # Absent /\ row.revision \in Nat /\ row.lease_generation \in Nat
      BY <1>8 DEF Absent, Row
    <3>2. Snap(t, row)'
      BY <1>2, <1>7, <3>1 DEF Snap, Exists
    <3>3. Snap(run[r].task, run[r].row)'
      BY <1>10, <3>2
    <3>. QED
      BY <1>5, <1>7, <1>8, <1>10, <1>13, <3>3 DEF Holds
  <2>2. \A q \in Runs \ {r} : Active(q) => Holds(q)'
    BY <1>6, <1>10, <1>12, HoldsKeeps
  <2>3. \A q \in Runs \ {r} : OnScript(q)' <=> OnScript(q)
    BY <1>10 DEF OnScript
  <2>. QED
    BY <1>8, <1>10, <1>11, <2>1, <2>2, <2>3 DEF HostedInv, RunsInv
<1>16. TokensInv'
  <2>1. \A q \in Runs : Active(q) => Token(q) # <<t, g + 1>>
    <3>. SUFFICES ASSUME NEW q \in Runs, Active(q), Token(q) = <<t, g + 1>> PROVE FALSE
      OBVIOUS
    <3>1. Snap(run[q].task, run[q].row) /\ run[q].task = t /\ run[q].row.lease_generation = g + 1
      BY DEF HostedInv, RunsInv, Holds, Token
    <3>. QED
      BY <1>7, <3>1 DEF Snap
  <2>2. \A c \in pending : c.op # "claim" => CallToken(c) # <<t, g + 1>>
    <3>. SUFFICES ASSUME NEW c \in pending, c.op # "claim", CallToken(c) = <<t, g + 1>>
                  PROVE FALSE
      OBVIOUS
    <3>1. c.op = "save" \/ c.op = "append"
      BY DEF HostedInv, HostedTypeOK, ClaimCalls, SaveCalls, AppendCalls
    <3>2. CASE c.op = "save"
      <4>1. c.task = t /\ c.generation = g + 1 /\ c.generation \in 1..tasks[c.task].lease_generation
        BY <3>2 DEF CallToken, HostedInv, PendingInv
      <4>. QED
        BY <1>7, <4>1
    <3>3. CASE c.op = "append"
      <4>1. /\ c.event.task = t /\ c.event.generation = g + 1
            /\ c.event.generation \in 1..tasks[c.event.task].lease_generation
        BY <3>3 DEF CallToken, HostedInv, PendingInv
      <4>. QED
        BY <1>7, <4>1
    <3>. QED
      BY <3>1, <3>2, <3>3
  <2>. QED
    BY <1>9, <1>11, <2>1, <2>2 DEF HostedInv, TokensInv
<1>17. PendingInv' /\ InspectionInv' /\ ReadsInv'
  BY <1>4, <1>6, <1>9, PendingKeeps, InspectionKeeps, ReadsKeep
<1>18. ForeignInv'
  BY <1>5 DEF HostedInv, ForeignInv, LeaseLog, LeaseEvents
<1>19. /\ \A a, b : Observed(a, b)' = Observed(a, b) /\ Verified(a, b)' = Verified(a, b)
       /\ \A a, b, c, d : Backed(a, b, c, d)' <=> Backed(a, b, c, d)
  BY <1>12, <1>13, EvidenceSame
<1>20. EvidenceInv'
  <2>1. \A e \in events' : e.event_type \in EvidenceTypes => ~Ahead(tasks'[e.task], e)
    BY <1>6, <1>12, EvidenceBehind
  <2>2. \A q \in Runs \ {r} : RunEvidence(q)' <=> RunEvidence(q)
    BY <1>10, <1>19 DEF RunEvidence
  <2>3. Verified(t, g + 1) = {}
    <3>. SUFFICES ASSUME NEW e \in Verified(t, g + 1) PROVE FALSE
      OBVIOUS
    <3>1. /\ e \in events /\ e.event_type \in EvidenceTypes /\ e.task = t
          /\ e.generation = g + 1 /\ ~Ahead(tasks[t], e)
      BY DEF Verified, EvidenceTypes, HostedInv, EvidenceInv
    <3>. QED
      BY <1>7, <3>1 DEF Ahead
  <2>4. RunEvidence(r)'
    <3>1. Verified(t, g + 1)' = {}
      BY <1>19, <2>3
    <3>. QED
      BY <1>8, <1>10, <3>1 DEF RunEvidence, Verified
  <2>5. \A c \in pending' : c.op = "save" /\ c.status = "completed" =>
           Backed(c.task, c.generation, c.revision, TRUE)'
    BY <1>9, <1>19 DEF HostedInv, EvidenceInv
  <2>. QED
    BY <1>11, <2>1, <2>2, <2>4, <2>5 DEF HostedInv, EvidenceInv
<1>21. ReleasedInv'
  <2>1. \A e \in LeaseLog' : e.event_type = "lease_released" => e \in LeaseLog
    BY <1>12 DEF LeaseLog
  <2>2. \A e \in LeaseLog : <<e.task, e.generation>> # <<t, g + 1>>
    <3>. SUFFICES ASSUME NEW e \in LeaseLog, e.task = t, e.generation = g + 1 PROVE FALSE
      OBVIOUS
    <3>1. e.generation \in 1..tasks[e.task].lease_generation
      BY DEF HostedInv, QueueInv, LedgerBehindRow
    <3>. QED
      BY <1>7, <3>1
  <2>. QED
    BY <1>9, <1>11, <1>19, <2>1, <2>2 DEF HostedInv, ReleasedInv
<1>. QED
  BY <1>4, <1>13, <1>14, <1>15, <1>16, <1>17, <1>18, <1>20, <1>21 DEF HostedInv

-----------------------------------------------------------------------------
(* The saves of a run *)

\* The call of a run, by its place in the script.
LEMMA CallOf ==
    ASSUME HostedInv, NEW r \in Runs
    PROVE  /\ run[r].pc = "idle" => NextCall(r) = ClaimCall(r)
           /\ run[r].pc = "claimed" => NextCall(r) = SaveCall(r, "blocked", run[r].row.state)
           /\ run[r].pc = "running" =>
                 /\ run[r].at \in 1..17
                 /\ run[r].at = 7 =>
                       NextCall(r) = AppendCall(Evidence("github_observation", r, TRUE))
                 /\ run[r].at = 14 =>
                       NextCall(r) = AppendCall(Evidence("github_verification", r, run[r].verified))
                 /\ run[r].at = 16 /\ ~run[r].verified =>
                       NextCall(r) = SaveCall(r, "blocked", run[r].row.state)
                 /\ run[r].at = 17 => NextCall(r) = SaveCall(r, "completed", run[r].row.state)
                 /\ run[r].at \notin {7, 14, 17} /\ ~(run[r].at = 16 /\ ~run[r].verified) =>
                       NextCall(r) = SaveCall(r, "running", SavedState(r))
<1>1. CASE run[r].pc # "running"
  BY <1>1 DEF NextCall
<1>2. CASE run[r].pc = "running"
  <2>1. PICK i \in 1..17 : i = run[r].at
    BY <1>2 DEF HostedInv, HostedTypeOK, RunState, RunsInv, OnScript
  <2>2. /\ Script[i] = "observe" <=> i = 7
        /\ Script[i] = "verify" <=> i = 14
        /\ Script[i] = "step_completed" <=> i = 16
        /\ Script[i] = "completed" <=> i = 17
    BY ScriptSteps
  <2>. QED
    BY <1>2, <2>1, <2>2 DEF NextCall
<1>. QED
  BY <1>1, <1>2

\* What a save that keeps the lease does to the document.
LEMMA SavedForward ==
    ASSUME HostedInv, NEW r \in Runs, run[r].pc = "running"
    PROVE  /\ SavedState(r) \in Progress
           /\ ProgressRank(SavedState(r)) >= ProgressRank(run[r].row.state)
           /\ run[r].at = 1 => ProgressRank(SavedState(r)) = 0
           /\ run[r].at >= 2 => ProgressRank(SavedState(r)) >= 1
<1>1. PICK i \in 1..17, p \in Progress : i = run[r].at /\ p = run[r].row.state
  BY DEF HostedInv, HostedTypeOK, RunState, Row, RunsInv, OnScript
<1>2. PICK x \in 0..2 : x = ProgressRank(p)
  BY RankTyped
<1>3. (i <= 2 => x = 0) /\ (i >= 3 => x >= 1)
  BY <1>1, <1>2 DEF HostedInv, RunsInv, OnScript
<1>4. (Script[i] = "attempt" <=> i = 2) /\ (Script[i] = "step_completed" <=> i = 16)
  BY ScriptSteps
<1>5. CASE i = 2
  <2>1. SavedState(r) = "attempted"
    BY <1>1, <1>4, <1>5 DEF SavedState
  <2>. QED
    BY <1>1, <1>2, <1>3, <1>5, <2>1, RunAssumption DEF ProgressRank
<1>6. CASE i = 16
  <2>1. SavedState(r) = "verified"
    BY <1>1, <1>4, <1>6 DEF SavedState
  <2>2. ProgressRank("verified") = 2
    BY DEF ProgressRank
  <2>. QED
    BY <1>1, <1>2, <1>3, <1>6, <2>1, <2>2, RunAssumption
<1>7. CASE i \notin {2, 16}
  <2>1. SavedState(r) = p
    BY <1>1, <1>4, <1>7 DEF SavedState
  <2>. QED
    BY <1>1, <1>2, <1>3, <1>7, <2>1
<1>. QED
  BY <1>5, <1>6, <1>7

\* A save under the lease a run holds, which the run takes the answer of or ends with.
LEMMA RunSaveInv ==
    ASSUME HostedInv, NEW r \in Runs, Active(r), NEW s \in LeasedSaveStatuses, NEW p \in Progress,
           Execute(SaveCall(r, s, p)),
           ProgressRank(p) >= ProgressRank(run[r].row.state),
           s # "blocked" => run[r].pc = "running",
           s = "completed" => Backed(run[r].task, run[r].row.lease_generation,
                                     run[r].row.revision, TRUE),
           run' \in [Runs -> RunState], \A q \in Runs \ {r} : run'[q] = run[q],
           pending' = pending, reads' = reads, insp' = insp,
           Active(r)' => s = "running" /\ Continues(r, run[r].task)
    PROVE  HostedInv' /\ ForwardStep /\ SaveLeased
<1>1. PICK t \in TaskIds \cup {NoTask}, row \in Row : t = run[r].task /\ row = run[r].row
  BY DEF HostedInv, HostedTypeOK, RunState
<1>2. Snap(t, row) /\ row.status = "running"
  BY <1>1 DEF HostedInv, RunsInv, Holds
<1>3. t \in TaskIds /\ WorkerId[r] \in Workers
  BY <1>2, RunAssumption DEF Snap
<1>4. PICK v \in ClockReadings :
        agent_save_leased_checkpoint(t, row.revision, WorkerId[r], row.lease_generation, s, p,
                                     LeaseLength, v)
  BY <1>1 DEF Execute, SaveCall
<1>5. row = tasks[t]
  BY <1>2, <1>4 DEF Snap, agent_save_leased_checkpoint
<1>6. s # "blocked" => \E q \in Runs : t = Expected[q]
  BY <1>1 DEF HostedInv, RunsInv, OnScript
<1>7. PICK n \in Nat, g \in Nat : n = row.revision /\ g = row.lease_generation
  BY DEF Row
<1>8. Token(r) = <<t, g>>
  BY <1>1, <1>7 DEF Token
<1>9. \A c \in pending' : c.op # "claim" => CallToken(c) # <<t, g>>
  BY <1>8 DEF HostedInv, TokensInv
<1>10. ASSUME NEW q \in Runs, Active(q)'
       PROVE  /\ Active(q)
              /\ \/ run'[q] = run[q] /\ Token(q) # <<t, g>>
                 \/ /\ s = "running" /\ Token(q) = <<t, g>> /\ WorkerId[q] = WorkerId[r]
                    /\ Continues(q, t)
  <2>1. CASE q = r
    BY <1>1, <1>8, <1>10, <2>1
  <2>2. CASE q # r
    <3>1. run'[q] = run[q] /\ Active(q)
      BY <1>10, <2>2 DEF Active
    <3>. QED
      BY <1>8, <2>2, <3>1 DEF HostedInv, TokensInv
  <2>. QED
    BY <2>1, <2>2
<1>11. /\ ProgressRank(p) >= ProgressRank(tasks[t].state)
       /\ s = "completed" => Backed(t, g, n, TRUE)
       /\ agent_save_leased_checkpoint(t, n, WorkerId[r], g, s, p, LeaseLength, v)
       /\ pending' \subseteq pending
  BY <1>1, <1>4, <1>5, <1>7
<1>12. SavedAlone(t, g, WorkerId[r], s)
  BY <1>9, <1>10 DEF SavedAlone
<1>. QED
  BY <1>3, <1>6, <1>11, <1>12, SaveInv

\* Out of scope, or tried before: released as blocked.
LEMMA ReleaseBlockedInv ==
    ASSUME HostedInv, NEW r \in Runs, ReleaseBlocked(r)
    PROVE  HostedInv' /\ ForwardStep /\ SaveLeased
<1>1. /\ Active(r) /\ run[r].row.state \in Progress /\ run[r] \in RunState
      /\ run \in [Runs -> RunState]
  BY DEF ReleaseBlocked, Active, HostedInv, HostedTypeOK, RunState, Row
<1>2. Execute(SaveCall(r, "blocked", run[r].row.state))
  BY CallOf DEF ReleaseBlocked
<1>3. /\ run' \in [Runs -> RunState] /\ \A q \in Runs \ {r} : run'[q] = run[q]
      /\ ~Active(r)' /\ pending' = pending /\ reads' = reads /\ insp' = insp
  BY <1>1 DEF ReleaseBlocked, RunState, Active
<1>4. ProgressRank(run[r].row.state) >= ProgressRank(run[r].row.state)
  BY RankTyped
<1>5. "blocked" \in LeasedSaveStatuses
  BY DEF LeasedSaveStatuses
<1>. QED
  BY <1>1, <1>2, <1>3, <1>4, <1>5, RunSaveInv

\* The saves that keep the lease.
LEMMA SaveStateInv ==
    ASSUME HostedInv, NEW r \in Runs, SaveState(r)
    PROVE  HostedInv' /\ ForwardStep /\ SaveLeased
<1>1. /\ Active(r) /\ run[r].pc = "running" /\ run[r] \in RunState
      /\ run \in [Runs -> RunState]
  BY DEF SaveState, Running, Active, HostedInv, HostedTypeOK
<1>2. PICK i \in 1..17, t \in TaskIds : i = run[r].at /\ t = run[r].task
  BY <1>1 DEF RunState, HostedInv, RunsInv, OnScript, Holds, Snap
<1>3. i \notin {4, 7, 11, 14, 17}
  <2>1. Script[i] \in {"start", "attempt", "fence", "save", "step_completed"}
    BY <1>2 DEF SaveState, Running
  <2>. QED
    BY <2>1, ScriptSteps
<1>4. i = 16 => run[r].verified
  <2>1. ASSUME i = 16, ~run[r].verified PROVE FALSE
    <3>1. NextCall(r) = SaveCall(r, "blocked", run[r].row.state)
      BY <1>1, <1>2, <2>1, CallOf
    <3>. QED
      BY <3>1 DEF SaveState, SaveCall
  <2>. QED
    BY <2>1
<1>5. PICK p \in Progress : p = SavedState(r)
  BY <1>1, SavedForward
<1>6. Execute(SaveCall(r, "running", p))
  BY <1>1, <1>2, <1>3, <1>4, <1>5, CallOf DEF SaveState
<1>7. PICK v \in ClockReadings :
        agent_save_leased_checkpoint(t, run[r].row.revision, WorkerId[r],
            run[r].row.lease_generation, "running", p, LeaseLength, v)
  BY <1>2, <1>6 DEF Execute, SaveCall
<1>8. "running" \in LeasedSaveStatuses /\ WorkerId[r] \in Workers
  BY RunAssumption DEF LeasedSaveStatuses
<1>9. tasks'[t] \in Row /\ tasks'[t].state = p
  <2>1. SaveDone(t, run[r].row.revision, WorkerId[r], run[r].row.lease_generation, "running", p)
    BY <1>7, <1>8, SaveEffect
  <2>. QED
    BY <2>1 DEF SaveDone
<1>10. PICK row \in Row : row = tasks'[t]
  BY <1>9
<1>11. /\ run' \in [Runs -> RunState] /\ \A q \in Runs \ {r} : run'[q] = run[q]
       /\ run'[r].pc = "running" /\ run'[r].at = i + 1 /\ run'[r].row = row
       /\ run'[r].task = run[r].task /\ run'[r].verified = run[r].verified
  <2>1. PICK x : x = [run[r] EXCEPT !.at = i + 1, !.row = row]
    OBVIOUS
  <2>2. run' = [run EXCEPT ![r] = x]
    BY <1>1, <1>2, <1>10, <2>1 DEF SaveState
  <2>3. /\ x \in RunState /\ x.pc = run[r].pc /\ x.at = i + 1 /\ x.row = row
        /\ x.task = run[r].task /\ x.verified = run[r].verified
    <3>1. i + 1 \in 0..17
      BY <1>3
    <3>. QED
      BY <1>1, <2>1, <3>1 DEF RunState
  <2>. QED
    BY <1>1, <2>2, <2>3
<1>12. Continues(r, t)
  <2>1. (i = 1 => ProgressRank(p) = 0) /\ (i >= 2 => ProgressRank(p) >= 1)
    BY <1>1, <1>2, <1>5, SavedForward
  <2>. QED
    BY <1>1, <1>2, <1>3, <1>4, <1>9, <1>10, <1>11, <2>1 DEF Continues
<1>13. ProgressRank(p) >= ProgressRank(run[r].row.state)
  BY <1>1, <1>5, SavedForward
<1>14. pending' = pending /\ reads' = reads /\ insp' = insp
  BY DEF SaveState
<1>. QED
  BY <1>1, <1>2, <1>6, <1>8, <1>11, <1>12, <1>13, <1>14, RunSaveInv

\* The save that ends the run.
LEMMA FinishInv ==
    ASSUME HostedInv, NEW r \in Runs, Finish(r)
    PROVE  HostedInv' /\ ForwardStep /\ SaveLeased
<1>1. /\ Active(r) /\ run[r].pc = "running" /\ run[r] \in RunState
      /\ run[r].row.state \in Progress /\ run \in [Runs -> RunState]
  BY DEF Finish, Running, Active, HostedInv, HostedTypeOK, RunState, Row
<1>2. /\ run' \in [Runs -> RunState] /\ \A q \in Runs \ {r} : run'[q] = run[q]
      /\ ~Active(r)' /\ pending' = pending /\ reads' = reads /\ insp' = insp
  BY <1>1 DEF Finish, RunState, Active
<1>3. ProgressRank(run[r].row.state) >= ProgressRank(run[r].row.state)
  BY RankTyped
<1>4. PICK i \in 1..17 : i = run[r].at
  BY <1>1 DEF RunState, HostedInv, RunsInv, OnScript
<1>5. {"blocked", "completed"} \subseteq LeasedSaveStatuses
  BY DEF LeasedSaveStatuses
<1>6. CASE i = 17
  <2>1. Execute(SaveCall(r, "completed", run[r].row.state))
    BY <1>1, <1>4, <1>6, CallOf DEF Finish
  <2>2. Backed(run[r].task, run[r].row.lease_generation, run[r].row.revision, TRUE)
    <3>1. RunEvidence(r)
      BY <1>1 DEF HostedInv, EvidenceInv
    <3>2. run[r].at >= 15 /\ run[r].at = 17
      BY <1>4, <1>6
    <3>3. /\ run[r].verified = TRUE
          /\ Backed(run[r].task, run[r].row.lease_generation, run[r].row.revision,
                    run[r].verified)
      BY <1>1, <3>1, <3>2 DEF RunEvidence
    <3>. QED
      BY <3>3
  <2>. QED
    BY <1>1, <1>2, <1>3, <1>5, <2>1, <2>2, RunSaveInv
<1>7. CASE i = 16 /\ ~run[r].verified
  <2>1. Execute(SaveCall(r, "blocked", run[r].row.state))
    BY <1>1, <1>4, <1>7, CallOf DEF Finish
  <2>. QED
    BY <1>1, <1>2, <1>3, <1>5, <2>1, RunSaveInv
<1>8. i = 17 \/ (i = 16 /\ ~run[r].verified)
  <2>1. Script[i] = "completed" \/ (Script[i] = "step_completed" /\ ~run[r].verified)
    BY <1>4 DEF Finish, Running
  <2>. QED
    BY <2>1, ScriptSteps
<1>. QED
  BY <1>6, <1>7, <1>8

-----------------------------------------------------------------------------
(* Steps of a run that leave the database alone *)

\* A run that moves on, or ends, with the row it has.
LEMMA RunMoves ==
    ASSUME HostedInv, NEW r \in Runs, UNCHANGED queueVars,
           run' \in [Runs -> RunState], \A q \in Runs \ {r} : run'[q] = run[q],
           run'[r].task = run[r].task, run'[r].row = run[r].row,
           Active(r)' => /\ Active(r) /\ run'[r].pc = "running"
                         /\ OnScript(r)' /\ RunEvidence(r)',
           insp' = insp
    PROVE  /\ [QueueNext]_queueVars /\ ForwardStep
           /\ QueueInv' /\ CountersBounded'
           /\ RunsInv' /\ InspectionInv' /\ ForeignInv'
           /\ \A q \in Runs : Active(q)' => Active(q) /\ Token(q)' = Token(q) /\ RunEvidence(q)'
<1>1. /\ tasks' = tasks /\ events' = events /\ now' = now /\ LeaseLog' = LeaseLog
      /\ [QueueNext]_queueVars
  BY DEF queueVars, LeaseLog
<1>2. ForwardStep
  BY <1>1, RankTyped DEF ForwardStep
<1>3. QueueInv' /\ CountersBounded' /\ InspectionInv'
  BY <1>1, TablesTyped, InspectionKeeps
<1>4. ForeignInv'
  BY <1>1 DEF HostedInv, ForeignInv
<1>5. ASSUME NEW q \in Runs, Active(q)'
      PROVE  /\ Active(q) /\ Token(q)' = Token(q) /\ Holds(q)' /\ RunEvidence(q)'
             /\ run'[q].pc = "claimed" =>
                   run'[q].row.lease_generation = run'[q].row.attempt_count
             /\ run'[q].pc = "running" => OnScript(q)'
  <2>1. Active(q) /\ run'[q].task = run[q].task /\ run'[q].row = run[q].row
    BY <1>5 DEF Active
  <2>2. Token(q)' = Token(q)
    BY <2>1 DEF Token
  <2>3. Holds(q)'
    BY <1>1, <2>1, HoldsKeeps
  <2>4. CASE q = r
    BY <1>5, <2>1, <2>2, <2>3, <2>4
  <2>5. CASE q # r
    <3>1. run'[q] = run[q]
      BY <2>5
    <3>2. OnScript(q)' <=> OnScript(q)
      BY <3>1 DEF OnScript
    <3>3. RunEvidence(q)' <=> RunEvidence(q)
      BY <1>1, <3>1 DEF RunEvidence, Backed, Observed, Verified
    <3>. QED
      BY <2>1, <2>2, <2>3, <3>1, <3>2, <3>3 DEF HostedInv, RunsInv, EvidenceInv
  <2>. QED
    BY <2>4, <2>5
<1>6. RunsInv'
  BY <1>5 DEF RunsInv, Active
<1>. QED
  BY <1>1, <1>2, <1>3, <1>4, <1>5, <1>6

\* What is said about evidence and late calls, when neither changes.
LEMMA CallsSame ==
    ASSUME HostedInv, UNCHANGED queueVars, pending' = pending, run' \in [Runs -> RunState],
           insp' = insp,
           \A q \in Runs : Active(q)' => Active(q) /\ Token(q)' = Token(q) /\ RunEvidence(q)'
    PROVE  HostedTypeOK' /\ TokensInv' /\ PendingInv' /\ EvidenceInv' /\ ReleasedInv'
<1>1. tasks' = tasks /\ events' = events /\ LeaseLog' = LeaseLog /\ [QueueNext]_queueVars
  BY DEF queueVars, LeaseLog
<1>2. HostedTypeOK'
  BY <1>1 DEF HostedInv, HostedTypeOK
<1>3. TokensInv'
  BY DEF HostedInv, TokensInv
<1>4. PendingInv'
  BY <1>1, PendingKeeps
<1>5. \A a, b, c, d : Backed(a, b, c, d)' <=> Backed(a, b, c, d)
  BY <1>1 DEF Backed, Observed, Verified
<1>6. EvidenceInv'
  BY <1>1, <1>5 DEF HostedInv, EvidenceInv
<1>7. ReleasedInv'
  BY <1>1, <1>5 DEF HostedInv, ReleasedInv
<1>. QED
  BY <1>2, <1>3, <1>4, <1>6, <1>7

\* The first attempt of the run's own task.
LEMMA AcceptInv ==
    ASSUME HostedInv, NEW r \in Runs, Accept(r)
    PROVE  HostedInv' /\ ForwardStep /\ UNCHANGED queueVars
<1>1. /\ run[r].pc = "claimed" /\ Active(r) /\ run \in [Runs -> RunState] /\ run[r] \in RunState
      /\ UNCHANGED queueVars /\ pending' = pending /\ reads' = reads /\ insp' = insp
  BY DEF Accept, Active, HostedInv, HostedTypeOK
<1>2. /\ run' \in [Runs -> RunState] /\ \A q \in Runs \ {r} : run'[q] = run[q]
      /\ run'[r].pc = "running" /\ run'[r].at = 1 /\ run'[r].task = run[r].task
      /\ run'[r].row = run[r].row
  <2>1. PICK x : x = [run[r] EXCEPT !.pc = "running", !.at = 1]
    OBVIOUS
  <2>2. run' = [run EXCEPT ![r] = x]
    BY <1>1, <2>1 DEF Accept
  <2>3. /\ x \in RunState /\ x.pc = "running" /\ x.at = 1 /\ x.task = run[r].task
        /\ x.row = run[r].row
    <3>1. 1 \in 0..17
      OBVIOUS
    <3>. QED
      BY <1>1, <2>1, <3>1 DEF RunState
  <2>. QED
    BY <1>1, <2>2, <2>3
<1>3. /\ run[r].task = Expected[r] /\ run[r].row.attempt_count = 1
      /\ run[r].row.state = "unstarted"
  BY DEF Accept, ScopeFailure
<1>4. run[r].row.lease_generation = 1
  BY <1>1, <1>3 DEF HostedInv, RunsInv
<1>5. ProgressRank("unstarted") = 0
  BY DEF ProgressRank
<1>6. OnScript(r)'
  BY <1>2, <1>3, <1>4, <1>5 DEF OnScript
<1>7. RunEvidence(r)'
  <2>1. Verified(run[r].task, run[r].row.lease_generation) = {}
    BY <1>1 DEF HostedInv, EvidenceInv, RunEvidence
  <2>2. Verified(run[r].task, run[r].row.lease_generation)' = {}
    BY <1>1, <1>2, <2>1 DEF Verified, queueVars
  <2>. QED
    BY <1>2, <2>2 DEF RunEvidence
<1>8. /\ [QueueNext]_queueVars /\ ForwardStep
      /\ QueueInv' /\ CountersBounded'
      /\ RunsInv' /\ InspectionInv' /\ ForeignInv'
      /\ \A q \in Runs : Active(q)' => Active(q) /\ Token(q)' = Token(q) /\ RunEvidence(q)'
  BY <1>1, <1>2, <1>6, <1>7, RunMoves
<1>9. HostedTypeOK' /\ TokensInv' /\ PendingInv' /\ EvidenceInv' /\ ReleasedInv'
  BY <1>1, <1>2, <1>8, CallsSame
<1>10. ReadsInv'
  BY <1>1, <1>8, ReadsKeep
<1>. QED
  BY <1>1, <1>8, <1>9, <1>10 DEF HostedInv

\* The provider is asked under the run's lease, which the check found alive.
LEMMA ApiGetInv ==
    ASSUME HostedInv, NEW r \in Runs, ApiGet(r)
    PROVE  HostedInv' /\ ForwardStep /\ UNCHANGED queueVars
<1>1. /\ run[r].pc = "running" /\ Active(r) /\ run \in [Runs -> RunState] /\ run[r] \in RunState
      /\ UNCHANGED queueVars /\ pending' = pending /\ insp' = insp
  BY DEF ApiGet, Running, Active, HostedInv, HostedTypeOK
<1>2. PICK t \in TaskIds, row \in Row, i \in 1..17 :
        t = run[r].task /\ row = run[r].row /\ i = run[r].at
  BY <1>1 DEF RunState, HostedInv, RunsInv, OnScript, Holds, Snap
<1>3. i \in {4, 11}
  <2>1. Script[i] \in {"get_main", "get_ci"}
    BY <1>2 DEF ApiGet, Running
  <2>. QED
    BY <2>1, ScriptSteps
<1>4. PICK v \in BOOLEAN : run' = [run EXCEPT ![r].at = @ + 1, ![r].verified = v]
  BY DEF ApiGet
<1>5. /\ run' \in [Runs -> RunState] /\ \A q \in Runs \ {r} : run'[q] = run[q]
      /\ run'[r].pc = "running" /\ run'[r].at = i + 1 /\ run'[r].task = t /\ run'[r].row = row
  <2>1. PICK x : x = [run[r] EXCEPT !.at = i + 1, !.verified = v]
    OBVIOUS
  <2>2. run' = [run EXCEPT ![r] = x]
    BY <1>1, <1>2, <1>4, <2>1
  <2>3. /\ x \in RunState /\ x.pc = run[r].pc /\ x.at = i + 1 /\ x.task = run[r].task
        /\ x.row = run[r].row
    <3>1. i + 1 \in 0..17
      BY <1>3
    <3>. QED
      BY <1>1, <2>1, <3>1 DEF RunState
  <2>. QED
    BY <1>1, <1>2, <2>2, <2>3
<1>6. /\ t = Expected[r] /\ row.lease_generation = 1 /\ ProgressRank(row.state) >= 1
      /\ Holds(r)
  BY <1>1, <1>2, <1>3 DEF HostedInv, RunsInv, OnScript
<1>7. OnScript(r)'
  BY <1>2, <1>3, <1>5, <1>6 DEF OnScript
<1>8. RunEvidence(r)'
  <2>1. /\ Verified(t, row.lease_generation) = {}
        /\ i >= 8 => \E o \in Observed(t, row.lease_generation) : o.revision <= row.revision
        /\ i >= 9 => \E o \in Observed(t, row.lease_generation) : o.revision < row.revision
    BY <1>1, <1>2, <1>3 DEF HostedInv, EvidenceInv, RunEvidence
  <2>2. /\ Verified(t, row.lease_generation)' = {}
        /\ i + 1 >= 8 => \E o \in Observed(t, row.lease_generation)' : o.revision <= row.revision
        /\ i + 1 >= 9 => \E o \in Observed(t, row.lease_generation)' : o.revision < row.revision
        /\ i + 1 < 15
    BY <1>1, <1>3, <2>1 DEF Verified, Observed, queueVars
  <2>. QED
    BY <1>3, <1>5, <2>2 DEF RunEvidence, Verified, Observed
<1>9. /\ [QueueNext]_queueVars /\ ForwardStep
      /\ QueueInv' /\ CountersBounded'
      /\ RunsInv' /\ InspectionInv' /\ ForeignInv'
      /\ \A q \in Runs : Active(q)' => Active(q) /\ Token(q)' = Token(q) /\ RunEvidence(q)'
  BY <1>1, <1>2, <1>5, <1>7, <1>8, RunMoves
<1>10. HostedTypeOK' /\ TokensInv' /\ PendingInv' /\ EvidenceInv' /\ ReleasedInv'
  BY <1>1, <1>5, <1>9, CallsSame
<1>11. row = tasks[t] /\ LeaseLive(t)
  <2>1. check_time(r)
    <3>1. Script[i - 1] = "fence" /\ i > 1
      BY <1>3 DEF Script
    <3>. QED
      BY <1>2, <3>1 DEF ApiGet, Fenced
  <2>2. PICK e \in Nat : e = row.lease_expires_at
    BY DEF Row
  <2>3. e > now
    <3>1. e + Slack - now > Margin /\ now \in Nat
      BY <1>2, <2>1, <2>2 DEF check_time, HostedInv, QueueInv, QueueTypeOK
    <3>. QED
      BY <3>1, RunAssumption
  <2>4. row = tasks[t] /\ row.lease_owner = WorkerId[r]
    BY <1>2, <1>6, <2>2, <2>3 DEF Holds
  <2>. QED
    BY <2>2, <2>3, <2>4, RunAssumption, QueueAssumption DEF LeaseLive
<1>12. PICK a : /\ reads' = reads \cup {a}
                /\ a = [task |-> t, worker |-> WorkerId[r], generation |-> 1,
                        live |-> LeaseLive(t) /\ tasks[t].lease_generation = 1]
  BY <1>2, <1>6 DEF ApiGet
<1>13. a.task = t /\ a.worker = WorkerId[r] /\ a.generation = 1 /\ a.live
  BY <1>6, <1>11, <1>12
<1>14. ReadsInv'
  <2>1. tasks' = tasks /\ LeaseLog' = LeaseLog
    BY <1>1 DEF queueVars, LeaseLog
  <2>2. \E l \in LeaseLog : l.task = t /\ l.generation = 1 /\ l.worker = WorkerId[r]
    BY <1>2, <1>6 DEF Holds
  <2>3. tasks[t].lease_generation = 1 /\ ProgressRank(tasks[t].state) >= 1
    BY <1>6, <1>11
  <2>. QED
    BY <1>6, <1>12, <1>13, <2>1, <2>2, <2>3 DEF HostedInv, ReadsInv
<1>. QED
  BY <1>1, <1>9, <1>10, <1>14 DEF HostedInv

-----------------------------------------------------------------------------
(* Evidence *)

\* The run's call was the append of e.
Records(q, e) ==
    /\ run[q].pc = "running" /\ run'[q].pc = "running" /\ run'[q].at = run[q].at + 1
    /\ run'[q].task = run[q].task /\ run'[q].row = run[q].row
    /\ run'[q].verified = run[q].verified /\ e.revision = run[q].row.revision
    /\ \/ run[q].at = 7 /\ e.event_type = "github_observation"
       \/ run[q].at = 14 /\ e.event_type = "github_verification" /\ e.verified = run[q].verified

\* Nobody but the run that appends acts under the lease of e.
RecordedAlone(e) ==
    /\ \A c \in pending' : c.op # "claim" => CallToken(c) # <<e.task, e.generation>>
    /\ \A l \in LeaseLog : l.event_type = "lease_released" =>
          <<l.task, l.generation>> # <<e.task, e.generation>>
    /\ \A q \in Runs : Active(q)' =>
          /\ Active(q)
          /\ \/ run'[q] = run[q] /\ Token(q) # <<e.task, e.generation>>
             \/ Token(q) = <<e.task, e.generation>> /\ Records(q, e)

\* What a run knows of the evidence once it has appended its own.
LEMMA RecordEvidence ==
    ASSUME HostedInv, NEW q \in Runs, NEW e \in EvidenceRecord, events' = events \cup {e},
           Active(q), Token(q) = <<e.task, e.generation>>, Records(q, e)
    PROVE  RunEvidence(q)'
<1>1. PICK t \in TaskIds, g \in Nat, n \in Nat, b \in BOOLEAN, i \in {7, 14} :
        /\ t = run[q].task /\ g = run[q].row.lease_generation /\ n = run[q].row.revision
        /\ b = run[q].verified /\ i = run[q].at
  BY DEF HostedInv, HostedTypeOK, RunState, Row, RunsInv, Holds, Snap, Records
<1>2. /\ e.task = t /\ e.generation = g /\ e.revision = n
      /\ \/ i = 7 /\ e.event_type = "github_observation"
         \/ i = 14 /\ e.event_type = "github_verification" /\ e.verified = b
  BY <1>1 DEF Token, Records
<1>3. /\ run'[q].pc = "running" /\ run'[q].at = i + 1 /\ run'[q].task = t
      /\ run'[q].row.lease_generation = g /\ run'[q].row.revision = n /\ run'[q].verified = b
  BY <1>1 DEF Records
<1>4. /\ Verified(t, g) = {}
      /\ i = 14 => \E o \in Observed(t, g) : o.revision < n
  BY <1>1 DEF HostedInv, EvidenceInv, RunEvidence, Records
<1>5. CASE i = 7
  <2>1. Verified(t, g)' = {}
    BY <1>2, <1>4, <1>5 DEF Verified
  <2>2. \E o \in Observed(t, g)' : o.revision <= n
    BY <1>1, <1>2, <1>5 DEF Observed
  <2>. QED
    BY <1>3, <1>5, <2>1, <2>2 DEF RunEvidence, Verified, Observed
<1>6. CASE i = 14
  <2>1. Verified(t, g)' = {e}
    BY <1>2, <1>4, <1>6 DEF Verified
  <2>2. PICK o \in Observed(t, g)' : o.revision < n
    BY <1>4, <1>6 DEF Observed
  <2>3. o.revision <= n
    <3>1. o \in EvidenceRecord
      BY <1>2, <1>6 DEF Observed, HostedInv, HostedTypeOK, EvidenceTypes
    <3>. QED
      BY <2>2, <3>1 DEF EvidenceRecord
  <2>4. Backed(t, g, n, b)'
    BY <1>1, <1>2, <1>6, <2>1, <2>2 DEF Backed
  <2>. QED
    BY <1>3, <1>6, <2>2, <2>3, <2>4 DEF RunEvidence, Verified, Observed, Backed
<1>. QED
  BY <1>5, <1>6

\* An append, by the run that goes on with it or by nobody any more.
LEMMA AppendInv ==
    ASSUME HostedInv, NEW e \in EvidenceRecord, agent_append_event(e.task, e),
           e.generation \in 1..tasks[e.task].lease_generation,
           e.revision \in 1..tasks[e.task].revision,
           run' \in [Runs -> RunState], pending' \subseteq pending, reads' = reads, insp' = insp,
           RecordedAlone(e)
    PROVE  HostedInv' /\ ForwardStep /\ AppendActivity
<1>1. tasks' = tasks /\ now' = now /\ events' = events \cup {e}
  BY DEF agent_append_event
<1>2. PICK t \in TaskIds, g \in Nat, n \in Nat : t = e.task /\ g = e.generation /\ n = e.revision
  BY DEF EvidenceRecord
<1>3. AppendActivity
  <2>1. PICK i \in Nat, j \in Nat : i = tasks[t].lease_generation /\ j = tasks[t].revision
    BY DEF HostedInv, QueueInv, QueueTypeOK, Row
  <2>2. i <= j /\ j <= MaxRevision
    BY <2>1 DEF HostedInv, CountersBounded
  <2>3. g \in 1..MaxRevision /\ n \in 1..MaxRevision
    BY <1>2, <2>1, <2>2, QueueAssumption
  <2>4. e \in [task : TaskIds, event_type : EvidenceTypes, verified : BOOLEAN,
               generation : 1..MaxRevision, revision : 1..MaxRevision]
    BY <1>2, <2>3 DEF EvidenceRecord
  <2>. QED
    BY <1>2, <2>4, EvidenceAssumption DEF AppendActivity
<1>4. [QueueNext]_queueVars
  BY <1>3 DEF QueueNext
<1>5. ForwardStep
  BY <1>1, RankTyped DEF ForwardStep
<1>6. QueueInv' /\ CountersBounded'
  BY <1>4, TablesTyped
<1>7. e.event_type \in EvidenceTypes /\ LeaseLog' = LeaseLog
  <2>1. e.event_type \in EvidenceTypes
    BY DEF EvidenceRecord
  <2>. QED
    BY <1>1, <2>1 DEF LeaseLog, LeaseEvents, EvidenceTypes
<1>8. HostedTypeOK'
  BY <1>1 DEF HostedInv, HostedTypeOK
<1>9. \A q \in Runs : Active(q)' => Active(q) /\ Token(q)' = Token(q)
  BY DEF Token, Records, RecordedAlone
<1>10. RunsInv'
  <2>. SUFFICES ASSUME NEW q \in Runs, Active(q)'
                PROVE  /\ Holds(q)'
                       /\ run'[q].pc = "claimed" =>
                             run'[q].row.lease_generation = run'[q].row.attempt_count
                       /\ run'[q].pc = "running" => OnScript(q)'
    BY DEF RunsInv, Active
  <2>1. Active(q) /\ run'[q].task = run[q].task /\ run'[q].row = run[q].row
    BY DEF RecordedAlone, Records
  <2>2. Holds(q)'
    BY <1>1, <1>4, <1>7, <2>1, HoldsKeeps DEF EvidenceTypes
  <2>3. CASE run'[q] = run[q]
    <3>1. OnScript(q)' <=> OnScript(q)
      BY <2>3 DEF OnScript
    <3>. QED
      BY <2>1, <2>2, <2>3, <3>1 DEF HostedInv, RunsInv
  <2>4. CASE Records(q, e)
    <3>1. OnScript(q) /\ run[q].at \in {7, 14} /\ run'[q].at = run[q].at + 1
      BY <2>4 DEF HostedInv, RunsInv, Records
    <3>2. OnScript(q)'
      BY <2>1, <3>1 DEF OnScript
    <3>. QED
      BY <2>2, <2>4, <3>2 DEF Records
  <2>. QED
    BY <2>3, <2>4 DEF RecordedAlone
<1>11. TokensInv'
  BY <1>9 DEF HostedInv, TokensInv
<1>12. PendingInv' /\ InspectionInv' /\ ReadsInv'
  BY <1>4, <1>5, PendingKeeps, InspectionKeeps, ReadsKeep
<1>13. ForeignInv'
  BY <1>7 DEF HostedInv, ForeignInv
<1>14. ASSUME NEW u, NEW h, <<u, h>> # <<t, g>>
       PROVE  /\ Observed(u, h)' = Observed(u, h) /\ Verified(u, h)' = Verified(u, h)
              /\ \A m, b : Backed(u, h, m, b)' <=> Backed(u, h, m, b)
  <2>1. Observed(u, h)' = Observed(u, h) /\ Verified(u, h)' = Verified(u, h)
    BY <1>1, <1>2, <1>14 DEF Observed, Verified
  <2>. QED
    BY <2>1 DEF Backed
<1>15. EvidenceInv'
  <2>1. \A x \in events' : x.event_type \in EvidenceTypes => ~Ahead(tasks'[x.task], x)
    <3>1. ~Ahead(tasks'[t], e)
      <4>1. PICK i \in Nat, j \in Nat : i = tasks[t].lease_generation /\ j = tasks[t].revision
        BY DEF HostedInv, QueueInv, QueueTypeOK, Row
      <4>. QED
        BY <1>1, <1>2, <4>1 DEF Ahead
    <3>. QED
      BY <1>1, <1>2, <3>1 DEF HostedInv, EvidenceInv
  <2>2. ASSUME NEW q \in Runs, Active(q)' PROVE RunEvidence(q)'
    <3>1. CASE run'[q] = run[q] /\ Token(q) # <<t, g>>
      <4>1. PICK u, h : u = run[q].task /\ h = run[q].row.lease_generation
        OBVIOUS
      <4>2. /\ Observed(u, h)' = Observed(u, h) /\ Verified(u, h)' = Verified(u, h)
            /\ \A m, b : Backed(u, h, m, b)' <=> Backed(u, h, m, b)
        BY <1>14, <3>1, <4>1 DEF Token
      <4>3. RunEvidence(q)' <=> RunEvidence(q)
        BY <3>1, <4>1, <4>2 DEF RunEvidence
      <4>. QED
        BY <1>9, <2>2, <4>3 DEF HostedInv, EvidenceInv
    <3>2. CASE Token(q) = <<e.task, e.generation>> /\ Records(q, e)
      BY <1>1, <1>9, <2>2, <3>2, RecordEvidence
    <3>. QED
      BY <1>2, <2>2, <3>1, <3>2 DEF RecordedAlone
  <2>3. ASSUME NEW c \in pending', c.op = "save", c.status = "completed"
        PROVE  Backed(c.task, c.generation, c.revision, TRUE)'
    <3>1. <<c.task, c.generation>> # <<t, g>>
      BY <1>2, <2>3 DEF RecordedAlone, CallToken
    <3>2. Backed(c.task, c.generation, c.revision, TRUE)
      BY <2>3 DEF HostedInv, EvidenceInv
    <3>. QED
      BY <1>14, <3>1, <3>2
  <2>. QED
    BY <2>1, <2>2, <2>3 DEF EvidenceInv
<1>16. ReleasedInv'
  <2>. SUFFICES ASSUME NEW l \in LeaseLog, l.event_type = "lease_released"
                PROVE  /\ \A q \in Runs : Active(q)' => Token(q)' # <<l.task, l.generation>>
                       /\ \A c \in pending' : c.op = "append" =>
                             CallToken(c) # <<l.task, l.generation>>
                       /\ l.status = "completed" =>
                             Backed(l.task, l.generation, l.revision - 1, TRUE)'
    BY <1>7 DEF ReleasedInv
  <2>1. <<l.task, l.generation>> # <<t, g>>
    BY <1>2 DEF RecordedAlone
  <2>2. l.status = "completed" => Backed(l.task, l.generation, l.revision - 1, TRUE)'
    BY <1>14, <2>1 DEF HostedInv, ReleasedInv
  <2>. QED
    BY <1>9, <2>2 DEF HostedInv, ReleasedInv
<1>. QED
  BY <1>3, <1>5, <1>6, <1>8, <1>10, <1>11, <1>12, <1>13, <1>15, <1>16 DEF HostedInv

\* A call under the lease of run r that may arrive at any time.
CallUnder(r, c) ==
    /\ c \in SaveCalls \cup AppendCalls /\ c.op \in {"save", "append"}
    /\ CallToken(c) = Token(r)
    /\ c.op = "save" =>
          /\ Exists(c.task)
          /\ c.generation \in 1..tasks[c.task].lease_generation
          /\ c.revision <= tasks[c.task].revision
          /\ c.revision = tasks[c.task].revision =>
                ProgressRank(c.state) >= ProgressRank(tasks[c.task].state)
          /\ c.status # "blocked" => \E q \in Runs : c.task = Expected[q]
          /\ c.status = "completed" => Backed(c.task, c.generation, c.revision, TRUE)
    /\ c.op = "append" =>
          /\ Exists(c.event.task)
          /\ c.event.generation \in 1..tasks[c.event.task].lease_generation
          /\ c.event.revision \in 1..tasks[c.event.task].revision

\* The call an active run waits for is one under its own lease.
LEMMA OwnCall ==
    ASSUME HostedInv, NEW r \in Runs, Active(r), NEW c, c = NextCall(r),
           run[r].pc = "running" => run[r].at \notin {4, 11}
    PROVE  CallUnder(r, c)
<1>1. PICK t \in TaskIds, row \in Row, g \in Nat, n \in Nat, b \in BOOLEAN :
        /\ t = run[r].task /\ row = run[r].row /\ b = run[r].verified
        /\ g = row.lease_generation /\ n = row.revision
  BY DEF HostedInv, HostedTypeOK, RunState, Row, RunsInv, Holds, Snap
<1>2. /\ Exists(t) /\ g >= 1 /\ n >= 1
      /\ g <= tasks[t].lease_generation /\ n <= tasks[t].revision
      /\ n = tasks[t].revision => row = tasks[t]
  BY <1>1 DEF HostedInv, RunsInv, Holds, Snap
<1>3. PICK i \in Nat, j \in Nat : i = tasks[t].lease_generation /\ j = tasks[t].revision
  BY DEF HostedInv, QueueInv, QueueTypeOK, Row
<1>4. g \in 1..tasks[t].lease_generation /\ n \in 1..tasks[t].revision
  BY <1>2, <1>3
<1>5. WorkerId[r] \in Workers
  BY RunAssumption
<1>6. ASSUME NEW s \in LeasedSaveStatuses, NEW p \in Progress, c = SaveCall(r, s, p),
             ProgressRank(p) >= ProgressRank(row.state),
             s # "blocked" => run[r].pc = "running",
             s = "completed" => Backed(t, g, n, TRUE)
      PROVE  /\ c \in SaveCalls /\ c.op = "save" /\ CallToken(c) = Token(r)
             /\ Exists(c.task)
             /\ c.generation \in 1..tasks[c.task].lease_generation
             /\ c.revision <= tasks[c.task].revision
             /\ c.revision = tasks[c.task].revision =>
                   ProgressRank(c.state) >= ProgressRank(tasks[c.task].state)
             /\ c.status # "blocked" => \E q \in Runs : c.task = Expected[q]
             /\ c.status = "completed" => Backed(c.task, c.generation, c.revision, TRUE)
  <2>1. c = [op |-> "save", worker |-> WorkerId[r], task |-> t, revision |-> n,
             generation |-> g, status |-> s, state |-> p]
    BY <1>1, <1>6 DEF SaveCall
  <2>2. /\ c.op = "save" /\ c.task = t /\ c.revision = n /\ c.generation = g
        /\ c.status = s /\ c.state = p /\ c \in SaveCalls
    BY <1>5, <2>1 DEF SaveCalls
  <2>3. CallToken(c) = Token(r)
    BY <1>1, <2>2 DEF CallToken, Token
  <2>4. s # "blocked" => \E q \in Runs : t = Expected[q]
    BY <1>1, <1>6 DEF HostedInv, RunsInv, OnScript
  <2>5. n = tasks[t].revision => ProgressRank(p) >= ProgressRank(tasks[t].state)
    BY <1>2, <1>6
  <2>. QED
    BY <1>2, <1>4, <1>6, <2>2, <2>3, <2>4, <2>5
<1>7. ASSUME NEW type \in EvidenceTypes, NEW v \in BOOLEAN, c = AppendCall(Evidence(type, r, v))
      PROVE  /\ c \in AppendCalls /\ c.op = "append" /\ CallToken(c) = Token(r)
             /\ Exists(c.event.task)
             /\ c.event.generation \in 1..tasks[c.event.task].lease_generation
             /\ c.event.revision \in 1..tasks[c.event.task].revision
  <2>1. PICK e : e = [task |-> t, event_type |-> type, verified |-> v, generation |-> g,
                      revision |-> n]
    OBVIOUS
  <2>2. c = [op |-> "append", event |-> e]
    BY <1>1, <1>7, <2>1 DEF AppendCall, Evidence
  <2>3. e \in EvidenceRecord /\ e.task = t /\ e.generation = g /\ e.revision = n
    BY <2>1 DEF EvidenceRecord
  <2>4. c.op = "append" /\ c.event = e /\ c \in AppendCalls
    BY <2>2, <2>3 DEF AppendCalls
  <2>5. CallToken(c) = Token(r)
    BY <1>1, <2>3, <2>4 DEF CallToken, Token
  <2>. QED
    BY <1>2, <1>4, <2>3, <2>4, <2>5
<1>8. /\ {"blocked", "completed", "running"} \subseteq LeasedSaveStatuses
      /\ row.state \in Progress /\ ProgressRank(row.state) >= ProgressRank(row.state)
      /\ {"github_observation", "github_verification"} \subseteq EvidenceTypes
  BY RankTyped DEF LeasedSaveStatuses, Row, EvidenceTypes
<1>9. CASE run[r].pc = "claimed"
  <2>1. c = SaveCall(r, "blocked", row.state)
    BY <1>1, <1>9, CallOf
  <2>. QED
    BY <1>6, <1>8, <2>1 DEF CallUnder
<1>10. CASE run[r].pc = "running"
  <2>1. PICK k \in 1..17 : k = run[r].at
    BY <1>10, CallOf
  <2>2. CASE k = 7
    <3>1. c = AppendCall(Evidence("github_observation", r, TRUE))
      BY <1>10, <2>1, <2>2, CallOf
    <3>. QED
      BY <1>7, <1>8, <3>1 DEF CallUnder
  <2>3. CASE k = 14
    <3>1. c = AppendCall(Evidence("github_verification", r, b))
      BY <1>1, <1>10, <2>1, <2>3, CallOf
    <3>. QED
      BY <1>7, <1>8, <3>1 DEF CallUnder
  <2>4. CASE k = 16 /\ ~b
    <3>1. c = SaveCall(r, "blocked", row.state)
      BY <1>1, <1>10, <2>1, <2>4, CallOf
    <3>. QED
      BY <1>6, <1>8, <3>1 DEF CallUnder
  <2>5. CASE k = 17
    <3>1. c = SaveCall(r, "completed", row.state)
      BY <1>1, <1>10, <2>1, <2>5, CallOf
    <3>2. RunEvidence(r)
      BY DEF HostedInv, EvidenceInv
    <3>3. b = TRUE /\ Backed(t, g, n, b)
      BY <1>1, <1>10, <2>1, <2>5, <3>2 DEF RunEvidence
    <3>. QED
      BY <1>6, <1>8, <1>10, <3>1, <3>3 DEF CallUnder
  <2>6. CASE k \notin {7, 14, 17} /\ ~(k = 16 /\ ~b)
    <3>1. c = SaveCall(r, "running", SavedState(r))
      BY <1>1, <1>10, <2>1, <2>6, CallOf
    <3>2. SavedState(r) \in Progress /\ ProgressRank(SavedState(r)) >= ProgressRank(row.state)
      BY <1>1, <1>10, SavedForward
    <3>. QED
      BY <1>6, <1>8, <1>10, <3>1, <3>2 DEF CallUnder
  <2>. QED
    BY <2>2, <2>3, <2>4, <2>5, <2>6
<1>. QED
  BY <1>9, <1>10 DEF Active

\* The run appends its evidence.
LEMMA RecordInv ==
    ASSUME HostedInv, NEW r \in Runs, Record(r)
    PROVE  HostedInv' /\ ForwardStep /\ AppendActivity
<1>1. /\ Active(r) /\ run[r].pc = "running" /\ run[r] \in RunState /\ run \in [Runs -> RunState]
      /\ pending' = pending /\ reads' = reads /\ insp' = insp
  BY DEF Record, Running, Active, HostedInv, HostedTypeOK
<1>2. PICK i \in 1..17, b \in BOOLEAN : i = run[r].at /\ b = run[r].verified
  BY <1>1, CallOf DEF RunState
<1>3. i \in {7, 14}
  <2>1. Script[i] \in {"observe", "verify"}
    BY <1>2 DEF Record, Running
  <2>. QED
    BY <2>1, ScriptSteps
<1>4. PICK type \in EvidenceTypes, v \in BOOLEAN :
        /\ NextCall(r) = AppendCall(Evidence(type, r, v))
        /\ \/ i = 7 /\ type = "github_observation"
           \/ i = 14 /\ type = "github_verification" /\ v = b
  <2>1. {"github_observation", "github_verification"} \subseteq EvidenceTypes
    BY DEF EvidenceTypes
  <2>2. CASE i = 7
    BY <1>1, <1>2, <2>1, <2>2, CallOf
  <2>3. CASE i = 14
    BY <1>1, <1>2, <2>1, <2>3, CallOf
  <2>. QED
    BY <1>3, <2>2, <2>3
<1>5. PICK e, c : e = Evidence(type, r, v) /\ c = NextCall(r)
  OBVIOUS
<1>6. c = [op |-> "append", event |-> e]
  BY <1>4, <1>5 DEF AppendCall
<1>7. c.op = "append" /\ c.event = e
  BY <1>6
<1>8. /\ e.task = run[r].task /\ e.event_type = type /\ e.verified = v
      /\ e.generation = run[r].row.lease_generation /\ e.revision = run[r].row.revision
  BY <1>5 DEF Evidence
<1>9. /\ c \in SaveCalls \cup AppendCalls /\ CallToken(c) = Token(r)
      /\ c.event.generation \in 1..tasks[c.event.task].lease_generation
      /\ c.event.revision \in 1..tasks[c.event.task].revision
  <2>1. CallUnder(r, c)
    BY <1>1, <1>2, <1>3, <1>5, OwnCall
  <2>. QED
    BY <1>7, <2>1 DEF CallUnder
<1>10. e \in EvidenceRecord
  BY <1>7, <1>9 DEF SaveCalls, AppendCalls
<1>11. agent_append_event(e.task, e)
  BY <1>5, <1>7 DEF Record, Execute
<1>12. /\ run' \in [Runs -> RunState] /\ \A q \in Runs \ {r} : run'[q] = run[q]
       /\ run'[r].pc = "running" /\ run'[r].at = i + 1 /\ run'[r].task = run[r].task
       /\ run'[r].row = run[r].row /\ run'[r].verified = run[r].verified
  <2>1. PICK x : x = [run[r] EXCEPT !.at = i + 1]
    OBVIOUS
  <2>2. run' = [run EXCEPT ![r] = x]
    BY <1>1, <1>2, <2>1 DEF Record
  <2>3. /\ x \in RunState /\ x.pc = run[r].pc /\ x.at = i + 1 /\ x.task = run[r].task
        /\ x.row = run[r].row /\ x.verified = run[r].verified
    <3>1. i + 1 \in 0..17
      BY <1>3
    <3>. QED
      BY <1>1, <2>1, <3>1 DEF RunState
  <2>. QED
    BY <1>1, <2>2, <2>3
<1>13. Records(r, e)
  BY <1>1, <1>2, <1>4, <1>8, <1>12 DEF Records
<1>14. RecordedAlone(e)
  <2>1. Token(r) = <<e.task, e.generation>>
    BY <1>8 DEF Token
  <2>2. \A q \in Runs \ {r} : /\ Active(q)' = Active(q)
                              /\ Active(q) => Token(q) # Token(r)
    BY <1>1, <1>12 DEF Active, HostedInv, TokensInv
  <2>3. \A c2 \in pending : c2.op # "claim" => CallToken(c2) # Token(r)
    BY <1>1 DEF HostedInv, TokensInv
  <2>4. \A l \in LeaseLog : l.event_type = "lease_released" =>
           <<l.task, l.generation>> # Token(r)
    BY <1>1 DEF HostedInv, ReleasedInv
  <2>. QED
    BY <1>1, <1>12, <1>13, <2>1, <2>2, <2>3, <2>4 DEF RecordedAlone
<1>. QED
  BY <1>1, <1>7, <1>9, <1>10, <1>11, <1>12, <1>14, AppendInv

-----------------------------------------------------------------------------
(* Failures and late calls *)

\* The run is over; the call it was waiting for stays behind.
LEMMA InterruptInv ==
    ASSUME HostedInv, NEW r \in Runs, Interrupt(r)
    PROVE  HostedInv' /\ ForwardStep /\ UNCHANGED queueVars
<1>1. /\ run \in [Runs -> RunState] /\ run[r] \in RunState
      /\ UNCHANGED queueVars /\ reads' = reads /\ insp' = insp
  BY DEF Interrupt, HostedInv, HostedTypeOK
<1>2. /\ run' \in [Runs -> RunState] /\ \A q \in Runs \ {r} : run'[q] = run[q]
      /\ run'[r].pc = "ended" /\ run'[r].task = run[r].task /\ run'[r].row = run[r].row
  BY <1>1 DEF Interrupt, RunState
<1>3. ~Active(r)'
  BY <1>2 DEF Active
<1>4. /\ [QueueNext]_queueVars /\ ForwardStep
      /\ QueueInv' /\ CountersBounded'
      /\ RunsInv' /\ InspectionInv' /\ ForeignInv'
      /\ \A q \in Runs : Active(q)' => Active(q) /\ Token(q)' = Token(q) /\ RunEvidence(q)'
  BY <1>1, <1>2, <1>3, RunMoves
<1>5. ReadsInv'
  BY <1>1, <1>4, ReadsKeep
<1>6. CASE pending' = pending
  <2>1. HostedTypeOK' /\ TokensInv' /\ PendingInv' /\ EvidenceInv' /\ ReleasedInv'
    BY <1>1, <1>2, <1>4, <1>6, CallsSame
  <2>. QED
    BY <1>1, <1>4, <1>5, <2>1 DEF HostedInv
<1>7. CASE pending' # pending
  <2>1. PICK c : c = NextCall(r) /\ pending' = pending \cup {c}
    BY <1>7 DEF Interrupt
  <2>2. Calling(r)
    BY <1>7 DEF Interrupt
  <2>3. tasks' = tasks /\ events' = events /\ LeaseLog' = LeaseLog
    BY <1>1 DEF queueVars, LeaseLog
  <2>4. \A x, y, z, b : Backed(x, y, z, b)' <=> Backed(x, y, z, b)
    BY <2>3 DEF Backed, Observed, Verified
  <2>5. CASE run[r].pc = "idle"
    <3>1. c \in ClaimCalls /\ c.op = "claim"
      <4>1. c = [op |-> "claim", worker |-> WorkerId[r], tasks |-> Claims[r]]
        BY <2>1, <2>5, CallOf DEF ClaimCall
      <4>. QED
        BY <4>1, RunAssumption DEF ClaimCalls
    <3>2. HostedTypeOK'
      BY <1>1, <1>2, <2>1, <2>3, <3>1 DEF HostedInv, HostedTypeOK
    <3>3. TokensInv'
      BY <1>4, <2>1, <3>1 DEF HostedInv, TokensInv
    <3>4. PendingInv'
      BY <2>1, <2>3, <3>1 DEF HostedInv, PendingInv, Exists
    <3>5. EvidenceInv'
      BY <1>4, <2>1, <2>3, <2>4, <3>1 DEF HostedInv, EvidenceInv
    <3>6. ReleasedInv'
      BY <1>4, <2>1, <2>3, <2>4, <3>1 DEF HostedInv, ReleasedInv
    <3>. QED
      BY <1>1, <1>4, <1>5, <3>2, <3>3, <3>4, <3>5, <3>6 DEF HostedInv
  <2>6. CASE Active(r)
    <3>1. run[r].pc = "running" => run[r].at \notin {4, 11}
      <4>. SUFFICES ASSUME run[r].pc = "running" PROVE run[r].at \notin {4, 11}
        OBVIOUS
      <4>1. PICK i \in 1..17 : i = run[r].at
        BY CallOf
      <4>2. Script[i] # "get_main" /\ Script[i] # "get_ci"
        BY <2>2, <4>1 DEF Calling, Running
      <4>. QED
        BY <4>1, <4>2, ScriptSteps
    <3>2. CallUnder(r, c)
      BY <2>1, <2>6, <3>1, OwnCall
    <3>3. HostedTypeOK'
      <4>1. c \in SaveCalls \cup AppendCalls
        BY <3>2 DEF CallUnder
      <4>. QED
        BY <1>1, <1>2, <2>1, <2>3, <4>1 DEF HostedInv, HostedTypeOK
    <3>4. CallToken(c) = Token(r) /\ c.op # "claim"
      BY <3>2 DEF CallUnder
    <3>5. TokensInv'
      <4>1. \A q \in Runs : Active(q)' => CallToken(c) # Token(q)
        BY <1>3, <1>4, <2>6, <3>4 DEF HostedInv, TokensInv
      <4>2. \A d \in pending : d.op # "claim" => CallToken(d) # CallToken(c)
        BY <2>6, <3>4 DEF HostedInv, TokensInv
      <4>. QED
        BY <1>4, <2>1, <4>1, <4>2 DEF HostedInv, TokensInv
    <3>6. PendingInv'
      BY <2>1, <2>3, <3>2 DEF CallUnder, HostedInv, PendingInv, Exists
    <3>7. EvidenceInv'
      <4>1. c.op = "save" /\ c.status = "completed" =>
               Backed(c.task, c.generation, c.revision, TRUE)
        BY <3>2 DEF CallUnder
      <4>. QED
        BY <1>4, <2>1, <2>3, <2>4, <4>1 DEF HostedInv, EvidenceInv
    <3>8. ReleasedInv'
      <4>1. \A e \in LeaseLog : e.event_type = "lease_released" =>
               CallToken(c) # <<e.task, e.generation>>
        BY <2>6, <3>4 DEF HostedInv, ReleasedInv
      <4>. QED
        BY <1>4, <2>1, <2>3, <2>4, <4>1 DEF HostedInv, ReleasedInv
    <3>. QED
      BY <1>1, <1>4, <1>5, <3>3, <3>5, <3>6, <3>7, <3>8 DEF HostedInv
  <2>7. run[r].pc = "idle" \/ Active(r)
    BY <1>1 DEF Interrupt, Active, RunState
  <2>. QED
    BY <1>1, <1>4, <2>5, <2>6, <2>7
<1>. QED
  BY <1>1, <1>4, <1>6, <1>7

\* A call arrives that nobody waits for any more.
LEMMA DeliverInv ==
    ASSUME HostedInv, NEW c \in pending, Deliver(c)
    PROVE  HostedInv' /\ ForwardStep /\ QueueNext
<1>1. /\ run' = run /\ reads' = reads /\ insp' = insp /\ pending' = pending \ {c}
      /\ pending' \subseteq pending /\ Execute(c)
  BY DEF Deliver
<1>2. /\ run' \in [Runs -> RunState]
      /\ \A q \in Runs : Active(q)' = Active(q) /\ Token(q)' = Token(q)
  BY <1>1 DEF HostedInv, HostedTypeOK, Active, Token
<1>3. CASE c.op = "claim"
  <2>1. c \in ClaimCalls
    BY <1>3 DEF HostedInv, HostedTypeOK, SaveCalls, AppendCalls
  <2>2. PICK t \in c.tasks, v \in ClockReadings : agent_claim_task(t, c.worker, LeaseLength, v)
    BY <1>1, <1>3 DEF Execute
  <2>3. t \in TaskIds /\ c.worker \in Workers
    BY <2>1 DEF ClaimCalls
  <2>4. ClaimDone(t, c.worker)
    BY <2>2, <2>3, ClaimEffect
  <2>5. /\ Claim /\ ForwardStep /\ [QueueNext]_queueVars /\ QueueNext
    BY <2>4 DEF ClaimDone, QueueNext
  <2>6. \A e \in events' \ events :
           e.event_type = "checkpoint_saved" \/ e.event_type = "lease_claimed"
    BY <2>4 DEF ClaimDone
  <2>7. InspectionInv'
    BY <1>1, <2>5, InspectionKeeps
  <2>8. insp' \in [pc : InspectionPcs, task : TaskIds \cup {NoTask}, row : Row,
                   first : {insp'.first}]
    BY <1>1 DEF HostedInv, HostedTypeOK
  <2>. QED
    BY <1>1, <2>5, <2>6, <2>7, <2>8, OutsideStep
<1>4. CASE c.op = "save"
  <2>1. c \in SaveCalls
    BY <1>4 DEF HostedInv, HostedTypeOK, ClaimCalls, AppendCalls
  <2>2. PICK t \in TaskIds, n \in Nat, w \in Workers, g \in Nat, s \in LeasedSaveStatuses,
             p \in Progress :
          /\ t = c.task /\ n = c.revision /\ w = c.worker /\ g = c.generation
          /\ s = c.status /\ p = c.state
    BY <2>1 DEF SaveCalls
  <2>3. PICK v \in ClockReadings :
          agent_save_leased_checkpoint(t, n, w, g, s, p, LeaseLength, v)
    BY <1>1, <1>4, <2>2 DEF Execute
  <2>4. tasks[t].revision = n
    BY <2>3 DEF agent_save_leased_checkpoint
  <2>5. /\ ProgressRank(p) >= ProgressRank(tasks[t].state)
        /\ s # "blocked" => \E r \in Runs : t = Expected[r]
    BY <1>4, <2>2, <2>4 DEF HostedInv, PendingInv
  <2>6. s = "completed" => Backed(t, g, n, TRUE)
    BY <1>4, <2>2 DEF HostedInv, EvidenceInv
  <2>7. SavedAlone(t, g, w, s)
    <3>1. CallToken(c) = <<t, g>>
      BY <1>4, <2>2 DEF CallToken
    <3>2. \A d \in pending' : d.op # "claim" => CallToken(d) # <<t, g>>
      BY <1>1, <1>4, <3>1 DEF HostedInv, TokensInv
    <3>3. \A q \in Runs : Active(q) => Token(q) # <<t, g>>
      BY <1>4, <3>1 DEF HostedInv, TokensInv
    <3>. QED
      BY <1>1, <1>2, <3>2, <3>3 DEF SavedAlone
  <2>8. HostedInv' /\ ForwardStep /\ SaveLeased
    BY <1>1, <1>2, <2>3, <2>5, <2>6, <2>7, SaveInv
  <2>. QED
    BY <2>8 DEF QueueNext
<1>5. CASE c.op = "append"
  <2>1. c \in AppendCalls
    BY <1>5 DEF HostedInv, HostedTypeOK, ClaimCalls, SaveCalls
  <2>2. PICK e \in EvidenceRecord : e = c.event
    BY <2>1 DEF AppendCalls
  <2>3. agent_append_event(e.task, e)
    BY <1>1, <1>5, <2>2 DEF Execute
  <2>4. /\ e.generation \in 1..tasks[e.task].lease_generation
        /\ e.revision \in 1..tasks[e.task].revision
    BY <1>5, <2>2 DEF HostedInv, PendingInv
  <2>5. RecordedAlone(e)
    <3>1. CallToken(c) = <<e.task, e.generation>>
      BY <1>5, <2>2 DEF CallToken
    <3>2. \A d \in pending' : d.op # "claim" => CallToken(d) # <<e.task, e.generation>>
      BY <1>1, <1>5, <3>1 DEF HostedInv, TokensInv
    <3>3. \A q \in Runs : Active(q) => Token(q) # <<e.task, e.generation>>
      BY <1>5, <3>1 DEF HostedInv, TokensInv
    <3>4. \A l \in LeaseLog : l.event_type = "lease_released" =>
             <<l.task, l.generation>> # <<e.task, e.generation>>
      BY <1>5, <3>1 DEF HostedInv, ReleasedInv
    <3>. QED
      BY <1>1, <1>2, <3>2, <3>3, <3>4 DEF RecordedAlone
  <2>6. HostedInv' /\ ForwardStep /\ AppendActivity
    BY <1>1, <1>2, <2>3, <2>4, <2>5, AppendInv
  <2>. QED
    BY <2>6 DEF QueueNext
<1>. QED
  BY <1>3, <1>4, <1>5 DEF HostedInv, HostedTypeOK, ClaimCalls, SaveCalls, AppendCalls

-----------------------------------------------------------------------------
(* The owner, the clock and the inspector *)

\* Where the row is nobody's, anything may be saved.
LEMMA OwnerInv ==
    ASSUME HostedInv, NEW t \in TaskIds,
           \/ OwnerCreate(t)
           \/ \E s \in OwnerStatuses, p \in OwnerStates : OwnerSave(t, s, p)
    PROVE  HostedInv' /\ ForwardStep /\ QueueNext
<1>1. run' = run /\ pending' = pending /\ reads' = reads /\ insp' = insp
  BY DEF OwnerCreate, OwnerSave, runVars
<1>2. /\ QueueNext /\ tasks[t].lease_owner = NoWorker
      /\ \A u \in TaskIds \ {t} : tasks'[u] = tasks[u]
      /\ \A e \in events' \ events : e.event_type = "checkpoint_saved"
  <2>1. CASE OwnerCreate(t)
    <3>1. agent_create_checkpoint(t)
      BY <2>1 DEF OwnerCreate
    <3>2. QueueNext
      BY <3>1 DEF QueueNext, Create
    <3>3. tasks[t].lease_owner = NoWorker
      BY <3>1 DEF agent_create_checkpoint, HostedInv, QueueInv, AbsentUntouched
    <3>4. /\ \A u \in TaskIds \ {t} : tasks'[u] = tasks[u]
          /\ \A e \in events' \ events : e.event_type = "checkpoint_saved"
      BY <3>1 DEF agent_create_checkpoint, CheckpointEvent, HostedInv, QueueInv, QueueTypeOK
    <3>. QED
      BY <3>2, <3>3, <3>4
  <2>2. ASSUME NEW s \in OwnerStatuses, NEW p \in OwnerStates, OwnerSave(t, s, p)
        PROVE  /\ QueueNext /\ tasks[t].lease_owner = NoWorker
               /\ \A u \in TaskIds \ {t} : tasks'[u] = tasks[u]
               /\ \A e \in events' \ events : e.event_type = "checkpoint_saved"
    <3>1. agent_save_checkpoint(t, tasks[t].revision, s, p)
      BY <2>2 DEF OwnerSave
    <3>2. s \in Statuses /\ p \in Progress
      BY RunAssumption
    <3>3. QueueNext
      BY <3>1, <3>2, AcceptedSave DEF HostedInv, QueueNext
    <3>4. PICK row : tasks[t].lease_owner = NoWorker /\ WriteRow(t, row, {})
      BY <3>1 DEF agent_save_checkpoint
    <3>5. /\ \A u \in TaskIds \ {t} : tasks'[u] = tasks[u]
          /\ \A e \in events' \ events : e.event_type = "checkpoint_saved"
      BY <3>4 DEF WriteRow, CheckpointEvent, HostedInv, QueueInv, QueueTypeOK
    <3>. QED
      BY <3>3, <3>4, <3>5
  <2>. QED
    BY <2>1, <2>2
<1>3. ForwardStep
  <2>1. \A u \in TaskIds : tasks[u].lease_owner # NoWorker => tasks'[u] = tasks[u]
    BY <1>2
  <2>. QED
    BY <2>1, RankTyped DEF ForwardStep
<1>4. [QueueNext]_queueVars
  BY <1>2
<1>5. InspectionInv'
  BY <1>1, <1>4, InspectionKeeps
<1>6. insp' \in [pc : InspectionPcs, task : TaskIds \cup {NoTask}, row : Row,
                 first : {insp'.first}]
  BY <1>1 DEF HostedInv, HostedTypeOK
<1>. QED
  BY <1>1, <1>2, <1>3, <1>4, <1>5, <1>6, OutsideStep

\* Time passes.
LEMMA ClockTickInv == ASSUME HostedInv, ClockTick PROVE HostedInv' /\ ForwardStep /\ QueueNext
<1>1. /\ run' = run /\ pending' = pending /\ reads' = reads /\ insp' = insp
      /\ tasks' = tasks /\ events' = events /\ QueueNext /\ [QueueNext]_queueVars
  BY DEF ClockTick, Tick, runVars, QueueNext
<1>2. ForwardStep
  BY <1>1, RankTyped DEF ForwardStep
<1>3. InspectionInv'
  BY <1>1, InspectionKeeps
<1>4. insp' \in [pc : InspectionPcs, task : TaskIds \cup {NoTask}, row : Row,
                 first : {insp'.first}]
  BY <1>1 DEF HostedInv, HostedTypeOK
<1>5. \A e \in events' \ events : e.event_type = "checkpoint_saved"
  BY <1>1
<1>. QED
  BY <1>1, <1>2, <1>3, <1>4, <1>5, OutsideStep

\* The inspector reads, or drops its proposal.
LEMMA ReadInv ==
    ASSUME HostedInv, \/ \E t \in TaskIds : ReadRow(t)
                      \/ \E v \in InspectorClock : ReadLedger(v)
                      \/ InspectionOver
    PROVE  HostedInv' /\ ForwardStep /\ UNCHANGED queueVars
<1>1. run' = run /\ pending' = pending /\ reads' = reads /\ UNCHANGED queueVars
  BY DEF ReadRow, ReadLedger, InspectionOver
<1>2. tasks' = tasks /\ events' = events /\ [QueueNext]_queueVars
  BY <1>1 DEF queueVars
<1>3. ForwardStep
  BY <1>2, RankTyped DEF ForwardStep
<1>4. /\ InspectionInv'
      /\ insp' \in [pc : InspectionPcs, task : TaskIds \cup {NoTask}, row : Row,
                    first : {insp'.first}]
  <2>1. ASSUME NEW t \in TaskIds, ReadRow(t)
        PROVE  /\ InspectionInv'
               /\ insp' \in [pc : InspectionPcs, task : TaskIds \cup {NoTask}, row : Row,
                             first : {insp'.first}]
    <3>1. PICK row \in Row : row = tasks[t]
      BY DEF HostedInv, QueueInv, QueueTypeOK
    <3>. DEFINE pc == IF insp.pc = "idle" THEN "row1" ELSE "row2"
                f  == IF insp.row = tasks[t] THEN insp.first ELSE <<>>
    <3>2. insp' = [pc |-> pc, task |-> t, row |-> row, first |-> f]
      BY <2>1, <3>1 DEF ReadRow
    <3>. HIDE DEF f
    <3>3. Snap(t, row)'
      <4>1. row.status # Absent /\ Exists(t)'
        BY <1>2, <2>1, <3>1 DEF ReadRow, Exists
      <4>. QED
        BY <1>2, <3>1, <4>1 DEF Snap, Row
    <3>4. insp'.task = t /\ insp'.row = row
      BY <3>2
    <3>5. InspectionInv'
      BY <3>3, <3>4 DEF InspectionInv
    <3>. QED
      BY <3>2, <3>5 DEF InspectionPcs
  <2>2. ASSUME NEW v \in InspectorClock, ReadLedger(v)
        PROVE  /\ InspectionInv'
               /\ insp' \in [pc : InspectionPcs, task : TaskIds \cup {NoTask}, row : Row,
                             first : {insp'.first}]
    <3>. DEFINE row     == insp.row
                expired == row.status = "running" /\ row.lease_expires_at <= v
                snap    == Snapshot(row, expired)
                pc      == IF \E e \in EvidenceOf(insp.task) : Ahead(row, e) THEN "alarm"
                           ELSE IF insp.pc = "row1" THEN "first"
                           ELSE IF snap # insp.first THEN "changed"
                           ELSE IF expired THEN "reconcile"
                           ELSE "report"
                f       == IF pc = "first" THEN snap ELSE <<>>
    <3>0. pc \in InspectionPcs
      BY DEF InspectionPcs
    <3>1. insp' = [insp EXCEPT !.pc = pc, !.first = f]
      BY <2>2 DEF ReadLedger
    <3>. HIDE DEF pc, f, snap, expired, row
    <3>2. insp \in [pc : InspectionPcs, task : TaskIds \cup {NoTask}, row : Row,
                    first : {insp.first}]
      BY DEF HostedInv, HostedTypeOK
    <3>3. insp.pc # "idle" /\ insp'.task = insp.task /\ insp'.row = insp.row
      BY <2>2, <3>1, <3>2 DEF ReadLedger
    <3>4. Snap(insp.task, insp.row)
      BY <3>3 DEF HostedInv, InspectionInv
    <3>5. Snap(insp.task, insp.row)'
      BY <1>2, <3>3, <3>4 DEF Snap, Exists
    <3>6. InspectionInv'
      BY <3>5 DEF InspectionInv
    <3>. QED
      BY <3>0, <3>1, <3>2, <3>6
  <2>3. CASE InspectionOver
    <3>1. insp' = NoInspection
      BY <2>3 DEF InspectionOver
    <3>2. NewRow \in Row
      BY QueueAssumption DEF NewRow, Row, Statuses, NoTime
    <3>. QED
      BY <3>1, <3>2 DEF NoInspection, InspectionInv, InspectionPcs
  <2>. QED
    BY <2>1, <2>2, <2>3
<1>5. \A e \in events' \ events : e.event_type = "checkpoint_saved"
  BY <1>2
<1>. QED
  BY <1>1, <1>2, <1>3, <1>4, <1>5, OutsideStep

\* A proposal is acted on: the row is the one it was made for, or it is refused.
LEMMA ReconcileInv ==
    ASSUME HostedInv, ReconcileProposed PROVE HostedInv' /\ ForwardStep /\ QueueNext
<1>1. /\ run' = run /\ pending' = pending /\ reads' = reads /\ insp' = NoInspection
      /\ insp.pc # "idle"
  BY DEF ReconcileProposed
<1>2. PICK t \in TaskIds \cup {NoTask}, old \in Row : t = insp.task /\ old = insp.row
  BY DEF HostedInv, HostedTypeOK
<1>3. Snap(t, old) /\ t \in TaskIds
  BY <1>1, <1>2 DEF HostedInv, InspectionInv, Snap
<1>4. PICK v \in ClockReadings :
        agent_reconcile_expired_lease(t, old.revision, old.lease_generation, old.state, v)
  BY <1>2 DEF ReconcileProposed
<1>5. old.state \in Progress
  BY DEF Row
<1>6. QueueNext /\ [QueueNext]_queueVars
  BY <1>3, <1>4, <1>5, AcceptedReconcile DEF HostedInv, QueueNext
<1>7. old = tasks[t] /\ tasks \in [TaskIds -> Row]
  BY <1>3, <1>4 DEF Snap, agent_reconcile_expired_lease, HostedInv, QueueInv, QueueTypeOK
<1>8. PICK row : row = [tasks[t] EXCEPT !.status = "blocked", !.state = old.state,
                                        !.revision = @ + 1, !.lease_owner = NoWorker,
                                        !.lease_expires_at = NoTime]
  OBVIOUS
<1>9. WriteRow(t, row, {LeaseEvent(t, "lease_expiry_reconciled", tasks[t].lease_owner,
                                   old.lease_generation, row)})
  BY <1>4, <1>8 DEF agent_reconcile_expired_lease
<1>10. row.status = "blocked" /\ row.state = tasks[t].state
  BY <1>7, <1>8 DEF Row
<1>11. ForwardStep
  <2>1. \A u \in TaskIds : tasks'[u].state = tasks[u].state
    BY <1>7, <1>9, <1>10 DEF WriteRow
  <2>. QED
    BY <2>1, RankTyped DEF ForwardStep
<1>12. \A e \in events' \ events :
          \/ e.event_type = "checkpoint_saved"
          \/ e.event_type = "lease_expiry_reconciled" /\ e.status = "blocked"
  BY <1>9, <1>10 DEF WriteRow, CheckpointEvent, LeaseEvent
<1>13. NewRow \in Row
  BY QueueAssumption DEF NewRow, Row, Statuses, NoTime
<1>14. /\ InspectionInv'
       /\ insp' \in [pc : InspectionPcs, task : TaskIds \cup {NoTask}, row : Row,
                     first : {insp'.first}]
  BY <1>1, <1>13 DEF NoInspection, InspectionInv, InspectionPcs
<1>. QED
  BY <1>1, <1>6, <1>11, <1>12, <1>14, OutsideStep

-----------------------------------------------------------------------------
(* The specification *)

\* Before anything is created there is nothing to act on.
LEMMA HostedInitInv == HostedInit => HostedInv
<1>. SUFFICES ASSUME HostedInit PROVE HostedInv
  OBVIOUS
<1>1. /\ QueueInv /\ CountersBounded /\ events = {} /\ LeaseLog = {}
  BY InitInv, CountersBoundedInit DEF HostedInit, QueueInit, LeaseLog
<1>2. /\ run = [r \in Runs |-> NoRun] /\ pending = {} /\ reads = {} /\ insp = NoInspection
  BY DEF HostedInit
<1>3. NewRow \in Row
  BY QueueAssumption DEF NewRow, Row, Statuses, NoTime
<1>4. HostedTypeOK
  <2>1. NoRun \in RunState
    <3>1. 0 \in 0..17
      OBVIOUS
    <3>. QED
      BY <1>3, <3>1 DEF NoRun, RunState
  <2>. QED
    BY <1>1, <1>2, <1>3, <2>1 DEF HostedTypeOK, NoInspection, InspectionPcs
<1>5. \A r \in Runs : run[r].pc = "idle" /\ ~Active(r)
  BY <1>2 DEF NoRun, Active
<1>6. RunsInv /\ TokensInv
  BY <1>2, <1>5 DEF RunsInv, TokensInv
<1>7. PendingInv /\ InspectionInv /\ ReadsInv /\ ForeignInv
  BY <1>1, <1>2 DEF PendingInv, InspectionInv, ReadsInv, ForeignInv, NoInspection
<1>8. EvidenceInv /\ ReleasedInv
  BY <1>1, <1>2, <1>5 DEF EvidenceInv, ReleasedInv
<1>. QED
  BY <1>1, <1>4, <1>6, <1>7, <1>8 DEF HostedInv

\* Every step is one of the queue's, or leaves its tables alone.
LEMMA HostedStep ==
    ASSUME HostedInv, [HostedNext \/ InspectorNext]_vars
    PROVE  HostedInv' /\ ForwardStep /\ [QueueNext]_queueVars
<1>1. CASE UNCHANGED vars
  <2>1. /\ UNCHANGED queueVars /\ run' = run /\ pending' = pending /\ reads' = reads /\ insp' = insp
        /\ tasks' = tasks /\ events' = events
    BY <1>1 DEF vars, queueVars, runVars
  <2>2. ForwardStep
    BY <2>1, RankTyped DEF ForwardStep
  <2>3. InspectionInv'
    BY <2>1, InspectionKeeps
  <2>4. insp' \in [pc : InspectionPcs, task : TaskIds \cup {NoTask}, row : Row,
                   first : {insp'.first}]
    BY <2>1 DEF HostedInv, HostedTypeOK
  <2>5. \A e \in events' \ events : e.event_type = "checkpoint_saved"
    BY <2>1
  <2>. QED
    BY <2>1, <2>2, <2>3, <2>4, <2>5, OutsideStep
<1>2. ASSUME NEW r \in Runs,
             \/ Claimed(r) \/ ReleaseBlocked(r) \/ Accept(r) \/ SaveState(r)
             \/ ApiGet(r) \/ Record(r) \/ Finish(r) \/ Interrupt(r)
      PROVE  HostedInv' /\ ForwardStep /\ [QueueNext]_queueVars
  <2>1. CASE Claimed(r)
    BY <2>1, ClaimedInv DEF QueueNext
  <2>2. CASE ReleaseBlocked(r)
    BY <2>2, ReleaseBlockedInv DEF QueueNext
  <2>3. CASE Accept(r)
    BY <2>3, AcceptInv
  <2>4. CASE SaveState(r)
    BY <2>4, SaveStateInv DEF QueueNext
  <2>5. CASE ApiGet(r)
    BY <2>5, ApiGetInv
  <2>6. CASE Record(r)
    BY <2>6, RecordInv DEF QueueNext
  <2>7. CASE Finish(r)
    BY <2>7, FinishInv DEF QueueNext
  <2>8. CASE Interrupt(r)
    BY <2>8, InterruptInv
  <2>. QED
    BY <1>2, <2>1, <2>2, <2>3, <2>4, <2>5, <2>6, <2>7, <2>8
<1>3. ASSUME NEW c \in pending, Deliver(c)
      PROVE  HostedInv' /\ ForwardStep /\ [QueueNext]_queueVars
  BY <1>3, DeliverInv
<1>4. ASSUME NEW t \in TaskIds,
             \/ OwnerCreate(t)
             \/ \E s \in OwnerStatuses, p \in OwnerStates : OwnerSave(t, s, p)
      PROVE  HostedInv' /\ ForwardStep /\ [QueueNext]_queueVars
  BY <1>4, OwnerInv
<1>5. CASE ClockTick
  BY <1>5, ClockTickInv
<1>6. CASE InspectorNext
  <2>1. CASE ReconcileProposed
    BY <2>1, ReconcileInv
  <2>2. CASE \/ \E t \in TaskIds : ReadRow(t)
             \/ \E v \in InspectorClock : ReadLedger(v)
             \/ InspectionOver
    BY <2>2, ReadInv
  <2>. QED
    BY <1>6, <2>1, <2>2 DEF InspectorNext
<1>7. CASE HostedNext
  BY <1>2, <1>3, <1>4, <1>5, <1>7 DEF HostedNext
<1>. QED
  BY <1>1, <1>6, <1>7

\* Runs, late calls, owner and inspector together keep the invariant.
THEOREM HostedInvariant == HostedSpecWithRecovery => []HostedInv
<1>1. HostedInit => HostedInv
  BY HostedInitInv
<1>2. HostedInv /\ [HostedNext \/ InspectorNext]_vars => HostedInv'
  BY HostedStep
<1>. QED
  BY <1>1, <1>2, PTL DEF HostedSpecWithRecovery

\* Whatever runs, owner and inspector do through their clients is a behaviour of
\* the queue: all that is proved of the queue holds under hosted execution.
THEOREM HostedImplementsQueue == HostedSpecWithRecovery => QueueSpec
<1>1. HostedInit => QueueInit
  BY DEF HostedInit
<1>2. HostedInv /\ [HostedNext \/ InspectorNext]_vars => [QueueNext]_queueVars
  BY HostedStep
<1>. QED
  BY <1>1, <1>2, HostedInvariant, PTL DEF HostedSpecWithRecovery, QueueSpec

\* The provider is asked on behalf of a task by one run of one generation, ever:
\* every read is of the first generation, whose lease entries name one worker.
THEOREM TasksExecuteOnce == HostedSpecWithRecovery => []OneExecutionPerTask
<1>1. HostedInv => OneExecutionPerTask
  <2>. SUFFICES ASSUME HostedInv, NEW a \in reads, NEW b \in reads, a.task = b.task
                PROVE  a.worker = b.worker /\ a.generation = b.generation
    BY DEF OneExecutionPerTask
  <2>1. a.generation = 1 /\ b.generation = 1
    BY DEF HostedInv, ReadsInv
  <2>2. PICK l \in LeaseLog : l.task = a.task /\ l.generation = 1 /\ l.worker = a.worker
    BY DEF HostedInv, ReadsInv
  <2>3. PICK m \in LeaseLog : m.task = b.task /\ m.generation = 1 /\ m.worker = b.worker
    BY DEF HostedInv, ReadsInv
  <2>. QED
    BY <2>1, <2>2, <2>3 DEF HostedInv, QueueInv, OneWorkerPerGeneration
<1>. QED
  BY <1>1, HostedInvariant, PTL

\* A task that is none of the runs' own is claimed and released as blocked, and
\* nothing else happens to it under a lease.
THEOREM ForeignWorkIsBlocked == HostedSpecWithRecovery => []ForeignWorkOnlyBlocked
<1>1. HostedInv => ForeignWorkOnlyBlocked
  <2>. SUFFICES ASSUME HostedInv, NEW t \in TaskIds, \A r \in Runs : t # Expected[r]
                PROVE  /\ \A e \in LeaseLog : e.task = t =>
                             \/ e.event_type = "lease_claimed"
                             \/ /\ e.event_type # "lease_checkpoint_saved"
                                /\ e.status = "blocked"
                       /\ \A a \in reads : a.task # t
    BY DEF ForeignWorkOnlyBlocked
  <2>. QED
    BY DEF HostedInv, ForeignInv, ReadsInv
<1>. QED
  BY <1>1, HostedInvariant, PTL

\* The provider is asked only under a live lease, behind a recorded attempt.
THEOREM ReadsGuarded == HostedSpecWithRecovery => []ReadsAreGuarded
<1>1. HostedInv => ReadsAreGuarded
  <2>. SUFFICES ASSUME HostedInv PROVE ReadsAreGuarded
    OBVIOUS
  <2>1. ReadsUnderLiveLease
    BY DEF HostedInv, ReadsInv, ReadsUnderLiveLease
  <2>2. AttemptRecordedFirst
    <3>. SUFFICES ASSUME NEW a \in reads, tasks[a.task].lease_owner # NoWorker,
                         tasks[a.task].lease_generation = a.generation
                  PROVE  tasks[a.task].state # "unstarted"
      BY DEF AttemptRecordedFirst
    <3>1. ProgressRank(tasks[a.task].state) >= 1
      BY DEF HostedInv, ReadsInv
    <3>2. ProgressRank("unstarted") = 0
      BY DEF ProgressRank
    <3>. QED
      BY <3>1, <3>2
  <2>. QED
    BY <2>1, <2>2 DEF ReadsAreGuarded
<1>. QED
  BY <1>1, HostedInvariant, PTL

\* Every completion is borne out by evidence, and no evidence is ahead of its row.
THEOREM EvidenceBearsOut == HostedSpecWithRecovery => []EvidenceIsSound
<1>1. HostedInv => EvidenceIsSound
  <2>. SUFFICES ASSUME HostedInv PROVE EvidenceIsSound
    OBVIOUS
  <2>1. EvidenceWithinRow
    BY DEF HostedInv, EvidenceInv, EvidenceWithinRow, EvidenceOf
  <2>2. VerifiedCompletion
    <3>. SUFFICES ASSUME NEW e \in events, e.event_type = "lease_released",
                         e.status = "completed"
                  PROVE  \E o, v \in EvidenceOf(e.task) :
                            /\ o.event_type = "github_observation"
                            /\ v.event_type = "github_verification" /\ v.verified
                            /\ o.generation = e.generation /\ v.generation = e.generation
                            /\ o.revision < v.revision /\ v.revision < e.revision
                            /\ \A n \in EvidenceOf(e.task) :
                                  /\ n.event_type = "github_verification"
                                  /\ n.generation = e.generation
                                  => n.verified
      BY DEF VerifiedCompletion
    <3>1. e \in LeaseLog
      BY DEF LeaseLog, LeaseEvents
    <3>2. Backed(e.task, e.generation, e.revision - 1, TRUE)
      BY <3>1 DEF HostedInv, ReleasedInv
    <3>3. PICK o \in Observed(e.task, e.generation), v \in Verified(e.task, e.generation) :
            o.revision < v.revision /\ v.revision <= e.revision - 1 /\ v.verified = TRUE
      BY <3>2 DEF Backed
    <3>4. v.revision < e.revision
      <4>1. v.revision \in Nat
        BY DEF Verified, HostedInv, HostedTypeOK, EvidenceTypes, EvidenceRecord
      <4>2. e.revision \in Nat
        BY <3>1, LeaseLogTyped DEF HostedInv, QueueInv, Event
      <4>. QED
        BY <3>3, <4>1, <4>2
    <3>5. \A n \in EvidenceOf(e.task) :
             n.event_type = "github_verification" /\ n.generation = e.generation => n.verified
      BY <3>2 DEF Backed, Verified, EvidenceOf
    <3>6. /\ o \in EvidenceOf(e.task) /\ v \in EvidenceOf(e.task)
          /\ o.event_type = "github_observation" /\ v.event_type = "github_verification"
          /\ o.generation = e.generation /\ v.generation = e.generation
      BY DEF Observed, Verified, EvidenceOf, EvidenceTypes
    <3>. QED
      BY <3>3, <3>4, <3>5, <3>6
  <2>. QED
    BY <2>1, <2>2 DEF EvidenceIsSound
<1>. QED
  BY <1>1, HostedInvariant, PTL

\* Progress under a lease only moves forward, through late saves and through a
\* reconciliation that writes back the document of an old snapshot.
THEOREM ProgressMovesForward == HostedSpecWithRecovery => LeasedProgressMonotone
<1>1. HostedInv /\ [HostedNext \/ InspectorNext]_vars => [ForwardStep]_vars
  BY HostedStep
<1>. QED
  BY <1>1, HostedInvariant, PTL DEF HostedSpecWithRecovery, LeasedProgressMonotone
=============================================================================
