----------------------------- MODULE TrustedRun -----------------------------
(***************************************************************************)
(* Who may use up an approved run instance: run_once on several hosts,     *)
(* each enqueueing (TrustedRunEnqueuer.ensure_queued) and then claiming    *)
(* the instance it was authorised for, the owner, and the coordinator      *)
(* HostedWorkerCoordinator, which claims whatever is due in order to       *)
(* inspect it and gives it back as blocked.                                *)
(*                                                                         *)
(* The execution itself is HostedRun's subject; here it is the save that   *)
(* records the attempt and the save that ends it.  A host or a coordinator *)
(* whose call fails or is lost stops where it is (Dies); a lost create may *)
(* still arrive.  The authorisation checks of run_once touch no shared     *)
(* state, so a host is one that has passed them: its Target is trusted.    *)
(***************************************************************************)
EXTENDS AgentQueue

CONSTANTS
    Hosts,          \* calls of run_once
    Target,         \* the instance each was authorised for
    Inspectors,     \* calls of inspect_next
    WorkerOf,       \* the worker_id of each call
    LeaseLength,    \* lease_seconds of every claim
    MaxRequeues     \* bound: rows the owner puts back into the queue

ASSUME TrustedRunAssumption ==
    /\ Hosts \cap Inspectors = {}
    /\ Target \in [Hosts -> Trusted]
    /\ WorkerOf \in [Hosts \cup Inspectors -> Workers]
    /\ LeaseLength \in LeaseSeconds
    /\ MaxRequeues \in Nat
    /\ {"unstarted", "attempted"} \subseteq Progress
    /\ InitProgress = "unstarted"

VARIABLES
    host,           \* the local state of each run_once
    inspector,      \* the local state of each inspect_next
    lateCreates,    \* creates whose caller is gone
    executions,     \* history: the executions begun
    requeues        \* the requeues of the owner so far

trustedVars == <<host, inspector, lateCreates, executions, requeues>>
allVars == <<queueVars, trustedVars>>

Move(h, pc) == host' = [host EXCEPT ![h].pc = pc]

-----------------------------------------------------------------------------
(* ensure_queued *)

\* _assert_pristine: still queued, never written since its creation.
Pristine(row) == row.status = "queued" /\ row.revision = 0 /\ row.state = "unstarted"

GetExisting(h) ==
    /\ host[h].pc \in {"start", "reread"}
    /\ Exists(Target[h])
    /\ Move(h, IF Pristine(tasks[Target[h]]) THEN "queued" ELSE "used")
    /\ UNCHANGED <<queueVars, inspector, lateCreates, executions, requeues>>

GetMissing(h) ==
    /\ host[h].pc = "start"
    /\ ~Exists(Target[h])
    /\ Move(h, "create")
    /\ UNCHANGED <<queueVars, inspector, lateCreates, executions, requeues>>

CreateInstance(h) ==
    /\ host[h].pc = "create"
    /\ agent_create_checkpoint(Target[h])
    /\ Move(h, "queued")
    /\ UNCHANGED <<inspector, lateCreates, executions, requeues>>

\* Another host created the instance, or another instance holds the slot.
CreateConflict(h) ==
    /\ host[h].pc = "create"
    /\ Exists(Target[h]) \/ ~ActiveSlotFree(Target[h], "queued")
    /\ Move(h, "reread")
    /\ UNCHANGED <<queueVars, inspector, lateCreates, executions, requeues>>

\* another_trusted_run_instance_is_active
SlotTaken(h) ==
    /\ host[h].pc = "reread"
    /\ ~Exists(Target[h])
    /\ Move(h, "slot_taken")
    /\ UNCHANGED <<queueVars, inspector, lateCreates, executions, requeues>>

CreateLost(h) ==
    /\ host[h].pc = "create"
    /\ Move(h, "dead")
    /\ lateCreates' = lateCreates \cup {Target[h]}
    /\ UNCHANGED <<queueVars, inspector, executions, requeues>>

LateCreate(t) ==
    /\ t \in lateCreates
    /\ agent_create_checkpoint(t)
    /\ lateCreates' = lateCreates \ {t}
    /\ UNCHANGED <<host, inspector, executions, requeues>>

-----------------------------------------------------------------------------
(* The exact claim and the run *)

ClaimTarget(h) ==
    /\ host[h].pc = "queued"
    /\ \E v \in ClockReadings : agent_claim_task(Target[h], WorkerOf[h], LeaseLength, v)
    /\ host' = [host EXCEPT ![h].pc = "claimed", ![h].row = tasks'[Target[h]]]
    /\ UNCHANGED <<inspector, lateCreates, executions, requeues>>

ClaimNothing(h) ==
    /\ host[h].pc = "queued"
    /\ ~Claimable(Target[h])
    /\ Move(h, "unclaimed")
    /\ UNCHANGED <<queueVars, inspector, lateCreates, executions, requeues>>

SaveLease(x, row, t, status, state) ==
    \E v \in ClockReadings :
        agent_save_leased_checkpoint(t, row.revision, WorkerOf[x],
            row.lease_generation, status, state, LeaseLength, v)

\* Mutant: an instance that was claimed before is run again.
UnusedAnyAttempt(row) == row.state = "unstarted"

\* The worker's own scope check on the row its claim returned.
Unused(row) == row.attempt_count = 1 /\ row.state = "unstarted"

Begin(h) ==
    /\ host[h].pc = "claimed"
    /\ Unused(host[h].row)
    /\ SaveLease(h, host[h].row, Target[h], "running", "attempted")
    /\ host' = [host EXCEPT ![h].pc = "running", ![h].row = tasks'[Target[h]]]
    /\ executions' = executions \cup {[host |-> h, task |-> Target[h],
                                       generation |-> host[h].row.lease_generation]}
    /\ UNCHANGED <<inspector, lateCreates, requeues>>

\* The run ends verified, blocked, or is released because it was used before.
Finish(h) ==
    /\ \/ host[h].pc = "running"
       \/ host[h].pc = "claimed" /\ ~Unused(host[h].row)
    /\ \E status \in {"completed", "blocked"} :
           /\ host[h].pc = "claimed" => status = "blocked"
           /\ SaveLease(h, host[h].row, Target[h], status, host[h].row.state)
    /\ Move(h, "ended")
    /\ UNCHANGED <<inspector, lateCreates, executions, requeues>>

HostDies(h) ==
    /\ host[h].pc \in {"start", "create", "reread", "queued", "claimed", "running"}
    /\ Move(h, "dead")
    /\ UNCHANGED <<queueVars, inspector, lateCreates, executions, requeues>>

run_once(h) ==
    \/ GetExisting(h) \/ GetMissing(h) \/ CreateInstance(h) \/ CreateConflict(h)
    \/ SlotTaken(h) \/ CreateLost(h) \/ ClaimTarget(h) \/ ClaimNothing(h)
    \/ Begin(h) \/ Finish(h) \/ HostDies(h)

-----------------------------------------------------------------------------
(* inspect_next: claim, log, release as blocked, log *)

InspectClaim(i) ==
    /\ inspector[i].pc = "idle"
    /\ \E t \in TaskIds, v \in ClockReadings :
           /\ agent_claim_task(t, WorkerOf[i], LeaseLength, v)
           /\ inspector' = [inspector EXCEPT ![i] =
                  [pc |-> "claimed", task |-> t, row |-> tasks'[t]]]
    /\ UNCHANGED <<host, lateCreates, executions, requeues>>

\* The ledger entry in front of the release; the entries are informational and
\* not kept.  When the append fails the exception leaves inspect_next.
InspectLog(i) ==
    /\ inspector[i].pc = "claimed"
    /\ inspector' = [inspector EXCEPT ![i].pc = "logged"]
    /\ UNCHANGED <<queueVars, host, lateCreates, executions, requeues>>

InspectRelease(i) ==
    /\ inspector[i].pc = "logged"
    /\ SaveLease(i, inspector[i].row, inspector[i].task, "blocked", inspector[i].row.state)
    /\ inspector' = [inspector EXCEPT ![i].pc = "returned"]
    /\ UNCHANGED <<host, lateCreates, executions, requeues>>

\* An append or the save raises: nothing catches it, nothing is released.
InspectFails(i) ==
    /\ inspector[i].pc \in {"claimed", "logged"}
    /\ inspector' = [inspector EXCEPT ![i].pc = "raised"]
    /\ UNCHANGED <<queueVars, host, lateCreates, executions, requeues>>

inspect_next(i) ==
    InspectClaim(i) \/ InspectLog(i) \/ InspectRelease(i) \/ InspectFails(i)

-----------------------------------------------------------------------------
(* The owner puts a row back into the queue with a fresh document; a lapsed *)
(* lease is reconciled to blocked.                                          *)

Requeue(t) ==
    /\ requeues < MaxRequeues
    /\ agent_save_checkpoint(t, tasks[t].revision, "queued", "unstarted")
    /\ requeues' = requeues + 1
    /\ UNCHANGED <<host, inspector, lateCreates, executions>>

ReconcileLease(t) ==
    /\ \E v \in ClockReadings :
           agent_reconcile_expired_lease(t, tasks[t].revision,
               tasks[t].lease_generation, tasks[t].state, v)
    /\ UNCHANGED trustedVars

TrustedInit ==
    /\ QueueInit
    /\ host = [h \in Hosts |-> [pc |-> "start", row |-> NewRow]]
    /\ inspector = [i \in Inspectors |-> [pc |-> "idle", task |-> Absent, row |-> NewRow]]
    /\ lateCreates = {}
    /\ executions = {}
    /\ requeues = 0

TrustedNext ==
    \/ \E h \in Hosts : run_once(h)
    \/ \E i \in Inspectors : inspect_next(i)
    \/ \E t \in TaskIds : LateCreate(t) \/ Requeue(t) \/ ReconcileLease(t)
    \/ Tick /\ UNCHANGED trustedVars

TrustedSpec == TrustedInit /\ [][TrustedNext]_allVars

-----------------------------------------------------------------------------
\* An approval is spent once: no run instance is executed by two hosts or under
\* two leases, also when it is requeued or its host died in between.
InstanceRunsOnce ==
    \A e, f \in executions : e.task = f.task => e = f

\* Whatever a host executes was claimed by nobody else before: an instance the
\* coordinator inspected, or another host lost, is never run.
OnlyUntouchedInstances ==
    \A e \in executions, l \in LeaseLog :
        l.task = e.task /\ l.generation <= e.generation
            => l.worker = WorkerOf[e.host] /\ l.generation = e.generation

\* An approval is spent at most once, by the first that claimed it and nobody else.
ApprovalSpentOnce == InstanceRunsOnce /\ OnlyUntouchedInstances

=============================================================================
