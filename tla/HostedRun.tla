----------------------------- MODULE HostedRun ------------------------------
(***************************************************************************)
(* Hosted execution on top of the queue: HostedRepositoryStatusWorker runs *)
(* the single step of the trusted status task through AgentRunner, with    *)
(* HostedLeaseStateStore turning every save of the runner into a fenced    *)
(* queue save; the owner creates and edits tasks; HostedRecoveryInspector  *)
(* reads row and ledger in separate calls and proposes what to do about a  *)
(* run that stopped.                                                       *)
(*                                                                         *)
(* A run is one call of run_next.  Every exception on its path (a refused  *)
(* or lost call, a deadline, a crash) ends it without a cleanup call, and  *)
(* the call it was making may still be on its way: it stays in pending and *)
(* the database may execute it at any later time, or never.                *)
(*                                                                         *)
(* Abstractions.  The informational ledger entries (claimed, started,      *)
(* blocked, completed) are not kept, since nothing reads them back; a      *)
(* failure to append one is an Interrupt.  One provider GET stands for the *)
(* GETs of an action, each of which is fenced in the same way.             *)
(***************************************************************************)
EXTENDS AgentQueue, Sequences

CONSTANTS
    Runs,           \* calls of run_next
    WorkerId,       \* the worker_id each call was given
    Expected,       \* the task each run is scoped to
    Claims,         \* the tasks its claim may return: the bound task, or any
    LeaseLength,    \* lease_seconds of every run
    Margin,         \* the lease budget check_time asks for (30 s)
    Slack,          \* worst clock skew plus delay between check and use
    OwnerStatuses,  \* the statuses the owner saves
    OwnerStates,    \* the documents the owner saves
    MaxOwnerSaves,  \* bound: unfenced saves by the owner
    MaxCreated      \* bound: tasks the owner creates

ASSUME RunAssumption ==
    /\ WorkerId \in [Runs -> Workers]
    /\ Expected \in [Runs -> TaskIds]
    /\ Claims \in [Runs -> SUBSET TaskIds]
    /\ LeaseLength \in LeaseSeconds
    /\ Margin \in Nat /\ Slack \in Nat /\ Slack <= Margin
    /\ OwnerStatuses \subseteq Statuses /\ OwnerStates \subseteq Progress
    /\ MaxOwnerSaves \in Nat /\ MaxCreated \in Nat
    /\ {"unstarted", "attempted", "verified"} \subseteq Progress
    /\ InitProgress = "unstarted"

\* What _record and the verification append as evidence.
EvidenceTypes == {"github_observation", "github_verification"}

\* The ledger takes the evidence of any generation and revision.
ASSUME EvidenceAssumption ==
    [task : TaskIds, event_type : EvidenceTypes, verified : BOOLEAN,
     generation : 1..MaxRevision, revision : 1..MaxRevision] \subseteq Activities

VARIABLES
    run,            \* the local state of each run
    pending,        \* calls whose caller is gone
    reads,          \* history: provider GETs made
    insp,           \* HostedRecoveryInspector.propose in progress
    ownerSaves

runVars == <<run, pending, reads, insp, ownerSaves>>
vars == <<queueVars, runVars>>

\* The calls of a run that is never interrupted, in order.  A fence saves the
\* state again; get_* is a provider GET; observe and verify append evidence.
Script == <<"start", "attempt",
            "fence", "get_main", "fence", "fence", "observe", "fence", "save",
            "fence", "get_ci", "fence", "fence", "verify", "fence",
            "step_completed", "completed">>

NoTask == "none"
NoRun == [pc |-> "idle", at |-> 0, task |-> NoTask, row |-> NewRow, verified |-> TRUE]

Evidence(type, r, verified) ==
    [task |-> run[r].task, event_type |-> type, verified |-> verified,
     generation |-> run[r].row.lease_generation, revision |-> run[r].row.revision]

-----------------------------------------------------------------------------
(* Calls to the database *)

ClaimCall(r) == [op |-> "claim", worker |-> WorkerId[r], tasks |-> Claims[r]]

\* HostedQueueClient.save under the lease the run holds.
SaveCall(r, status, state) ==
    [op |-> "save", worker |-> WorkerId[r], task |-> run[r].task,
     revision |-> run[r].row.revision, generation |-> run[r].row.lease_generation,
     status |-> status, state |-> state]

AppendCall(e) == [op |-> "append", event |-> e]

Execute(call) ==
    \/ /\ call.op = "claim"
       /\ \E t \in call.tasks, v \in ClockReadings :
             agent_claim_task(t, call.worker, LeaseLength, v)
    \/ /\ call.op = "save"
       /\ \E v \in ClockReadings :
             agent_save_leased_checkpoint(call.task, call.revision, call.worker,
                 call.generation, call.status, call.state, LeaseLength, v)
    \/ /\ call.op = "append"
       /\ agent_append_event(call.event.task, call.event)

\* What save_state sends at each point of the script.
SavedState(r) ==
    CASE Script[run[r].at] = "attempt"        -> "attempted"
      [] Script[run[r].at] = "step_completed" -> "verified"
      [] OTHER                                -> run[r].row.state

\* Mutant: only the document is asked about earlier attempts.
ScopeFailureByState(r) ==
    \/ run[r].task # Expected[r]
    \/ run[r].row.state # "unstarted"

\* Mutant: whatever the queue handed out is executed.
ScopeFailureAnyTask(r) ==
    \/ run[r].row.attempt_count # 1
    \/ run[r].row.state # "unstarted"

\* attempt_count and the document must be those of a first attempt.
ScopeFailure(r) ==
    \/ run[r].task # Expected[r]
    \/ run[r].row.attempt_count # 1
    \/ run[r].row.state # "unstarted"

\* Mutant: the verdict of the verification is ignored.
NextCallUnverified(r) ==
    IF run[r].pc = "idle" THEN ClaimCall(r)
    ELSE IF run[r].pc = "claimed" THEN SaveCall(r, "blocked", run[r].row.state)
    ELSE CASE Script[run[r].at] = "observe" ->
                  AppendCall(Evidence("github_observation", r, TRUE))
           [] Script[run[r].at] = "verify" ->
                  AppendCall(Evidence("github_verification", r, run[r].verified))
           [] Script[run[r].at] = "completed" ->
                  SaveCall(r, "completed", run[r].row.state)
           [] OTHER -> SaveCall(r, "running", SavedState(r))

\* The call the run makes next.
NextCall(r) ==
    IF run[r].pc = "idle" THEN ClaimCall(r)
    ELSE IF run[r].pc = "claimed" THEN SaveCall(r, "blocked", run[r].row.state)
    ELSE CASE Script[run[r].at] = "observe" ->
                  AppendCall(Evidence("github_observation", r, TRUE))
           [] Script[run[r].at] = "verify" ->
                  AppendCall(Evidence("github_verification", r, run[r].verified))
           [] Script[run[r].at] = "step_completed" /\ ~run[r].verified ->
                  SaveCall(r, "blocked", run[r].row.state)
           [] Script[run[r].at] = "completed" ->
                  SaveCall(r, "completed", run[r].row.state)
           [] OTHER -> SaveCall(r, "running", SavedState(r))

-----------------------------------------------------------------------------
(* A run *)

\* run_next claims; the answer is the row as the claim wrote it.
Claimed(r) ==
    /\ run[r].pc = "idle"
    /\ \E t \in Claims[r], v \in ClockReadings :
          /\ agent_claim_task(t, WorkerId[r], LeaseLength, v)
          /\ run' = [run EXCEPT ![r] = [@ EXCEPT !.pc = "claimed", !.task = t,
                                                 !.row = tasks'[t]]]
    /\ UNCHANGED <<pending, reads, insp, ownerSaves>>

\* A task that is out of scope or was tried before is released as blocked.
ReleaseBlocked(r) ==
    /\ run[r].pc = "claimed"
    /\ ScopeFailure(r)
    /\ Execute(NextCall(r))
    /\ run' = [run EXCEPT ![r].pc = "ended"]
    /\ UNCHANGED <<pending, reads, insp, ownerSaves>>

Accept(r) ==
    /\ run[r].pc = "claimed"
    /\ ~ScopeFailure(r)
    /\ run' = [run EXCEPT ![r].pc = "running", ![r].at = 1]
    /\ UNCHANGED <<queueVars, pending, reads, insp, ownerSaves>>

\* Mutant: the remaining lease budget is not checked.
check_time_none(r) == TRUE

\* check_time: enough of the lease is left.  The run compares its own clock
\* with the expiry it was told, some time before it acts.
check_time(r) == run[r].row.lease_expires_at + Slack - now > Margin

Running(r, step) == run[r].pc = "running" /\ Script[run[r].at] = step

\* fence checks the budget before its save and again before it returns.
Fenced(r) ==
    \/ Running(r, "fence")
    \/ run[r].at > 1 /\ Script[run[r].at - 1] = "fence"
    => check_time(r)

\* The saves that keep the lease, the fences included.
SaveState(r) ==
    /\ \E step \in {"start", "attempt", "fence", "save", "step_completed"} : Running(r, step)
    /\ NextCall(r).status = "running"
    /\ Fenced(r)
    /\ Execute(NextCall(r))
    /\ run' = [run EXCEPT ![r].at = @ + 1, ![r].row = tasks'[run[r].task]]
    /\ UNCHANGED <<pending, reads, insp, ownerSaves>>

\* The provider GET, after the fence in front of it and its second check_time.
\* The verdict on the CI runs is the provider's.
ApiGet(r) ==
    /\ Running(r, "get_main") \/ Running(r, "get_ci")
    /\ Fenced(r)
    /\ reads' = reads \cup {[task |-> run[r].task, worker |-> WorkerId[r],
                             generation |-> run[r].row.lease_generation,
                             live |-> /\ LeaseLive(run[r].task)
                                      /\ tasks[run[r].task].lease_generation
                                            = run[r].row.lease_generation]}
    /\ \E v \in IF Running(r, "get_ci") THEN BOOLEAN ELSE {TRUE} :
          run' = [run EXCEPT ![r].at = @ + 1, ![r].verified = v]
    /\ UNCHANGED <<queueVars, pending, insp, ownerSaves>>

\* record: the evidence carries the generation and revision of the last fence.
\* The ledger does not check the lease; the fence that follows does.
Record(r) ==
    /\ Running(r, "observe") \/ Running(r, "verify")
    /\ Fenced(r)
    /\ Execute(NextCall(r))
    /\ run' = [run EXCEPT ![r].at = @ + 1]
    /\ UNCHANGED <<pending, reads, insp, ownerSaves>>

\* The save that ends the run: completed, or blocked when not verified.
Finish(r) ==
    /\ \/ Running(r, "completed")
       \/ Running(r, "step_completed") /\ ~run[r].verified
    /\ Fenced(r)
    /\ Execute(NextCall(r))
    /\ run' = [run EXCEPT ![r].pc = "ended"]
    /\ UNCHANGED <<pending, reads, insp, ownerSaves>>

\* The run is waiting for the database, not for the provider.
Calling(r) ==
    /\ ~Running(r, "get_main") /\ ~Running(r, "get_ci")
    /\ run[r].pc = "claimed" => ScopeFailure(r)

\* Any failure: the run is over, its current call may still arrive.
Interrupt(r) ==
    /\ run[r].pc # "ended"
    /\ run' = [run EXCEPT ![r].pc = "ended"]
    /\ pending' \in {pending} \cup
           (IF Calling(r) THEN {pending \cup {NextCall(r)}} ELSE {})
    /\ UNCHANGED <<queueVars, reads, insp, ownerSaves>>

\* The database executes a call whose caller has given up.
Deliver(call) ==
    /\ Execute(call)
    /\ pending' = pending \ {call}
    /\ UNCHANGED <<run, reads, insp, ownerSaves>>

-----------------------------------------------------------------------------
(* The owner *)

OwnerCreate(t) ==
    /\ Cardinality({u \in TaskIds : Exists(u)}) < MaxCreated
    /\ agent_create_checkpoint(t)
    /\ UNCHANGED runVars

\* An unfenced save of any document with any status the procedure accepts,
\* putting blocked work back into the queue included.
OwnerSave(t, status, state) ==
    /\ ownerSaves < MaxOwnerSaves
    /\ agent_save_checkpoint(t, tasks[t].revision, status, state)
    /\ ownerSaves' = ownerSaves + 1
    /\ UNCHANGED <<run, pending, reads, insp>>

-----------------------------------------------------------------------------
(* HostedRecoveryInspector.propose for one task: two snapshots, each a read *)
(* of the row followed by a read of the ledger.                             *)

NoInspection == [pc |-> "idle", task |-> NoTask, row |-> NewRow, first |-> <<>>]

EvidenceOf(t) == {e \in events : e.event_type \in EvidenceTypes /\ e.task = t}

ReadRow(t) ==
    /\ \/ insp.pc = "idle"
       \/ insp.pc = "first" /\ insp.task = t
    /\ Exists(t)
    \* _parse_lease refuses a running row that nobody leases
    /\ tasks[t].status = "running" => tasks[t].lease_owner # NoWorker
    /\ insp' = [pc    |-> IF insp.pc = "idle" THEN "row1" ELSE "row2",
                task  |-> t,
                row   |-> tasks[t],
                \* a row that changed already decides the comparison to come
                first |-> IF insp.row = tasks[t] THEN insp.first ELSE <<>>]
    /\ UNCHANGED <<queueVars, run, pending, reads, ownerSaves>>

\* _current_generation_evidence raises
Ahead(row, e) ==
    e.generation > row.lease_generation \/ e.revision > row.revision

\* What _snapshot_identity compares.
Snapshot(row, expired) ==
    LET mine == {e \in EvidenceOf(insp.task) : e.generation = row.lease_generation}
    IN  <<row, expired, mine>>

\* The report of the first snapshot, or the proposal after the second.
ReadLedger(v) ==
    /\ insp.pc \in {"row1", "row2"}
    /\ LET row     == insp.row
           expired == row.status = "running" /\ row.lease_expires_at <= v
           snap    == Snapshot(row, expired)
           pc      == IF \E e \in EvidenceOf(insp.task) : Ahead(row, e) THEN "alarm"
                      ELSE IF insp.pc = "row1" THEN "first"
                      ELSE IF snap # insp.first THEN "changed"
                      ELSE IF expired THEN "reconcile"
                      ELSE "report"
       IN  insp' = [insp EXCEPT !.pc = pc, !.first = IF pc = "first" THEN snap ELSE <<>>]
    /\ UNCHANGED <<queueVars, run, pending, reads, ownerSaves>>

\* Mutant: the reconciler looks up the revision again instead of using the one
\* its proposal is bound to.
ReconcileLatest ==
    /\ insp.pc = "reconcile"
    /\ \E v \in ClockReadings :
          agent_reconcile_expired_lease(insp.task, tasks[insp.task].revision,
              insp.row.lease_generation, insp.row.state, v)
    /\ insp' = NoInspection
    /\ UNCHANGED <<run, pending, reads, ownerSaves>>

\* An authorised reconciler acts on the proposal, now or much later.
ReconcileProposed ==
    /\ insp.pc = "reconcile"
    /\ \E v \in ClockReadings :
          agent_reconcile_expired_lease(insp.task, insp.row.revision,
              insp.row.lease_generation, insp.row.state, v)
    /\ insp' = NoInspection
    /\ UNCHANGED <<run, pending, reads, ownerSaves>>

\* The proposal is dropped, or the error reported; somebody may look again.
InspectionOver ==
    /\ insp.pc \in {"changed", "report", "reconcile", "alarm"}
    /\ insp' = NoInspection
    /\ UNCHANGED <<queueVars, run, pending, reads, ownerSaves>>

-----------------------------------------------------------------------------

HostedInit ==
    /\ QueueInit
    /\ run = [r \in Runs |-> NoRun]
    /\ pending = {}
    /\ reads = {}
    /\ insp = NoInspection
    /\ ownerSaves = 0

ClockTick == Tick /\ UNCHANGED runVars

\* The inspector's clock may be off by Slack.
InspectorClock == {v \in 0..(now + Slack) : v + Slack >= now}

HostedNext ==
    \/ \E r \in Runs : \/ Claimed(r) \/ ReleaseBlocked(r) \/ Accept(r)
                       \/ SaveState(r) \/ ApiGet(r) \/ Record(r)
                       \/ Finish(r) \/ Interrupt(r)
    \/ \E call \in pending : Deliver(call)
    \/ \E t \in TaskIds : OwnerCreate(t)
    \/ \E t \in TaskIds, s \in OwnerStatuses, p \in OwnerStates : OwnerSave(t, s, p)
    \/ ClockTick

InspectorNext ==
    \/ \E t \in TaskIds : ReadRow(t)
    \/ \E v \in InspectorClock : ReadLedger(v)
    \/ ReconcileProposed
    \/ InspectionOver

HostedSpec == HostedInit /\ [][HostedNext]_vars
HostedSpecWithRecovery == HostedInit /\ [][HostedNext \/ InspectorNext]_vars
-----------------------------------------------------------------------------
(* Properties *)

\* The provider is asked on behalf of a task by one run of one generation, ever:
\* whatever is requeued, reclaimed or delivered late, the prior attempt is seen.
OneExecutionPerTask ==
    \A a, b \in reads :
        a.task = b.task => a.worker = b.worker /\ a.generation = b.generation

\* A task that is none of the runs' own may be claimed by the first-in-first-out
\* claim, but all that ever happens to it then is its release as blocked: it is
\* not worked on under the lease, and the provider is not asked on its behalf.
ForeignWorkOnlyBlocked ==
    \A t \in TaskIds \ {Expected[r] : r \in Runs} :
        /\ \A e \in LeaseLog : e.task = t =>
              \/ e.event_type = "lease_claimed"
              \/ e.event_type # "lease_checkpoint_saved" /\ e.status = "blocked"
        /\ \A a \in reads : a.task # t

\* The provider is asked only while the database still shows the run's lease as
\* live, although the run relies on its own clock and an old answer.
ReadsUnderLiveLease == \A a \in reads : a.live

\* A run that a worker released as completed left an observation and, later, a
\* positive verification of the same generation in the ledger, and no negative
\* one: completion never outruns the evidence for it.
VerifiedCompletion ==
    \A e \in events :
        e.event_type = "lease_released" /\ e.status = "completed" =>
            \E o, v \in EvidenceOf(e.task) :
                /\ o.event_type = "github_observation"
                /\ v.event_type = "github_verification" /\ v.verified
                /\ o.generation = e.generation /\ v.generation = e.generation
                /\ o.revision < v.revision /\ v.revision < e.revision
                /\ \A n \in EvidenceOf(e.task) :
                      /\ n.event_type = "github_verification"
                      /\ n.generation = e.generation
                      => n.verified

\* The appends are not fenced, yet evidence never claims a generation or a
\* revision that its task has not reached: the ledger as a whole never
\* contradicts the row.
EvidenceWithinRow ==
    \A t \in TaskIds : \A e \in EvidenceOf(t) : ~Ahead(tasks[t], e)

ProgressRank(p) == CASE p = "unstarted" -> 0 [] p = "attempted" -> 1 [] p = "verified" -> 2
                        [] OTHER -> 0
ForwardStep ==
    \A t \in TaskIds :
        tasks[t].lease_owner # NoWorker =>
            ProgressRank(tasks'[t].state) >= ProgressRank(tasks[t].state)

\* No document the step's progress was saved in is lost while work is leased:
\* progress only moves forward, through a reconciliation too, although that
\* writes back the document of an old snapshot.
LeasedProgressMonotone == [][ForwardStep]_vars

\* An attempt is on record before the provider is asked, so that a run that
\* stops is never mistaken for one that did not start.
AttemptRecordedFirst ==
    \A a \in reads :
        \A t \in TaskIds : a.task = t /\ tasks[t].lease_owner # NoWorker
                           /\ tasks[t].lease_generation = a.generation =>
            tasks[t].state # "unstarted"

\* The provider is asked only under a live lease and behind a recorded attempt,
\* although the run trusts its own clock, old answers and saves that may be late.
ReadsAreGuarded == ReadsUnderLiveLease /\ AttemptRecordedFirst

\* The unfenced evidence in the ledger bears out every completion and never
\* contradicts the row, in whatever order appends and saves arrive.
EvidenceIsSound == VerifiedCompletion /\ EvidenceWithinRow

=============================================================================
