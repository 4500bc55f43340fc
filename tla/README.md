# A formal model of the keirin agent runtime and its offline pipeline

The repository holds a keirin (bicycle race) prediction web page, the offline
machine learning around it, and an *agent runtime*: a small system that runs
read-only maintenance tasks, on one host or as leased work in a database, and
keeps rotating credentials for that.  The agent runtime is where most of the hard
behaviour is (leases, fencing, late calls, crashes, ambiguous writes).  The
offline side has its own: files that several programs write and read at
different times, and rules about which record of a race may be learned from.
This project models both.  The TLA+ modules are checked by TLC on small
instances; every safety property of the passing runs is also
proved with TLAPS for every instance, as are the implementations of the queue by
its workers, of the compare-and-swap register by the secret backend, and of the
custody installer by the installer with its probes.

## 1. The system

| Component | State it keeps | Operations | What makes it correct |
|---|---|---|---|
| Durable queue and ledger (`supabase/migrations`) | `agent_tasks` (status, revision, attempts, lease owner, generation, expiry, state document), `agent_task_events` | create, unfenced save, two claims, fenced save, reconcile expired lease, append event; row triggers; a partial unique index | one holder per lease, unique fencing tokens, no write by an ended lease, no automatic requeue, a complete ledger, one active trusted run |
| Hosted clients (`hosted_queue.py`, `exact_task_queue.py`, `hosted_checkpoint.py`, `hosted_activity.py`) | none | one request each | they pass on the identity (revision, worker, generation) they were given |
| Hosted read-only worker (`hosted_readonly_worker.py`, `tools/agent_hosted_repository_worker.py`) | the lease as last answered, the observation | `run_next`: claim, scope check, fenced saves around every provider read, evidence, completion | a task is executed once, under a live lease, and completed only with evidence |
| Recovery inspector (`hosted_recovery.py`) | two snapshots | `propose`, and the reconciliation acting on it | a proposal acted on late cannot undo anything |
| Local runner and file store (`runner.py`, `store.py`) | one state file per task, a `flock`, an activity file | `run`, `reconcile_blocked_step` | effects that must not be repeated are not; what is completed is real |
| Trusted run enqueue and single-run host (`trusted_run_enqueue.py`, `single_run_host.py`) | none | `ensure_queued`, `run_once` | an approved instance is used once |
| Worker coordinator (`hosted_worker.py`) | none | `inspect_next` | what it claims it gives back, and nobody runs it afterwards |
| Credential refresh (`versioned_secret_store.py`, over `durable_secret_store.py`) | one versioned record per binding | `refresh_access`, two recoveries, `revoke` | single-use refresh secrets are neither replayed nor lost |
| Secret backend (`postgres_secret_process.py`, `postgres_secret_backend.py`, `secret_custody_c2_candidate.sql`) | one row per binding, a child process and a database session per call, a quarantine flag | `read`, `compare_and_swap` | atomic compare-and-swap with truthful answers, whatever is killed when |
| Refreshing provider (`refresh_credentials.py`) | state, busy flag, cached grant, time anchor | `snapshot`, `revoke` | one refresh at a time and none repeated, revocation wins, snapshots live long enough |
| Custody identity installer (`review/secret_custody_h2.py`) | a system account and group, four installed paths, a receipt, a state directory that is also the lock | `apply`, `verify`, `rollback` | "installed" is said only of what was installed; an interrupted operation can be undone; the administrator's own files and accounts are not touched |
| Custody probes (`secret_custody_h2b.py`, `_h2c.py`, `_h2d.py`) | transient units of the service manager | run a sandbox or process-failure probe, clean up | a pass is earned; nothing outlives the probe |
| Historical intakes and training plan (`ml/historical_*.py`) | saved pages and tables, review records | three intakes, audit, `prepare` | a race that enters a partition has the order it was won in, and no knowledge from after its start |
| Historical preparation (`historical_preparation.py`) | `task.json`, `preparation.json`, the runner's state file | `run_preparation`, with or without reconciliation | the plan is computed once, and what is on record is what is in the directory |
| Synthetic workbench (`synthetic_workbench.py`, `synthetic_session.py`, `model_history.py`) | a session file and its copy in memory | predict, settle, hold, select, start | what was answered survives; the session can always be loaded again; the review is complete |
| Offline learning and evaluation (`settle_snapshot.py`, `dataset.py`, `evaluation_protocol.py`, `evaluate_offline.py`, `train_position_models.py`, `predict_position_models.py`) | history files, a model directory | settle, select, split, train, load | no look-ahead; disputed races stay out; what is loaded is one whole training |
| Not modelled | | | see section 7 |

How they interact.  The hosted worker drives the *same* `AgentRunner` as the
local one, over a store object that turns each `save_state` into the fenced save
of the queue.  Worker, owner, inspector and reconciler share nothing but the two
database tables, each call of which is one transaction.  Calls travel over HTTP
through an edge function, so an answer can be lost while the call is executed,
at once or later.  The credential source shares its record with other hosts
through compare-and-swap only, and talks to a provider that rotates the secret
on use.  That compare-and-swap is executed by the secret backend in a spawned
process; `CasRegister` states the contract between the two.  The refreshing
provider of a host sits on top of the credential source and serves its threads.

On the offline side the preparation runs the `historical_training` plan as the
one step of an `AgentRunner` task, so `Preparation` is composed of `LocalRunner`
and `RaceIntake`.  A custody probe verifies the installation with the installer's
own code and takes its lock, so `CustodyProbe` extends `CustodyInstall`.  The
workbench and the evaluation share nothing but files with the rest.

What is hard here: stale workers and stale snapshots writing late; a clock that
is read before a lock is waited for; several hosts with one worker id; a process
that dies between recording an attempt, acting and recording the result;
ambiguous writes followed by a read-back that is itself too early; installers and
savers that stop between two file operations; pages that are saved before and
after the facts they show have changed; operators acting in the middle of all
that.  `PROJECT.json` lists each of these hazards at
its line, with the properties that would catch it.

## 2. Modules

| Module | Models | Variables |
|---|---|---|
| `AgentQueue` | the stored procedures, triggers and the index | `tasks`, `events`, `now` |
| `AgentQueueProofs` | theorems about `AgentQueue` | |
| `HostedRun` (extends `AgentQueue`) | worker, owner, inspector and reconciler on the queue | `run`, `pending`, `reads`, `insp`, `ownerSaves` |
| `HostedRunProofs` (extends `AgentQueueProofs` too) | theorems about `HostedRun` | |
| `SecretStore` | credential refresh, operators, provider | `store`, `writes`, `host`, `op`, `provider`, `requests`, `reply`, `sends` |
| `LocalRunner` | runner, file store, lock, reconciliation | `disk`, `lock`, `proc` and history variables |
| `TrustedRun` (extends `AgentQueue`) | `run_once` on several hosts, the coordinator and the owner on the queue | `host`, `inspector`, `lateCreates`, `executions`, `requeues` |
| `TrustedRunProofs` (extends `AgentQueueProofs` too) | theorems about `TrustedRun` | |
| `CasRegister` | what a durable secret backend promises (abstract) | `version`, `expected`, `applied`, `outcome` |
| `DurableCas` | the process-isolated PostgreSQL backend; implements `CasRegister` | `row`, `session`, `child`, `message`, `parent`, `call`, `expected`, `outcome`, `quarantined` |
| `CredentialProvider` | `RefreshingCredentialProvider`, its source and its clocks | the provider's fields, `wall`, `mono`, `source`, `request`, `snapshots`, `refreshes` |
| `CredentialProofs` | theorems about `SecretStore`, `DurableCas` and `CredentialProvider` | |
| `CustodyInstall` | the identity installer, the administrator | `obj`, `saved`, `draft`, `user`, `group`, `loaded`, `proc`, `answer` and history variables |
| `CustodyProofs` | theorems about `CustodyInstall` | |
| `CustodyProbe` (extends `CustodyInstall`) | the probes, the service manager and the units | `units`, `launcher`, `names`, `failed`, `kinds` |
| `CustodyProbeProofs` | theorems about `CustodyProbe`, with `CustodyProofs` instantiated | |
| `Workbench` | the workbench server and its session file | `mem`, `file`, `synced`, `saving`, `next`, `expected`, `copies`, `acked`, ... |
| `FileStoreProofs` | theorems about `LocalRunner` and `Workbench` | |
| `Evaluation` | settling, selection, split, training directory, loading | `clock`, `snapshots`, `records`, `training`, `dir`, `reader`, ... |
| `RaceIntake` | one race, its pages, the three intakes, the training plan | the race, the pages and tables saved, `rows`, `reviews` |
| `Preparation` (extends `LocalRunner`, `RaceIntake`) | `run_preparation` | theirs, and `files`, `reason`, `reconciled`, `caller`, `receipts` |
| `OfflineProofs` | theorems about `Preparation`, `RaceIntake` and `Evaluation` | |
| `MC*` | constants, symmetry sets | |

Operators named like a mapped definition plus a suffix and commented *Mutant*
(for example `SaveLeasedAnyOwner`) are broken variants of that definition; no
specification uses them.  Each property of each passing run is violated when
one of them takes the place of the original, which shows that the property
depends on the code it is about.

### AgentQueue

One action per stored procedure: `agent_create_checkpoint`,
`agent_save_checkpoint`, `agent_claim_task` / `agent_claim_next_task`,
`agent_save_leased_checkpoint`, `agent_reconcile_expired_lease`,
`agent_append_event`.  Guards are the procedures' `where` clauses; a procedure
that raises has no effect and is simply not enabled.  `WriteRow` holds what the
two row triggers add to every update: a completed row is immutable, and a
`checkpoint_saved` entry is logged.  Arguments are chosen freely, so every stale,
repeated or delayed call is among the behaviours.  `v_now` is a clock reading up
to `MaxLag` ticks old, because the procedures read `clock_timestamp()` before
they wait for the row lock.  `SKIP LOCKED` makes any claimable row a possible
answer of `agent_claim_next_task`.

### HostedRun

`Script` is the sequence of database and provider calls of an undisturbed run,
read off `AgentRunner._run_locked` and the worker's `read`, `verify`, `record`
and `fence`; each entry is performed by one action.  `Fenced` is the pair of
`check_time` calls in `fence`.  `Interrupt` stands for every exception on the
path (the code never cleans up after one) and may leave the call in `pending`,
from where `Deliver` executes it later or never.  Two runs with one worker id
model a host restarted while the old process still lives.  `ReadRow` and
`ReadLedger` are the two requests of an inspection, taken twice by `propose`;
`ReconcileProposed` uses the revision, generation and document of the proposal.
`Slack` bounds clock skew plus the time between a check and the call it guards;
the assumption `Slack <= Margin` is what the 30 seconds of `check_time` are for.

### SecretStore

One action per compare-and-swap or read of `refresh_access`, so that anything
can happen in between.  A compare-and-swap succeeds, conflicts, or is ambiguous;
an ambiguous one stays in `writes` until it is applied (if its version still
fits) or forever.  The provider (external) rotates, rejects or never sees a
request, also after the host has given up.  The operators of the recovery
operations are assumed to have the proof the docstrings ask for
(`recover_ambiguous_not_applied`: the exchange was not, and will not be, applied).

### LocalRunner

The steps of `_run_locked` between two saves are one action each.  `Invoke` has
the outcomes success, refusal before any effect (`BlockedAction`) and failure
with the effect in doubt.  `Crash` may happen anywhere and frees the lock, as the
kernel does.  The operator may name any step in a reconciliation, and says the
truth about its effect.

### TrustedRun

`ensure_queued` is read, create, and a second read when the create conflicts,
one action each; a conflict means that the row exists *or* that the partial
unique index refused it.  A create whose answer is lost may arrive later
(`LateCreate`).  The execution is reduced to the save that records the attempt
and the save that ends the run: what happens in between is `HostedRun`'s
subject.  `inspect_next` is claim, append, release; an append or a save that
raises leaves through `InspectFails`, since nothing catches it.

### CasRegister and DurableCas

`CasRegister` is the contract of `DurableSecretBackend`: a replacement is applied
atomically on top of the version it expects, and the answers `ok`, `conflict` and
`unavailable` are true for good, while after `ambiguous` the replacement may be
applied at any later time.  `DurableCas` models what is behind one call: the
parent with its deadline, the child, the database session and the row lock.
A session runs on when its client is dead: a commit that was sent is executed
or not, as the server pleases.  The refinement maps `applied` to the sessions that
committed; everything else maps to itself.

### CredentialProvider

The two critical sections of `snapshot` are one action each, and so is each call
of the source in between, because the lock is not held there.  `CurrentTime` is
`current_time` with its anchor; the wall clock may be set back at any moment and
runs with the monotonic clock otherwise.  The source may answer, fail, or report
that it is revoked, and may return a grant that is too short, from the future or
not the one bound.

### CustodyInstall and CustodyProbe

An operation is a script: the sequence of host steps (create a path, set its
owner, mode and bytes, replace the receipt, add the account, ...) in the code's
order, and `Abort` may end it before any of them with nothing cleaned up.  A path
can therefore be half made.  `apply` and `rollback` lock the state directory;
`os.open` and `flock` are two steps, and `AtomicLock` says whether another process
may act in between.  The administrator (external) edits files and accounts
between operations.  Unit names in a probe are fresh, exceptions continue at the
`finally` block that the code would run next (`Handler`), and a kill runs none.
The service manager is external: it starts what was requested, enforces
`RuntimeMaxSec`, kills the control group and reaps.

`verify` is a sequence of unlocked reads in `CustodyInstall` and one step in a
probe.  `VerifiedWasInstalled` is what makes that sound: for a verify that passes
there is an instant of its run at which everything was in place (`InPlace`), and
that instant is the step.  That no process runs under the account is what verify
saw when it looked, and is not part of `InPlace`, see section 4.

### Workbench

Requests are serialised by the server's lock.  A save is compare, replace, fsync
and commit, one action each.  The process can stop between any two (`Stop`), which
leaves the file as it is; when the machine stops (`MachineStop`), then or later,
a replace that was not synced may be undone.  `Restore` puts an earlier
copy of the file back, after which what was answered since is lost on purpose
(`acked` follows it).

### Evaluation

`records[r]` is what `load_records` meets of race `r`, in reading order; a new
record falls anywhere in it.  `prepare_records` and `split_records` are operators over
it, so the evaluation is looked at in every state.  Training writes the files of
the model directory one after the other, each opened empty and then written;
loading reads each file twice (contents, then digest), between any of these.

### RaceIntake and Preparation

The race is a small world of its own: its start moves once, riders withdraw, it
is cancelled or finishes with ties and riders who do not, payouts are shown
wrongly before they are shown rightly.  Pages and tables show that world at the
time they were saved.  `join`, `reconcile` and `review_records` are the three
intakes, `prepare` the audit and the partition.

Each intake names the race in its own way and
the audit compares records of one `race_id` only; so in the model the `race_id` is
the intake, `prepare` gives a partition to each `race_id`, and two records of one
race from two intakes do not meet.  What `convert` makes of a table has no times:
the operator supplies them (`Timed`), any of `Attested`, before the record is
confirmed and reviewed, as `tests/test_historical_details.py` does.  A file given
to `prepare` has one or two records (`Assemble`), which are then reviewed (`Review`,
by record, as a review carries the record's digest).  `Preparation` adds the two
`O_EXCL` files of a run directory (torn until written), the adapter that computes
and reads back the report, reconciliation, receipts, and an operator who edits
the inputs meanwhile.

## 3. Runs

| Run | Instance | Distinct states | Properties |
|---|---|---|---|
| `agent_queue` | 1 task, 2 workers, 2 attempts, leases of 1 and 2 ticks, 5 revisions, 3 ticks, lag 1 | 46,712 | `QueueInv`, `FencedWrites`, `LedgerGapFree`, `LiveLeaseOnlyHolderWrites`, `ExpiredLeaseNeverRequeued` |
| `hosted_run` | 2 runs with one worker id, the trusted task and a foreign one, lease of 2 ticks, one requeue, inspector | 829,891 | `OneExecutionPerTask`, `ForeignWorkOnlyBlocked`, `ReadsAreGuarded`, `EvidenceIsSound`, `LeasedProgressMonotone` |
| `secret_store` | 3 refreshes, 2 operator calls | 871,658 | `ExchangesOnce`, `GrantsAreCurrent`, `RevokedIsFinal` |
| `local_runner` | 3 steps (one retry-safe), 2 processes of which one lacks the adapter of step 3, 2 specs, 2 reconciliations | 545,652 | `EffectsBounded`, `CompletedIsReal`, `RunEnds` |
| `durable_cas` | 2 calls, 2 hosts | 74,248 | `DurableInv`, `ImplementsCas`, `RevocationFinal`, `TransactionsEnd` |
| `credential_provider` | 3 requests, minimum lifetime 2, grants of 1 and 3 seconds, 4 seconds | 1,059,667 | `RefreshesOnce`, `SnapshotsSound`, `RevokeWins` |
| `trusted_run` | 3 hosts, 2 instances, 1 coordinator, 1 requeue, 2 attempts | 305,787 | `ApprovalSpentOnce`, `SingleActiveTrustedRun` |
| `custody` | 2 processes, 4 operations, 1 edit; or an installed host, 2 units, both probes | 436,743 | `VerifiedWasInstalled`, `RemainsAreRecoverable`, `ProbesAreSound`, `ForeignUntouched`, `ProcessesEnd` |
| `custody_lock_race` | 2 processes, 4 operations, lock in two steps | violation | `MutationSerialised`, see findings |
| `workbench` | 3 snapshots ever, session limit 2, 2 outcomes and a dead heat, 2 restarts, 1 restore | 716,018 | `AnsweredSurvives`, `SessionNeverLocksItself`, `ReviewIsFaithful` |
| `evaluation` | 5 races, one contested with up to 3 records; 2 trainings into one directory | 1,778,652 | `EvaluationIsHonest`, `LoadedWhole`, `DisputeNotOutvoted` |
| `preparation` | 4 cars, 3 splits, 4 instants; or a finished archive, 2 launches, 1 edit | 437,372 | `PreparedOnce`, `RecordedIsExact`, `PartitionedIsTrue`, `TiedOutcomesExact` |

Several properties are conjunctions of parts that are stated, and commented, one
by one in their modules: `FencedWrites` of unique tokens, writes in their order
and silence after the end; `ReadsAreGuarded` of a live lease and an attempt on
record around each provider read; `EvidenceIsSound` of evidence before completion
and none ahead of its row; `ExchangesOnce` of no replay and one exchange at a
time; `GrantsAreCurrent` of a ready record holding the provider's current secret
and grants handed out only after the commit; `EffectsBounded` of unsafe effects
once and attempts within the budget; `RefreshesOnce` of a busy flag that always
has an owner and refreshes that are not repeated; `SnapshotsSound` of lifetimes
and source revocation; `ApprovalSpentOnce` of one execution and only of an
instance nobody else held; `RemainsAreRecoverable`, `ProbesAreSound`,
`ReviewIsFaithful` and `EvaluationIsHonest` likewise.

Why the bounds are enough.  Queue: two attempts let a second generation meet
late calls of the first, and five revisions hold claim, save, release, requeue
and claim.  Two tasks matter only to the index, which `trusted_run` exercises.
HostedRun: the script has 17 calls, `MaxRevision = 16` never stops a run that
the lease would let finish, and a lease of two ticks in three can expire at
every point of it.  `MaxCreated = 1` puts one task in the queue, the
expected or the foreign one: a run claims at most one task, and rows of two tasks
share nothing outside the index.
SecretStore: three attempts give a holder, a competitor and a successor.
LocalRunner: a step that must not be repeated, a retry-safe one after it and one
that only one of the two processes can run; two decisions allow a wrong step to be named
before the right one.  TrustedRun: two hosts compete for one instance and a third
holds the other, so that both causes of a conflict occur; two attempts let a
requeued instance be claimed again.  DurableCas: a holder and a competitor, of one
host, so that a quarantine meets a call under way, or of two; the theorems cover
any number.  CredentialProvider: a grant of 3 seconds outlives the minimum of 2
for one tick only, and one of 1 is always refused; three requests give a first
grant, a cached one and a rotation.  Custody: four operations hold apply,
interrupted rollback, rollback and apply, beside a verify; two units are what the
failure probe starts.  Workbench: a limit of two with three keys makes a full
session, and a restart after a failed save happens twice.  Evaluation: five races
are the fewest that fill all three parts of the split with a purged record in
between; three records of the contested race give a tie and a late dispute.
Preparation: four cars allow every tie among three places and one rider who does
not finish; the archive is worked on only at `MaxTime`, when everything that could
be saved is; payouts are shown wrongly at most once, and at most one rider fails
to finish.  Nothing is saved after the records were assembled; a header is saved
before its result page, whose order matters to the times only, and the join takes
the earlier and the later of them; a second export of the tables happens where no
page was saved, since collecting exports looks at no page.  Two attested triples of
times, one in order and one not, are before and across the boundaries.  Two
confirmed, different records are what a conflict and a race under two `race_id`s take
(a record given twice is among the edits of an archive), and the record `prepare` keeps
of a `race_id` is the one reviewed, or none is.

Three runs start from either of two kinds of initial state, so that two questions
are explored side by side and not multiplied: `custody` (a fresh host for the
installers, an installed one for the probes), `evaluation` (collecting, or
training from a finished collection) and `preparation` (the race, or a finished
archive to prepare).

`custody` sets `AtomicLock`: no process acts between opening and locking the
state directory.  That is an assumption about how the script is used, not a fact
about the code; `custody_lock_race` shows what happens without it.

Deadlock checking is off where the system may stop for good: bounded clocks and
revisions, finished runs, a revoked credential, a state file from before specs
were bound (which every run refuses), a host left for review.

Symmetry is used on worker, run, attempt, request, operator and car names,
none of which the definitions compare except for equality, and only in runs
without liveness.

Fairness is assumed in three runs.  `FairRunnerSpec` asks that a process which
is inside `run` and can take a step eventually takes one (`WF` of its own
steps).  The code justifies it as far as actions and verifiers return: nothing
in `_run_locked` waits, the lock is nonblocking, and loops are bounded by the
spec.  No fairness is assumed of crashes, operators, or of being started again.
`DurableFairSpec` asks three separate things of the server: a statement whose row is
free is executed, a transaction that stays idle with the row is aborted
(`idle_in_transaction_session_timeout`, which the backend sets on every connection),
and a commit that was sent is performed or fails.  Nothing is asked of children,
parents and networks, nor of `lock_timeout`.  `TransactionsEnd` is that every
transaction once submitted, one that waits for the row included, ends as stale,
committed or aborted: it takes an argument over both sessions, since what lets a
waiting statement run is that the holder's transaction ended.  Each call takes the
row once, so that weak fairness of the waiting statement is enough.
`ProbeSpec` asks of the service manager alone that its deadlines, kills and
reaping happen (`RuntimeMaxSec` and `KillMode=control-group` are set on every unit
of a probe); nothing is asked of the scripts or of the processes in a unit.

## 4. Findings and observations

The finding that a run shows, `custody_lock_race`: `lock()` opens the state
directory and then takes `flock` on the descriptor, without checking that the
path still names that directory.  A rollback in between removes it, a new apply
creates another one and locks that; the first process then locks the deleted
inode, and both change the package at once.  The review says that an advisory
lock serializes package mutation.

Observations made while modelling, which no run is devoted to:

* The recovery inspector reads the row, then the ledger, in two requests.  If the
  worker saves and records evidence in between, it raises
  `evidence_revision_ahead_of_checkpoint` although the tables never contradict
  each other (`EvidenceIsSound`).  The effect is a false alarm, not a wrong write.
* A claim of a credential whose write is ambiguous and not visible on read-back
  leaves the record alone.  If the write is applied later, the record stays
  `refreshing` under an attempt nobody continues, and only `revoke` is left.  It
  fails closed: `ExchangesOnce` is not affected.
* `inspect_next` appends to the ledger between claim and release.  When the append
  raises, the task stays `running` until its lease expires and is reconciled.  No
  work is done twice (`ApprovalSpentOnce`).
* Training again into a directory that holds models can leave files of two
  trainings there, which `load_models` accepts: it compares versions and columns,
  which all trainings share, and records a digest without comparing it.
  `LoadedWhole` is therefore about a directory that was trained into once.
* The validation split inside `train` does not purge labels that became known
  late; the evaluation's `split_records` does, and `NoLookAhead` is about that one.
* A unit that a killed probe had requested may be started late, under the number of
  a later account, after verify looked for processes of the account and before it
  answers.  Verify's report is then true of the files, the account and the unit,
  at one instant, but no instant of its run need be without such a process.
  `VerifiedWasInstalled` says the former.
* A table's record lists every rider of its card, those withdrawn before the start
  included (`historical_records.py:61`), and `prepare` accepts it: a partition may
  hold riders that did not start.  `PartitionedIsTrue` says that all starters are
  among the riders, and that the riders are exactly the starters in a record from
  the official pages, whose `join` removes the withdrawn.
* The times of a table's record are the operator's word: nothing compares them with
  the race.  That such a record is free of look-ahead is not a property of the
  code, and `PartitionedIsTrue` only says that its times are in order.
* One race that came in through two intakes has two `race_id`s.  When both records
  are confirmed and reviewed, both are put in a partition, one perhaps in `train` and
  the other in `test`.  The audit's comment "Do not count the same race from two
  websites as two examples" (`historical_audit.py:35`) is true of records that share
  a `race_id`, which those of the intakes in `ml` do not.  Each of the two records is
  true by itself.
* A torn `task.json` makes a preparation directory unusable: every later launch
  refuses it.  Nothing wrong is recorded (`RecordedIsExact`).

## 5. Proofs

Eight modules hold theorems, each about one component or a few that belong
together, and for every value of the constants that the named assumptions allow.
Every inductive invariant was checked by TLC on a small instance before it was
proved.

| Module | About | Inductive invariants | Theorems |
|---|---|---|---|
| `AgentQueueProofs` | `AgentQueue` | `QueueInv` | `QueueInvariant`, `LeaseShapeHolds`, `FenceTokensUnique`, `WritesAreFenced`, `EndedLeasesStaySilent`, `FencingHolds`, `GenerationsHaveOneWorker`, `LedgerHasNoGap`, `LiveLeasesAreExclusive`, `LeasedWorkNeverRequeued`, `OneActiveTrustedRun` |
| `HostedRunProofs` | `HostedRun` | `HostedInv` | `HostedInvariant`, `HostedImplementsQueue`, `TasksExecuteOnce`, `ForeignWorkIsBlocked`, `ReadsGuarded`, `EvidenceBearsOut`, `ProgressMovesForward` |
| `TrustedRunProofs` | `TrustedRun` | `TrustedInv` | `TrustedInvariant`, `TrustedImplementsQueue`, `ApprovalsSpentOnce`, `TrustedRunsAreSingle` |
| `CredentialProofs` | `SecretStore` | `SecretInv` | `SecretInvariant`, `SecretsExchangedOnce`, `GrantsRestOnRotation`, `RevocationIsFinal` |
| | `DurableCas` | `DurableInv` | `DurableInvariant`, `UpdatesAreNotLost`, `ConflictsAreStale`, `BackendRevocationIsFinal`, `BackendImplementsCas` |
| | `CredentialProvider` | `CredentialInv` | `CredentialInvariant`, `RefreshedOnce`, `SnapshotsAreSound`, `RevocationWins` |
| `FileStoreProofs` | `LocalRunner` | `RunnerInv` | `RunnerInvariant`, `EffectsAreBounded`, `CompletionIsReal` |
| | `Workbench` | `WorkbenchInv` | `WorkbenchInvariant`, `AnswersSurvive`, `SessionsStayUsable`, `ReviewsAreFaithful` |
| `CustodyProofs` | `CustodyInstall` | `ForeignInv` with types and places | `InstallerAlone`, `CustodyInvariant`, `ForeignThingsSurvive` |
| | | `LockInv`, `HostInv`, `SeenInv` | `LockInvariant`, `MutationIsSerial`, `HostInvariant`, `StopsAreRecoverable`, `VerifiedIsTrue` |
| `CustodyProbeProofs` | `CustodyProbe` | `ProbePlaced` | `ProbesImplementInstaller`, `ProbePlacesHold`, `ProbedForeignSurvives`, `ProbedMutationIsSerial`, `ProbedStopsAreRecoverable`, `ProbedVerifyIsTrue` |
| | | `PassInv`, `StandInv` | `PassInvariant`, `PassesAreEarned`, `ProbesReportTheTruth` |
| `OfflineProofs` | `Preparation` | `PrepInv` | `PrepInvariant`, `PreparesOnce`, `RecordsAreExact` |
| | `RaceIntake` | `RaceInv` | `RaceInvariant`, `PartitionsAreTrue`, `TiedOutcomesAreExact` |
| | `Evaluation` | `RecordsInv`, `ArtifactInv` | `RecordsInvariant`, `EvaluationsAreHonest`, `DisputesAreFinal`, `ArtifactInvariant`, `LoadsAreWhole` |

**Assumptions.**  Most only type the constants.  Those that say more:
`ActivityAssumption`, that nobody appends ledger entries under the lease
procedures' own names, which `agent_append_event` would accept (no caller in the
repository does); `EvidenceAssumption`, that the evidence of the hosted worker
is among the entries that may be appended; `Slack <= Margin` in `RunAssumption`,
that the worker's clock is off by no more than the margin it keeps;
`SingleAttemptAssumption`, that a step which is not retry-safe has one attempt,
which the task spec's validation enforces; disjoint outcomes and held statuses in
`WorkbenchAssumption`; three to nine cars in `IntakeAssumption` (`audit` allows no others), any times before
`NoTime` for an operator to attest; finitely many races, which start after time
zero, and at least one outcome in `EvaluationAssumption`.

Two restrictions are not facts about the code.  The administrator does not give a group of his own the number that a
receipt records while the account is absent (`AdminAccount`): `identity(partial=True)`
(`secret_custody_h2.py:278-283`) asks no more of a group without an account than that
number, no members and no other primary user, so a rollback would take such a group
for its own and delete it.  `ForeignUntouched` and its theorems hold under that
restriction, and say nothing about that case.  And `AtomicLock`, that no process acts
between `os.open` and `flock`, is a hypothesis in the statement of the custody
theorems that rest on the lock (`LockInvariant`, `MutationIsSerial`,
`HostInvariant`, `StopsAreRecoverable`, `VerifiedIsTrue`, and of the probes
`ProbedMutationIsSerial`, `ProbedStopsAreRecoverable`, `ProbedVerifyIsTrue`,
`ProbesReportTheTruth`).  `custody_lock_race` refutes `MutationSerialised` without
it.  The other custody theorems hold without it: what the administrator made
survives, a pass is earned, the probes implement the installer.

**The queue.**  None of the ledger properties is inductive
alone: that a generation writes nothing after its end depends on what the row
still allows.  `LedgerBehindRow` ties the two together: no entry is ahead of its
row, and while a generation holds the lease its entries are the holder's and
none of them ends it.  `AbsentUntouched` says that a task id without a row has
no entries, so that creation starts afresh.  `GenerationCountsAttempts` makes a
claim's new generation larger than every generation in the ledger.  With these,
an accepted write of revision `r+1` is new (every entry is at most `r`), belongs
to the current generation (the largest), and ends it only by clearing the owner.
Lemmas about the ledger (`PlainWriteLog`, `ClaimLog`, `HolderLog`) say what one
more entry does to the ledger properties; lemmas about rows (`SavedRow`,
`ClaimRow`, `LeaseRow`, `RowWrite`) say what each update does to a row; each
action's lemma (`CreateStep` ... `IdleStep`) combines one of each.
`LedgerHasNoGap` is inductive on its own once rows only ever grow by one revision.

**Hosted execution implements the queue.**  `HostedSpecWithRecovery => QueueSpec`:
every step of a worker, the owner, the reconciler, and every call that arrives
after its caller is gone, is a step of the queue or leaves it alone, so all of
the queue's theorems hold of the composition too.  `HostedInv` adds what the
queue does not know.  A run holds the row its last call returned, and as long as
that lease has not run out the row is still as the run knows it (`Holds`).  No
two runs, and no run and no late call, act under one lease token (`TokensInv`):
a run that stops leaves at most one call behind.  A run works on its own task,
under generation 1, and its attempt is recorded by the third call (`OnScript`);
with one worker per generation this gives `TasksExecuteOnce`.  `PendingInv` bounds
what a late save may still do: it is behind the row, or it moves progress
forward.  `RunEvidence` says, for each position in the script, what the ledger
already holds, and `ReleasedInv` that a released completion keeps its backing.

**Trusted runs implement the queue** in the same way.  `ClaimInv` and
`ExecutionInv` say that a claimed row's generation was handed to one host, and
that an execution is that of generation 1, so a second claim of a requeued
instance sees its attempts and declines.

**Credential refresh.**  `PendingInv`: every compare-and-swap that could still be
applied, those of unknown outcome included, is a legal successor (`Successor`) of
the record as it is now or is behind it for good.  `LiveInv`: at most one
attempt can still use the provider's secret, and the record says so, or is
revoked.  `StoreInv`: record and provider are at most one rotation apart.
`RevocationIsFinal` follows since `Successor` of a revoked record is empty.

**Refreshing provider.**  `RefreshInv` counts refreshes against stored grants by
where the owner of the busy flag is; `TimeInv` says that every time a call or a
snapshot carries is at most the floor of the clock anchor, which only rises
whatever the wall clock does; `HeedInv` that a snapshot taken from a revoked
source can only be the last.

**Local runner.**  `OneRunner`: the lock leaves one running process, whose copy is
the state file.  `OneStepInDoubt`: only the step in hand can be unresolved.
`AttemptsCover`: an attempt is on record for every call and every effect before
it happens.  With `AttemptsBounded` and `SingleAttemptAssumption` that is
`EffectsAreBounded`.

**Secret backend.**  `NoLostUpdate` needs to know that a holder
of the row lock expects the current version (`RowLock`) and that a committed call
is behind it (`Behind`).  That an answer stays true after it was given is `Answers`:
a response or an answer `unavailable` means that nothing was sent *and* that no
child is left to send it, `conflict` that the session ended as stale.
`ChildMatchesSession` and `CallOrder` connect the three actors of a call.  The
refinement has one step per action: `CasCommit` is `Apply`, `Read` is `Invoke`,
`Refuse`, `Response` and `Deadline` are `Answer`, and all others stutter.

**Workbench.**  `FilesInv`: every file there ever was passes `validate_session`.
`MemoryInv`: memory is the file as the server last read or wrote it.  `SavingInv`:
a save adds to memory and replaces the file memory came from.  `ReviewsAreFaithful`
counts the records of a review with the cardinality theorems.  The proof of it
showed that `HeldNeverEvaluated` has to be about a server that works from the file
that is there: when a newer copy is put back under a running server, after an
older one, the memory behind a review page is the older session until its next
save is refused.  One restore, as in the run, cannot show this; two can.

**Custody installer.**  All scripts are read off one list of steps, so that where a
process stands is a number (`place`), and `Placed` says that what it has left to
do is the rest of the script from there; one lemma per step (`MoveOpen`,
`MoveMake`, ...) says where it leads.  `ForeignInv` collects what the checks of
each script have established about files, account and group the installer did
not make; it needs no lock.  `LockInv` needs `AtomicLock`: a process under the lock
holds the directory that is there, and nobody else does or is preparing it.  From
then on a process under the lock is alone on the host, and `HostInv` says, place by
place, what it has done, and in `Remains` what any stop leaves.  `Remains` is
`RemainsAreRecoverable` nearly as it stands.  `SeenInv` follows verify, which takes
no lock: whoever is past its check of the files with the unit loaded has had
everything in place before its eyes since it began.

**Probes implement the installer.**  Seen from the host, a probe is a rollback that
opens the state directory, takes the lock and then waits under it until it gives
up.  The refinement mapping (`procBar`, `answerBar`) says so, and every step of the
composition is a step of the installer or one it does not see, so that all of the
installer's theorems carry over.  `PassInv` is what is known of a probe's units at
every place of its script (`CourseAt`): which were launched, which of them has
been seen to end and why, and that a report is given only after all of that and a
passed verify.  `StandInv` adds that what the probe verified stands while it works: it waits under the
lock (`HeldStill`), so no other process changes the host, and a probe itself does
not.

**Preparation.**  `Preparation` runs `LocalRunner`'s actions on a plan of one step.
`PrepInv` types the directory and says what the files, the progress and each
launch know of one another: `task.json` once written is the inputs of every launch
that passed it, an attempt is on record before `historical.prepare` is called, and
what is on record as completed was computed from that file (`RecordInv`).

**Intake.**  `RaceInv` says what saved pages say for good: a header saved at or
after the start it lists has the start the race had, a result page has the
result, tables of a race that was held have it too, and every record is one the
operator can supply from pages and tables as they still are (`SuppliedStay`).
`PartitionsAreTrue` is then about what the intakes compare, one lemma for each that
can reach a partition (a `list` record has no style and never does): for the official
join, without repeated ranks the confirmed order is
the only one that is paid (`JoinedIsTrue`); and a table whose one outcome is what
`outcomes` expands from its groups has, by the lemmas on ties below, the one order
that is payable (`TableIsTrue`).  `ReviewedIsChecked` and `PartitionGuards` say what
review and boundaries add, whichever of two records of the `race_id` is meant.

**Ties.**  `TiedOutcomesExact` compares two expansions of tied ranks with what is
payable; it needs no invariant but facts about the operators.  `Orders` is the set
of beginnings, of a width, of the orders that ranks allow on a set of cars.  When
one set of cars is in front of another, tied set, the orders of both are those
of the first followed by arrangements of the second (`OrdersParted`), or just those
of the first when it fills the width (`FrontIsEnough`).  `GroupsAreGrouped` shows
that the groups of a finish are such sets.  The prefixes of `tied_rank_outcomes` are
a fold over any number of groups, taken as a function on sets of places
(`TiedLoopIsOrders`).  The product of `outcomes` needs at most three groups for
three places (`NeededThere`), so its concatenation is unrolled (`Flattened`).

**Evaluation.**  `RecordsInv` types the history.  `NoLookAhead` holds of any history:
the boundaries are times of records in it, the first before the second, and
everything fitted or stopped on is known before the boundary it stays under.  That the `n`-th of the sorted times
exists is proved by a smallest counterexample.  That
`select_latest_eligible_per_race` returns an eligible record with no later one is a
statement about a loop, and so about a fold: `FoldIsLoop` turns the fold into a
function on sets of positions (`Held`), and well-founded induction on their
cardinality proves `LoopHolds`.  `ArtifactInv` knows how far the one training has
come: files are written in one order with the metrics last, so a reader that
has read whole metrics meets nothing but whole files.

**Only model-checked.**  `RunEnds`, `TransactionsEnd` and `ProcessesEnd`, since liveness
under fairness is beyond the prover.

## 6. What the models leave out of the code they cover

The ledger of the queue is a set of entries, where the table
`agent_task_events` gives each insertion a row: an entry that is identical to one
already there, task, revision, status and type, cannot be seen.  In the code a row
trigger inserts one checkpoint entry per update, and each update raises the
revision; a trigger that fired twice would go unnoticed here, and `LedgerGapFree`
is about missing and contradictory entries.

Payload validation (of records and responses too), fingerprints beyond equality, messages, diagnostics, row
level security (one owner), `not_before` (never set).  The GETs of one provider
action are one GET, each being fenced alike.  The informational ledger entries of
the worker are not kept: nothing reads them, and a failing append is an
`Interrupt`.  Artifacts of the local runner are not kept: no decision depends on them.  A torn
line of its activity file is not modelled either, since the file is read by
reports only.

Custody: the host's platform and the parent directories are preconditions, the
checks a probe makes inside its unit are one outcome, uid and gid are one number.
Workbench: page rendering and exports only read.  Evaluation and intake: features,
LightGBM, scores and the formats of pages, numbers and dates; a fitted model is
the set of records it has seen, a digest is what it is the digest of.

## 7. Not modelled, and the plan

Order of work: queue, hosted execution, credential refresh, local runner, secret
backend, refreshing provider, trusted runs and coordinator, custody installer and
probes, workbench, evaluation, historical intakes and preparation (done).  What a
later extension could add:

1. The edge functions: authentication, dispatch and the mapping of database
   errors to answers.
2. The store that `SecretStore` assumes, shown to be a `CasRegister` too, so that
   the backend and the refresh protocol meet at one abstract specification.
3. The static provider and the gated adapter around provider calls.
4. Qualification and bootstrap leases; planner and registry rules; the history
   merge of `prospective-tools-core.js`.

Left out for good: floating point prediction, probability and training
arithmetic, scraping and parsing of official pages, HTML and user interface code,
review scripts that validate host configuration plans, deployment packaging, and
the assembly code of command line tools.
