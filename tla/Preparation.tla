----------------------------- MODULE Preparation -----------------------------
(***************************************************************************)
(* agent_core/historical_preparation: run_preparation puts the plan that   *)
(* prepare computes (RaceIntake) in a private directory, as the one step   *)
(* of a task under AgentRunner (LocalRunner with N = 1, not retry-safe,    *)
(* verified).  Processes launch it, possibly to reconcile an interrupted   *)
(* run, on input files that the operator goes on editing, and die anywhere.*)
(*                                                                         *)
(* A hash of the inputs is the inputs.  A process whose next check fails   *)
(* can only Stop: that is the exception which leaves run_preparation.      *)
(***************************************************************************)
EXTENDS LocalRunner, RaceIntake

CONSTANTS
    Split,          \* the validation and test starts given to every launch
    MaxEdits        \* bound: edits of the input files

ASSUME PreparationAssumption == N = 1 /\ RetrySafe = {} /\ HasVerifier = {1} /\ Split[1] < Split[2]

VARIABLES
    files,          \* task.json and preparation.json
    reason,         \* blocked_reason in the state file
    reconciled,     \* reconciliations in the state file
    caller,         \* each process: where it is in run_preparation, its inputs, its flag
    receipts,       \* inputs of the receipts that say completed
    open, edits     \* whether there is an archive to prepare, edits so far

prepVars == <<files, reason, reconciled, caller, receipts, open, edits>>
allVars == <<runnerVars, intakeVars, prepVars>>

NoFile == <<"none">>
Torn == <<"torn">>
NoInputs == <<>>

Inputs == <<rows, reviews>>

expected_report(inputs) == <<inputs, prepare(inputs[1], inputs[2], Split)>>

Unedited(p) == caller[p].inputs = Inputs

check(p) == Unedited(p) /\ files.output = expected_report(caller[p].inputs)

At(p, pc) == caller[p].pc = pc

Goto(p, pc) == caller' = [caller EXCEPT ![p].pc = pc]

Gone == [pc |-> "idle", inputs |-> NoInputs, flag |-> FALSE]

End(p) ==
    /\ caller' = [caller EXCEPT ![p] = Gone]
    /\ proc' = [proc EXCEPT ![p] = [pc |-> "idle", step |-> 0, mem |-> NewState]]

(* os.open with O_EXCL leaves an empty file until the write is through. *)
write_once(p, name, value, at, writing, next) ==
    \/ /\ At(p, at) /\ files[name] = NoFile
       /\ files' = [files EXCEPT ![name] = Torn]
       /\ Goto(p, writing)
    \/ /\ At(p, writing)
       /\ files' = [files EXCEPT ![name] = value]
       /\ Goto(p, next)
    \/ /\ At(p, at) /\ files[name] = value
       /\ Goto(p, next)
       /\ UNCHANGED files

(* The adapter reads the inputs and computes their report once, in vain if   *)
(* there are two records of a race_id.                                       *)
Launch(p, flag) ==
    /\ open /\ At(p, "idle")
    /\ \A i, j \in 1..Len(rows) : rows[i].source = rows[j].source => i = j
    /\ caller' = [caller EXCEPT ![p] = [pc |-> "lock", inputs |-> Inputs, flag |-> flag]]
    /\ UNCHANGED <<runnerVars, intakeVars, files, reason, reconciled, receipts, open, edits>>

TaskLock(p) ==
    /\ At(p, "lock") /\ lock = Nobody
    /\ caller[p].flag => disk.exists /\ files.task # NoFile /\ disk.attempts[1] >= 1
    /\ lock' = p
    /\ Goto(p, "task")
    /\ UNCHANGED <<disk, proc, history, intakeVars, files, reason, reconciled, receipts, open, edits>>

WriteTask(p) ==
    /\ write_once(p, "task", caller[p].inputs, "task", "writing task", "bound")
    /\ UNCHANGED <<runnerVars, intakeVars, reason, reconciled, receipts, open, edits>>

reconciliation_committed ==
    /\ disk.status \in {"pending", "running"}
    /\ disk.completed = {1} /\ reason = "none"
    /\ disk.attempts[1] >= 1
    /\ reconciled = 1

Interrupted ==
    /\ disk.status = "blocked" /\ reason = "interrupted"
    /\ disk.completed = {} /\ disk.attempts[1] >= 1

Unlock(p) == lock' = Nobody /\ Goto(p, "run")

(* Nothing to reconcile, or it has been done. *)
Resume(p) ==
    /\ At(p, "bound")
    /\ caller[p].flag => disk.spec = caller[p].inputs /\ (reconciliation_committed \/ disk.status = "completed")
    /\ caller[p].flag \/ disk.status = "completed" => check(p)
    /\ Unlock(p)
    /\ UNCHANGED <<disk, proc, history, intakeVars, files, reason, reconciled, receipts, open, edits>>

(* Mutant: an interrupted report is taken to be whole. *)
ReconcileUnread(p) ==
    /\ At(p, "bound") /\ caller[p].flag
    /\ disk.spec = caller[p].inputs
    /\ Interrupted
    /\ disk' = [disk EXCEPT !.status = "pending", !.completed = {1}]
    /\ reason' = "none" /\ reconciled' = reconciled + 1
    /\ Unlock(p)
    /\ UNCHANGED <<proc, history, intakeVars, files, receipts, open, edits>>

(* Mutant: the interrupted step is released for another attempt. *)
ReconcileNotApplied(p) ==
    /\ At(p, "bound") /\ caller[p].flag
    /\ disk.spec = caller[p].inputs
    /\ Interrupted
    /\ check(p)
    /\ disk' = [disk EXCEPT !.status = "pending", !.attempts[1] = 0]
    /\ reason' = "none" /\ reconciled' = reconciled + 1
    /\ Unlock(p)
    /\ UNCHANGED <<proc, history, intakeVars, files, receipts, open, edits>>

(* The step is marked completed, not repeated, once its report is found exact. *)
Reconcile(p) ==
    /\ At(p, "bound") /\ caller[p].flag
    /\ disk.spec = caller[p].inputs
    /\ Interrupted
    /\ check(p)
    /\ disk' = [disk EXCEPT !.status = "pending", !.completed = {1}]
    /\ reason' = "none" /\ reconciled' = reconciled + 1
    /\ Unlock(p)
    /\ UNCHANGED <<proc, history, intakeVars, files, receipts, open, edits>>

Run(p) ==
    /\ At(p, "run")
    /\ Acquire(p, caller[p].inputs)
    /\ Goto(p, "running")
    /\ UNCHANGED <<intakeVars, files, reason, reconciled, receipts, open, edits>>

(***************************************************************************)
(* historical.prepare: inputs compared, report written, read back.         *)
(***************************************************************************)
Act(p, outcome) ==
    /\ proc' = [proc EXCEPT ![p].pc = outcome]
    /\ Goto(p, "running")

Prepare(p) ==
    /\ At(p, "running") /\ Attempting(p, "invoke")
    /\ IF Unedited(p) THEN Goto(p, "output") /\ UNCHANGED proc ELSE Act(p, "refused")
    /\ invoked' = [invoked EXCEPT ![1] = @ + 1]
    /\ UNCHANGED <<disk, lock, applied, approved, confirmed, decisions>>
    /\ UNCHANGED <<intakeVars, files, reason, reconciled, receipts, open, edits>>

WriteOutput(p) ==
    /\ write_once(p, "output", expected_report(caller[p].inputs), "output", "writing output", "readback")
    /\ UNCHANGED <<runnerVars, intakeVars, reason, reconciled, receipts, open, edits>>

OutputConflict(p) ==
    /\ At(p, "output") /\ files.output \notin {NoFile, expected_report(caller[p].inputs)}
    /\ Act(p, "refused")
    /\ UNCHANGED <<disk, lock, history, intakeVars, files, reason, reconciled, receipts, open, edits>>

ReadBack(p) ==
    /\ At(p, "readback")
    /\ Act(p, IF check(p) THEN "save" ELSE "refused")
    /\ applied' = [applied EXCEPT ![1] = @ + 1]
    /\ UNCHANGED <<disk, lock, invoked, approved, confirmed, decisions>>
    /\ UNCHANGED <<intakeVars, files, reason, reconciled, receipts, open, edits>>

(* The other steps of AgentRunner, with the reason a blocked task is saved with. *)
RunnerStep(p) ==
    /\ At(p, "running")
    /\ \/ BindSpec(p) \/ ResumeSkipped(p) \/ BlockUnresolved(p) \/ Begin(p)
       \/ TakeStep(p, 1) \/ BeginAttempt(p) \/ Refused(p) \/ SaveResult(p)
       \/ Verify(p) /\ (proc'[p].pc = "complete" <=> check(p))
       \/ CompleteStep(p) \/ CompleteTask(p)
    /\ reason' = CASE disk'.status # "blocked"    -> "none"
                   [] disk.status = "blocked"     -> reason
                   [] proc[p].pc = "entered"      -> "interrupted"
                   [] OTHER                       -> "other"
    /\ UNCHANGED <<intakeVars, files, reconciled, caller, receipts, open, edits>>

Receipt(p) ==
    /\ At(p, "running") /\ Attempting(p, "idle")
    /\ proc[p].mem.status = "completed" => check(p)
    /\ receipts' = IF proc[p].mem.status = "completed" THEN receipts \cup {caller[p].inputs} ELSE receipts
    /\ End(p)
    /\ UNCHANGED <<disk, lock, history, intakeVars, files, reason, reconciled, open, edits>>

(* An exception leaves run_preparation, or the process is killed. *)
Stop(p) ==
    /\ ~At(p, "idle")
    /\ End(p)
    /\ lock' = IF lock = p THEN Nobody ELSE lock
    /\ UNCHANGED <<disk, history, intakeVars, files, reason, reconciled, receipts, open, edits>>

(***************************************************************************)
(* The operator takes reviews back, or copies a record twice and back.    *)
(***************************************************************************)
Edit ==
    /\ open /\ edits < MaxEdits
    /\ \/ reviews # {} /\ reviews' = {} /\ UNCHANGED rows
       \/ rows' = (IF Len(rows) = 1 THEN rows \o rows ELSE <<rows[1]>>) /\ UNCHANGED reviews
    /\ edits' = edits + 1
    /\ UNCHANGED <<runnerVars, world, saved, files, reason, reconciled, caller, receipts, open>>

(* An archive with one race, finished in some order, confirmed and reviewed, *)
(* and a run directory that is empty or where a report was left.             *)
Archived ==
    /\ now = MaxTime /\ starts = <<ListedStart, ListedStart>> /\ out = {} /\ cancelled = FALSE
    /\ \E order \in Arrangements(Cars, Cardinality(Cars)) :
           finish = [c \in Cars |-> [rank |-> CHOOSE i \in DOMAIN order : order[i] = c, state |-> "finished"]]
    /\ shown = Payable(finish, 3)
    /\ pre = [observed |-> 0, starts |-> starts, noted |-> {}, cancelled |-> FALSE]
    /\ head = [observed |-> now, starts |-> starts, cancelled |-> FALSE]
    /\ res = [observed |-> now, result |-> finish, trifecta |-> shown, exacta |-> ShownExactas]
    /\ list = [observed |-> now, trifecta |-> shown, exacta |-> ShownExactas] /\ tables = {}
    /\ \E rec \in join(pre, head, res) : rows = <<Confirmed(rec)>> /\ reviews = {Confirmed(rec)}
    /\ open = TRUE
    /\ files \in [task : {NoFile}, output : {NoFile, Torn, expected_report(Inputs)}]

PrepInit ==
    /\ \/ Archived
       \/ IntakeInit /\ open = FALSE /\ files = [task |-> NoFile, output |-> NoFile]
    /\ RunnerInit /\ ~disk.exists
    /\ reason = "none" /\ reconciled = 0 /\ receipts = {} /\ edits = 0
    /\ caller = [p \in Processes |-> Gone]

PrepNext ==
    \/ \E p \in Processes :
          \/ \E flag \in BOOLEAN : Launch(p, flag)
          \/ TaskLock(p) \/ WriteTask(p) \/ Resume(p) \/ Reconcile(p) \/ Run(p)
          \/ Prepare(p) \/ WriteOutput(p) \/ OutputConflict(p) \/ ReadBack(p)
          \/ RunnerStep(p) \/ Receipt(p) \/ Stop(p)
    \/ Edit
    \/ IntakeNext /\ UNCHANGED <<runnerVars, prepVars>>

PrepSpec == PrepInit /\ [][PrepNext]_allVars

(***************************************************************************)
(* Properties.                                                             *)
(***************************************************************************)
(* historical.prepare is called at most once in a directory, through       *)
(* crashes, competing launches, edited inputs and reconciliations.         *)
PreparedOnce == invoked[1] <= 1

(* A step on record as completed, and every receipt handed out, is for     *)
(* exactly the report in the directory and the inputs in its task file,    *)
(* also when the run was interrupted and reconciled, and for good.         *)
RecordedIsExact ==
    /\ 1 \in disk.completed => files = [task |-> disk.spec, output |-> expected_report(disk.spec)]
    /\ \A inputs \in receipts : files = [task |-> inputs, output |-> expected_report(inputs)]
===============================================================================
