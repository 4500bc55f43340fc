---------------------------- MODULE OfflineProofs ---------------------------
(***************************************************************************)
(* The offline pipeline: run_preparation, the races it partitions, and the *)
(* evaluation and training that learn from settled races.                  *)
(*                                                                         *)
(* run_preparation for any number of processes, launches, crashes and      *)
(* edits of the inputs: the step is invoked once, and what is on record as *)
(* completed is exact.  PrepInv is inductive.  Two facts carry it: only    *)
(* the holder of the lock is under way in the runner, and a file, once it  *)
(* is whole, is never written again.                                       *)
(***************************************************************************)
EXTENDS Preparation, Evaluation, FiniteSetTheorems, SequenceTheorems,
        WellFoundedInduction, TLAPS

\* Where run_preparation holds the lock itself, and where its adapter runs.
Locked == {"task", "writing task", "bound"}
Acting == {"output", "writing output", "readback"}
Bound == {"bound", "run", "running"} \cup Acting
CallerPcs == {"idle", "lock", "run", "running"} \cup Locked \cup Acting

OnStep == {"attempt", "invoke", "refused", "save", "verify", "complete"}
Pcs == {"idle", "entered", "next"} \cup OnStep

\* The inputs of a launch, and a report, are pairs; an absent or torn file is not.
IsPair(x) == x = <<x[1], x[2]>>

IsState(s) ==
    /\ s = [exists |-> s.exists, status |-> s.status, completed |-> s.completed,
            attempts |-> s.attempts, spec |-> s.spec]
    /\ s.exists \in BOOLEAN
    /\ s.completed \subseteq {1}
    /\ s.attempts \in [{1} -> Nat]

ProcOK ==
    /\ proc = [p \in Processes |-> [pc |-> proc[p].pc, step |-> proc[p].step, mem |-> proc[p].mem]]
    /\ \A p \in Processes : proc[p].pc \in Pcs /\ IsState(proc[p].mem)

CallerOK ==
    /\ caller = [p \in Processes |->
                    [pc |-> caller[p].pc, inputs |-> caller[p].inputs, flag |-> caller[p].flag]]
    /\ \A p \in Processes : caller[p].pc \in CallerPcs

\* The types of the runner's and the caller's state, fingerprints left open.
PrepTypeOK ==
    /\ IsState(disk)
    /\ lock \in Processes \cup {Nobody}
    /\ ProcOK /\ CallerOK
    /\ invoked \in [{1} -> Nat]
    /\ files = [task |-> files.task, output |-> files.output]

\* The lock is held through both halves of the launch, and nothing runs without it.
LockInv(p) ==
    /\ lock = p <=> caller[p].pc \in Locked \/ proc[p].pc # "idle"
    /\ proc[p].pc # "idle" => caller[p].pc \in Acting \cup {"running"}
    /\ caller[p].pc \in Acting => proc[p].pc = "invoke"

\* The copy of a running process is the state file, or what it will be.
CopyInv(p) == proc[p].pc # "idle" =>
    /\ proc[p].mem.exists = disk.exists
    /\ proc[p].mem.completed = disk.completed
    /\ proc[p].mem.attempts = disk.attempts
    /\ proc[p].mem.spec = caller[p].inputs
    /\ disk.exists => disk.spec = caller[p].inputs

\* A task file is bound to its launch; a file being written is torn.
FileInv(p) ==
    /\ caller[p].pc # "idle" => IsPair(caller[p].inputs)
    /\ caller[p].pc \in Bound => files.task = caller[p].inputs
    /\ caller[p].pc = "writing task" => files.task = Torn
    /\ caller[p].pc = "writing output" => files.output = Torn
    /\ proc[p].pc = "complete" => files.output = expected_report(caller[p].inputs)

\* The attempt on record is unspent until the adapter is called.
AttemptInv(p) ==
    /\ proc[p].pc = "next" => disk.attempts[1] = 0 \/ 1 \in disk.completed
    /\ proc[p].pc \in OnStep => proc[p].step = 1 /\ 1 \notin disk.completed
    /\ proc[p].pc = "attempt" => disk.attempts[1] = 0
    /\ proc[p].pc = "invoke" /\ caller[p].pc = "running" => invoked[1] < disk.attempts[1]

ProcInv(p) == LockInv(p) /\ CopyInv(p) /\ FileInv(p) /\ AttemptInv(p)

\* What the state file and the receipts vouch for.
Exact(inputs) == IsPair(inputs) /\ files.task = inputs /\ files.output = expected_report(inputs)

RecordInv ==
    /\ disk.attempts[1] <= 1 /\ invoked[1] <= disk.attempts[1]
    /\ ~disk.exists => disk.completed = {} /\ disk.attempts[1] = 0
    /\ 1 \in disk.completed => Exact(disk.spec)
    /\ \A inputs \in receipts : Exact(inputs)

\* The inductive invariant.
PrepInv == PrepTypeOK /\ RecordInv /\ \A p \in Processes : ProcInv(p)

-----------------------------------------------------------------------------

\* The plan of historical preparation has one step.
LEMMA OneStep == Steps = {1}
  BY PreparationAssumption DEF Steps

\* A report, and the inputs of a launch, are neither absent nor torn.
LEMMA PairIsWhole ==
    /\ \A x : IsPair(x) => x # NoFile /\ x # Torn
    /\ \A x : IsPair(expected_report(x))
<1>1. ASSUME NEW x, IsPair(x) PROVE x # NoFile /\ x # Torn
  BY <1>1 DEF IsPair, NoFile, Torn
<1>2. ASSUME NEW x PROVE IsPair(expected_report(x))
  BY DEF IsPair, expected_report
<1>. QED
  BY <1>1, <1>2

\* The holder of a free lock is none of the processes.
LEMMA NobodyIsNoProcess == Nobody \notin Processes
  BY RunnerAssumption

\* An empty run directory, or one where a report was left.
LEMMA PrepInitInv == PrepInit => PrepInv
<1>. SUFFICES ASSUME PrepInit PROVE PrepInv
  OBVIOUS
<1>1. disk = NewState /\ lock = Nobody /\ invoked = [s \in Steps |-> 0] /\ receipts = {}
  BY DEF PrepInit, RunnerInit, NewState
<1>2. /\ proc = [p \in Processes |-> [pc |-> "idle", step |-> 0, mem |-> NewState]]
      /\ caller = [p \in Processes |-> Gone]
  BY DEF PrepInit, RunnerInit
<1>3. IsState(NewState)
  BY OneStep DEF IsState, NewState
<1>4. files = [task |-> files.task, output |-> files.output]
  BY DEF PrepInit, Archived
<1>5. PrepTypeOK
  BY <1>1, <1>2, <1>3, <1>4, OneStep DEF PrepTypeOK, ProcOK, CallerOK, Gone, Pcs, CallerPcs
<1>6. RecordInv
  BY <1>1, OneStep DEF RecordInv, NewState
<1>7. \A p \in Processes : ProcInv(p)
  BY <1>1, <1>2, NobodyIsNoProcess
     DEF ProcInv, LockInv, CopyInv, FileInv, AttemptInv, Gone, Locked, Acting, Bound, OnStep
<1>. QED
  BY <1>5, <1>6, <1>7 DEF PrepInv

-----------------------------------------------------------------------------
(* What a step leaves alone *)

\* A whole file is not written again.
WholeFilesStay ==
    /\ IsPair(files.task) => files'.task = files.task
    /\ IsPair(files.output) => files'.output = files.output

Untouched(q) == caller'[q] = caller[q] /\ proc'[q] = proc[q]

\* While another process has the lock, the steps it takes do not concern this one.
LEMMA BystanderInv ==
    ASSUME PrepInv, NEW p \in Processes, NEW q \in Processes \ {p}, lock \in {p, Nobody},
           lock' \in {p, Nobody}, Untouched(q), WholeFilesStay
    PROVE  ProcInv(q)'
<1>1. /\ lock # q /\ lock' # q /\ LockInv(q) /\ FileInv(q)
      /\ caller[q].pc \in CallerPcs
  BY NobodyIsNoProcess DEF PrepInv, ProcInv, PrepTypeOK, CallerOK
<1>2. proc[q].pc = "idle" /\ caller[q].pc \notin Locked \cup Acting
  BY <1>1 DEF LockInv
<1>3. caller[q].pc \in Bound => files'.task = caller[q].inputs
  BY <1>1 DEF FileInv, WholeFilesStay, Bound, Acting
<1>. QED
  BY <1>1, <1>2, <1>3
     DEF ProcInv, LockInv, CopyInv, FileInv, AttemptInv, Untouched, Locked, Acting, OnStep

\* A step that leaves the files and the state file alone.
LEMMA QuietInv ==
    ASSUME PrepInv, NEW q \in Processes, Untouched(q), lock' = q <=> lock = q,
           UNCHANGED <<files, disk, invoked>>
    PROVE  ProcInv(q)'
<1>1. ProcInv(q)
  BY DEF PrepInv
<1>. QED
  BY <1>1 DEF ProcInv, LockInv, CopyInv, FileInv, AttemptInv, Untouched

\* The record stands when the state file and the receipts do.
LEMMA QuietRecord ==
    ASSUME PrepInv, WholeFilesStay, UNCHANGED <<disk, invoked, receipts>>
    PROVE  RecordInv'
<1>1. \A inputs : Exact(inputs) => Exact(inputs)'
  BY PairIsWhole DEF Exact, WholeFilesStay
<1>. QED
  BY <1>1 DEF PrepInv, RecordInv

-----------------------------------------------------------------------------
(* What the moves of a process do to the records *)

CallerAt(p, pc) ==
    /\ CallerOK'
    /\ caller'[p].pc = pc /\ caller'[p].inputs = caller[p].inputs
    /\ \A q \in Processes \ {p} : caller'[q] = caller[q]

\* Where a launch stands after a step that only moves it on.
LEMMA CallerMoves ==
    ASSUME CallerOK, NEW p \in Processes, NEW pc \in CallerPcs, Goto(p, pc)
    PROVE  CallerAt(p, pc)
  BY DEF CallerOK, Goto, CallerAt

ProcAt(p, pc, step) ==
    /\ ProcOK'
    /\ proc'[p].pc = pc /\ proc'[p].step = step /\ proc'[p].mem = proc[p].mem
    /\ \A q \in Processes \ {p} : proc'[q] = proc[q]

\* A process that is given a well-formed state is the only one to change.
LEMMA ProcChanges ==
    ASSUME ProcOK, NEW p \in Processes, NEW pc \in Pcs, NEW step, NEW mem, IsState(mem),
           proc' = [proc EXCEPT ![p] = proc'[p]],
           proc'[p] = [pc |-> pc, step |-> step, mem |-> mem]
    PROVE  /\ ProcOK'
           /\ proc'[p].pc = pc /\ proc'[p].step = step /\ proc'[p].mem = mem
           /\ \A q \in Processes \ {p} : proc'[q] = proc[q]
<1>1. \A q \in Processes \ {p} : proc'[q] = proc[q]
  BY DEF ProcOK
<1>2. \A q \in Processes : proc'[q] = [pc |-> proc'[q].pc, step |-> proc'[q].step, mem |-> proc'[q].mem]
  BY <1>1 DEF ProcOK
<1>3. \A q \in Processes : proc'[q].pc \in Pcs /\ IsState(proc'[q].mem)
  BY <1>1 DEF ProcOK
<1>4. proc' = [q \in Processes |-> proc'[q]]
  BY DEF ProcOK
<1>5. ProcOK'
  BY <1>2, <1>3, <1>4 DEF ProcOK
<1>. QED
  BY <1>1, <1>5

\* Where the runner of a launch stands after a step that only moves it on.
LEMMA ProcMoves ==
    ASSUME ProcOK, NEW p \in Processes, NEW pc \in Pcs, NEW step,
           \/ proc' = [proc EXCEPT ![p].pc = pc] /\ step = proc[p].step
           \/ proc' = [proc EXCEPT ![p].pc = pc, ![p].step = step]
    PROVE  ProcAt(p, pc, step)
<1>1. proc[p] = [pc |-> proc[p].pc, step |-> proc[p].step, mem |-> proc[p].mem]
  BY DEF ProcOK
<1>2. /\ proc' = [proc EXCEPT ![p] = proc'[p]]
      /\ proc'[p] = [pc |-> pc, step |-> step, mem |-> proc[p].mem]
  BY <1>1 DEF ProcOK
<1>. QED
  BY <1>2, ProcChanges DEF ProcAt, ProcOK

\* save_state: file and copy agree afterwards.
Saved(p, completed, attempts, spec, pc) ==
    /\ IsState(disk') /\ disk'.exists = TRUE
    /\ disk'.completed = completed /\ disk'.attempts = attempts /\ disk'.spec = spec
    /\ ProcOK'
    /\ proc'[p].pc = pc /\ proc'[p].step = proc[p].step /\ proc'[p].mem = disk'
    /\ \A q \in Processes \ {p} : proc'[q] = proc[q]

\* What writing the progress file leaves in the file and in the process.
LEMMA SaveDoes ==
    ASSUME ProcOK, NEW p \in Processes, NEW pc \in Pcs, NEW state, IsState(state),
           Save(p, state, pc)
    PROVE  Saved(p, state.completed, state.attempts, state.spec, pc)
<1>1. disk' = [state EXCEPT !.exists = TRUE]
  BY DEF Save
<1>2. /\ IsState(disk') /\ disk'.exists = TRUE
      /\ disk'.completed = state.completed /\ disk'.attempts = state.attempts
      /\ disk'.spec = state.spec
  BY <1>1 DEF IsState
<1>3. proc' = [proc EXCEPT ![p].mem = disk', ![p].pc = pc]
  BY DEF Save
<1>4. /\ ProcOK'
      /\ proc'[p].pc = pc /\ proc'[p].step = proc[p].step /\ proc'[p].mem = disk'
      /\ \A q \in Processes \ {p} : proc'[q] = proc[q]
  <2>1. proc[p] = [pc |-> proc[p].pc, step |-> proc[p].step, mem |-> proc[p].mem]
    BY DEF ProcOK
  <2>2. /\ proc' = [proc EXCEPT ![p] = proc'[p]]
        /\ proc'[p] = [pc |-> pc, step |-> proc[p].step, mem |-> disk']
    BY <1>3, <2>1 DEF ProcOK
  <2>. QED
    BY <1>2, <2>2, ProcChanges
<1>. QED
  BY <1>2, <1>4 DEF Saved

\* End: the process forgets everything.
LEMMA EndDoes ==
    ASSUME ProcOK, CallerOK, NEW p \in Processes, End(p)
    PROVE  /\ ProcOK' /\ CallerOK'
           /\ proc'[p].pc = "idle" /\ caller'[p].pc = "idle"
           /\ \A q \in Processes \ {p} : Untouched(q)
<1>1. IsState(NewState)
  BY OneStep DEF IsState, NewState
<1>. QED
  BY <1>1 DEF ProcOK, CallerOK, End, Gone, Pcs, CallerPcs, Untouched

\* A process outside the runner and without the lock has nothing to keep but its task file.
LEMMA IdleInv ==
    ASSUME NEW p \in Processes, lock' # p, proc'[p].pc = "idle", caller'[p].pc \notin Locked \cup Acting,
           caller'[p].pc # "idle" => IsPair(caller'[p].inputs),
           caller'[p].pc \in Bound => files'.task = caller'[p].inputs
    PROVE  ProcInv(p)'
  BY DEF ProcInv, LockInv, CopyInv, FileInv, AttemptInv, Locked, Acting, OnStep

-----------------------------------------------------------------------------
(* One lemma per step of run_preparation *)

\* Launch: the inputs are read as they are.
LEMMA LaunchInv ==
    ASSUME PrepInv, NEW p \in Processes, NEW flag \in BOOLEAN, Launch(p, flag)
    PROVE  PrepInv'
<1>1. /\ caller[p].pc = "idle"
      /\ caller' = [caller EXCEPT ![p] = [pc |-> "lock", inputs |-> Inputs, flag |-> flag]]
      /\ UNCHANGED <<disk, lock, proc, invoked, files, receipts>>
  BY DEF Launch, At, runnerVars
<1>2. /\ CallerOK' /\ caller'[p].pc = "lock" /\ caller'[p].inputs = Inputs
      /\ \A q \in Processes \ {p} : caller'[q] = caller[q]
  BY <1>1 DEF PrepInv, PrepTypeOK, CallerOK, CallerPcs
<1>3. PrepTypeOK'
  BY <1>1, <1>2 DEF PrepInv, PrepTypeOK, ProcOK
<1>4. RecordInv'
  BY <1>1, QuietRecord DEF WholeFilesStay
<1>5. ProcInv(p)'
  <2>1. LockInv(p)
    BY DEF PrepInv, ProcInv
  <2>2. lock' # p /\ proc'[p].pc = "idle"
    BY <1>1, <2>1 DEF LockInv, Locked, Acting
  <2>3. IsPair(Inputs)
    BY DEF IsPair, Inputs
  <2>. QED
    BY <1>2, <2>2, <2>3, IdleInv DEF Locked, Acting, Bound
<1>6. ASSUME NEW q \in Processes \ {p} PROVE ProcInv(q)'
  BY <1>1, <1>2, QuietInv DEF Untouched
<1>. QED
  BY <1>3, <1>4, <1>5, <1>6 DEF PrepInv

\* TaskLock: nobody else is in the runner.
LEMMA TaskLockInv ==
    ASSUME PrepInv, NEW p \in Processes, TaskLock(p)
    PROVE  PrepInv'
<1>1. /\ caller[p].pc = "lock" /\ lock = Nobody /\ lock' = p /\ Goto(p, "task")
      /\ UNCHANGED <<disk, proc, invoked, files, receipts>>
  BY DEF TaskLock, At, history
<1>2. CallerAt(p, "task")
  BY <1>1, CallerMoves DEF PrepInv, PrepTypeOK, CallerPcs, Locked
<1>3. PrepTypeOK'
  BY <1>1, <1>2 DEF PrepInv, PrepTypeOK, ProcOK, CallerAt
<1>4. WholeFilesStay
  BY <1>1 DEF WholeFilesStay
<1>5. RecordInv'
  BY <1>1, <1>4, QuietRecord
<1>6. ProcInv(p)'
  <2>1. LockInv(p) /\ FileInv(p) /\ lock # p
    BY <1>1, NobodyIsNoProcess DEF PrepInv, ProcInv
  <2>2. proc[p].pc = "idle"
    BY <2>1 DEF LockInv
  <2>. QED
    BY <1>1, <1>2, <2>1, <2>2 DEF CallerAt, ProcInv, LockInv, CopyInv, FileInv, AttemptInv, Locked,
       Acting, Bound, OnStep
<1>7. ASSUME NEW q \in Processes \ {p} PROVE ProcInv(q)'
  BY <1>1, <1>2, <1>4, BystanderInv DEF Untouched, CallerAt
<1>. QED
  BY <1>3, <1>5, <1>6, <1>7 DEF PrepInv

\* What write_once does to one of the files, and where it goes.
Written(p, name, value, at, writing, next) ==
    \/ /\ caller[p].pc = at /\ files[name] = NoFile
       /\ files' = [files EXCEPT ![name] = Torn] /\ CallerAt(p, writing)
    \/ /\ caller[p].pc = writing
       /\ files' = [files EXCEPT ![name] = value] /\ CallerAt(p, next)
    \/ /\ caller[p].pc = at /\ files[name] = value
       /\ UNCHANGED files /\ CallerAt(p, next)

\* What a write_once step leaves: the file, and where the launch goes on.
LEMMA WriteOnceDoes ==
    ASSUME CallerOK, NEW p \in Processes, NEW name, NEW value, NEW at, NEW writing \in CallerPcs,
           NEW next \in CallerPcs, write_once(p, name, value, at, writing, next)
    PROVE  Written(p, name, value, at, writing, next)
  BY CallerMoves DEF write_once, At, Written

\* WriteTask: the task file is new, or is this launch's already.
LEMMA WriteTaskInv ==
    ASSUME PrepInv, NEW p \in Processes, WriteTask(p)
    PROVE  PrepInv'
<1>1. /\ Written(p, "task", caller[p].inputs, "task", "writing task", "bound")
      /\ UNCHANGED <<disk, lock, proc, invoked, receipts>>
  BY WriteOnceDoes DEF WriteTask, runnerVars, PrepInv, PrepTypeOK, CallerPcs, Locked
<1>2. LockInv(p) /\ FileInv(p) /\ files = [task |-> files.task, output |-> files.output]
  BY DEF PrepInv, ProcInv, PrepTypeOK
<1>3. /\ caller[p].pc \in {"task", "writing task"} /\ caller'[p].pc \in {"writing task", "bound"}
      /\ CallerAt(p, caller'[p].pc)
  BY <1>1 DEF Written, CallerAt
<1>4. /\ files' = [task |-> files'.task, output |-> files.output]
      /\ files'.task = IF caller'[p].pc = "bound" THEN caller[p].inputs ELSE Torn
      /\ IsPair(files.task) => files'.task = files.task
  BY <1>1, <1>2, PairIsWhole DEF Written, FileInv, CallerAt
<1>5. lock = p /\ proc[p].pc = "idle" /\ IsPair(caller[p].inputs)
  BY <1>2, <1>3 DEF LockInv, FileInv, Locked, Acting
<1>6. PrepTypeOK'
  BY <1>1, <1>3, <1>4 DEF PrepInv, PrepTypeOK, ProcOK, CallerAt
<1>7. WholeFilesStay
  BY <1>4 DEF WholeFilesStay
<1>8. RecordInv'
  BY <1>1, <1>7, QuietRecord
<1>9. ProcInv(p)'
  BY <1>1, <1>3, <1>4, <1>5 DEF CallerAt, ProcInv, LockInv, CopyInv, FileInv, AttemptInv, Locked,
     Acting, Bound, OnStep
<1>10. ASSUME NEW q \in Processes \ {p} PROVE ProcInv(q)'
  BY <1>1, <1>3, <1>5, <1>7, BystanderInv DEF Untouched, CallerAt
<1>. QED
  BY <1>6, <1>8, <1>9, <1>10 DEF PrepInv

\* Giving up the lock between the two halves of the launch.
LEMMA UnlockInv ==
    ASSUME PrepInv, NEW p \in Processes, caller[p].pc = "bound", Unlock(p), IsState(disk'), RecordInv',
           UNCHANGED <<proc, invoked, files>>
    PROVE  PrepInv'
<1>1. lock' = Nobody /\ CallerAt(p, "run")
  BY CallerMoves DEF PrepInv, PrepTypeOK, Unlock, CallerPcs
<1>2. LockInv(p) /\ FileInv(p)
  BY DEF PrepInv, ProcInv
<1>3. lock = p /\ proc[p].pc = "idle" /\ IsPair(caller[p].inputs) /\ files.task = caller[p].inputs
  BY <1>2 DEF LockInv, FileInv, Locked, Acting, Bound
<1>4. PrepTypeOK'
  BY <1>1 DEF PrepInv, PrepTypeOK, ProcOK, CallerAt
<1>5. ProcInv(p)'
  BY <1>1, <1>3, NobodyIsNoProcess, IdleInv DEF CallerAt, Locked, Acting
<1>6. ASSUME NEW q \in Processes \ {p} PROVE ProcInv(q)'
  BY <1>1, <1>3, BystanderInv DEF Untouched, CallerAt, WholeFilesStay
<1>. QED
  BY <1>4, <1>5, <1>6 DEF PrepInv

\* Resume: nothing is changed.
LEMMA ResumeInv ==
    ASSUME PrepInv, NEW p \in Processes, Resume(p)
    PROVE  PrepInv'
<1>1. /\ caller[p].pc = "bound" /\ Unlock(p)
      /\ UNCHANGED <<disk, proc, invoked, files, receipts>>
  BY DEF Resume, At, history
<1>2. IsState(disk') /\ RecordInv'
  BY <1>1, QuietRecord DEF PrepInv, PrepTypeOK, WholeFilesStay
<1>. QED
  BY <1>1, <1>2, UnlockInv

\* Reconcile: the report found in the directory is exact, so the record is.
LEMMA ReconcileInv ==
    ASSUME PrepInv, NEW p \in Processes, Reconcile(p)
    PROVE  PrepInv'
<1>1. /\ caller[p].pc = "bound" /\ Unlock(p)
      /\ disk.spec = caller[p].inputs /\ Interrupted /\ check(p)
      /\ disk' = [disk EXCEPT !.status = "pending", !.completed = {1}]
      /\ UNCHANGED <<proc, invoked, files, receipts>>
  BY DEF Reconcile, At, history
<1>2. IsState(disk) /\ FileInv(p) /\ RecordInv
  BY DEF PrepInv, PrepTypeOK, ProcInv
<1>3. /\ IsState(disk') /\ disk'.exists = disk.exists /\ disk'.attempts = disk.attempts
      /\ disk'.spec = disk.spec
  BY <1>1, <1>2 DEF IsState
<1>4. disk.exists
  BY <1>1, <1>2 DEF RecordInv, Interrupted, IsState
<1>5. Exact(disk.spec)'
  BY <1>1, <1>2, <1>3 DEF FileInv, Exact, check, Bound
<1>6. RecordInv'
  BY <1>1, <1>2, <1>3, <1>4, <1>5 DEF RecordInv, Exact
<1>. QED
  BY <1>1, <1>3, <1>6, UnlockInv

\* Run: AgentRunner takes the lock and reads the state of this very task, or none.
LEMMA RunInv ==
    ASSUME PrepInv, NEW p \in Processes, Run(p)
    PROVE  PrepInv'
<1>1. /\ caller[p].pc = "run" /\ proc[p].pc = "idle" /\ lock = Nobody /\ lock' = p
      /\ disk.exists => disk.spec = caller[p].inputs
      /\ proc' = [proc EXCEPT ![p] = [pc |-> "entered", step |-> 0,
                                      mem |-> [disk EXCEPT !.spec = caller[p].inputs]]]
      /\ Goto(p, "running")
      /\ UNCHANGED <<disk, invoked, files, receipts>>
  BY DEF Run, At, Acquire, history
<1>2. IsState(disk) /\ ProcOK /\ CallerOK /\ FileInv(p)
  BY DEF PrepInv, PrepTypeOK, ProcInv
<1>3. PICK mem : mem = [disk EXCEPT !.spec = caller[p].inputs]
  OBVIOUS
<1>4. /\ IsState(mem) /\ mem.exists = disk.exists /\ mem.completed = disk.completed
      /\ mem.attempts = disk.attempts /\ mem.spec = caller[p].inputs
  BY <1>2, <1>3 DEF IsState
<1>5. /\ proc' = [proc EXCEPT ![p] = proc'[p]]
      /\ proc'[p] = [pc |-> "entered", step |-> 0, mem |-> mem]
  BY <1>1, <1>2, <1>3 DEF ProcOK
<1>6. /\ ProcOK' /\ proc'[p].pc = "entered" /\ proc'[p].mem = mem
      /\ \A q \in Processes \ {p} : proc'[q] = proc[q]
  BY <1>2, <1>4, <1>5, ProcChanges DEF Pcs
<1>7. CallerAt(p, "running")
  BY <1>1, <1>2, CallerMoves DEF CallerPcs
<1>8. PrepTypeOK'
  BY <1>1, <1>6, <1>7 DEF PrepInv, PrepTypeOK, CallerAt
<1>9. WholeFilesStay
  BY <1>1 DEF WholeFilesStay
<1>10. RecordInv'
  BY <1>1, <1>9, QuietRecord
<1>11. ProcInv(p)'
  BY <1>1, <1>2, <1>4, <1>6, <1>7 DEF CallerAt, ProcInv, LockInv, CopyInv, FileInv, AttemptInv, Locked,
     Acting, Bound, OnStep
<1>12. ASSUME NEW q \in Processes \ {p} PROVE ProcInv(q)'
  BY <1>1, <1>6, <1>7, <1>9, BystanderInv DEF Untouched, CallerAt
<1>. QED
  BY <1>8, <1>10, <1>11, <1>12 DEF PrepInv

\* A process in the runner has the lock and takes part in no other half of a launch.
LEMMA InRunner ==
    ASSUME PrepInv, NEW p \in Processes, proc[p].pc # "idle"
    PROVE  /\ lock = p /\ caller[p].pc \in Acting \cup {"running"}
           /\ IsPair(caller[p].inputs) /\ files.task = caller[p].inputs
  BY DEF PrepInv, ProcInv, LockInv, FileInv, Acting, Bound

\* A step of the adapter: the call is counted, the outcome noted, or neither.
LEMMA ActInv ==
    ASSUME PrepInv, NEW p \in Processes, proc[p].pc = "invoke",
           NEW at \in Acting \cup {"running"}, NEW pc \in {"invoke", "save", "refused"},
           at \in Acting <=> pc = "invoke", CallerAt(p, at), ProcAt(p, pc, proc[p].step),
           UNCHANGED <<disk, lock, receipts>>, invoked' \in [{1} -> Nat], invoked'[1] <= disk.attempts[1],
           files' = [task |-> files'.task, output |-> files'.output], files'.task = files.task,
           at = "writing output" => files'.output = Torn, WholeFilesStay
    PROVE  PrepInv'
<1>1. /\ lock = p /\ caller[p].pc # "idle"
      /\ IsPair(caller[p].inputs) /\ files.task = caller[p].inputs
  BY InRunner DEF Acting
<1>2. PrepTypeOK'
  BY DEF PrepInv, PrepTypeOK, CallerAt, ProcAt
<1>3. RecordInv'
  <2>1. \A inputs : Exact(inputs) => Exact(inputs)'
    BY PairIsWhole DEF Exact, WholeFilesStay
  <2>. QED
    BY <2>1 DEF PrepInv, RecordInv
<1>4. ProcInv(p)'
  <2>1. CopyInv(p) /\ AttemptInv(p)
    BY DEF PrepInv, ProcInv
  <2>2. LockInv(p)' /\ CopyInv(p)'
    BY <1>1, <2>1 DEF CallerAt, ProcAt, LockInv, CopyInv, Locked, Acting
  <2>3. FileInv(p)'
    BY <1>1 DEF CallerAt, ProcAt, FileInv, Acting
  <2>4. AttemptInv(p)'
    BY <1>1, <2>1 DEF CallerAt, ProcAt, AttemptInv, OnStep, Acting
  <2>. QED
    BY <2>2, <2>3, <2>4 DEF ProcInv
<1>5. ASSUME NEW q \in Processes \ {p} PROVE ProcInv(q)'
  BY <1>1, BystanderInv DEF Untouched, CallerAt, ProcAt
<1>. QED
  BY <1>2, <1>3, <1>4, <1>5 DEF PrepInv

\* Prepare: the one call the attempt on record allows.
LEMMA PrepareInv ==
    ASSUME PrepInv, NEW p \in Processes, Prepare(p)
    PROVE  PrepInv'
<1>1. /\ caller[p].pc = "running" /\ proc[p].pc = "invoke"
      /\ invoked' = [invoked EXCEPT ![1] = @ + 1]
      /\ UNCHANGED <<disk, lock, files, receipts>>
  BY DEF Prepare, At, Attempting
<1>2. invoked \in [{1} -> Nat] /\ disk.attempts[1] \in Nat /\ invoked[1] < disk.attempts[1]
  BY <1>1 DEF PrepInv, PrepTypeOK, IsState, ProcInv, AttemptInv
<1>3. invoked' \in [{1} -> Nat] /\ invoked'[1] <= disk.attempts[1]
  BY <1>1, <1>2
<1>4. files = [task |-> files.task, output |-> files.output] /\ WholeFilesStay /\ ProcOK /\ CallerOK
  BY <1>1 DEF PrepInv, PrepTypeOK, WholeFilesStay
<1>5. CASE Goto(p, "output") /\ UNCHANGED proc
  <2>1. CallerAt(p, "output")
    BY <1>4, <1>5, CallerMoves DEF CallerPcs, Acting
  <2>2. ProcAt(p, "invoke", proc[p].step)
    BY <1>1, <1>4, <1>5 DEF ProcAt, ProcOK
  <2>. QED
    BY <1>1, <1>3, <1>4, <2>1, <2>2, ActInv DEF Acting
<1>6. CASE Act(p, "refused")
  <2>1. CallerAt(p, "running")
    BY <1>4, <1>6, CallerMoves DEF CallerPcs, Act
  <2>2. ProcAt(p, "refused", proc[p].step)
    BY <1>4, <1>6, ProcMoves DEF Act, Pcs, OnStep
  <2>. QED
    BY <1>1, <1>3, <1>4, <2>1, <2>2, ActInv DEF Acting
<1>. QED
  BY <1>5, <1>6 DEF Prepare

\* WriteOutput: the report is new, or is this launch's already.
LEMMA WriteOutputInv ==
    ASSUME PrepInv, NEW p \in Processes, WriteOutput(p)
    PROVE  PrepInv'
<1>1. /\ Written(p, "output", expected_report(caller[p].inputs), "output", "writing output", "readback")
      /\ UNCHANGED <<disk, lock, proc, invoked, receipts>>
  BY WriteOnceDoes DEF WriteOutput, runnerVars, PrepInv, PrepTypeOK, CallerPcs, Acting
<1>2. /\ LockInv(p) /\ FileInv(p) /\ files = [task |-> files.task, output |-> files.output]
      /\ ProcOK /\ invoked \in [{1} -> Nat] /\ invoked[1] <= disk.attempts[1]
  BY DEF PrepInv, ProcInv, PrepTypeOK, RecordInv
<1>3. PICK at \in {"writing output", "readback"} :
         /\ caller[p].pc \in {"output", "writing output"} /\ CallerAt(p, at)
         /\ files' = [task |-> files'.task, output |-> files'.output] /\ files'.task = files.task
         /\ at = "writing output" => files'.output = Torn
         /\ IsPair(files.output) => files'.output = files.output
  BY <1>1, <1>2, PairIsWhole DEF Written, FileInv
<1>4. proc[p].pc = "invoke"
  BY <1>2, <1>3 DEF LockInv, Acting
<1>5. ProcAt(p, "invoke", proc[p].step)
  BY <1>1, <1>2, <1>4 DEF ProcAt, ProcOK
<1>6. WholeFilesStay
  BY <1>3 DEF WholeFilesStay
<1>. QED
  BY <1>1, <1>2, <1>3, <1>4, <1>5, <1>6, ActInv DEF Acting

\* OutputConflict and ReadBack: the adapter returns.
LEMMA AdapterReturnsInv ==
    ASSUME PrepInv, NEW p \in Processes, OutputConflict(p) \/ ReadBack(p)
    PROVE  PrepInv'
<1>1. /\ caller[p].pc \in {"output", "readback"} /\ \E pc \in {"save", "refused"} : Act(p, pc)
      /\ UNCHANGED <<disk, lock, files, invoked, receipts>>
  BY DEF OutputConflict, ReadBack, At, history
<1>2. PICK pc \in {"save", "refused"} : Act(p, pc)
  BY <1>1
<1>3. /\ LockInv(p) /\ files = [task |-> files.task, output |-> files.output] /\ WholeFilesStay
      /\ ProcOK /\ CallerOK /\ invoked \in [{1} -> Nat] /\ invoked[1] <= disk.attempts[1]
  BY <1>1 DEF PrepInv, ProcInv, PrepTypeOK, RecordInv, WholeFilesStay
<1>4. proc[p].pc = "invoke"
  BY <1>1, <1>3 DEF LockInv, Acting
<1>5. CallerAt(p, "running")
  BY <1>2, <1>3, CallerMoves DEF CallerPcs, Act
<1>6. ProcAt(p, pc, proc[p].step)
  BY <1>2, <1>3, ProcMoves DEF Act, Pcs, OnStep
<1>. QED
  BY <1>1, <1>3, <1>4, <1>5, <1>6, ActInv DEF Acting

-----------------------------------------------------------------------------
(* The steps of AgentRunner in between *)

Elsewhere == UNCHANGED <<caller, files, invoked, receipts>>

\* The lock is given up exactly where run returns.
Released(p, pc) == lock' = IF pc = "idle" THEN Nobody ELSE p

\* A step that writes the progress file keeps PrepInv, when what it writes is
\* true.
LEMMA SavedInv ==
    ASSUME PrepInv, NEW p \in Processes, caller[p].pc = "running", proc[p].pc # "idle", Elsewhere,
           NEW completed, NEW attempts, NEW pc \in Pcs \ {"attempt", "complete"}, Released(p, pc),
           Saved(p, completed, attempts, caller[p].inputs, pc),
           attempts[1] <= 1, invoked[1] <= attempts[1],
           1 \in completed => files.output = expected_report(caller[p].inputs),
           pc = "next" => attempts[1] = 0 \/ 1 \in completed,
           pc \in OnStep => proc[p].step = 1 /\ 1 \notin completed,
           pc = "invoke" => invoked[1] < attempts[1]
    PROVE  PrepInv'
<1>1. lock = p /\ IsPair(caller[p].inputs) /\ files.task = caller[p].inputs
  BY InRunner
<1>2. PrepTypeOK'
  BY DEF PrepInv, PrepTypeOK, Elsewhere, Released, Saved, CallerOK
<1>3. RecordInv'
  BY <1>1 DEF PrepInv, RecordInv, Elsewhere, Saved, Exact
<1>4. ProcInv(p)'
  <2>1. LockInv(p)' /\ CopyInv(p)'
    BY NobodyIsNoProcess DEF Elsewhere, Released, Saved, LockInv, CopyInv, Locked, Acting
  <2>2. FileInv(p)' /\ AttemptInv(p)'
    BY <1>1 DEF Elsewhere, Saved, FileInv, AttemptInv
  <2>. QED
    BY <2>1, <2>2 DEF ProcInv
<1>5. ASSUME NEW q \in Processes \ {p} PROVE ProcInv(q)'
  BY <1>1, BystanderInv DEF Untouched, Elsewhere, Saved, WholeFilesStay, Released
<1>. QED
  BY <1>2, <1>3, <1>4, <1>5 DEF PrepInv

\* A step that only moves a runner keeps PrepInv, when its new place is
\* earned.
LEMMA MovedInv ==
    ASSUME PrepInv, NEW p \in Processes, caller[p].pc = "running", proc[p].pc # "idle", Elsewhere,
           UNCHANGED disk, NEW step, NEW pc \in {"idle", "attempt", "complete"}, Released(p, pc),
           ProcAt(p, pc, step),
           pc # "idle" => step = 1 /\ 1 \notin disk.completed,
           pc = "attempt" => disk.attempts[1] = 0,
           pc = "complete" => files.output = expected_report(caller[p].inputs)
    PROVE  PrepInv'
<1>1. lock = p /\ IsPair(caller[p].inputs) /\ files.task = caller[p].inputs
  BY InRunner
<1>2. PrepTypeOK'
  BY DEF PrepInv, PrepTypeOK, Elsewhere, Released, ProcAt, CallerOK
<1>3. RecordInv'
  BY QuietRecord DEF Elsewhere, WholeFilesStay
<1>4. ProcInv(p)'
  <2>1. CopyInv(p)
    BY DEF PrepInv, ProcInv
  <2>2. LockInv(p)' /\ CopyInv(p)'
    BY <2>1, NobodyIsNoProcess DEF Elsewhere, Released, ProcAt, LockInv, CopyInv, Locked, Acting
  <2>3. FileInv(p)' /\ AttemptInv(p)'
    BY <1>1 DEF Elsewhere, ProcAt, FileInv, AttemptInv, OnStep
  <2>. QED
    BY <2>2, <2>3 DEF ProcInv
<1>5. ASSUME NEW q \in Processes \ {p} PROVE ProcInv(q)'
  BY <1>1, BystanderInv DEF Untouched, Elsewhere, ProcAt, WholeFilesStay, Released
<1>. QED
  BY <1>2, <1>3, <1>4, <1>5 DEF PrepInv

\* A copy with another status is saved, and run goes on, or returns.
LEMMA SaveStatusInv ==
    ASSUME PrepInv, NEW p \in Processes, caller[p].pc = "running", proc[p].pc # "idle", Elsewhere,
           NEW status, NEW pc \in {"idle", "next", "entered"}, Released(p, pc),
           \/ Save(p, [proc[p].mem EXCEPT !.status = status], pc)
           \/ Save(p, proc[p].mem, pc),
           pc = "next" => disk.attempts[1] = 0 \/ 1 \in disk.completed
    PROVE  PrepInv'
<1>1. PICK state : Save(p, state, pc) /\ state \in {proc[p].mem, [proc[p].mem EXCEPT !.status = status]}
  OBVIOUS
<1>2. /\ IsState(proc[p].mem) /\ ProcOK /\ CopyInv(p) /\ RecordInv
  BY DEF PrepInv, PrepTypeOK, ProcOK, ProcInv
<1>3. /\ IsState(state) /\ state.completed = disk.completed /\ state.attempts = disk.attempts
      /\ state.spec = caller[p].inputs
  BY <1>1, <1>2 DEF IsState, CopyInv
<1>4. Saved(p, disk.completed, disk.attempts, caller[p].inputs, pc)
  <2>1. pc \in Pcs
    BY DEF Pcs
  <2>2. Saved(p, state.completed, state.attempts, state.spec, pc)
    BY <1>1, <1>2, <1>3, <2>1, SaveDoes
  <2>. QED
    BY <1>3, <2>2
<1>5. 1 \in disk.completed => files.output = expected_report(caller[p].inputs)
  BY <1>2 DEF RecordInv, CopyInv, Exact, IsState
<1>6. disk.attempts[1] <= 1 /\ invoked[1] <= disk.attempts[1]
  BY <1>2 DEF RecordInv
<1>7. pc \in Pcs \ {"attempt", "complete"} /\ pc \notin OnStep /\ pc # "invoke"
  BY DEF Pcs, OnStep
<1>. QED
  BY <1>4, <1>5, <1>6, <1>7, SavedInv

\* RunnerStep: the loop of AgentRunner around the one step.
LEMMA RunnerStepInv ==
    ASSUME PrepInv, NEW p \in Processes, RunnerStep(p)
    PROVE  PrepInv'
<1>. USE DEF Attempting, Step
<1>1. caller[p].pc = "running" /\ UNCHANGED <<caller, files, receipts>>
  BY DEF RunnerStep, At
<1>2. /\ IsState(disk) /\ IsState(proc[p].mem) /\ ProcOK /\ CopyInv(p) /\ AttemptInv(p) /\ RecordInv
      /\ invoked \in [{1} -> Nat]
      /\ proc[p].pc # "idle" => lock = p
  BY InRunner DEF PrepInv, PrepTypeOK, ProcOK, ProcInv
<1>3. ASSUME NEW status, SaveAndReturn(p, status), proc[p].pc # "idle" PROVE PrepInv'
  <2>1. /\ Save(p, [proc[p].mem EXCEPT !.status = status], "idle") /\ Released(p, "idle") /\ Elsewhere
    BY <1>1, <1>3 DEF SaveAndReturn, history, Released, Elsewhere
  <2>. QED
    BY <1>1, <1>3, <2>1, SaveStatusInv
<1>4. CASE BindSpec(p)
  <2>1. /\ Save(p, proc[p].mem, "entered") /\ Released(p, "entered") /\ Elsewhere /\ proc[p].pc # "idle"
    BY <1>1, <1>2, <1>4 DEF BindSpec, history, Released, Elsewhere
  <2>. QED
    BY <1>1, <2>1, SaveStatusInv
<1>5. CASE ResumeSkipped(p)
  <2>1. /\ proc[p].pc # "idle" /\ proc' = [proc EXCEPT ![p].pc = "idle"] /\ UNCHANGED disk
        /\ Released(p, "idle") /\ Elsewhere
    BY <1>1, <1>5 DEF ResumeSkipped, Entered, history, Released, Elsewhere
  <2>2. ProcAt(p, "idle", proc[p].step)
    BY <1>2, <2>1, ProcMoves DEF Pcs
  <2>. QED
    BY <1>1, <2>1, <2>2, MovedInv
<1>6. CASE BlockUnresolved(p)
  BY <1>3, <1>6 DEF BlockUnresolved, Entered
<1>7. CASE Begin(p)
  <2>1. /\ Save(p, [proc[p].mem EXCEPT !.status = "running"], "next") /\ Released(p, "next") /\ Elsewhere
        /\ proc[p].pc # "idle" /\ Unresolved(proc[p].mem) = {}
    BY <1>1, <1>2, <1>7 DEF Begin, Entered, history, Released, Elsewhere
  <2>2. disk.attempts[1] = 0 \/ 1 \in disk.completed
    BY <1>2, <2>1, OneStep DEF Unresolved, CopyInv, IsState
  <2>. QED
    BY <1>1, <2>1, <2>2, SaveStatusInv
<1>8. CASE TakeStep(p, 1)
  <2>1. proc[p].pc = "next" /\ 1 \notin disk.completed
    BY <1>2, <1>8 DEF TakeStep, IsNext, Remaining, CopyInv
  <2>2. CASE SaveAndReturn(p, "blocked")
    BY <1>3, <2>1, <2>2
  <2>3. CASE proc' = [proc EXCEPT ![p].pc = "attempt", ![p].step = 1] /\ UNCHANGED <<disk, lock, history>>
    <3>1. ProcAt(p, "attempt", 1)
      BY <1>2, <2>3, ProcMoves DEF Pcs, OnStep
    <3>2. Released(p, "attempt") /\ Elsewhere /\ disk.attempts[1] = 0
      BY <1>1, <1>2, <2>1, <2>3 DEF history, Released, Elsewhere, AttemptInv
    <3>. QED
      BY <1>1, <2>1, <2>3, <3>1, <3>2, MovedInv
  <2>. QED
    BY <1>8, <2>2, <2>3 DEF TakeStep
<1>9. CASE BeginAttempt(p)
  <2>1. /\ proc[p].pc = "attempt" /\ Released(p, "invoke") /\ Elsewhere
        /\ Save(p, [proc[p].mem EXCEPT !.attempts[Step(p)] = @ + 1], "invoke")
    BY <1>1, <1>2, <1>9 DEF BeginAttempt, history, Released, Elsewhere
  <2>2. /\ proc[p].step = 1 /\ 1 \notin disk.completed /\ disk.attempts[1] = 0 /\ invoked[1] = 0
    BY <1>2, <2>1 DEF AttemptInv, OnStep, RecordInv
  <2>3. PICK state : state = [proc[p].mem EXCEPT !.attempts[1] = @ + 1]
    OBVIOUS
  <2>4. /\ IsState(state) /\ state.completed = disk.completed /\ state.spec = caller[p].inputs
        /\ state.attempts[1] = 1
    <3>1. proc[p].mem.completed = disk.completed /\ proc[p].mem.spec = caller[p].inputs
          /\ proc[p].mem.attempts = disk.attempts
      BY <1>2, <2>1 DEF CopyInv
    <3>2. PICK counts : counts = [disk.attempts EXCEPT ![1] = @ + 1]
      OBVIOUS
    <3>3. counts \in [{1} -> Nat] /\ counts[1] = 1
      BY <1>2, <2>2, <3>2 DEF IsState
    <3>4. state = [proc[p].mem EXCEPT !.attempts = counts]
      BY <1>2, <2>3, <3>1, <3>2 DEF IsState
    <3>. QED
      BY <1>2, <3>1, <3>3, <3>4 DEF IsState
  <2>5. Saved(p, disk.completed, state.attempts, caller[p].inputs, "invoke")
    <3>1. Saved(p, state.completed, state.attempts, state.spec, "invoke")
      BY <1>2, <2>1, <2>2, <2>3, <2>4, SaveDoes DEF Pcs, OnStep
    <3>. QED
      BY <2>4, <3>1
  <2>. QED
    BY <1>1, <2>1, <2>2, <2>4, <2>5, SavedInv DEF Pcs, OnStep
<1>10. CASE Refused(p)
  BY <1>3, <1>10 DEF Refused
<1>11. CASE SaveResult(p)
  <2>1. proc[p].pc = "save" /\ proc[p].step = 1 /\ 1 \notin disk.completed
    BY <1>2, <1>11 DEF SaveResult, AttemptInv, OnStep
  <2>2. Save(p, proc[p].mem, "verify") /\ Released(p, "verify") /\ Elsewhere
    BY <1>1, <1>2, <1>11, <2>1, PreparationAssumption DEF SaveResult, history, Released, Elsewhere
  <2>3. Saved(p, disk.completed, disk.attempts, caller[p].inputs, "verify")
    <3>1. Saved(p, proc[p].mem.completed, proc[p].mem.attempts, proc[p].mem.spec, "verify")
      BY <1>2, <2>2, SaveDoes DEF Pcs, OnStep
    <3>. QED
      BY <1>2, <2>1, <3>1 DEF CopyInv
  <2>. QED
    BY <1>1, <1>2, <2>1, <2>2, <2>3, SavedInv DEF Pcs, OnStep, RecordInv
<1>12. CASE Verify(p) /\ (proc'[p].pc = "complete" <=> check(p))
  <2>1. proc[p].pc = "verify" /\ proc[p].step = 1 /\ 1 \notin disk.completed
    BY <1>2, <1>12 DEF Verify, AttemptInv, OnStep
  <2>2. CASE SaveAndReturn(p, "blocked")
    BY <1>3, <2>1, <2>2
  <2>3. CASE proc' = [proc EXCEPT ![p].pc = "complete"] /\ UNCHANGED <<disk, lock, invoked>>
    <3>1. ProcAt(p, "complete", proc[p].step)
      BY <1>2, <2>3, ProcMoves DEF Pcs, OnStep
    <3>2. files.output = expected_report(caller[p].inputs)
      BY <1>12, <3>1 DEF ProcAt, check
    <3>3. Released(p, "complete") /\ Elsewhere
      BY <1>1, <1>2, <2>1, <2>3 DEF Released, Elsewhere
    <3>. QED
      BY <1>1, <2>1, <2>3, <3>1, <3>2, <3>3, MovedInv
  <2>. QED
    BY <1>12, <2>2, <2>3 DEF Verify
<1>13. CASE CompleteStep(p)
  <2>1. /\ proc[p].pc = "complete" /\ proc[p].step = 1 /\ Released(p, "next") /\ Elsewhere
        /\ Save(p, [proc[p].mem EXCEPT !.completed = @ \cup {Step(p)}], "next")
    BY <1>1, <1>2, <1>13 DEF CompleteStep, history, Released, Elsewhere, AttemptInv, OnStep
  <2>2. files.output = expected_report(caller[p].inputs)
    BY <2>1 DEF PrepInv, ProcInv, FileInv
  <2>3. PICK state : state = [proc[p].mem EXCEPT !.completed = @ \cup {1}]
    OBVIOUS
  <2>4. /\ IsState(state) /\ state.completed = {1} /\ state.spec = caller[p].inputs
        /\ state.attempts = disk.attempts
    BY <1>2, <2>1, <2>3 DEF IsState, CopyInv
  <2>5. Saved(p, {1}, disk.attempts, caller[p].inputs, "next")
    <3>1. Saved(p, state.completed, state.attempts, state.spec, "next")
      BY <1>2, <2>1, <2>3, <2>4, SaveDoes DEF Pcs
    <3>. QED
      BY <2>4, <3>1
  <2>. QED
    BY <1>1, <1>2, <2>1, <2>2, <2>5, SavedInv DEF Pcs, OnStep, RecordInv
<1>14. CASE CompleteTask(p)
  BY <1>3, <1>14 DEF CompleteTask
<1>. QED
  BY <1>4, <1>5, <1>6, <1>7, <1>8, <1>9, <1>10, <1>11, <1>12, <1>13, <1>14 DEF RunnerStep

\* Receipt: handed out for the report in the directory and the task file next to it.
LEMMA ReceiptInv ==
    ASSUME PrepInv, NEW p \in Processes, Receipt(p)
    PROVE  PrepInv'
<1>1. /\ caller[p].pc = "running" /\ proc[p].pc = "idle" /\ End(p)
      /\ proc[p].mem.status = "completed" => check(p)
      /\ receipts' = IF proc[p].mem.status = "completed" THEN receipts \cup {caller[p].inputs} ELSE receipts
      /\ UNCHANGED <<disk, lock, invoked, files>>
  BY DEF Receipt, At, Attempting, history
<1>2. LockInv(p) /\ FileInv(p) /\ ProcOK /\ CallerOK
  BY DEF PrepInv, PrepTypeOK, ProcInv
<1>3. lock # p
  BY <1>1, <1>2 DEF LockInv, Locked
<1>4. /\ ProcOK' /\ CallerOK' /\ proc'[p].pc = "idle" /\ caller'[p].pc = "idle"
      /\ \A q \in Processes \ {p} : Untouched(q)
  BY <1>1, <1>2, EndDoes
<1>5. PrepTypeOK'
  BY <1>1, <1>4 DEF PrepInv, PrepTypeOK
<1>6. RecordInv'
  <2>1. proc[p].mem.status = "completed" => Exact(caller[p].inputs)
    BY <1>1, <1>2 DEF check, FileInv, Exact, Bound
  <2>2. \A inputs : Exact(inputs)' <=> Exact(inputs)
    BY <1>1 DEF Exact
  <2>. QED
    BY <1>1, <2>1, <2>2 DEF PrepInv, RecordInv
<1>7. ProcInv(p)'
  BY <1>1, <1>3, <1>4, IdleInv DEF Locked, Acting, Bound
<1>8. ASSUME NEW q \in Processes \ {p} PROVE ProcInv(q)'
  BY <1>1, <1>4, QuietInv
<1>. QED
  BY <1>5, <1>6, <1>7, <1>8 DEF PrepInv

\* Stop: whatever the process was doing, the files stay as they are.
LEMMA StopInv ==
    ASSUME PrepInv, NEW p \in Processes, Stop(p)
    PROVE  PrepInv'
<1>1. /\ End(p) /\ lock' = IF lock = p THEN Nobody ELSE lock
      /\ UNCHANGED <<disk, invoked, files, receipts>>
  BY DEF Stop, history
<1>2. /\ ProcOK' /\ CallerOK' /\ proc'[p].pc = "idle" /\ caller'[p].pc = "idle"
      /\ \A q \in Processes \ {p} : Untouched(q)
  BY <1>1, EndDoes DEF PrepInv, PrepTypeOK
<1>3. PrepTypeOK'
  BY <1>1, <1>2 DEF PrepInv, PrepTypeOK
<1>4. RecordInv'
  BY <1>1, QuietRecord DEF WholeFilesStay
<1>5. ProcInv(p)'
  <2>1. lock' # p
    BY <1>1, NobodyIsNoProcess
  <2>. QED
    BY <1>2, <2>1, IdleInv DEF Locked, Acting, Bound
<1>6. ASSUME NEW q \in Processes \ {p} PROVE ProcInv(q)'
  <2>1. lock' = q <=> lock = q
    BY <1>1, NobodyIsNoProcess
  <2>. QED
    BY <1>1, <1>2, <2>1, QuietInv
<1>. QED
  BY <1>3, <1>4, <1>5, <1>6 DEF PrepInv

\* The operator and the race: nothing in the run directory changes.
LEMMA OutsideInv ==
    ASSUME PrepInv, UNCHANGED <<disk, lock, proc, invoked, files, caller, receipts>>
    PROVE  PrepInv'
<1>1. PrepTypeOK'
  BY DEF PrepInv, PrepTypeOK, ProcOK, CallerOK
<1>2. RecordInv'
  BY QuietRecord DEF WholeFilesStay
<1>3. ASSUME NEW q \in Processes PROVE ProcInv(q)'
  BY QuietInv DEF Untouched
<1>. QED
  BY <1>1, <1>2, <1>3 DEF PrepInv

\* Every step of preparation and of a race's intake keeps PrepInv.
LEMMA PrepNextInv == PrepInv /\ [PrepNext]_allVars => PrepInv'
<1>. SUFFICES ASSUME PrepInv, [PrepNext]_allVars PROVE PrepInv'
  OBVIOUS
<1>1. CASE UNCHANGED allVars \/ Edit \/ (IntakeNext /\ UNCHANGED <<runnerVars, prepVars>>)
  BY <1>1, OutsideInv DEF allVars, runnerVars, prepVars, Edit
<1>2. ASSUME NEW p \in Processes,
             \/ \E flag \in BOOLEAN : Launch(p, flag)
             \/ TaskLock(p) \/ WriteTask(p) \/ Resume(p) \/ Reconcile(p) \/ Run(p)
             \/ Prepare(p) \/ WriteOutput(p) \/ OutputConflict(p) \/ ReadBack(p)
             \/ RunnerStep(p) \/ Receipt(p) \/ Stop(p)
      PROVE  PrepInv'
  BY <1>2, LaunchInv, TaskLockInv, WriteTaskInv, ResumeInv, ReconcileInv, RunInv, PrepareInv,
     WriteOutputInv, AdapterReturnsInv, RunnerStepInv, ReceiptInv, StopInv
<1>. QED
  BY <1>1, <1>2 DEF PrepNext

-----------------------------------------------------------------------------

\* The inductive invariant holds of every behaviour of run_preparation: one
\* process under way, on a copy that is the state file, over whole files that
\* are never written again.
THEOREM PrepInvariant == PrepSpec => []PrepInv
<1>. QED
  BY PrepInitInv, PrepNextInv, PTL DEF PrepSpec

\* historical.prepare is called at most once in a directory, for any number of
\* processes, launches, crashes, edits and reconciliations.
THEOREM PreparesOnce == PrepSpec => []PreparedOnce
<1>1. PrepInv => PreparedOnce
  BY DEF PrepInv, RecordInv, PrepTypeOK, IsState, PreparedOnce
<1>. QED
  BY <1>1, PrepInvariant, PTL

\* What the state file and every receipt vouch for is exactly what the directory
\* holds, after an interruption and a reconciliation too.
THEOREM RecordsAreExact == PrepSpec => []RecordedIsExact
<1>1. ASSUME NEW x, PrepTypeOK, Exact(x) PROVE files = [task |-> x, output |-> expected_report(x)]
  BY <1>1 DEF PrepTypeOK, Exact
<1>2. PrepInv => RecordedIsExact
  BY <1>1 DEF PrepInv, RecordInv, RecordedIsExact
<1>. QED
  BY <1>2, PrepInvariant, PTL

(***************************************************************************)
(* The race and its pages: what prepare may rely on once the records are   *)
(* assembled.  RaceInv is inductive.                                       *)
(***************************************************************************)
FinishOK(result) == result \in [Cars -> [rank : Nat, state : {"finished", "dnf", "dsq_unclear", "dns"}]]

\* Payouts shown: orders of three cars, or a refund.
PaidOK(paid) == \A t \in paid : t = <<>> \/ t \in [1..3 -> Cars]

WorldOK ==
    /\ now \in Nat /\ starts = <<starts[1], starts[2]>> /\ starts[1] \in Int /\ starts[2] \in Int
    /\ finish = NoFinish \/ FinishOK(finish)
    /\ PaidOK(shown)

\* A header saved at or after the start it lists lists the start for good, and a
\* result page, or the table of a race that was held, shows the result for good.
PagesInv ==
    /\ pre # None => pre.observed \in Nat /\ pre.starts[1] \in Int /\ pre.starts[2] \in Int
    /\ head # None =>
          /\ head.observed \in Nat /\ head.observed <= now
          /\ head.starts[1] \in Int /\ head.starts[2] \in Int
          /\ head.starts[2] <= head.observed => starts[2] = head.starts[2]
    /\ res # None =>
          /\ res.observed \in Nat
          /\ finish # NoFinish /\ res.result = finish
          /\ PaidOK(res.trifecta)
    /\ \A e \in tables : e.held => finish # NoFinish /\ e.result = finish

\* Every record comes from the pages as they still are.
RowsInv == rows \in Seq(Supplied) /\ (open => rows # <<>>)

RaceInv == WorldOK /\ PagesInv /\ RowsInv

-----------------------------------------------------------------------------
(* The operators of the intake *)

\* Earliest of a set with a smallest member is that member.
LEMMA EarliestIs ==
    ASSUME NEW S, NEW t \in S, \A u \in S : t <= u
    PROVE  Earliest(S) \in S /\ \A u \in S : Earliest(S) <= u
  BY DEF Earliest

\* Latest of a set with a greatest member is that member.
LEMMA LatestIs ==
    ASSUME NEW S, NEW t \in S, \A u \in S : t >= u
    PROVE  Latest(S) \in S /\ \A u \in S : Latest(S) >= u
  BY DEF Latest

\* Of two times, the earliest is one of them and not after either.
LEMMA EarliestOfTwo ==
    ASSUME NEW a \in Int, NEW b \in Int
    PROVE  Earliest({a, b}) \in {a, b} /\ Earliest({a, b}) <= a /\ Earliest({a, b}) <= b
<1>1. \E t \in {a, b} : \A u \in {a, b} : t <= u
  <2>1. CASE a <= b
    BY <2>1
  <2>2. CASE b <= a
    BY <2>2
  <2>. QED
    BY <2>1, <2>2
<1>. QED
  BY <1>1, EarliestIs

\* Of two times, the latest is one of them and not before either.
LEMMA LatestOfTwo ==
    ASSUME NEW a \in Int, NEW b \in Int
    PROVE  Latest({a, b}) \in {a, b} /\ Latest({a, b}) >= a /\ Latest({a, b}) >= b
<1>1. \E t \in {a, b} : \A u \in {a, b} : t >= u
  <2>1. CASE a >= b
    BY <2>1
  <2>2. CASE b >= a
    BY <2>2
  <2>. QED
    BY <2>1, <2>2
<1>. QED
  BY <1>1, LatestIs

\* The bounds of the four starts a race was listed with.
LEMMA StartsBounded ==
    ASSUME NEW a \in Int, NEW b \in Int, NEW c \in Int, NEW d \in Int
    PROVE  LET listed == {a, b, c, d} IN
           /\ Earliest(listed) \in Int /\ Earliest(listed) <= d
           /\ Latest(listed) \in Int /\ Latest(listed) >= d
<1>1. PICK x \in {a, b} : x <= a /\ x <= b
  BY EarliestOfTwo
<1>2. PICK y \in {c, d} : y <= c /\ y <= d
  BY EarliestOfTwo
<1>3. PICK z \in {x, y} : z <= x /\ z <= y
  BY EarliestOfTwo
<1>4. z \in {a, b, c, d} /\ \A u \in {a, b, c, d} : z <= u
  BY <1>1, <1>2, <1>3
<1>5. Earliest({a, b, c, d}) \in Int /\ Earliest({a, b, c, d}) <= d
  BY <1>4, EarliestIs
<1>6. PICK x2 \in {a, b} : x2 >= a /\ x2 >= b
  BY LatestOfTwo
<1>7. PICK y2 \in {c, d} : y2 >= c /\ y2 >= d
  BY LatestOfTwo
<1>8. PICK z2 \in {x2, y2} : z2 >= x2 /\ z2 >= y2
  BY LatestOfTwo
<1>9. z2 \in {a, b, c, d} /\ \A u \in {a, b, c, d} : z2 >= u
  BY <1>6, <1>7, <1>8
<1>10. Latest({a, b, c, d}) \in Int /\ Latest({a, b, c, d}) >= d
  BY <1>9, LatestIs
<1>. QED
  BY <1>5, <1>10

\* Three different cars are a set of three.
LEMMA ThreeCars ==
    ASSUME NEW a, NEW b, NEW c, a # b, a # c, b # c
    PROVE  Cardinality({a, b, c}) = 3
<1>1. PICK S : S = {a}
  OBVIOUS
<1>2. PICK T : T = S \cup {b}
  OBVIOUS
<1>3. IsFiniteSet(S) /\ Cardinality(S) = 1 /\ b \notin S
  BY <1>1, FS_Singleton
<1>4. IsFiniteSet(T) /\ Cardinality(T) = 2 /\ c \notin T
  BY <1>1, <1>2, <1>3, FS_AddElement
<1>5. Cardinality(T \cup {c}) = 3
  BY <1>4, FS_AddElement
<1>6. T \cup {c} = {a, b, c}
  BY <1>1, <1>2
<1>. QED
  BY <1>5, <1>6

\* The order in which three cars are placed, without a tie, is the only one that
\* is paid.
LEMMA PlacedIsPaid ==
    ASSUME NEW result, FinishOK(result), ~Repeated(result), NEW t \in [1..3 -> Cars],
           \A i \in 1..3 : result[t[i]].rank = i
    PROVE  Payable(result, 3) = {t}
<1>. DEFINE Rank(c) == result[c].rank
<1>1. DOMAIN result = Cars /\ \A c \in Cars : Rank(c) \in Nat
  BY DEF FinishOK
<1>2. /\ t[1] \in Cars /\ t[2] \in Cars /\ t[3] \in Cars
      /\ Rank(t[1]) = 1 /\ Rank(t[2]) = 2 /\ Rank(t[3]) = 3
  OBVIOUS
<1>3. Ranked(result) = {c \in Cars : Rank(c) > 0}
  BY <1>1 DEF Ranked
<1>4. t[1] \in Ranked(result) /\ t[2] \in Ranked(result) /\ t[3] \in Ranked(result)
  BY <1>2, <1>3
<1>5. \A c, d \in Ranked(result) : Rank(c) = Rank(d) => c = d
  BY DEF Repeated
<1>. HIDE DEF Rank
<1>6. ~(Cardinality(Ranked(result)) < 3)
  <2>1. IsFiniteSet(Ranked(result))
    BY <1>3, IntakeAssumption, FS_Subset
  <2>2. t[1] # t[2] /\ t[1] # t[3] /\ t[2] # t[3]
    BY <1>2
  <2>3. PICK S : S = {t[1], t[2], t[3]}
    OBVIOUS
  <2>5. Cardinality(S) = 3
    BY <2>2, <2>3, ThreeCars
  <2>6. S \in SUBSET Ranked(result)
    BY <1>4, <2>3
  <2>7. Cardinality(S) <= Cardinality(Ranked(result))
    BY <2>1, <2>6, FS_Subset
  <2>8. Cardinality(Ranked(result)) \in Nat
    BY <2>1, FS_CardinalityType
  <2>. QED
    BY <2>5, <2>7, <2>8
<1>. DEFINE Due(s) == \A i \in 1..3, c \in Ranked(result) :
                         Rank(c) < Rank(s[i]) => \E j \in 1..(i - 1) : s[j] = c
<1>7. Payable(result, 3) = {s \in Arrangements(Ranked(result), 3) : Due(s)}
  BY <1>6 DEF Payable, Rank
<1>8. t \in Arrangements(Ranked(result), 3)
  <2>1. t \in [1..3 -> Ranked(result)]
    BY <1>4
  <2>2. \A i \in 1..3 : \A j \in 1..(i - 1) : t[i] # t[j]
    BY <1>2
  <2>. QED
    BY <2>1, <2>2 DEF Arrangements
<1>9. Due(t)
  <2>. SUFFICES ASSUME NEW i \in 1..3, NEW c \in Ranked(result), Rank(c) < Rank(t[i])
                PROVE  \E j \in 1..(i - 1) : t[j] = c
    OBVIOUS
  <2>1. Rank(t[i]) = i /\ Rank(c) \in Nat /\ Rank(c) > 0
    BY <1>1, <1>2, <1>3
  <2>2. Rank(c) \in 1..(i - 1) /\ Rank(c) \in 1..3
    BY <2>1
  <2>3. t[Rank(c)] \in Ranked(result) /\ Rank(t[Rank(c)]) = Rank(c)
    BY <1>2, <1>4, <2>2
  <2>. QED
    BY <1>5, <2>2, <2>3
<1>10. ASSUME NEW s \in Arrangements(Ranked(result), 3), Due(s) PROVE s = t
  <2>1. /\ s \in [1..3 -> Ranked(result)]
        /\ s[1] # s[2] /\ s[1] # s[3] /\ s[2] # s[3]
    BY DEF Arrangements
  <2>2. /\ s[1] \in Ranked(result) /\ s[2] \in Ranked(result) /\ s[3] \in Ranked(result)
        /\ \A c \in Ranked(result) : Rank(c) \in Nat /\ Rank(c) > 0
    BY <1>1, <1>3, <2>1
  <2>3. /\ \A c \in Ranked(result) : ~(Rank(c) < Rank(s[1]))
        /\ \A c \in Ranked(result) : Rank(c) < Rank(s[2]) => s[1] = c
        /\ \A c \in Ranked(result) : Rank(c) < Rank(s[3]) => s[1] = c \/ s[2] = c
    BY <1>10
  <2>4. s[1] = t[1]
    <3>1. Rank(s[1]) = 1
      BY <1>2, <1>4, <2>2, <2>3
    <3>. QED
      BY <1>2, <1>4, <1>5, <2>2, <3>1
  <2>5. s[2] = t[2]
    <3>1. Rank(s[2]) # 1
      BY <1>2, <1>4, <1>5, <2>1, <2>2, <2>4
    <3>2. ~(Rank(s[2]) > 2)
      BY <1>2, <1>4, <2>2, <2>3, <2>4
    <3>. QED
      BY <1>2, <1>4, <1>5, <2>2, <3>1, <3>2
  <2>6. s[3] = t[3]
    <3>1. Rank(s[3]) # 1 /\ Rank(s[3]) # 2
      BY <1>2, <1>4, <1>5, <2>1, <2>2, <2>4, <2>5
    <3>2. ~(Rank(s[3]) > 3)
      BY <1>2, <1>4, <2>2, <2>3, <2>4, <2>5
    <3>. QED
      BY <1>2, <1>4, <1>5, <2>2, <3>1, <3>2
  <2>7. \A i \in 1..3 : s[i] = t[i]
    BY <2>4, <2>5, <2>6
  <2>. QED
    BY <2>1, <2>7
<1>. QED
  BY <1>7, <1>8, <1>9, <1>10

\* What join checked of the pages a record was made from.
JoinChecked(rec, p, h, r) ==
    /\ p # None /\ h # None /\ r # None
    /\ r.result # NoFinish /\ PayoutsAgree(r) /\ ~Repeated(r.result)
    /\ Earliest({h.observed, r.observed}) >= Latest({h.starts[1], h.starts[2]})
    /\ p.observed < Earliest({p.starts[1], p.starts[2], h.starts[1], h.starts[2]})
    /\ Latest({h.observed, r.observed}) >= Latest({p.starts[1], p.starts[2], h.starts[1], h.starts[2]})
    /\ rec.feature = p.observed /\ rec.result = Latest({h.observed, r.observed})
    /\ rec.outcomes = r.trifecta /\ rec.riders = Cars \ Withdrawn(r.result)

\* An answer of join passed the checks of join, and still does when
\* confirmed.
LEMMA JoinGives ==
    ASSUME NEW p, NEW h, NEW r, NEW a \in join(p, h, r)
    PROVE  JoinChecked(a, p, h, r) /\ JoinChecked(Confirmed(a), p, h, r)
<1>1. /\ p # None /\ h # None /\ r # None
      /\ r.result # NoFinish /\ PayoutsAgree(r) /\ ~Repeated(r.result)
      /\ Earliest({h.observed, r.observed}) >= Latest({h.starts[1], h.starts[2]})
      /\ p.observed < Earliest({p.starts[1], p.starts[2], h.starts[1], h.starts[2]})
      /\ Latest({h.observed, r.observed}) >= Latest({p.starts[1], p.starts[2], h.starts[1], h.starts[2]})
      /\ p.noted = Withdrawn(r.result)
  BY DEF join, ValidPre, ingest_json_result, ResultIssues
<1>2. PICK start :
         a = [source |-> "official", riders |-> Cars \ p.noted, feature |-> p.observed, start |-> start,
              result |-> Latest({h.observed, r.observed}), outcomes |-> r.trifecta, dead_heat |-> "no",
              styled |-> TRUE, confirmed |-> FALSE]
  BY DEF join
<1>. QED
  BY <1>1, <1>2 DEF JoinChecked, Confirmed

\* The times of a joined record are those of the start as it was really listed.
LEMMA JoinedTimes ==
    ASSUME WorldOK, PagesInv, NEW rec, JoinChecked(rec, pre, head, res)
    PROVE  rec.feature < starts[2] /\ starts[2] <= rec.result
<1>1. /\ pre.observed \in Nat /\ pre.starts[1] \in Int /\ pre.starts[2] \in Int
      /\ head.observed \in Nat /\ head.starts[1] \in Int /\ head.starts[2] \in Int
      /\ head.starts[2] <= head.observed => starts[2] = head.starts[2]
      /\ res.observed \in Nat /\ starts[2] \in Int
      /\ head.observed \in Int /\ res.observed \in Int
  BY DEF PagesInv, WorldOK, JoinChecked
<1>2. /\ Earliest({head.observed, res.observed}) \in {head.observed, res.observed}
      /\ Earliest({head.observed, res.observed}) <= head.observed
  BY <1>1, EarliestOfTwo
<1>3. /\ Latest({head.starts[1], head.starts[2]}) \in {head.starts[1], head.starts[2]}
      /\ Latest({head.starts[1], head.starts[2]}) >= head.starts[2]
  BY <1>1, LatestOfTwo
<1>4. Latest({head.observed, res.observed}) \in {head.observed, res.observed}
  BY <1>1, LatestOfTwo
<1>. DEFINE listed == {pre.starts[1], pre.starts[2], head.starts[1], head.starts[2]}
<1>5. /\ Earliest(listed) \in Int /\ Earliest(listed) <= head.starts[2]
      /\ Latest(listed) \in Int /\ Latest(listed) >= head.starts[2]
  BY <1>1, StartsBounded
<1>6. /\ Earliest({head.observed, res.observed}) >= Latest({head.starts[1], head.starts[2]})
      /\ pre.observed < Earliest(listed)
      /\ Latest({head.observed, res.observed}) >= Latest(listed)
      /\ rec.feature = pre.observed /\ rec.result = Latest({head.observed, res.observed})
  BY DEF JoinChecked
<1>. HIDE DEF listed
<1>7. starts[2] = head.starts[2]
  BY <1>1, <1>2, <1>3, <1>6
<1>. QED
  BY <1>1, <1>4, <1>5, <1>6, <1>7

-----------------------------------------------------------------------------
(* The race runs its course *)

\* The payouts of a finish are orders of three cars, or a refund.
LEMMA PayableOK == ASSUME NEW result, FinishOK(result) PROVE PaidOK(Payable(result, 3))
<1>1. Ranked(result) \subseteq Cars
  BY DEF Ranked, FinishOK
<1>2. \A s \in Arrangements(Ranked(result), 3) : s \in [1..3 -> Cars]
  BY <1>1 DEF Arrangements
<1>. QED
  BY <1>2 DEF Payable, PaidOK, Refund

\* An order of three cars read backwards is an order of three cars.
LEMMA ReverseOK ==
    ASSUME NEW t, t = <<>> \/ t \in [1..3 -> Cars]
    PROVE  Reverse(t) = <<>> \/ Reverse(t) \in [1..3 -> Cars]
<1>1. CASE t = <<>>
  BY <1>1 DEF Reverse
<1>2. CASE t \in [1..3 -> Cars]
  <2>1. t \in Seq(Cars) /\ Len(t) = 3
    <3>1. t \in Seq(Cars)
      BY <1>2, SeqDef
    <3>2. Len(t) \in Nat /\ DOMAIN t = 1..Len(t) /\ DOMAIN t = 1..3
      BY <1>2, <3>1, LenProperties
    <3>. QED
      BY <3>1, <3>2
  <2>2. Reverse(t) = [i \in 1..3 |-> t[(3 - i) + 1]]
    BY <2>1 DEF Reverse
  <2>3. \A i \in 1..3 : (3 - i) + 1 \in 1..3
    OBVIOUS
  <2>. QED
    BY <1>2, <2>2, <2>3
<1>. QED
  BY <1>1, <1>2

\* Every way a race can finish gives every car a rank and a state.
LEMMA ResultsOK == ASSUME NEW result \in Results PROVE FinishOK(result)
<1>. DEFINE Entry == {[rank |-> n, state |-> "finished"] : n \in 1..Cardinality(Cars)}
                         \cup {[rank |-> 0, state |-> s] : s \in {"dnf", "dsq_unclear"}}
            Withdrawal == [rank |-> 0, state |-> "dns"]
            EntryOK == [rank : Nat, state : {"finished", "dnf", "dsq_unclear", "dns"}]
<1>1. PICK f \in [Cars \ out -> Entry] :
          result = [c \in Cars |-> IF c \in out THEN Withdrawal ELSE f[c]]
  BY DEF Results
<1>2. Cardinality(Cars) \in Nat
  BY IntakeAssumption
<1>3. \A e \in Entry : e \in EntryOK
  BY <1>2
<1>4. Withdrawal \in EntryOK
  OBVIOUS
<1>. HIDE DEF Entry, Withdrawal, EntryOK
<1>5. \A c \in Cars : (IF c \in out THEN Withdrawal ELSE f[c]) \in EntryOK
  BY <1>3, <1>4
<1>6. result \in [Cars -> EntryOK]
  BY <1>1, <1>5
<1>. QED
  BY <1>6 DEF FinishOK, EntryOK

\* The times of a race are integers.
LEMMA StartsInt == ListedStart \in Int /\ MaxTime \in Nat /\ MaxTime \in Int
  BY IntakeAssumption

\* A sequence of one or two members of a set is a sequence over it, not the
\* empty one.
LEMMA ShortSeqs ==
    ASSUME NEW S, NEW x \in S, NEW y \in S
    PROVE  /\ <<x>> \in Seq(S) /\ <<x, y>> \in Seq(S)
           /\ <<x>> # <<>> /\ <<x, y>> # <<>>
  OBVIOUS

\* The saved races are as they were when nothing that is saved changes.
LEMMA SuppliedStay == UNCHANGED saved => Supplied' = Supplied
  BY DEF saved, Supplied, Converted

\* The steps of the race itself, and of the page that shows its payouts.
LEMMA WorldStepInv ==
    ASSUME RaceInv, Tick \/ Reschedule \/ (\E c \in Cars : Withdraw(c)) \/ Cancel \/ Finish \/ Publish,
           UNCHANGED open
    PROVE  RaceInv'
<1>1. UNCHANGED <<saved, rows>>
  BY DEF Tick, Reschedule, Withdraw, Cancel, Finish, Publish, file
<1>2. RowsInv'
  BY <1>1, SuppliedStay DEF RaceInv, RowsInv
<1>3. UNCHANGED <<pre, head, res, tables>>
  BY <1>1 DEF saved
<1>4. WorldOK /\ PagesInv
  BY DEF RaceInv
<1>5. WorldOK' /\ PagesInv'
  <2>1. CASE Tick
    BY <1>3, <1>4, <2>1 DEF Tick, WorldOK, PagesInv
  <2>2. CASE Reschedule
    <3>1. PICK t \in {ListedStart - 1, ListedStart + 1} : starts' = <<starts[1], t>>
      BY <2>2 DEF Reschedule
    <3>2. now < starts[2] /\ UNCHANGED <<now, finish, shown>>
      BY <2>2 DEF Reschedule
    <3>3. WorldOK'
      BY <1>4, <3>1, <3>2, StartsInt DEF WorldOK
    <3>4. PagesInv'
      BY <1>3, <1>4, <3>2 DEF WorldOK, PagesInv
    <3>. QED
      BY <3>3, <3>4
  <2>3. CASE (\E c \in Cars : Withdraw(c)) \/ Cancel
    BY <1>3, <1>4, <2>3 DEF Withdraw, Cancel, WorldOK, PagesInv
  <2>4. CASE Finish
    <3>1. finish = NoFinish /\ FinishOK(finish') /\ UNCHANGED <<now, starts, shown>>
      BY <2>4, ResultsOK DEF Finish, Over
    <3>. QED
      BY <1>3, <1>4, <3>1 DEF WorldOK, PagesInv
  <2>5. CASE Publish
    <3>1. /\ UNCHANGED <<now, starts, finish>> /\ FinishOK(finish)
          /\ \/ shown' = Payable(finish, 3)
             \/ \E t \in Payable(finish, 3) : shown' \in {{t}, {Reverse(t)}}
      BY <1>4, <2>5 DEF Publish, WorldOK
    <3>2. PaidOK(Payable(finish, 3))
      BY <3>1, PayableOK
    <3>3. PaidOK(shown')
      BY <3>1, <3>2, ReverseOK DEF PaidOK
    <3>. QED
      BY <1>3, <1>4, <3>1, <3>3 DEF WorldOK, PagesInv
  <2>. QED
    BY <2>1, <2>2, <2>3, <2>4, <2>5
<1>. QED
  BY <1>2, <1>5 DEF RaceInv

\* Pages are saved only while there are no records.
LEMMA PageStepInv ==
    ASSUME RaceInv, SavePre \/ SaveHeader \/ SaveResultPage \/ SaveList \/ ExportTables, UNCHANGED open
    PROVE  RaceInv'
<1>1. rows = <<>> /\ rows' = <<>> /\ UNCHANGED <<now, starts, finish, shown>>
  BY DEF SavePre, SaveHeader, SaveResultPage, SaveList, ExportTables, Collecting, file, world
<1>2. RowsInv'
  BY <1>1 DEF RaceInv, RowsInv
<1>3. WorldOK /\ PagesInv
  BY DEF RaceInv
<1>4. WorldOK'
  BY <1>1, <1>3 DEF WorldOK
<1>5. PagesInv'
  <2>1. CASE SavePre
    BY <1>1, <1>3, <2>1 DEF SavePre, WorldOK, PagesInv
  <2>2. CASE SaveHeader
    BY <1>1, <1>3, <2>2 DEF SaveHeader, WorldOK, PagesInv
  <2>3. CASE SaveResultPage
    BY <1>1, <1>3, <2>3 DEF SaveResultPage, WorldOK, PagesInv
  <2>4. CASE SaveList
    BY <1>1, <1>3, <2>4 DEF SaveList, WorldOK, PagesInv
  <2>5. CASE ExportTables
    <3>1. PICK x : tables' = tables \cup {x} /\ x.held = ~cancelled /\ x.result = finish
      <4>1. PICK card \in {{}, out} :
               tables' = tables \cup {[held |-> ~cancelled, card |-> card, result |-> finish,
                                       trifecta |-> shown, exacta |-> ShownExactas]}
        BY <2>5 DEF ExportTables
      <4>2. PICK x : x = [held |-> ~cancelled, card |-> card, result |-> finish,
                          trifecta |-> shown, exacta |-> ShownExactas]
        OBVIOUS
      <4>3. x.held = ~cancelled /\ x.result = finish
        BY <4>2, Zenon
      <4>. QED
        BY <4>1, <4>2, <4>3
    <3>2. UNCHANGED <<pre, head, res>> /\ (cancelled \/ finish # NoFinish)
      BY <2>5 DEF ExportTables, Over
    <3>3. \A e \in tables : e.held => finish # NoFinish /\ e.result = finish
      BY <1>3 DEF PagesInv
    <3>4. x.held => finish # NoFinish
      BY <3>1, <3>2
    <3>5. \A e \in tables' : e.held => finish' # NoFinish /\ e.result = finish'
      BY <1>1, <3>1, <3>3, <3>4
    <3>. QED
      BY <1>1, <1>3, <3>2, <3>5 DEF WorldOK, PagesInv
  <2>. QED
    BY <2>1, <2>2, <2>3, <2>4, <2>5
<1>. QED
  BY <1>2, <1>4, <1>5 DEF RaceInv

\* The operator assembles, reviews and edits records of the pages that are there.
LEMMA RecordStepInv ==
    ASSUME RaceInv, Assemble \/ Review \/ Edit, UNCHANGED open
    PROVE  RaceInv'
<1>1. UNCHANGED <<world, saved>> /\ WorldOK /\ PagesInv /\ RowsInv
  BY DEF Assemble, Review, Edit, RaceInv
<1>2. UNCHANGED <<now, starts, finish, shown, pre, head, res, tables>>
  BY <1>1 DEF world, saved
<1>3. WorldOK' /\ PagesInv'
  BY <1>1, <1>2 DEF WorldOK, PagesInv
<1>4. Supplied' = Supplied
  BY <1>1, SuppliedStay
<1>5. rows' \in Seq(Supplied) /\ (open => rows' # <<>>)
  <2>1. CASE Assemble
    <3>1. \E x, y \in Supplied : rows' = <<x>> \/ rows' = <<x, y>>
      BY <2>1 DEF Assemble
    <3>. QED
      BY <3>1, ShortSeqs
  <2>2. CASE Review
    BY <1>1, <2>2 DEF Review, RowsInv
  <2>3. CASE Edit
    <3>1. rows \in Seq(Supplied) /\ rows # <<>>
      BY <1>1, <2>3 DEF Edit, RowsInv
    <3>2. \/ rows' = rows
          \/ rows' = rows \o rows
          \/ rows' = <<rows[1]>>
      BY <2>3 DEF Edit
    <3>3. rows[1] \in Supplied
      BY <3>1
    <3>4. <<rows[1]>> \in Seq(Supplied) /\ <<rows[1]>> # <<>>
      BY <3>3, ShortSeqs
    <3>5. rows \o rows \in Seq(Supplied) /\ rows \o rows # <<>>
      BY <3>1, ConcatProperties, ConcatEqualIffEmpty
    <3>. QED
      BY <3>1, <3>2, <3>4, <3>5
  <2>. QED
    BY <2>1, <2>2, <2>3
<1>6. RowsInv'
  BY <1>4, <1>5 DEF RowsInv
<1>. QED
  BY <1>3, <1>6 DEF RaceInv

\* Every car has its place in an order of all of them.
LEMMA OrderPlacesAll ==
    ASSUME NEW order \in Arrangements(Cars, Cardinality(Cars)), NEW c \in Cars
    PROVE  \E i \in DOMAIN order : order[i] = c
<1>1. PICK n \in Nat : n = Cardinality(Cars) /\ n >= 3
  BY IntakeAssumption
<1>2. /\ order \in [1..n -> Cars]
      /\ \A i \in 1..n : \A j \in 1..(i - 1) : order[i] # order[j]
  BY <1>1 DEF Arrangements
<1>3. ASSUME NEW i \in 1..n, NEW j \in 1..n, order[i] = order[j] PROVE i = j
  <2>1. ~(i < j)
    BY <1>2, <1>3
  <2>2. ~(j < i)
    BY <1>2, <1>3
  <2>. QED
    BY <2>1, <2>2
<1>4. order \in Injection(1..n, Cars)
  BY <1>2, <1>3 DEF Injection, IsInjective
<1>5. Cardinality(1..n) = Cardinality(Cars)
  BY <1>1, FS_Interval
<1>6. order \in Surjection(1..n, Cars)
  BY <1>4, <1>5, IntakeAssumption, FS_Injection
<1>. QED
  BY <1>2, <1>6 DEF Surjection

\* The archive the operator starts from.
LEMMA ArchivedInv == Archived => RaceInv
<1>. SUFFICES ASSUME Archived PROVE RaceInv
  OBVIOUS
<1>1. PICK order \in Arrangements(Cars, Cardinality(Cars)) :
         finish = [c \in Cars |-> [rank |-> CHOOSE i \in DOMAIN order : order[i] = c, state |-> "finished"]]
  BY DEF Archived
<1>2. DOMAIN order \subseteq Nat
  BY IntakeAssumption DEF Arrangements
<1>3. FinishOK(finish)
  <2>1. \A c \in Cars : (CHOOSE i \in DOMAIN order : order[i] = c) \in Nat
    BY <1>2, OrderPlacesAll
  <2>. QED
    BY <1>1, <2>1 DEF FinishOK
<1>4. finish # NoFinish
  <2>1. Cars # {}
    BY IntakeAssumption, FS_EmptySet
  <2>2. DOMAIN finish = Cars /\ DOMAIN NoFinish = {}
    BY <1>1 DEF NoFinish
  <2>. QED
    BY <2>1, <2>2
<1>5. /\ now = MaxTime /\ starts = <<ListedStart, ListedStart>> /\ shown = Payable(finish, 3)
      /\ pre.observed = 0 /\ pre.starts = starts
      /\ head.observed = now /\ head.starts = starts
      /\ res.observed = now /\ res.result = finish /\ res.trifecta = shown
      /\ tables = {}
  BY DEF Archived
<1>6. PaidOK(shown)
  BY <1>3, <1>5, PayableOK
<1>7. WorldOK
  BY <1>3, <1>5, <1>6, StartsInt DEF WorldOK
<1>8. PagesInv
  BY <1>4, <1>5, <1>6, StartsInt DEF PagesInv
<1>9. RowsInv
  <2>1. PICK rec \in join(pre, head, res) : rows = <<Confirmed(rec)>>
    BY DEF Archived
  <2>2. Confirmed(rec) \in Supplied
    BY DEF Supplied, Converted
  <2>. QED
    BY <2>1, <2>2, ShortSeqs DEF RowsInv
<1>. QED
  BY <1>7, <1>8, <1>9 DEF RaceInv

\* A race's intake starts with RaceInv.
LEMMA RaceInitInv == PrepInit => RaceInv
<1>1. ASSUME IntakeInit, open = FALSE PROVE RaceInv
  <2>1. WorldOK
    BY <1>1, StartsInt DEF IntakeInit, WorldOK, PaidOK
  <2>2. PagesInv
    BY <1>1 DEF IntakeInit, PagesInv
  <2>3. RowsInv
    BY <1>1, EmptySeq DEF IntakeInit, RowsInv
  <2>. QED
    BY <2>1, <2>2, <2>3 DEF RaceInv
<1>. QED
  BY <1>1, ArchivedInv DEF PrepInit

\* Every step of a race's intake and of preparation keeps RaceInv.
LEMMA RaceNextInv == RaceInv /\ [PrepNext]_allVars => RaceInv'
<1>. SUFFICES ASSUME RaceInv, [PrepNext]_allVars PROVE RaceInv'
  OBVIOUS
<1>1. CASE UNCHANGED <<intakeVars, open>>
  <2>1. WorldOK' /\ PagesInv'
    BY <1>1 DEF intakeVars, RaceInv, WorldOK, PagesInv
  <2>2. RowsInv'
    BY <1>1, SuppliedStay DEF intakeVars, saved, RaceInv, RowsInv
  <2>. QED
    BY <2>1, <2>2 DEF RaceInv
<1>2. CASE Edit
  BY <1>2, RecordStepInv DEF Edit
<1>3. CASE IntakeNext /\ UNCHANGED <<runnerVars, prepVars>>
  <2>1. UNCHANGED open
    BY <1>3 DEF prepVars
  <2>. QED
    BY <1>3, <2>1, WorldStepInv, PageStepInv, RecordStepInv DEF IntakeNext
<1>4. ASSUME NEW p \in Processes,
             \/ \E flag \in BOOLEAN : Launch(p, flag)
             \/ TaskLock(p) \/ WriteTask(p) \/ Resume(p) \/ Reconcile(p) \/ Run(p)
             \/ Prepare(p) \/ WriteOutput(p) \/ OutputConflict(p) \/ ReadBack(p)
             \/ RunnerStep(p) \/ Receipt(p) \/ Stop(p)
      PROVE  UNCHANGED <<intakeVars, open>>
  BY <1>4 DEF Launch, TaskLock, WriteTask, Resume, Reconcile, Run, Prepare, WriteOutput, OutputConflict,
     ReadBack, RunnerStep, Receipt, Stop
<1>5. CASE UNCHANGED allVars
  BY <1>1, <1>5 DEF allVars, prepVars
<1>. QED
  BY <1>1, <1>2, <1>3, <1>4, <1>5 DEF PrepNext

\* The invariant of the race and its pages: headers saved after the start, and
\* result pages, stay true, and records come from pages that no longer change.
THEOREM RaceInvariant == PrepSpec => []RaceInv
<1>. QED
  BY RaceInitInv, RaceNextInv, PTL DEF PrepSpec

(***************************************************************************)
(* Finite sets of numbers. Each induction takes a smallest counterexample.  *)
(***************************************************************************)
\* A non-empty set of naturals has a least element.
LEMMA LeastOf ==
  ASSUME NEW S \in SUBSET Nat, S # {}
  PROVE  \E m \in S : \A x \in S : m <= x
<1>1. PICK m \in S : \A x \in S : ~ (<<x, m>> \in OpToRel(<, Nat))
  BY WFMin, NatLessThanWellFounded
<1>2. ASSUME NEW x \in S PROVE m <= x
  <2>1. m \in Nat /\ x \in Nat
    OBVIOUS
  <2>2. ~ (x < m)
    BY <1>1, <2>1 DEF OpToRel
  <2> QED BY <2>1, <2>2
<1> QED BY <1>2

\* A finite non-empty set of naturals has a largest element: one removes an
\* element of a smallest counterexample.
LEMMA LargestOf ==
  ASSUME NEW S \in SUBSET Nat, IsFiniteSet(S), S # {}
  PROVE  \E m \in S : \A x \in S : x <= m
<1> DEFINE Topped(T) == \E m \in T : \A x \in T : x <= m
           Bad == {n \in Nat : \E T \in SUBSET Nat :
                      IsFiniteSet(T) /\ T # {} /\ Cardinality(T) = n /\ ~Topped(T)}
<1>1. SUFFICES Bad = {}
  <2>1. Cardinality(S) \in Nat
    BY FS_CardinalityType
  <2> QED BY <2>1
<1>2. SUFFICES ASSUME Bad # {} PROVE FALSE
  OBVIOUS
<1>3. PICK n \in Bad : \A k \in Bad : n <= k
  <2>1. Bad \in SUBSET Nat
    OBVIOUS
  <2> QED BY <1>2, <2>1, LeastOf
<1>4. PICK T \in SUBSET Nat : IsFiniteSet(T) /\ T # {} /\ Cardinality(T) = n /\ ~Topped(T)
  OBVIOUS
<1>5. PICK x \in T : TRUE
  BY <1>4
<1> DEFINE U == T \ {x}
<1>6. U \in SUBSET Nat /\ IsFiniteSet(U) /\ Cardinality(U) = n - 1
  BY <1>4, <1>5, FS_RemoveElement
<1>7. n - 1 \in Nat
  BY <1>6, FS_CardinalityType
<1>8. n - 1 \notin Bad
  BY <1>3, <1>7
<1>9. U = {} \/ Topped(U)
  BY <1>6, <1>7, <1>8
<1>10. U # {}
  <2>1. SUFFICES ASSUME U = {} PROVE Topped(T)
    BY <1>4
  <2>2. T = {x} /\ x \in Nat
    BY <2>1, <1>5
  <2> QED BY <2>2
<1>11. PICK m \in U : \A y \in U : y <= m
  BY <1>9, <1>10
<1>12. Topped(T)
  <2>1. m \in Nat /\ x \in Nat /\ m \in T
    BY <1>5, <1>11
  <2>2. CASE x <= m
    BY <2>1, <2>2, <1>11
  <2>3. CASE ~(x <= m)
    <3>1. \A y \in T : y <= x
      BY <2>1, <2>3, <1>11
    <3> QED BY <3>1, <1>5
  <2> QED BY <2>2, <2>3
<1> QED BY <1>4, <1>12

\* sorted(times)[n]: one time of the set is preceded by exactly n others.
LEMMA InOrderIsThere ==
  ASSUME NEW S \in SUBSET Nat, IsFiniteSet(S), NEW n \in Nat, n < Cardinality(S)
  PROVE  InOrder(S, n) \in S /\ Cardinality({u \in S : u < InOrder(S, n)}) = n
<1> DEFINE Below(t) == {u \in S : u < t}
           High == {t \in S : n <= Cardinality(Below(t))}
<1>1. \A t \in S : IsFiniteSet(Below(t)) /\ Cardinality(Below(t)) \in Nat
  <2> SUFFICES ASSUME NEW t \in S PROVE IsFiniteSet(Below(t)) /\ Cardinality(Below(t)) \in Nat
    OBVIOUS
  <2>1. Below(t) \in SUBSET S
    OBVIOUS
  <2>2. IsFiniteSet(Below(t))
    BY <2>1, FS_Subset
  <2> QED BY <2>2, FS_CardinalityType
<1>2. Cardinality(S) \in Nat /\ S # {}
  BY FS_CardinalityType, FS_EmptySet
<1>3. PICK top \in S : \A x \in S : x <= top
  BY <1>2, LargestOf
<1>4. top \in High
  <2>1. Below(top) = S \ {top}
    <3>1. top \in Nat /\ \A x \in S : x \in Nat /\ x <= top
      BY <1>3
    <3>2. \A x \in S : x < top <=> x # top
      BY <3>1
    <3> QED BY <3>2
  <2>2. Cardinality(S \ {top}) = Cardinality(S) - 1
    BY FS_RemoveElement
  <2>3. n <= Cardinality(Below(top))
    BY <2>1, <2>2, <1>2
  <2> QED BY <2>3
<1>5. PICK t \in High : \A h \in High : t <= h
  <2>1. High \in SUBSET Nat /\ High # {}
    BY <1>4
  <2> HIDE DEF High
  <2> QED BY <2>1, LeastOf
<1>6. Cardinality(Below(t)) = n
  <2>1. SUFFICES ASSUME Cardinality(Below(t)) # n PROVE FALSE
    OBVIOUS
  <2>2. Cardinality(Below(t)) \in Nat /\ Cardinality(Below(t)) > n
    BY <2>1, <1>1
  <2>3. Below(t) # {}
    BY <2>2, FS_EmptySet
  <2>4. Below(t) \in SUBSET Nat /\ IsFiniteSet(Below(t))
    BY <1>1
  <2>5. PICK p \in Below(t) : \A x \in Below(t) : x <= p
    <3> HIDE DEF Below
    <3> QED BY <2>3, <2>4, LargestOf
  <2>6. Below(p) = Below(t) \ {p}
    <3>1. p \in Nat /\ t \in Nat /\ p < t
      OBVIOUS
    <3>2. ASSUME NEW x \in S PROVE x < p <=> x < t /\ x # p
      <4>1. x \in Nat /\ (x < t => x <= p)
        BY <2>5
      <4> QED BY <3>1, <4>1
    <3> QED BY <3>2
  <2>7. Cardinality(Below(p)) = Cardinality(Below(t)) - 1
    <3>1. Cardinality(Below(t) \ {p}) = Cardinality(Below(t)) - 1
      <4> HIDE DEF Below
      <4> QED BY <2>4, FS_RemoveElement
    <3> QED BY <2>6, <3>1
  <2>8. p \in High
    <3>1. p \in S /\ n <= Cardinality(Below(p))
      BY <2>2, <2>7
    <3> QED BY <3>1
  <2> QED BY <2>8, <1>5
<1>7. \E s \in S : Cardinality({u \in S : u < s}) = n
  BY <1>6
<1> QED BY <1>7 DEF InOrder

\* Max of the folds, for a finite set of places.
LEMMA MaxIsLargest ==
  ASSUME NEW t \in SUBSET Nat, IsFiniteSet(t), t # {}
  PROVE  Max(t) \in t /\ \A x \in t : x <= Max(t)
<1>1. PICK m \in t : \A x \in t : x <= m
  BY LargestOf
<1>2. \A x \in t : m >= x
  BY <1>1
<1>3. Max(t) \in t /\ \A y \in t : Max(t) >= y
  BY <1>2 DEF Max
<1> QED BY <1>3

\* int(n * 0.6) and int(n * 0.8) leave later times.
LEMMA SixTenths ==
  ASSUME NEW m \in Nat, m >= 5
  PROVE  (m * 6) \div 10 \in Nat /\ (m * 6) \div 10 < m
OBVIOUS

\* Eight tenths of five or more, rounded down, are fewer than all.
LEMMA EightTenths ==
  ASSUME NEW m \in Nat, m >= 5
  PROVE  (m * 8) \div 10 \in Nat /\ (m * 8) \div 10 < m
OBVIOUS

\* The two boundaries of split_records are times of the records.
LEMMA BoundaryIsThere ==
  ASSUME NEW S \in SUBSET Nat, IsFiniteSet(S), Cardinality(S) >= 5,
         NEW floor \in 0..3, NEW tenths \in {6, 8}
  PROVE  Boundary(S, floor, tenths) \in S
<1>1. Cardinality(S) \in Nat
  BY FS_CardinalityType
<1> DEFINE c == Cardinality(S)
           d == (c * tenths) \div 10
<1>2. d \in Nat /\ d < c
  <2>1. CASE tenths = 6
    <3>1. d = (c * 6) \div 10
      BY <2>1
    <3> HIDE DEF c, d
    <3> QED BY <1>1, <3>1, SixTenths DEF c
  <2>2. CASE tenths = 8
    <3>1. d = (c * 8) \div 10
      BY <2>2
    <3> HIDE DEF c, d
    <3> QED BY <1>1, <3>1, EightTenths DEF c
  <2> QED BY <2>1, <2>2
<1> DEFINE n == AtLeast(floor, d)
<1>3. n \in Nat /\ n < c
  <2> HIDE DEF d
  <2> QED BY <1>1, <1>2 DEF AtLeast
<1>4. Boundary(S, floor, tenths) = InOrder(S, n)
  BY DEF Boundary
<1> HIDE DEF n
<1> QED BY <1>3, <1>4, InOrderIsThere

(***************************************************************************)
(* select_latest_eligible_per_race is a loop over the records of a race.   *)
(* Held says what it holds after any of them; that one more record follows *)
(* Later (HeldStep) makes Held the function the fold is defined by.        *)
(***************************************************************************)
\* A history record, as settle_snapshot or an import wrote it.
Record ==
    [captured : Nat, scheduled : Nat, result : Nat, outcome : Outcomes,
     engine : {BASELINE, OtherEngine}, prospective : BOOLEAN]

\* What the loop of select_latest_eligible_per_race holds after the records
\* at the places t of the history s: the first of the latest eligible ones.
Eligible(s, t) == {i \in t : supervised_eligibility(s[i])}

IsFirst(s, t, i) ==
    /\ i \in Eligible(s, t)
    /\ \A j \in Eligible(s, t) :
          /\ s[j].captured <= s[i].captured
          /\ s[j].captured = s[i].captured => i <= j

Held(s, t) ==
    IF Eligible(s, t) = {} THEN <<>> ELSE <<s[CHOOSE i \in t : IsFirst(s, t, i)]>>

LoopFunction(s, f) ==
    f = [t \in SUBSET (DOMAIN s) |->
            IF t = {} THEN <<>> ELSE Later(f[t \ {Max(t)}], s[Max(t)])]

\* FoldLeft is the value of that function at all places.
LEMMA FoldIsLoop ==
  ASSUME NEW s
  PROVE  FoldLeft(Later, <<>>, s) = (CHOOSE f : LoopFunction(s, f))[DOMAIN s]
BY DEF FoldLeft, MapThenFoldSet, LoopFunction

\* Where something is eligible there is a first of the latest.
LEMMA FirstExists ==
  ASSUME NEW s \in Seq(Record), NEW t \in SUBSET (DOMAIN s), Eligible(s, t) # {}
  PROVE  \E i \in t : IsFirst(s, t, i)
<1>1. DOMAIN s = 1..Len(s) /\ Len(s) \in Nat
  BY LenProperties
<1>2. IsFiniteSet(DOMAIN s)
  BY <1>1, FS_Interval
<1> DEFINE E == Eligible(s, t)
           C == {s[i].captured : i \in E}
<1>3. IsFiniteSet(E) /\ E \in SUBSET (DOMAIN s)
  <2>1. E \in SUBSET (DOMAIN s)
    BY DEF Eligible
  <2> QED BY <2>1, <1>2, FS_Subset
<1>4. \A i \in DOMAIN s : s[i].captured \in Nat
  <2>1. \A i \in DOMAIN s : s[i] \in Record
    BY ElementOfSeq, <1>1
  <2> QED BY <2>1 DEF Record
<1>5. C \in SUBSET Nat /\ C # {}
  BY <1>3, <1>4
<1>6. IsFiniteSet(C)
  <2> DEFINE f == [i \in E |-> s[i].captured]
  <2>1. f \in Surjection(E, C)
    BY DEF Surjection
  <2> HIDE DEF E, C, f
  <2> QED BY <1>3, <2>1, FS_Surjection
<1>7. PICK top \in C : \A c \in C : c <= top
  <2> HIDE DEF C
  <2> QED BY <1>5, <1>6, LargestOf
<1> DEFINE L == {i \in E : s[i].captured = top}
<1>8. L \in SUBSET Nat /\ L # {}
  BY <1>1, <1>3
<1>9. PICK i \in L : \A j \in L : i <= j
  <2> HIDE DEF L
  <2> QED BY <1>8, LeastOf
<1>10. IsFirst(s, t, i)
  <2>1. i \in E /\ s[i].captured = top
    OBVIOUS
  <2>2. ASSUME NEW j \in E
        PROVE  s[j].captured <= s[i].captured /\ (s[j].captured = s[i].captured => i <= j)
    BY <2>1, <1>7, <1>9
  <2> QED BY <2>1, <2>2 DEF IsFirst
<1>11. i \in t
  BY DEF Eligible
<1> QED BY <1>10, <1>11

\* There is only one, and it is what is held.
LEMMA FirstIsOne ==
  ASSUME NEW s \in Seq(Record), NEW t \in SUBSET (DOMAIN s), NEW i \in t, IsFirst(s, t, i)
  PROVE  Held(s, t) = <<s[i]>>
<1>1. DOMAIN s \subseteq Nat
  BY LenProperties
<1>2. ASSUME NEW j \in t, IsFirst(s, t, j) PROVE j = i
  <2>1. i \in Nat /\ j \in Nat /\ i \in Eligible(s, t) /\ j \in Eligible(s, t)
    BY <1>1, <1>2 DEF IsFirst
  <2>2. s[j].captured <= s[i].captured /\ s[i].captured <= s[j].captured
    BY <2>1, <1>2 DEF IsFirst
  <2>3. s[i] \in Record /\ s[j] \in Record
    BY ElementOfSeq, LenProperties
  <2>4. s[i].captured = s[j].captured
    BY <2>2, <2>3 DEF Record
  <2>5. i <= j /\ j <= i
    BY <2>1, <2>4, <1>2 DEF IsFirst
  <2> QED BY <2>1, <2>5
<1>3. (CHOOSE k \in t : IsFirst(s, t, k)) = i
  BY <1>2
<1>4. Eligible(s, t) # {}
  BY DEF IsFirst
<1> QED BY <1>3, <1>4 DEF Held

\* One more record: what is held follows Later.
LEMMA HeldStep ==
  ASSUME NEW s \in Seq(Record), NEW t \in SUBSET (DOMAIN s), t # {}
  PROVE  Held(s, t) = Later(Held(s, t \ {Max(t)}), s[Max(t)])
<1> DEFINE m == Max(t)
           u == t \ {m}
<1>1. DOMAIN s = 1..Len(s) /\ Len(s) \in Nat /\ t \in SUBSET Nat
  BY LenProperties
<1>2. IsFiniteSet(t)
  <2>1. IsFiniteSet(DOMAIN s)
    BY <1>1, FS_Interval
  <2> QED BY <2>1, FS_Subset
<1>3. m \in t /\ \A x \in t : x <= m
  BY <1>1, <1>2, MaxIsLargest
<1> HIDE DEF m
<1>4. u \in SUBSET (DOMAIN s) /\ u \subseteq t /\ m \in Nat
  BY <1>1, <1>3
<1>5. \A i \in DOMAIN s : s[i] \in Record /\ s[i].captured \in Nat
  <2>1. \A i \in DOMAIN s : s[i] \in Record
    BY ElementOfSeq, <1>1
  <2> QED BY <2>1 DEF Record
<1>6. CASE ~supervised_eligibility(s[m])
  <2>1. Eligible(s, t) = Eligible(s, u)
    BY <1>6, <1>3 DEF Eligible
  <2>2. Later(Held(s, u), s[m]) = Held(s, u)
    BY <1>6 DEF Later
  <2>3. CASE Eligible(s, u) = {}
    BY <2>1, <2>2, <2>3 DEF Held, m
  <2>4. CASE Eligible(s, u) # {}
    <3>1. PICK i \in u : IsFirst(s, u, i)
      BY <2>4, <1>4, FirstExists
    <3>2. IsFirst(s, t, i) /\ i \in t
      BY <3>1, <2>1 DEF IsFirst
    <3>3. Held(s, u) = <<s[i]>> /\ Held(s, t) = <<s[i]>>
      BY <3>1, <3>2, <1>4, FirstIsOne
    <3> QED BY <3>3, <2>2 DEF m
  <2> QED BY <2>3, <2>4
<1>7. CASE supervised_eligibility(s[m]) /\ Eligible(s, u) = {}
  <2>1. Eligible(s, t) = {m}
    BY <1>7, <1>3 DEF Eligible
  <2>2. IsFirst(s, t, m)
    BY <2>1, <1>3, <1>4, <1>5 DEF IsFirst
  <2>3. Held(s, t) = <<s[m]>>
    BY <2>2, <1>3, FirstIsOne
  <2>4. Held(s, u) = <<>>
    BY <1>7 DEF Held
  <2>5. Later(<<>>, s[m]) = <<s[m]>>
    BY <1>7 DEF Later
  <2> QED BY <2>3, <2>4, <2>5 DEF m
<1>8. CASE supervised_eligibility(s[m]) /\ Eligible(s, u) # {}
  <2>1. Eligible(s, t) = Eligible(s, u) \cup {m}
    BY <1>8, <1>3 DEF Eligible
  <2>2. PICK i \in u : IsFirst(s, u, i)
    BY <1>8, <1>4, FirstExists
  <2>3. Held(s, u) = <<s[i]>>
    BY <2>2, <1>4, FirstIsOne
  <2>4. <<s[i]>> # <<>> /\ <<s[i]>>[1] = s[i]
    OBVIOUS
  <2>5. i \in t /\ i \in Nat /\ i <= m /\ i # m /\ i \in Eligible(s, u)
    BY <2>2, <1>1, <1>3 DEF IsFirst
  <2>6. /\ s[i].captured \in Nat /\ s[m].captured \in Nat
        /\ \A j \in Eligible(s, u) : j \in Nat /\ s[j].captured \in Nat /\ j <= m
    BY <1>1, <1>3, <1>5, <2>5 DEF Eligible
  <2>7. CASE s[m].captured > s[i].captured
    <3>1. IsFirst(s, t, m)
      <4>1. ASSUME NEW j \in Eligible(s, t)
            PROVE  s[j].captured <= s[m].captured /\ (s[j].captured = s[m].captured => m <= j)
        <5>1. CASE j = m
          BY <5>1, <2>6, <1>4
        <5>2. CASE j \in Eligible(s, u)
          <6>1. s[j].captured <= s[i].captured /\ s[j].captured \in Nat
            BY <5>2, <2>2, <2>6 DEF IsFirst
          <6> QED BY <6>1, <2>6, <2>7
        <5> QED BY <5>1, <5>2, <2>1
      <4> QED BY <4>1, <2>1 DEF IsFirst
    <3>2. Held(s, t) = <<s[m]>>
      BY <3>1, <1>3, FirstIsOne
    <3> QED BY <3>2, <2>3, <2>4, <2>7, <1>8 DEF Later, m
  <2>8. CASE ~(s[m].captured > s[i].captured)
    <3>1. IsFirst(s, t, i)
      <4>1. ASSUME NEW j \in Eligible(s, t)
            PROVE  s[j].captured <= s[i].captured /\ (s[j].captured = s[i].captured => i <= j)
        <5>1. CASE j = m
          BY <5>1, <2>5, <2>6, <2>8
        <5>2. CASE j \in Eligible(s, u)
          BY <5>2, <2>2 DEF IsFirst
        <5> QED BY <5>1, <5>2, <2>1
      <4> QED BY <4>1, <2>1, <2>5 DEF IsFirst
    <3>2. Held(s, t) = <<s[i]>>
      BY <3>1, <2>5, FirstIsOne
    <3> QED BY <3>2, <2>3, <2>4, <2>8 DEF Later, m
  <2> QED BY <2>7, <2>8
<1> QED BY <1>6, <1>7, <1>8

\* The loop, to its end.
LEMMA LoopHolds ==
  ASSUME NEW s \in Seq(Record)
  PROVE  FoldLeft(Later, <<>>, s) = Held(s, DOMAIN s)
<1> DEFINE held == [t \in SUBSET (DOMAIN s) |-> Held(s, t)]
<1>1. DOMAIN s = 1..Len(s) /\ Len(s) \in Nat
  BY LenProperties
<1>2. IsFiniteSet(DOMAIN s)
  BY <1>1, FS_Interval
<1>3. Held(s, {}) = <<>>
  BY DEF Held, Eligible
<1>4. LoopFunction(s, held)
  <2>1. ASSUME NEW t \in SUBSET (DOMAIN s)
        PROVE  held[t] = IF t = {} THEN <<>> ELSE Later(held[t \ {Max(t)}], s[Max(t)])
    <3>1. CASE t = {}
      BY <3>1, <1>3
    <3>2. CASE t # {}
      <4>1. t \ {Max(t)} \in SUBSET (DOMAIN s)
        OBVIOUS
      <4>2. held[t] = Held(s, t) /\ held[t \ {Max(t)}] = Held(s, t \ {Max(t)})
        BY <4>1
      <4> HIDE DEF held
      <4> QED BY <3>2, <4>2, HeldStep
    <3> QED BY <3>1, <3>2
  <2>2. held = [t \in SUBSET (DOMAIN s) |-> held[t]]
    OBVIOUS
  <2> HIDE DEF held
  <2> QED BY <2>1, <2>2 DEF LoopFunction
<1> HIDE DEF held
<1> DEFINE f == CHOOSE g : LoopFunction(s, g)
<1>5. LoopFunction(s, f)
  BY <1>4
<1> HIDE DEF f
<1> DEFINE Bad == {c \in Nat : \E t \in SUBSET (DOMAIN s) : Cardinality(t) = c /\ f[t] # Held(s, t)}
<1>6. Bad = {}
  <2>1. SUFFICES ASSUME Bad # {} PROVE FALSE
    OBVIOUS
  <2>2. PICK c \in Bad : \A k \in Bad : c <= k
    <3>1. Bad \in SUBSET Nat
      OBVIOUS
    <3> QED BY <2>1, <3>1, LeastOf
  <2>3. PICK t \in SUBSET (DOMAIN s) : Cardinality(t) = c /\ f[t] # Held(s, t)
    OBVIOUS
  <2>4. f[t] = IF t = {} THEN <<>> ELSE Later(f[t \ {Max(t)}], s[Max(t)])
    BY <1>5 DEF LoopFunction
  <2>5. t # {}
    BY <2>3, <2>4, <1>3
  <2>6. IsFiniteSet(t)
    BY <1>2, FS_Subset
  <2>7. Max(t) \in t
    BY <2>5, <2>6, <1>1, MaxIsLargest
  <2> DEFINE u == t \ {Max(t)}
  <2>8. u \in SUBSET (DOMAIN s) /\ Cardinality(u) = c - 1 /\ Cardinality(u) \in Nat
    <3>1. IsFiniteSet(u) /\ Cardinality(u) = Cardinality(t) - 1
      BY <2>6, <2>7, FS_RemoveElement
    <3> QED BY <3>1, <2>3, FS_CardinalityType
  <2>9. f[u] = Held(s, u)
    <3>1. ~(c <= Cardinality(u))
      BY <2>8
    <3>2. Cardinality(u) \notin Bad
      BY <3>1, <2>2
    <3> HIDE DEF u
    <3> QED BY <3>2, <2>8
  <2> QED BY <2>3, <2>4, <2>5, <2>9, HeldStep
<1>7. f[DOMAIN s] = Held(s, DOMAIN s)
  <2>1. Cardinality(DOMAIN s) \in Nat
    BY <1>2, FS_CardinalityType
  <2> QED BY <2>1, <1>6
<1> QED BY <1>7, FoldIsLoop DEF f

(***************************************************************************)
(* The records of a collection, for any races, times and outcomes, however *)
(* often a race is captured, settled, imported and settled again.          *)
(***************************************************************************)
\* The types of what is collected.
RecordsInv ==
    /\ clock \in Nat
    /\ snapshots \subseteq [race : Races, captured : Nat]
    /\ records \in [Races -> Seq(Record)]

\* Inserting a record keeps the others.
LEMMA InsertKeeps ==
  ASSUME NEW R, NEW s \in Seq(R), NEW i \in 1..(Len(s) + 1), NEW e \in R
  PROVE  /\ InsertAt(s, i, e) \in Seq(R)
         /\ ToSet(s) \subseteq ToSet(InsertAt(s, i, e))
<1> DEFINE a == SubSeq(s, 1, i - 1)
           b == SubSeq(s, i, Len(s))
           n == Len(s)
<1>1. n \in Nat /\ i \in Int /\ i - 1 \in Int /\ 1 <= i /\ i <= n + 1 /\ DOMAIN s = 1..n
  BY LenProperties
<1>2. \A j \in 1..n : s[j] \in R
  BY ElementOfSeq
<1> HIDE DEF n
<1>3. a \in Seq(R) /\ Len(a) = i - 1 /\ \A j \in 1..(i - 1) : a[j] = s[j]
  <2>1. \A j \in 1..(i - 1) : s[j] \in R
    BY <1>1, <1>2
  <2>2. /\ a \in Seq(R)
        /\ Len(a) = IF 1 <= i - 1 THEN (i - 1) - 1 + 1 ELSE 0
        /\ \A j \in 1..((i - 1) - 1 + 1) : a[j] = s[1 + j - 1]
    BY <2>1, <1>1, SubSeqProperties
  <2>3. \A j \in 1..(i - 1) : 1 + j - 1 = j
    BY <1>1
  <2>4. (i - 1) - 1 + 1 = i - 1
    BY <1>1
  <2> HIDE DEF a
  <2> QED BY <2>2, <2>3, <2>4, <1>1
<1>4. b \in Seq(R) /\ Len(b) = n - i + 1 /\ \A j \in 1..(n - i + 1) : b[j] = s[i + j - 1]
  <2>1. \A j \in i..n : s[j] \in R
    BY <1>1, <1>2
  <2>2. /\ b \in Seq(R)
        /\ Len(b) = IF i <= n THEN n - i + 1 ELSE 0
        /\ \A j \in 1..(n - i + 1) : b[j] = s[i + j - 1]
    BY <2>1, <1>1, SubSeqProperties DEF n
  <2> HIDE DEF b
  <2> QED BY <2>2, <1>1
<1>5. <<e>> \in Seq(R) /\ Len(<<e>>) = 1
  OBVIOUS
<1> HIDE DEF a, b
<1> DEFINE c == a \o <<e>>
<1>6. /\ c \in Seq(R) /\ Len(c) = i
      /\ \A j \in 1..(i - 1) : c[j] = s[j]
  <2>1. /\ c \in Seq(R) /\ Len(c) = Len(a) + Len(<<e>>)
        /\ \A j \in 1..(Len(a) + Len(<<e>>)) : c[j] = IF j <= Len(a) THEN a[j] ELSE <<e>>[j - Len(a)]
    BY <1>3, <1>5, ConcatProperties
  <2> HIDE DEF c
  <2> QED BY <2>1, <1>1, <1>3, <1>5
<1> HIDE DEF c
<1> DEFINE d == c \o b
<1>7. /\ d \in Seq(R) /\ Len(d) = n + 1
      /\ \A j \in 1..(n + 1) : d[j] = IF j <= i THEN c[j] ELSE b[j - i]
  <2>1. /\ d \in Seq(R) /\ Len(d) = Len(c) + Len(b)
        /\ \A j \in 1..(Len(c) + Len(b)) : d[j] = IF j <= Len(c) THEN c[j] ELSE b[j - Len(c)]
    BY <1>4, <1>6, ConcatProperties
  <2> HIDE DEF d
  <2> QED BY <2>1, <1>1, <1>4, <1>6
<1>8. InsertAt(s, i, e) = d
  BY DEF InsertAt, a, b, c
<1> HIDE DEF d
<1>9. DOMAIN d = 1..(n + 1)
  BY <1>7, LenProperties
<1>10. ASSUME NEW j \in 1..n PROVE \E k \in DOMAIN d : d[k] = s[j]
  <2>1. CASE j < i
    <3>1. j \in 1..(n + 1) /\ j <= i /\ j \in 1..(i - 1)
      BY <2>1, <1>1
    <3> QED BY <3>1, <1>6, <1>7, <1>9
  <2>2. CASE i <= j
    <3>1. j + 1 \in 1..(n + 1) /\ ~(j + 1 <= i) /\ j + 1 - i \in 1..(n - i + 1) /\ i + (j + 1 - i) - 1 = j
      BY <2>2, <1>1
    <3>2. d[j + 1] = b[j + 1 - i] /\ b[j + 1 - i] = s[i + (j + 1 - i) - 1]
      BY <3>1, <1>4, <1>7
    <3> QED BY <3>1, <3>2, <1>9
  <2> QED BY <2>1, <2>2, <1>1
<1>11. ToSet(s) \subseteq ToSet(d)
  BY <1>1, <1>10 DEF ToSet
<1> QED BY <1>7, <1>8, <1>11

\* The official outcome is one of the outcomes.
LEMMA OfficialIsOutcome == Official \in Outcomes
BY EvaluationAssumption DEF Official

\* A settlement and an import write well-formed records.
LEMMA SettleRecord ==
  ASSUME RecordsInv, NEW s \in snapshots, NEW o \in Outcomes
  PROVE  s.race \in Races /\ build_history_record(s.race, s.captured, o) \in Record
BY EvaluationAssumption DEF RecordsInv, build_history_record, Record

\* Every record an import can bring is a record of a race that exists.
LEMMA ImportRecord ==
  ASSUME RecordsInv, NEW r \in Contested, NEW o \in Outcomes, NEW rec \in Imported(r, o)
  PROVE  r \in Races /\ rec \in Record
<1>1. r \in Races /\ CaptureTimes[r] \subseteq Nat /\ ScheduledStart[r] \in Nat /\ Unscheduled \in Nat /\ clock \in Nat
  BY EvaluationAssumption DEF RecordsInv, Unscheduled
<1>2. CASE rec \in {[captured |-> c, scheduled |-> Unscheduled, result |-> clock, outcome |-> o,
                     engine |-> BASELINE, prospective |-> TRUE] : c \in CaptureTimes[r]}
  <2>1. PICK c \in CaptureTimes[r] :
            rec = [captured |-> c, scheduled |-> Unscheduled, result |-> clock, outcome |-> o,
                   engine |-> BASELINE, prospective |-> TRUE]
    BY <1>2
  <2> QED BY <1>1, <2>1 DEF Record
<1>3. CASE rec \in {[captured |-> c, scheduled |-> ScheduledStart[r], result |-> clock, outcome |-> o,
                     engine |-> OtherEngine, prospective |-> TRUE] : c \in CaptureTimes[r]}
  <2>1. PICK c \in CaptureTimes[r] :
            rec = [captured |-> c, scheduled |-> ScheduledStart[r], result |-> clock, outcome |-> o,
                   engine |-> OtherEngine, prospective |-> TRUE]
    BY <1>3
  <2> QED BY <1>1, <2>1 DEF Record
<1>4. CASE rec \in {[captured |-> c, scheduled |-> ScheduledStart[r], result |-> clock, outcome |-> o,
                     engine |-> BASELINE, prospective |-> FALSE] : c \in CaptureTimes[r]}
  <2>1. PICK c \in CaptureTimes[r] :
            rec = [captured |-> c, scheduled |-> ScheduledStart[r], result |-> clock, outcome |-> o,
                   engine |-> BASELINE, prospective |-> FALSE]
    BY <1>4
  <2> QED BY <1>1, <2>1 DEF Record
<1> QED BY <1>1, <1>2, <1>3, <1>4 DEF Imported

\* Records are only written by a settlement or an import; one that adds a
\* record keeps those that are there.
LEMMA WritesKeep ==
  ASSUME RecordsInv, [Next]_vars
  PROVE  /\ records' \in [Races -> Seq(Record)]
         /\ \A r \in Races :
               Len(records'[r]) > Len(records[r]) => ToSet(records[r]) \subseteq ToSet(records'[r])
<1>0. records \in [Races -> Seq(Record)] /\ \A r \in Races : Len(records[r]) \in Nat
  BY LenProperties DEF RecordsInv
<1>1. ASSUME NEW s \in snapshots, NEW o \in Outcomes, Settle(s, o)
      PROVE  /\ records' \in [Races -> Seq(Record)]
             /\ \A r \in Races :
                   Len(records'[r]) > Len(records[r]) => ToSet(records[r]) \subseteq ToSet(records'[r])
  <2> DEFINE q == s.race
             rec == build_history_record(s.race, s.captured, o)
  <2>1. q \in Races /\ rec \in Record
    BY SettleRecord
  <2>2. PICK placed \in Placed(q, rec) : records' = [records EXCEPT ![q] = placed]
    BY <1>1 DEF Settle
  <2> HIDE DEF q, rec
  <2>3. placed \in Seq(Record) /\ (Len(placed) > Len(records[q]) => ToSet(records[q]) \subseteq ToSet(placed))
    <3>1. CASE placed \in {InsertAt(records[q], i, rec) : i \in 1..(Len(records[q]) + 1)}
      BY <3>1, <1>0, <2>1, InsertKeeps
    <3>2. CASE placed \in {ReplaceAt(records[q], i, rec) : i \in 1..Len(records[q])}
      <4>1. PICK i \in 1..Len(records[q]) : placed = [records[q] EXCEPT ![i] = rec]
        BY <3>2 DEF ReplaceAt
      <4>2. records[q] \in Seq(Record)
        BY <1>0, <2>1
      <4>3. placed \in Seq(Record) /\ Len(placed) = Len(records[q])
        BY <4>1, <4>2, <2>1, ExceptSeq
      <4> QED BY <4>3, <1>0, <2>1
    <3> QED BY <3>1, <3>2 DEF Placed
  <2> QED BY <1>0, <2>1, <2>2, <2>3
<1>2. ASSUME NEW q \in Contested, NEW o \in Outcomes, Import(q, o)
      PROVE  /\ records' \in [Races -> Seq(Record)]
             /\ \A r \in Races :
                   Len(records'[r]) > Len(records[r]) => ToSet(records[r]) \subseteq ToSet(records'[r])
  <2>1. PICK rec \in Imported(q, o), i \in 1..(Len(records[q]) + 1) :
            records' = [records EXCEPT ![q] = InsertAt(records[q], i, rec)]
    BY <1>2 DEF Import
  <2>2. q \in Races /\ rec \in Record
    BY ImportRecord
  <2>3. /\ InsertAt(records[q], i, rec) \in Seq(Record)
        /\ ToSet(records[q]) \subseteq ToSet(InsertAt(records[q], i, rec))
    BY <1>0, <2>2, InsertKeeps
  <2> QED BY <1>0, <2>1, <2>2, <2>3
<1>3. CASE records' = records
  BY <1>0, <1>3
<1>4. CASE UNCHANGED vars
  BY <1>3, <1>4 DEF vars
<1>5. CASE TimePasses
  BY <1>3, <1>5 DEF TimePasses
<1>6. ASSUME NEW r \in Races, Capture(r) PROVE records' = records
  BY <1>6 DEF Capture
<1>7. ASSUME NEW inputs \in {Races, Contested}, Train(inputs) PROVE records' = records
  BY <1>7 DEF Train, collected
<1>8. CASE OpenFile \/ WriteFile \/ Interrupt \/ BeginLoad \/ ReadFile \/ Release
  BY <1>3, <1>8 DEF OpenFile, WriteFile, Interrupt, BeginLoad, ReadFile, Release, collected
<1>9. ASSUME NEW s \in snapshots, NEW o \in IF s.race \in Contested THEN Outcomes ELSE {Official}
      PROVE  o \in Outcomes
  BY OfficialIsOutcome
<1> QED BY <1>1, <1>2, <1>3, <1>4, <1>5, <1>6, <1>7, <1>8, <1>9 DEF Next

\* The collection starts with well-formed records, and keeps them.
LEMMA RecordsStart == Init => RecordsInv
<1> SUFFICES ASSUME Init PROVE RecordsInv
  OBVIOUS
<1>1. clock \in Nat /\ snapshots = {}
  BY EvaluationAssumption DEF Init
<1>2. \A r \in Races : Recorded(r) \in Seq(Record)
  <2> SUFFICES ASSUME NEW r \in Races PROVE Recorded(r) \in Seq(Record)
    OBVIOUS
  <2>1. ScheduledStart[r] \in Nat /\ ScheduledStart[r] - 1 \in Nat
    BY EvaluationAssumption
  <2>2. [captured |-> ScheduledStart[r] - 1, scheduled |-> ScheduledStart[r], result |-> ScheduledStart[r],
         outcome |-> Official, engine |-> BASELINE, prospective |-> TRUE] \in Record
    BY <2>1, OfficialIsOutcome DEF Record
  <2> QED BY <2>2 DEF Recorded
<1>3. <<>> \in Seq(Record)
  OBVIOUS
<1>4. records \in [Races -> Seq(Record)]
  BY <1>2, <1>3 DEF Init
<1> QED BY <1>1, <1>4 DEF RecordsInv

\* An import, the clock and an evaluation keep RecordsInv.
LEMMA RecordsStep == RecordsInv /\ [Next]_vars => RecordsInv'
<1> SUFFICES ASSUME RecordsInv, [Next]_vars PROVE RecordsInv'
  OBVIOUS
<1>1. records' \in [Races -> Seq(Record)]
  BY WritesKeep
<1>2. clock' \in Nat
  <2>1. clock \in Nat
    BY DEF RecordsInv
  <2>2. CASE TimePasses
    BY <2>1, <2>2 DEF TimePasses
  <2>3. CASE clock' = clock
    BY <2>1, <2>3
  <2>4. [Next]_vars /\ ~TimePasses => clock' = clock
    BY DEF Next, vars, Capture, Settle, Import, Train, OpenFile, WriteFile, Interrupt, BeginLoad,
           ReadFile, Release, collected
  <2> QED BY <2>2, <2>3, <2>4
<1>3. snapshots' \subseteq [race : Races, captured : Nat]
  <2>1. clock \in Nat /\ snapshots \subseteq [race : Races, captured : Nat]
    BY DEF RecordsInv
  <2>2. ASSUME NEW r \in Races, Capture(r) PROVE snapshots' \subseteq [race : Races, captured : Nat]
    BY <2>1, <2>2 DEF Capture
  <2>3. [Next]_vars /\ ~(\E r \in Races : Capture(r)) => snapshots' = snapshots
    BY DEF Next, vars, TimePasses, Settle, Import, Train, OpenFile, WriteFile, Interrupt, BeginLoad,
           ReadFile, Release, collected
  <2> QED BY <2>1, <2>2, <2>3
<1> QED BY <1>1, <1>2, <1>3 DEF RecordsInv

\* The records of a race are finitely many.
LEMMA CandidatesFinite ==
  ASSUME RecordsInv, NEW r \in Races
  PROVE  /\ IsFiniteSet(Candidates(r)) /\ Candidates(r) \subseteq Record
         /\ Candidates(r) \subseteq ToSet(records[r])
<1> DEFINE s == records[r]
<1>1. s \in Seq(Record)
  BY DEF RecordsInv
<1> HIDE DEF s
<1>2. DOMAIN s = 1..Len(s) /\ Len(s) \in Nat
  BY <1>1, LenProperties
<1>3. IsFiniteSet(DOMAIN s)
  BY <1>2, FS_Interval
<1>4. s \in Surjection(DOMAIN s, ToSet(s))
  <2>1. s = [i \in DOMAIN s |-> s[i]]
    BY <1>1, LenProperties
  <2> QED BY <2>1 DEF Surjection, ToSet
<1>5. IsFiniteSet(ToSet(s))
  BY <1>3, <1>4, FS_Surjection
<1>6. ToSet(s) \subseteq Record
  BY <1>1, <1>2, ElementOfSeq DEF ToSet
<1>7. Candidates(r) \in SUBSET ToSet(s)
  BY DEF Candidates, s
<1>8. IsFiniteSet(Candidates(r))
  BY <1>5, <1>7, FS_Subset
<1> QED BY <1>6, <1>7, <1>8 DEF s

\* A race whose candidates disagree is not selected.
DisputesExclude ==
    \A r \in Races :
        (\E a, b \in Candidates(r) : a.outcome # b.outcome) => \A i \in prepare_records : i.race # r

\* Two outcomes are not one.
LEMMA DisputeExcludes ==
  ASSUME RecordsInv, NEW r \in Races, NEW a \in Candidates(r), NEW b \in Candidates(r),
         a.outcome # b.outcome
  PROVE  \A i \in prepare_records : i.race # r
<1> DEFINE group == Candidates(r)
           named == {rec.outcome : rec \in group}
           f == [rec \in group |-> rec.outcome]
<1>1. IsFiniteSet(group)
  BY CandidatesFinite
<1>2. f \in Surjection(group, named)
  BY DEF Surjection
<1>3. IsFiniteSet(named)
  <2> HIDE DEF group, named, f
  <2> QED BY <1>1, <1>2, FS_Surjection
<1>4. ~(\E x : named = {x})
  <2>1. a.outcome \in named /\ b.outcome \in named
    OBVIOUS
  <2> QED BY <2>1
<1>5. Cardinality(named) # 1
  BY <1>3, <1>4, FS_Singleton
<1>6. ~Selectable(r)
  BY <1>5 DEF Selectable, ConflictingOutcomes
<1> QED BY <1>6 DEF prepare_records

\* The same, for all races.
LEMMA DisputeHolds == RecordsInv => DisputesExclude
BY DisputeExcludes DEF DisputesExclude

\* What is selected of a race is one of its candidates, and the only one of
\* the latest.
LEMMA SelectedIsLatest ==
  ASSUME RecordsInv, NEW i \in prepare_records
  PROVE  /\ i.race \in Races
         /\ Tied(Candidates(i.race)) = {i.rec}
         /\ i.rec \in Candidates(i.race)
         /\ i.rec \in Record
<1>1. PICK r \in Races : /\ Selectable(r)
                         /\ i = [race |-> r, rec |-> CHOOSE rec \in Tied(Candidates(r)) : TRUE]
  BY DEF prepare_records
<1> DEFINE group == Candidates(r)
           T == Tied(group)
<1>2. IsFiniteSet(group) /\ group \subseteq Record
  BY CandidatesFinite
<1>3. T \in SUBSET group
  BY DEF Tied
<1>4. IsFiniteSet(T) /\ Cardinality(T) = 1
  <2>1. IsFiniteSet(T)
    <3> HIDE DEF T, group
    <3> QED BY <1>2, <1>3, FS_Subset
  <2> QED BY <2>1, <1>1 DEF Selectable, ConflictingLatest
<1>5. PICK x : T = {x}
  <2> HIDE DEF T
  <2> QED BY <1>4, FS_Singleton
<1>6. i.race = r /\ i.rec = CHOOSE rec \in T : TRUE
  BY <1>1
<1> HIDE DEF T
<1>7. i.rec = x
  BY <1>5, <1>6
<1> QED BY <1>2, <1>3, <1>5, <1>6, <1>7 DEF T

\* The two selections agree.
LEMMA SelectionsHold == RecordsInv => SelectionsAgree
<1> SUFFICES ASSUME RecordsInv, NEW i \in prepare_records,
                    \A rec \in ToSet(records[i.race]) : supervised_eligibility(rec) => Candidate(rec)
             PROVE  select_latest_eligible_per_race(i.race) = <<i.rec>>
  BY DEF SelectionsAgree
<1> DEFINE r == i.race
           s == records[r]
           D == DOMAIN s
<1>1. /\ r \in Races /\ Tied(Candidates(r)) = {i.rec}
      /\ i.rec \in Candidates(r) /\ Candidates(r) \subseteq Record
  BY SelectedIsLatest, CandidatesFinite
<1>2. s \in Seq(Record)
  BY <1>1 DEF RecordsInv
<1>3. \A k \in D : s[k] \in ToSet(s) /\ s[k] \in Record
  BY <1>2, LenProperties, ElementOfSeq DEF ToSet
<1>4. Eligible(s, D) # {}
  <2>1. PICK k \in D : s[k] = i.rec
    BY <1>1 DEF Candidates, ToSet
  <2>2. supervised_eligibility(s[k])
    BY <1>1, <2>1 DEF Candidates, Candidate
  <2> QED BY <2>2 DEF Eligible
<1>5. PICK k \in D : IsFirst(s, D, k)
  BY <1>2, <1>4, FirstExists
<1>6. Held(s, D) = <<s[k]>>
  BY <1>2, <1>5, FirstIsOne
<1>7. s[k] \in Candidates(r)
  BY <1>3, <1>5 DEF IsFirst, Eligible, Candidates
<1>8. ASSUME NEW other \in Candidates(r) PROVE other.captured <= s[k].captured
  <2>1. PICK j \in D : s[j] = other
    BY DEF Candidates, ToSet
  <2>2. j \in Eligible(s, D)
    BY <2>1 DEF Candidates, Candidate, Eligible
  <2> QED BY <1>5, <2>1, <2>2 DEF IsFirst
<1>9. s[k] = i.rec
  <2>1. s[k] \in Tied(Candidates(r))
    BY <1>7, <1>8 DEF Tied
  <2> QED BY <1>1, <2>1
<1>10. FoldLeft(Later, <<>>, s) = Held(s, D)
  BY <1>2, LoopHolds
<1> QED BY <1>6, <1>9, <1>10 DEF select_latest_eligible_per_race

\* What is fitted and stopped on was known before.
LEMMA LooksBack == RecordsInv => NoLookAhead
<1> SUFFICES ASSUME RecordsInv PROVE NoLookAhead
  OBVIOUS
<1> DEFINE items == prepare_records
           times == {i.rec.captured : i \in items}
           vs == Boundary(times, 2, 6)
           ts == Boundary(times, 3, 8)
           split == split_records(items)
<1>1. \A i \in items : i.rec.captured \in Nat /\ i.rec.result \in Nat
  <2>1. \A i \in items : i.rec \in Record
    BY SelectedIsLatest
  <2> QED BY <2>1 DEF Record
<1>2. times \in SUBSET Nat
  BY <1>1
<1>3. IsFiniteSet(times)
  <2> DEFINE R == {x \in Races : Selectable(x)}
             select == [r \in R |-> [race |-> r, rec |-> CHOOSE rec \in Tied(Candidates(r)) : TRUE]]
             capture == [i \in items |-> i.rec.captured]
  <2>1. IsFiniteSet(R)
    BY EvaluationAssumption, FS_Subset
  <2>2. items = {[race |-> r, rec |-> CHOOSE rec \in Tied(Candidates(r)) : TRUE] : r \in R}
    BY DEF prepare_records
  <2>3. select \in Surjection(R, items)
    <3> HIDE DEF R, items
    <3> QED BY <2>2 DEF Surjection
  <2>4. IsFiniteSet(items)
    <3> HIDE DEF R, select, items
    <3> QED BY <2>1, <2>3, FS_Surjection
  <2>5. capture \in Surjection(items, times)
    <3> HIDE DEF items
    <3> QED BY DEF Surjection
  <2> HIDE DEF items, capture, times
  <2> QED BY <2>4, <2>5, FS_Surjection
<1>4. CASE ~readiness(split)
  <2>1. evaluate_records = [model |-> TrainOne({}, {}), scored |-> {}]
    BY <1>4 DEF evaluate_records
  <2> QED BY <2>1 DEF NoLookAhead, TrainOne
<1>5. CASE readiness(split)
  <2>1. evaluate_records = [model |-> TrainOne(split.train, split.valid), scored |-> split.test]
    BY <1>5 DEF evaluate_records
  <2>2. Cardinality(times) >= 5
    <3>1. SUFFICES ASSUME Cardinality(times) < 5 PROVE FALSE
      <4>1. Cardinality(times) \in Nat
        <5> HIDE DEF times
        <5> QED BY <1>3, FS_CardinalityType
      <4> QED BY <4>1
    <3>2. split.train = {}
      BY <3>1 DEF split_records
    <3> QED BY <3>2, <1>5, FS_EmptySet DEF readiness
  <2>3. vs \in Nat /\ ts \in Nat
    <3>1. vs \in times /\ ts \in times
      <4> HIDE DEF times
      <4> QED BY <1>2, <1>3, <2>2, BoundaryIsThere
    <3> QED BY <3>1, <1>2
  <2>4. /\ split.train = {i \in items : i.rec.captured < vs /\ i.rec.result < vs}
        /\ split.valid = {i \in items : vs <= i.rec.captured /\ i.rec.captured < ts /\ i.rec.result < ts}
        /\ split.test = {i \in items : i.rec.captured >= ts}
    <3>1. ~(Cardinality(times) < 5)
      <4>1. Cardinality(times) \in Nat
        <5> HIDE DEF times
        <5> QED BY <1>3, FS_CardinalityType
      <4> QED BY <4>1, <2>2
    <3> QED BY <3>1 DEF split_records
  <2> HIDE DEF vs, ts, split, times, items
  <2>5. vs < ts
    <3>1. PICK j \in split.valid : TRUE
      BY <1>5 DEF readiness
    <3>2. j \in items /\ vs <= j.rec.captured /\ j.rec.captured < ts
      BY <2>4
    <3> QED BY <3>2, <1>1, <2>3
  <2>6. ASSUME NEW i \in split.test, NEW seen \in split.train \cup split.valid
        PROVE  seen.rec.result < i.rec.captured
    <3>1. i \in items /\ i.rec.captured >= ts /\ i.rec.captured \in Nat
      BY <2>4, <1>1
    <3>2. seen \in items /\ seen.rec.result \in Nat /\ (seen.rec.result < vs \/ seen.rec.result < ts)
      BY <2>4, <1>1
    <3> QED BY <3>1, <3>2, <2>3, <2>5
  <2>7. ASSUME NEW i \in split.valid, NEW seen \in split.train
        PROVE  seen.rec.result < i.rec.captured
    <3>1. i \in items /\ vs <= i.rec.captured /\ i.rec.captured \in Nat
      BY <2>4, <1>1
    <3>2. seen \in items /\ seen.rec.result \in Nat /\ seen.rec.result < vs
      BY <2>4, <1>1
    <3> QED BY <3>1, <3>2, <2>3
  <2>8. /\ evaluate_records.scored = split.test
        /\ evaluate_records.model.fitted = split.train
        /\ evaluate_records.model.stopped = split.valid
    BY <2>1 DEF TrainOne
  <2> QED BY <2>6, <2>7, <2>8 DEF NoLookAhead
<1> QED BY <1>4, <1>5

\* Whatever is captured, settled and imported, in any order, the
\* history files hold well-formed records.
THEOREM RecordsInvariant == Spec => []RecordsInv
<1>1. Init => RecordsInv
  BY RecordsStart
<1>2. RecordsInv /\ [Next]_vars => RecordsInv'
  BY RecordsStep
<1> QED BY <1>1, <1>2, PTL DEF Spec

\* evaluate_records: no model is fitted or stopped on a result that was
\* not known before what it is scored on, and training and evaluation
\* take the same record of a race.
THEOREM EvaluationsAreHonest == Spec => []EvaluationIsHonest
<1>1. RecordsInv => EvaluationIsHonest
  BY SelectionsHold, LooksBack DEF EvaluationIsHonest
<1> QED BY <1>1, RecordsInvariant, PTL

\* prepare_records: a race with two different results on file is not
\* selected after any further record of it.
THEOREM DisputesAreFinal == Spec => DisputeNotOutvoted
<1>1. RecordsInv => DisputesExclude
  BY DisputeHolds
<1>2. RecordsInv /\ DisputesExclude' /\ [Next]_vars =>
        [\A r \in Races :
           /\ \E a, b \in Candidates(r) : a.outcome # b.outcome
           /\ Len(records'[r]) > Len(records[r])
           => \A i \in prepare_records' : i.race # r]_vars
  <2> SUFFICES ASSUME RecordsInv, DisputesExclude', [Next]_vars, NEW r \in Races,
                      NEW a \in Candidates(r), NEW b \in Candidates(r), a.outcome # b.outcome,
                      Len(records'[r]) > Len(records[r])
               PROVE  \A i \in prepare_records' : i.race # r
    OBVIOUS
  <2>1. ToSet(records[r]) \subseteq ToSet(records'[r])
    BY WritesKeep
  <2>2. a \in Candidates(r)' /\ b \in Candidates(r)'
    BY <2>1 DEF Candidates
  <2> QED BY <2>2 DEF DisputesExclude
<1> QED BY <1>1, <1>2, RecordsInvariant, PTL DEF Spec, DisputeNotOutvoted

(***************************************************************************)
(* The model directory, trained into once, and its readers.  ArtifactInv is *)
(* inductive: the files are written in one order, the metrics last, so that *)
(* a reader who found whole metrics meets nothing but whole files.         *)
(***************************************************************************)
\* The files of one training, in the order they are written.
Place == [first |-> 1, second |-> 2, third |-> 3, schema |-> 4, metrics |-> 5]

LeftFrom ==
    <<WriteOrder, <<"second", "third", "schema", "metrics">>, <<"third", "schema", "metrics">>,
      <<"schema", "metrics">>, <<"metrics">>>>

WholeFile == [gen |-> 1, whole |-> TRUE, blocked |-> FALSE]
PartFile == [gen |-> 1, whole |-> FALSE, blocked |-> FALSE]
WholeBlocked == [gen |-> 1, whole |-> TRUE, blocked |-> TRUE]
PartBlocked == [gen |-> 1, whole |-> FALSE, blocked |-> TRUE]

\* The first training has written the files before the k-th.
FilesTo(k) ==
    \A f \in DirFiles :
        /\ Place[f] < k => dir[f] = WholeFile
        /\ Place[f] = k => dir[f] \in {Missing, PartFile}
        /\ Place[f] > k => dir[f] = Missing

TrainingAt(k) ==
    \/ training = Idle
    \/ k <= 5 /\ training = [left |-> LeftFrom[k], gen |-> 1, blocked |-> FALSE]

WrittenTo(k) == FilesTo(k) /\ TrainingAt(k)

\* The first training had too few races, and leaves blocked metrics only.
OnlyBlocked ==
    /\ \A f \in DirFiles \ {"metrics"} : dir[f] = Missing
    /\ dir["metrics"] \in {Missing, PartBlocked, WholeBlocked}
    /\ training \in {Idle, [left |-> <<"metrics">>, gen |-> 1, blocked |-> TRUE]}

\* A reader past the metrics has a directory that is complete.
ReaderOK ==
    /\ reader.at \in 0..11 /\ reader.got \in Seq(Nat)
    /\ \A i \in 1..Len(reader.got) : reader.got[i] = 1
    /\ reader.at > 2 => dir["metrics"] = WholeFile

ArtifactInv ==
    /\ trainings \in Nat
    /\ dir = [f \in DirFiles |-> dir[f]]
    /\ trainings = 0 =>
          training = Idle /\ reader = NotReading /\ \A f \in DirFiles : dir[f] = Missing
    /\ trainings = 1 => (OnlyBlocked \/ \E k \in 1..6 : WrittenTo(k)) /\ ReaderOK

\* The order of the files, spelled out.
LEMMA WriteOrderIs == WriteOrder = <<"first", "second", "third", "schema", "metrics">>
<1> DEFINE a == <<"first", "second", "third">>
           b == <<"schema", "metrics">>
           t == <<"first", "second", "third", "schema", "metrics">>
<1>0. a \in Seq(DirFiles) /\ b \in Seq(DirFiles) /\ t \in Seq(DirFiles)
  BY DEF DirFiles
<1>1. /\ Len(a) = 3 /\ Len(b) = 2 /\ Len(t) = 5
      /\ t[1] = a[1] /\ t[2] = a[2] /\ t[3] = a[3] /\ t[4] = b[1] /\ t[5] = b[2]
  OBVIOUS
<1> HIDE DEF a, b, t
<1>2. /\ a \o b \in Seq(DirFiles) /\ Len(a \o b) = Len(a) + Len(b)
      /\ \A i \in 1..(Len(a) + Len(b)) : (a \o b)[i] = IF i <= Len(a) THEN a[i] ELSE b[i - Len(a)]
  BY <1>0, ConcatProperties
<1>3. a \o b = t
  BY <1>0, <1>1, <1>2, SeqEqual
<1> QED BY <1>3 DEF WriteOrder, ModelFiles, a, b, t

\* What is left from the k-th file on.
LEMMA LeftIs ==
  ASSUME NEW k \in 1..5
  PROVE  /\ Head(LeftFrom[k]) \in DirFiles /\ Place[Head(LeftFrom[k])] = k
         /\ k < 5 => Tail(LeftFrom[k]) = LeftFrom[k + 1] /\ Tail(LeftFrom[k]) # <<>>
         /\ k = 5 => Tail(LeftFrom[k]) = <<>>
<1>1. CASE k = 1
  BY <1>1, WriteOrderIs DEF LeftFrom, Place, DirFiles
<1>2. CASE k = 2
  BY <1>2 DEF LeftFrom, Place, DirFiles
<1>3. CASE k = 3
  BY <1>3 DEF LeftFrom, Place, DirFiles
<1>4. CASE k = 4
  BY <1>4 DEF LeftFrom, Place, DirFiles
<1>5. CASE k = 5
  BY <1>5 DEF LeftFrom, Place, DirFiles
<1> QED BY <1>1, <1>2, <1>3, <1>4, <1>5

\* Each file has a place of its own.
LEMMA PlacesDiffer ==
  /\ \A f \in DirFiles : Place[f] \in 1..5
  /\ \A f, g \in DirFiles : Place[f] = Place[g] => f = g
  /\ Place["metrics"] = 5 /\ "metrics" \in DirFiles
BY DEF Place, DirFiles

\* The order in which a reader opens the files of a run, twice over.
LEMMA ReadsAre ==
  /\ Reads = <<"schema", "metrics", "first", "second", "third", "schema", "metrics", "first", "second", "third">>
  /\ Len(Reads) = 10
<1> DEFINE a == <<"schema", "metrics">>
           b == <<"first", "second", "third">>
           t == <<"schema", "metrics", "first", "second", "third">>
           d == <<"schema", "metrics", "first", "second", "third",
                  "schema", "metrics", "first", "second", "third">>
<1>0. a \in Seq(DirFiles) /\ b \in Seq(DirFiles) /\ t \in Seq(DirFiles) /\ d \in Seq(DirFiles)
  <2>1. a \in Seq(DirFiles) /\ b \in Seq(DirFiles)
    BY DEF DirFiles
  <2>2. t \in Seq(DirFiles)
    BY DEF DirFiles
  <2>3. d \in Seq(DirFiles)
    BY DEF DirFiles
  <2>. HIDE DEF a, b, t, d
  <2>. QED
    BY <2>1, <2>2, <2>3
<1>1. /\ Len(a) = 2 /\ Len(b) = 3 /\ Len(t) = 5
      /\ t[1] = a[1] /\ t[2] = a[2] /\ t[3] = b[1] /\ t[4] = b[2] /\ t[5] = b[3]
  OBVIOUS
<1>2. /\ Len(d) = 10
      /\ d[1] = t[1] /\ d[2] = t[2] /\ d[3] = t[3] /\ d[4] = t[4] /\ d[5] = t[5]
      /\ d[6] = t[1] /\ d[7] = t[2] /\ d[8] = t[3] /\ d[9] = t[4] /\ d[10] = t[5]
  <2>1. Len(d) = 10
    OBVIOUS
  <2>2. d[1] = t[1] /\ d[2] = t[2] /\ d[3] = t[3]
    OBVIOUS
  <2>3. d[4] = t[4] /\ d[5] = t[5]
    OBVIOUS
  <2>4. d[6] = t[1] /\ d[7] = t[2] /\ d[8] = t[3]
    OBVIOUS
  <2>5. d[9] = t[4] /\ d[10] = t[5]
    OBVIOUS
  <2>. HIDE DEF d, t
  <2>. QED
    BY <2>1, <2>2, <2>3, <2>4, <2>5
<1> HIDE DEF a, b, t, d
<1>3. /\ a \o b \in Seq(DirFiles) /\ Len(a \o b) = Len(a) + Len(b)
      /\ \A i \in 1..(Len(a) + Len(b)) : (a \o b)[i] = IF i <= Len(a) THEN a[i] ELSE b[i - Len(a)]
  BY <1>0, ConcatProperties
<1>4. a \o b = t
  BY <1>0, <1>1, <1>3, SeqEqual
<1>5. /\ t \o t \in Seq(DirFiles) /\ Len(t \o t) = Len(t) + Len(t)
      /\ \A i \in 1..(Len(t) + Len(t)) : (t \o t)[i] = IF i <= Len(t) THEN t[i] ELSE t[i - Len(t)]
  BY <1>0, ConcatProperties
<1>6. t \o t = d
  <2> DEFINE tt == t \o t
  <2>1. /\ tt[1] = d[1] /\ tt[2] = d[2] /\ tt[3] = d[3] /\ tt[4] = d[4] /\ tt[5] = d[5]
        /\ tt[6] = d[6] /\ tt[7] = d[7] /\ tt[8] = d[8] /\ tt[9] = d[9] /\ tt[10] = d[10]
    BY <1>1, <1>2, <1>5
  <2>2. tt \in Seq(DirFiles) /\ Len(tt) = 10
    BY <1>1, <1>5
  <2> HIDE DEF tt
  <2>3. \A i \in 1..10 : tt[i] = d[i]
    BY <2>1
  <2>4. tt = d
    BY <1>0, <1>2, <2>2, <2>3, SeqEqual
  <2> QED BY <2>4 DEF tt
<1>7. Reads = d
  BY <1>4, <1>6 DEF Reads, ReadOrder, ModelFiles, a, b
<1> QED BY <1>2, <1>7 DEF d

\* Nothing has been trained or read yet.
LEMMA ArtifactStart == Init => ArtifactInv
BY DEF Init, ArtifactInv, DirFiles

\* A file of the first training is of generation 1, or is not there.
LEMMA FirstGeneration ==
  ASSUME ArtifactInv, trainings = 1, NEW f \in DirFiles, Acceptable(f, dir[f])
  PROVE  dir[f].gen = 1 /\ (f = "metrics" => dir[f] = WholeFile)
<1>1. dir[f] # Missing
  BY DEF Acceptable, Missing
<1>2. CASE OnlyBlocked
  <2>1. f = "metrics"
    BY <1>1, <1>2 DEF OnlyBlocked
  <2>2. ~("metrics" \in ToSet(ModelFiles))
    BY DEF ToSet, ModelFiles
  <2>3. ~dir[f].blocked
    BY <2>1, <2>2 DEF Acceptable
  <2> QED BY <1>1, <1>2, <2>1, <2>3 DEF OnlyBlocked, WholeFile, PartFile, WholeBlocked, PartBlocked
<1>3. ASSUME NEW k \in 1..6, WrittenTo(k) PROVE dir[f].gen = 1 /\ (f = "metrics" => dir[f] = WholeFile)
  <2>1. dir[f] = WholeFile \/ dir[f] = PartFile
    <3>1. Place[f] < k \/ Place[f] = k \/ Place[f] > k
      BY PlacesDiffer
    <3> QED BY <1>1, <1>3, <3>1 DEF WrittenTo, FilesTo
  <2>2. dir[f].gen = 1
    BY <2>1 DEF WholeFile, PartFile, WholeBlocked, PartBlocked
  <2>3. ASSUME f = "metrics" PROVE dir[f] = WholeFile
    <3>1. ~("metrics" \in ToSet(ModelFiles))
      BY DEF ToSet, ModelFiles
    <3>2. dir[f].whole
      BY <2>3, <3>1 DEF Acceptable
    <3>3. ~PartFile.whole
      BY DEF WholeFile, PartFile, WholeBlocked, PartBlocked
    <3> QED BY <2>1, <3>2, <3>3
  <2> QED BY <2>2, <2>3
<1> QED BY <1>2, <1>3 DEF ArtifactInv

\* Once the metrics are whole, the training is over and everything is.
LEMMA MetricsLast ==
  ASSUME NEW k \in 1..6, WrittenTo(k), dir["metrics"] = WholeFile
  PROVE  k = 6 /\ training = Idle /\ \A f \in DirFiles : dir[f] = WholeFile
<1>1. WholeFile \notin {Missing, PartFile}
  BY DEF WholeFile, PartFile, WholeBlocked, PartBlocked, Missing
<1>2. ~(5 = k) /\ ~(5 > k)
  BY <1>1, PlacesDiffer DEF WrittenTo, FilesTo
<1>3. k = 6
  BY <1>2
<1>4. \A f \in DirFiles : Place[f] < k
  BY <1>3, PlacesDiffer
<1>5. \A f \in DirFiles : dir[f] = WholeFile
  BY <1>4 DEF WrittenTo, FilesTo
<1> QED BY <1>3, <1>5 DEF WrittenTo, TrainingAt

\* The same of the state.
LEMMA CompleteOnce ==
  ASSUME ArtifactInv, trainings = 1, dir["metrics"] = WholeFile
  PROVE  training = Idle /\ \A f \in DirFiles : dir[f] = WholeFile
<1>1. ~OnlyBlocked
  BY DEF OnlyBlocked, WholeFile, PartFile, WholeBlocked, PartBlocked, Missing
<1>2. PICK k \in 1..6 : WrittenTo(k)
  BY <1>1 DEF ArtifactInv
<1> QED BY <1>2, MetricsLast

\* A step that neither writes nor trains changes neither.
LEMMA SameWritten ==
  ASSUME dir' = dir, training' = training
  PROVE  /\ OnlyBlocked' <=> OnlyBlocked
         /\ \A k \in 1..6 : WrittenTo(k)' <=> WrittenTo(k)
BY DEF OnlyBlocked, WrittenTo, FilesTo, TrainingAt

\* Each step keeps the directory and its reader in order.
LEMMA ArtifactStep == ArtifactInv /\ [Next]_vars => ArtifactInv'
<1> SUFFICES ASSUME ArtifactInv, [Next]_vars PROVE ArtifactInv'
  OBVIOUS
<1>0. trainings \in Nat /\ dir = [f \in DirFiles |-> dir[f]]
  BY DEF ArtifactInv
<1>1. CASE UNCHANGED artifact
  BY <1>1 DEF artifact, ArtifactInv, OnlyBlocked, WrittenTo, FilesTo, TrainingAt, ReaderOK
<1>2. ASSUME NEW inputs \in {Races, Contested}, Train(inputs) PROVE ArtifactInv'
  <2>1. trainings' = trainings + 1 /\ dir' = dir /\ reader' = reader
    BY <1>2 DEF Train
  <2>2. CASE trainings = 0
    <3>1. \A f \in DirFiles : dir'[f] = Missing
      BY <2>1, <2>2 DEF ArtifactInv
    <3>2. reader' = NotReading
      BY <2>1, <2>2 DEF ArtifactInv
    <3>3. ReaderOK'
      BY <3>2 DEF ReaderOK, NotReading
    <3>4. \/ training' = [left |-> <<"metrics">>, gen |-> 1, blocked |-> TRUE]
          \/ training' = [left |-> WriteOrder, gen |-> 1, blocked |-> FALSE]
      BY <1>2, <2>1, <2>2 DEF Train
    <3>5. CASE training' = [left |-> <<"metrics">>, gen |-> 1, blocked |-> TRUE]
      <4>1. OnlyBlocked'
        BY <3>1, <3>5 DEF OnlyBlocked, DirFiles
      <4> QED BY <4>1, <3>3, <2>1, <2>2, <1>0 DEF ArtifactInv
    <3>6. CASE training' = [left |-> WriteOrder, gen |-> 1, blocked |-> FALSE]
      <4>1. LeftFrom[1] = WriteOrder
        BY DEF LeftFrom
      <4>2. FilesTo(1)'
        <5>1. \A f \in DirFiles : ~(Place[f] < 1)
          BY PlacesDiffer
        <5> QED BY <3>1, <5>1 DEF FilesTo
      <4>3. TrainingAt(1)'
        BY <3>6, <4>1 DEF TrainingAt
      <4> QED BY <4>2, <4>3, <3>3, <2>1, <2>2, <1>0 DEF ArtifactInv, WrittenTo
    <3> QED BY <3>4, <3>5, <3>6
  <2>3. CASE trainings # 0
    <3>1. trainings' \in Nat /\ trainings' # 0 /\ trainings' # 1
      BY <2>1, <2>3, <1>0
    <3> QED BY <3>1, <2>1, <1>0 DEF ArtifactInv
  <2> QED BY <2>2, <2>3
<1>3. CASE OpenFile
  <2>1. trainings' = trainings /\ training' = training /\ reader' = reader /\ training # Idle
    BY <1>3 DEF OpenFile
  <2>2. dir' = [dir EXCEPT ![Head(training.left)] = Opened]
    BY <1>3 DEF OpenFile
  <2>3. dir' = [f \in DirFiles |-> dir'[f]]
    BY <2>2, <1>0
  <2>4. trainings # 0
    BY <2>1 DEF ArtifactInv
  <2>5. CASE trainings = 1
    <3>1. CASE OnlyBlocked
      <4>1. training = [left |-> <<"metrics">>, gen |-> 1, blocked |-> TRUE]
        BY <2>1, <3>1 DEF OnlyBlocked
      <4>2. Head(training.left) = "metrics" /\ Opened = PartBlocked
        BY <4>1 DEF Opened, WholeFile, PartFile, WholeBlocked, PartBlocked
      <4>3. OnlyBlocked'
        BY <2>1, <2>2, <3>1, <4>2, <1>0, PlacesDiffer DEF OnlyBlocked
      <4>4. ReaderOK'
        <5>1. ~(reader.at > 2)
          <6>1. dir["metrics"] # WholeFile
            BY <3>1 DEF OnlyBlocked, WholeFile, PartFile, WholeBlocked, PartBlocked, Missing
          <6> QED BY <6>1, <2>5 DEF ArtifactInv, ReaderOK
        <5> QED BY <5>1, <2>1, <2>5 DEF ArtifactInv, ReaderOK
      <4> QED BY <4>3, <4>4, <2>1, <2>3, <2>5 DEF ArtifactInv
    <3>2. ASSUME NEW k \in 1..6, WrittenTo(k) PROVE ArtifactInv'
      <4>1. k \in 1..5 /\ training = [left |-> LeftFrom[k], gen |-> 1, blocked |-> FALSE]
        BY <2>1, <3>2 DEF WrittenTo, TrainingAt
      <4> DEFINE h == Head(training.left)
      <4>2. h \in DirFiles /\ Place[h] = k /\ Opened = PartFile
        BY <4>1, LeftIs DEF Opened, WholeFile, PartFile, WholeBlocked, PartBlocked
      <4> HIDE DEF h
      <4>3. \A f \in DirFiles : dir'[f] = IF f = h THEN PartFile ELSE dir[f]
        BY <2>2, <4>2, <1>0 DEF h
      <4>4. WrittenTo(k)'
        <5>1. ASSUME NEW f \in DirFiles
              PROVE  /\ Place[f] < k => dir'[f] = WholeFile
                     /\ Place[f] = k => dir'[f] \in {Missing, PartFile}
                     /\ Place[f] > k => dir'[f] = Missing
          <6>1. CASE f = h
            BY <6>1, <4>1, <4>2, <4>3
          <6>2. CASE f # h
            BY <6>2, <3>2, <4>3 DEF WrittenTo, FilesTo
          <6> QED BY <6>1, <6>2
        <5>2. TrainingAt(k)'
          BY <2>1, <3>2 DEF WrittenTo, TrainingAt
        <5> QED BY <5>1, <5>2 DEF WrittenTo, FilesTo
      <4>5. ReaderOK'
        <5>1. ~(reader.at > 2)
          <6>1. dir["metrics"] # WholeFile
            BY <2>1, <2>5, CompleteOnce
          <6> QED BY <6>1, <2>5 DEF ArtifactInv, ReaderOK
        <5> QED BY <5>1, <2>1, <2>5 DEF ArtifactInv, ReaderOK
      <4> QED BY <4>4, <4>5, <2>1, <2>3, <2>5, <1>0 DEF ArtifactInv
    <3> QED BY <3>1, <3>2, <2>5 DEF ArtifactInv
  <2>6. CASE trainings # 1
    BY <2>1, <2>3, <2>4, <2>6, <1>0 DEF ArtifactInv
  <2> QED BY <2>5, <2>6
<1>4. CASE WriteFile
  <2>1. trainings' = trainings /\ reader' = reader /\ training # Idle
    BY <1>4 DEF WriteFile
  <2>2. /\ dir' = [dir EXCEPT ![Head(training.left)] = Filled]
        /\ training' = IF Tail(training.left) = <<>> THEN Idle
                       ELSE [training EXCEPT !.left = Tail(@)]
    BY <1>4 DEF WriteFile
  <2>3. dir' = [f \in DirFiles |-> dir'[f]]
    BY <2>2, <1>0
  <2>4. trainings # 0
    BY <2>1 DEF ArtifactInv
  <2>5. CASE trainings = 1
    <3>1. CASE OnlyBlocked
      <4>1. training = [left |-> <<"metrics">>, gen |-> 1, blocked |-> TRUE]
        BY <2>1, <3>1 DEF OnlyBlocked
      <4>2. Head(training.left) = "metrics" /\ Tail(training.left) = <<>> /\ Filled = WholeBlocked
        BY <4>1 DEF Filled, WholeFile, PartFile, WholeBlocked, PartBlocked
      <4>3. OnlyBlocked'
        BY <2>1, <2>2, <3>1, <4>2, <1>0, PlacesDiffer DEF OnlyBlocked
      <4>4. ReaderOK'
        <5>1. ~(reader.at > 2)
          <6>1. dir["metrics"] # WholeFile
            BY <3>1 DEF OnlyBlocked, WholeFile, PartFile, WholeBlocked, PartBlocked, Missing
          <6> QED BY <6>1, <2>5 DEF ArtifactInv, ReaderOK
        <5> QED BY <5>1, <2>1, <2>5 DEF ArtifactInv, ReaderOK
      <4> QED BY <4>3, <4>4, <2>1, <2>3, <2>5 DEF ArtifactInv
    <3>2. ASSUME NEW k \in 1..6, WrittenTo(k) PROVE ArtifactInv'
      <4>1. k \in 1..5 /\ training = [left |-> LeftFrom[k], gen |-> 1, blocked |-> FALSE]
        BY <2>1, <3>2 DEF WrittenTo, TrainingAt
      <4> DEFINE h == Head(training.left)
      <4>2. h \in DirFiles /\ Place[h] = k /\ Filled = WholeFile
        BY <4>1, LeftIs DEF Filled, WholeFile, PartFile, WholeBlocked, PartBlocked
      <4>3. \/ training' = Idle
            \/ k + 1 <= 5 /\ training' = [left |-> LeftFrom[k + 1], gen |-> 1, blocked |-> FALSE]
        <5>1. CASE k = 5
          BY <5>1, <2>2, <4>1, LeftIs
        <5>2. CASE k < 5
          <6>1. Tail(training.left) = LeftFrom[k + 1] /\ Tail(training.left) # <<>>
            BY <5>2, <4>1, LeftIs
          <6>2. training' = [left |-> LeftFrom[k + 1], gen |-> 1, blocked |-> FALSE]
            BY <6>1, <2>2, <4>1
          <6> QED BY <6>2, <5>2, <4>1
        <5> QED BY <5>1, <5>2, <4>1
      <4> HIDE DEF h
      <4>4. \A f \in DirFiles : dir'[f] = IF f = h THEN WholeFile ELSE dir[f]
        BY <2>2, <4>2, <1>0 DEF h
      <4>5. WrittenTo(k + 1)'
        <5>1. ASSUME NEW f \in DirFiles
              PROVE  /\ Place[f] < k + 1 => dir'[f] = WholeFile
                     /\ Place[f] = k + 1 => dir'[f] = Missing
                     /\ Place[f] > k + 1 => dir'[f] = Missing
          <6>1. Place[f] \in 1..5 /\ (Place[f] = k => f = h)
            BY <4>2, PlacesDiffer
          <6>2. CASE f = h
            BY <6>2, <4>1, <4>2, <4>4
          <6>3. CASE f # h
            <7>1. dir'[f] = dir[f] /\ Place[f] # k
              BY <6>1, <6>3, <4>4
            <7>2. (Place[f] < k => dir[f] = WholeFile) /\ (Place[f] > k => dir[f] = Missing)
              BY <3>2 DEF WrittenTo, FilesTo
            <7> QED BY <6>1, <7>1, <7>2, <4>1
          <6> QED BY <6>2, <6>3
        <5> QED BY <5>1, <4>3 DEF WrittenTo, FilesTo, TrainingAt
      <4>6. ReaderOK'
        <5>1. ~(reader.at > 2)
          <6>1. dir["metrics"] # WholeFile
            BY <2>1, <2>5, CompleteOnce
          <6> QED BY <6>1, <2>5 DEF ArtifactInv, ReaderOK
        <5> QED BY <5>1, <2>1, <2>5 DEF ArtifactInv, ReaderOK
      <4>7. k + 1 \in 1..6
        BY <4>1
      <4> QED BY <4>5, <4>6, <4>7, <2>1, <2>3, <2>5, <1>0 DEF ArtifactInv
    <3> QED BY <3>1, <3>2, <2>5 DEF ArtifactInv
  <2>6. CASE trainings # 1
    BY <2>1, <2>3, <2>4, <2>6, <1>0 DEF ArtifactInv
  <2> QED BY <2>5, <2>6
<1>5. CASE Interrupt
  <2>1. trainings' = trainings /\ dir' = dir /\ reader' = reader /\ training' = Idle
    BY <1>5 DEF Interrupt
  <2> QED BY <2>1 DEF ArtifactInv, OnlyBlocked, WrittenTo, FilesTo, TrainingAt, ReaderOK
<1>6. CASE BeginLoad
  <2>1. trainings' = trainings /\ dir' = dir /\ training' = training /\ trainings > 0
    BY <1>6 DEF BeginLoad
  <2>2. reader'.at = 1 /\ reader'.got = <<>>
    BY <1>6 DEF BeginLoad
  <2>3. ReaderOK'
    BY <2>2 DEF ReaderOK
  <2>4. trainings # 0
    BY <2>1, <1>0
  <2> QED BY <2>1, <2>3, <2>4, <1>0, SameWritten DEF ArtifactInv
<1>7. CASE ReadFile
  <2>1. trainings' = trainings /\ dir' = dir /\ training' = training
    BY <1>7 DEF ReadFile
  <2>2. reader.at \in 1..10
    BY <1>7, ReadsAre DEF ReadFile
  <2>3. trainings # 0
    BY <2>2 DEF ArtifactInv, NotReading
  <2>4. ASSUME trainings = 1 PROVE ReaderOK'
    <3> DEFINE f == Reads[reader.at]
    <3>1. f \in DirFiles /\ (reader.at = 2 => f = "metrics")
      BY <2>2, ReadsAre DEF DirFiles
    <3>2. CASE ~Acceptable(f, dir[f])
      <4>1. reader' = NotReading
        BY <1>7, <3>2 DEF ReadFile
      <4> QED BY <4>1 DEF ReaderOK, NotReading
    <3>3. CASE Acceptable(f, dir[f])
      <4>1. reader' = [at |-> reader.at + 1, got |-> Append(reader.got, dir[f].gen)]
        BY <1>7, <3>3 DEF ReadFile
      <4>2. dir[f].gen = 1 /\ (f = "metrics" => dir[f] = WholeFile)
        BY <2>4, <3>1, <3>3, FirstGeneration
      <4>3. /\ reader.got \in Seq(Nat) /\ \A i \in 1..Len(reader.got) : reader.got[i] = 1
            /\ reader.at > 2 => dir["metrics"] = WholeFile
        BY <2>4 DEF ArtifactInv, ReaderOK
      <4> HIDE DEF f
      <4> DEFINE g == reader.got
                 h == Append(g, 1)
      <4>4. /\ h \in Seq(Nat) /\ Len(h) = Len(g) + 1 /\ Len(g) \in Nat
            /\ \A i \in 1..Len(g) : h[i] = g[i]
            /\ h[Len(g) + 1] = 1
        <5> HIDE DEF g
        <5> QED BY <4>3, AppendProperties, LenProperties DEF g
      <4>5. reader'.at = reader.at + 1 /\ reader'.got = h
        BY <4>1, <4>2
      <4> HIDE DEF g, h
      <4>6. \A i \in 1..Len(h) : h[i] = 1
        <5>1. \A i \in 1..Len(g) : g[i] = 1
          BY <4>3 DEF g
        <5>2. ASSUME NEW i \in 1..Len(h) PROVE h[i] = 1
          <6>1. i \in 1..Len(g) \/ i = Len(g) + 1
            BY <4>4
          <6> QED BY <4>4, <5>1, <6>1
        <5> QED BY <5>2
      <4>7. reader.at + 1 > 2 => dir["metrics"] = WholeFile
        BY <2>2, <3>1, <4>2, <4>3
      <4>8. reader'.at \in 0..11
        BY <2>2, <4>5
      <4>9. reader'.got \in Seq(Nat) /\ \A i \in 1..Len(reader'.got) : (reader'.got)[i] = 1
        BY <4>4, <4>5, <4>6
      <4>10. reader'.at > 2 => dir'["metrics"] = WholeFile
        BY <2>1, <4>5, <4>7
      <4> QED BY <4>8, <4>9, <4>10 DEF ReaderOK
    <3> QED BY <3>2, <3>3
  <2> QED BY <2>1, <2>3, <2>4, <1>0, SameWritten DEF ArtifactInv
<1>8. CASE Release
  <2>3. trainings # 0
    BY <1>8, ReadsAre DEF Release, Loaded, ArtifactInv, NotReading
  <2>1. trainings' = trainings /\ dir' = dir /\ training' = training /\ reader' = NotReading
    BY <1>8 DEF Release
  <2>2. ReaderOK'
    BY <2>1 DEF ReaderOK, NotReading
  <2> QED BY <2>1, <2>2, <2>3, <1>0, SameWritten DEF ArtifactInv
<1>9. CASE TimePasses
  BY <1>1, <1>9 DEF TimePasses
<1>10. ASSUME NEW r \in Races, Capture(r) PROVE UNCHANGED artifact
  BY <1>10 DEF Capture
<1>11. ASSUME NEW s \in snapshots, NEW o, Settle(s, o) PROVE UNCHANGED artifact
  BY <1>11 DEF Settle
<1>12. ASSUME NEW r \in Contested, NEW o \in Outcomes, Import(r, o) PROVE UNCHANGED artifact
  BY <1>12 DEF Import
<1>13. CASE UNCHANGED vars
  BY <1>1, <1>13 DEF vars, artifact
<1> QED BY <1>1, <1>2, <1>3, <1>4, <1>5, <1>6, <1>7, <1>8, <1>9, <1>10, <1>11, <1>12, <1>13 DEF Next

\* train and load_models: the files of the first training are complete up
\* to one place, and a reader past the metrics has a complete directory.
THEOREM ArtifactInvariant == Spec => []ArtifactInv
<1>1. Init => ArtifactInv
  BY ArtifactStart
<1>2. ArtifactInv /\ [Next]_vars => ArtifactInv'
  BY ArtifactStep
<1> QED BY <1>1, <1>2, PTL DEF Spec

\* load_models: what is loaded from a directory trained into once is the
\* whole artifact of a training that finished.
THEOREM LoadsAreWhole == Spec => []LoadedWhole
<1>1. ArtifactInv => LoadedWhole
  <2> SUFFICES ASSUME ArtifactInv, Loaded, trainings = 1
               PROVE  /\ \A i \in 1..Len(reader.got) : reader.got[i] = 1
                      /\ \A f \in DirFiles : dir[f] = [gen |-> 1, whole |-> TRUE, blocked |-> FALSE]
    BY DEF LoadedWhole
  <2>1. ReaderOK
    BY DEF ArtifactInv
  <2>2. reader.at = 11
    BY ReadsAre DEF Loaded
  <2>3. dir["metrics"] = WholeFile
    BY <2>1, <2>2 DEF ReaderOK
  <2>4. \A f \in DirFiles : dir[f] = WholeFile
    BY <2>3, CompleteOnce
  <2> QED BY <2>1, <2>4 DEF ReaderOK, WholeFile, PartFile, WholeBlocked, PartBlocked
<1> QED BY <1>1, ArtifactInvariant, PTL

(***************************************************************************)
(* Ties.  The beginnings, of a given width, of the orders that ranks allow *)
(* on a set of cars; the two expansions build them group by group.         *)
(***************************************************************************)
\* Whoever is in front of a placed car is placed before it.
Orders(rank, S, width) ==
    {q \in Arrangements(S, AtMost(Cardinality(S), width)) :
        \A i \in 1..AtMost(Cardinality(S), width), c \in S :
            rank[c] < rank[q[i]] => \E j \in 1..(i - 1) : q[j] = c}

\* Everybody in B is in front of everybody in g, who are tied.
InFront(rank, B, g) == \A c \in B, d \in g : rank[c] < rank[d]
IsTied(rank, g) == \A c, d \in g : ~(rank[c] < rank[d])

RanksOn(rank, S) == \A c \in S : rank[c] \in Nat

\* The smaller of two numbers.
LEMMA AtMostIs ==
    ASSUME NEW m \in Nat, NEW n \in Nat
    PROVE  /\ AtMost(m, n) \in Nat /\ AtMost(m, n) <= m /\ AtMost(m, n) <= n
           /\ m <= n => AtMost(m, n) = m
           /\ n <= m => AtMost(m, n) = n
  BY DEF AtMost

\* k cars in a row are at most k cars.
LEMMA RowCovers ==
    ASSUME NEW B, NEW k \in Nat, NEW q, \A c \in B : \E y \in 1..k : q[y] = c
    PROVE  IsFiniteSet(B) /\ Cardinality(B) <= k
<1>. DEFINE T == {q[y] : y \in 1..k}
            f == [y \in 1..k |-> q[y]]
<1>1. f \in Surjection(1..k, T)
  BY DEF Surjection
<1>2. IsFiniteSet(1..k) /\ Cardinality(1..k) = k
  BY FS_Interval
<1>3. IsFiniteSet(T) /\ Cardinality(T) <= k
  <2>. HIDE DEF f, T
  <2>. QED BY <1>1, <1>2, FS_Surjection
<1>4. B \in SUBSET T
  OBVIOUS
<1>5. IsFiniteSet(B) /\ Cardinality(B) <= Cardinality(T)
  <2>. HIDE DEF T
  <2>. QED BY <1>3, <1>4, FS_Subset
<1>6. Cardinality(B) \in Nat /\ Cardinality(T) \in Nat
  <2>. HIDE DEF T
  <2>. QED BY <1>3, <1>5, FS_CardinalityType
<1>. QED
  <2>. HIDE DEF T
  <2>. QED BY <1>3, <1>5, <1>6

\* As many different cars in a row as there are cars are all of them.
LEMMA RowFills ==
    ASSUME NEW B, IsFiniteSet(B), NEW q \in Arrangements(B, Cardinality(B))
    PROVE  \A c \in B : \E y \in 1..Cardinality(B) : q[y] = c
<1>1. Cardinality(B) \in Nat
  BY FS_CardinalityType
<1>. DEFINE k == Cardinality(B)
<1>2. q \in [1..k -> B] /\ \A i \in 1..k : \A j \in 1..(i - 1) : q[i] # q[j]
  BY DEF Arrangements
<1>3. q \in Injection(1..k, B)
  <2>1. ASSUME NEW a \in 1..k, NEW b \in 1..k, q[a] = q[b] PROVE a = b
    <3>1. ~(a < b) /\ ~(b < a)
      BY <1>1, <1>2, <2>1
    <3>. QED BY <1>1, <3>1
  <2>. HIDE DEF k
  <2>. QED BY <1>2, <2>1 DEF Injection, IsInjective
<1>4. IsFiniteSet(1..k) /\ Cardinality(1..k) = k
  BY <1>1, FS_Interval
<1>5. q \in Surjection(1..k, B)
  BY <1>3, <1>4, FS_Injection
<1>. QED
  BY <1>5 DEF Surjection

\* Two sets of cars of which one is in front of the other.
LEMMA FrontAndRear ==
    ASSUME NEW rank, NEW B, NEW g, IsFiniteSet(B), IsFiniteSet(g),
           RanksOn(rank, B \cup g), InFront(rank, B, g)
    PROVE  /\ B \cap g = {}
           /\ Cardinality(B) \in Nat /\ Cardinality(g) \in Nat
           /\ IsFiniteSet(B \cup g)
           /\ Cardinality(B \cup g) = Cardinality(B) + Cardinality(g)
<1>1. B \cap g = {}
  BY DEF RanksOn, InFront
<1>2. Cardinality(B) \in Nat /\ Cardinality(g) \in Nat
  BY FS_CardinalityType
<1>3. Cardinality(B \cap g) = 0
  BY <1>1, FS_EmptySet
<1>4. /\ IsFiniteSet(B \cup g)
      /\ Cardinality(B \cup g) = Cardinality(B) + Cardinality(g) - Cardinality(B \cap g)
  BY FS_Union
<1>5. Cardinality(B) + Cardinality(g) - 0 = Cardinality(B) + Cardinality(g)
  BY <1>2
<1>. QED
  BY <1>1, <1>2, <1>3, <1>4, <1>5

\* The first places go to those in front.
LEMMA FirstInFront ==
    ASSUME NEW rank, NEW B, NEW g, IsFiniteSet(B), IsFiniteSet(g), NEW w \in Nat,
           RanksOn(rank, B \cup g), InFront(rank, B, g),
           NEW q \in Orders(rank, B \cup g, w),
           NEW x \in 1..AtMost(Cardinality(B \cup g), w), x <= Cardinality(B)
    PROVE  q[x] \in B
<1>. SUFFICES ASSUME q[x] \notin B PROVE FALSE
  OBVIOUS
<1>0. Cardinality(B) \in Nat /\ Cardinality(B \cup g) \in Nat
      /\ AtMost(Cardinality(B \cup g), w) \in Nat
  BY FrontAndRear, AtMostIs
<1>1. q[x] \in g
  BY DEF Orders, Arrangements
<1>2. \A c \in B : rank[c] < rank[q[x]]
  BY <1>1 DEF InFront
<1>3. \A c \in B : \E j \in 1..(x - 1) : q[j] = c
  BY <1>2 DEF Orders
<1>4. x - 1 \in Nat
  BY <1>0
<1>5. Cardinality(B) <= x - 1
  BY <1>3, <1>4, RowCovers
<1>. QED
  BY <1>0, <1>5

\* Where those in front fill the width, nobody behind them counts.
LEMMA FrontIsEnough ==
    ASSUME NEW rank, NEW B, NEW g, IsFiniteSet(B), IsFiniteSet(g), NEW w \in Nat,
           RanksOn(rank, B \cup g), InFront(rank, B, g), w <= Cardinality(B)
    PROVE  Orders(rank, B \cup g, w) = Orders(rank, B, w)
<1>0. Cardinality(B) \in Nat /\ Cardinality(B \cup g) \in Nat
      /\ w <= Cardinality(B \cup g)
  BY FrontAndRear
<1>1. AtMost(Cardinality(B), w) = w /\ AtMost(Cardinality(B \cup g), w) = w
  BY <1>0, AtMostIs
<1>2. ASSUME NEW q \in Orders(rank, B \cup g, w) PROVE q \in Orders(rank, B, w)
  <2>1. ASSUME NEW x \in 1..w PROVE q[x] \in B
    <3>1. x \in 1..AtMost(Cardinality(B \cup g), w) /\ x <= Cardinality(B)
      BY <1>0, <1>1
    <3>. QED BY <3>1, FirstInFront
  <2>2. q \in [1..w -> B \cup g] /\ \A i \in 1..w : \A j \in 1..(i - 1) : q[i] # q[j]
    BY <1>1 DEF Orders, Arrangements
  <2>3. q \in Arrangements(B, w)
    BY <2>1, <2>2 DEF Arrangements
  <2>. QED
    BY <1>1, <2>3 DEF Orders
<1>3. ASSUME NEW q \in Orders(rank, B, w) PROVE q \in Orders(rank, B \cup g, w)
  <2>1. q \in [1..w -> B] /\ \A i \in 1..w : \A j \in 1..(i - 1) : q[i] # q[j]
    BY <1>1 DEF Orders, Arrangements
  <2>2. q \in Arrangements(B \cup g, w)
    BY <2>1 DEF Arrangements
  <2>3. ASSUME NEW i \in 1..w, NEW c \in B \cup g, rank[c] < rank[q[i]]
        PROVE  \E j \in 1..(i - 1) : q[j] = c
    <3>1. q[i] \in B
      BY <2>1
    <3>2. c \notin g
      BY <2>3, <3>1 DEF InFront, RanksOn
    <3>. QED
      BY <1>1, <2>3, <3>2 DEF Orders
  <2>. QED
    BY <1>1, <2>2, <2>3 DEF Orders
<1>. QED
  BY <1>2, <1>3

\* An arrangement is a sequence.
LEMMA ArrangementIsSeq ==
    ASSUME NEW S, NEW n \in Nat, NEW q \in Arrangements(S, n)
    PROVE  q \in Seq(S) /\ Len(q) = n
<1>1. q \in [1..n -> S]
  BY DEF Arrangements
<1>2. q \in Seq(S)
  BY <1>1, SeqDef
<1>3. Len(q) \in Nat /\ DOMAIN q = 1..Len(q)
  BY <1>2, LenProperties
<1>. QED
  BY <1>1, <1>2, <1>3

\* q is p and, behind its u places, the k of a.
IsJoin(q, p, a, u, k, S) ==
    /\ q \in [1..(u + k) -> S]
    /\ \A i \in 1..(u + k) : q[i] = IF i <= u THEN p[i] ELSE a[i - u]

\* One arrangement behind another.
LEMMA Joined ==
    ASSUME NEW B, NEW g, NEW u \in Nat, NEW k \in Nat,
           NEW p \in Arrangements(B, u), NEW a \in Arrangements(g, k)
    PROVE  IsJoin(p \o a, p, a, u, k, B \cup g)
<1>1. p \in Seq(B) /\ Len(p) = u /\ a \in Seq(g) /\ Len(a) = k
  BY ArrangementIsSeq
<1>2. p \in Seq(B \cup g) /\ a \in Seq(B \cup g)
  BY <1>1, SeqMonotonic
<1>3. /\ p \o a \in Seq(B \cup g) /\ Len(p \o a) = u + k
      /\ \A i \in 1..(u + k) : (p \o a)[i] = IF i <= u THEN p[i] ELSE a[i - u]
  BY <1>1, <1>2, ConcatProperties
<1>4. p \o a \in [1..Len(p \o a) -> B \cup g]
  BY <1>3, LenProperties
<1>. QED
  BY <1>3, <1>4 DEF IsJoin

\* The cars behind follow those in front, in any order among the tied.
LEMMA PartedThere ==
    ASSUME NEW rank, NEW B, NEW g, IsFiniteSet(B), IsFiniteSet(g), NEW w \in Nat,
           RanksOn(rank, B \cup g), InFront(rank, B, g), IsTied(rank, g),
           Cardinality(B) <= w,
           NEW k \in Nat, k = AtMost(Cardinality(g), w - Cardinality(B)),
           NEW p \in Orders(rank, B, w), NEW a \in Arrangements(g, k)
    PROVE  p \o a \in Orders(rank, B \cup g, w)
<1>. DEFINE u == Cardinality(B)
            q == p \o a
<1>1. u \in Nat /\ Cardinality(g) \in Nat /\ B \cap g = {} /\ Cardinality(B \cup g) = u + Cardinality(g)
  BY FrontAndRear
<1>2. AtMost(Cardinality(B \cup g), w) = u + k
  BY <1>1 DEF AtMost
<1>3. AtMost(u, w) = u
  BY <1>1, AtMostIs
<1>4. p \in Arrangements(B, u)
  BY <1>3 DEF Orders
<1>5. \A c \in B : \E y \in 1..u : p[y] = c
  BY <1>4, RowFills
<1>. HIDE DEF u, q
<1>6. q \in [1..(u + k) -> B \cup g] /\ \A i \in 1..(u + k) : q[i] = IF i <= u THEN p[i] ELSE a[i - u]
  <2>1. IsJoin(p \o a, p, a, u, k, B \cup g)
    BY <1>1, <1>4, Joined
  <2>2. IsJoin(q, p, a, u, k, B \cup g)
    BY <2>1 DEF q
  <2>. QED BY <2>2 DEF IsJoin
<1>7. /\ p \in [1..u -> B] /\ \A i \in 1..u : \A j \in 1..(i - 1) : p[i] # p[j]
      /\ a \in [1..k -> g] /\ \A i \in 1..k : \A j \in 1..(i - 1) : a[i] # a[j]
  BY <1>4 DEF Arrangements
<1>8. ASSUME NEW i \in 1..(u + k), NEW j \in 1..(i - 1) PROVE q[i] # q[j]
  <2>1. i \in Int /\ j \in Int /\ j \in 1..(u + k) /\ j < i /\ 1 <= j /\ i <= u + k
    BY <1>1
  <2>2. CASE i <= u
    <3>1. q[i] = p[i] /\ q[j] = p[j] /\ i \in 1..u
      BY <1>1, <1>6, <2>1, <2>2
    <3>. QED BY <1>7, <3>1
  <2>3. CASE ~(i <= u) /\ j <= u
    <3>1. q[i] = a[i - u] /\ q[j] = p[j] /\ i - u \in 1..k /\ j \in 1..u
      BY <1>1, <1>6, <2>1, <2>3
    <3>. QED BY <1>1, <1>7, <3>1
  <2>4. CASE ~(i <= u) /\ ~(j <= u)
    <3>1. q[i] = a[i - u] /\ q[j] = a[j - u] /\ i - u \in 1..k /\ j - u \in 1..((i - u) - 1)
      BY <1>1, <1>6, <2>1, <2>4
    <3>. QED BY <1>7, <3>1
  <2>. QED BY <2>2, <2>3, <2>4
<1>9. ASSUME NEW i \in 1..(u + k), NEW c \in B \cup g, rank[c] < rank[q[i]]
      PROVE  \E j \in 1..(i - 1) : q[j] = c
  <2>0. i \in Int /\ 1 <= i /\ i <= u + k
    BY <1>1
  <2>1. CASE i <= u
    <3>1. q[i] = p[i] /\ i \in 1..u
      BY <1>6, <2>0, <2>1, <1>1
    <3>2. p[i] \in B /\ ~(rank[p[i]] < rank[c] /\ rank[c] < rank[p[i]])
      <4>1. p[i] \in B
        BY <1>7, <3>1
      <4>2. rank[p[i]] \in Nat /\ rank[c] \in Nat
        BY <4>1 DEF RanksOn
      <4>. QED BY <4>1, <4>2
    <3>3. c \in B
      BY <1>9, <3>1, <3>2 DEF InFront
    <3>4. PICK j \in 1..(i - 1) : p[j] = c
      BY <1>3, <1>9, <3>1, <3>3 DEF Orders, u
    <3>5. q[j] = p[j]
      BY <1>1, <1>6, <2>0, <2>1
    <3>. QED BY <3>4, <3>5
  <2>2. CASE ~(i <= u)
    <3>1. q[i] = a[i - u] /\ i - u \in 1..k
      BY <1>1, <1>6, <2>0, <2>2
    <3>2. q[i] \in g
      BY <1>7, <3>1
    <3>3. c \in B
      BY <1>9, <3>2 DEF IsTied
    <3>4. PICK y \in 1..u : p[y] = c
      BY <1>5, <3>3
    <3>5. y \in 1..(i - 1) /\ q[y] = p[y]
      BY <1>1, <1>6, <2>0, <2>2
    <3>. QED BY <3>4, <3>5
  <2>. QED BY <2>1, <2>2
<1>10. q \in Arrangements(B \cup g, u + k)
  BY <1>6, <1>8 DEF Arrangements
<1>. QED
  BY <1>2, <1>9, <1>10 DEF Orders, q

\* Each of P, followed by each of A.
Followed(P, A) == {p \o s : p \in P, s \in A}

\* One of P followed by one of A.
LEMMA FollowedBy ==
    ASSUME NEW P, NEW A, NEW p \in P, NEW a \in A
    PROVE  p \o a \in Followed(P, A)
  BY DEF Followed

\* There are no others.
LEMMA FollowedOnly ==
    ASSUME NEW P, NEW A, NEW q \in Followed(P, A)
    PROVE  \E p \in P, a \in A : q = p \o a
  BY DEF Followed

\* Nor others of two such steps.
LEMMA FollowedTwice ==
    ASSUME NEW P, NEW A, NEW D, NEW q \in Followed(Followed(P, A), D)
    PROVE  \E p \in P, a \in A, d \in D : q = (p \o a) \o d
<1>. DEFINE F == Followed(P, A)
<1>1. ASSUME NEW r \in F PROVE \E p \in P, a \in A : r = p \o a
  BY FollowedOnly
<1>2. q \in Followed(F, D)
  OBVIOUS
<1>. HIDE DEF F
<1>3. \E r \in F, d \in D : q = r \o d
  BY <1>2, FollowedOnly
<1>4. PICK r \in F, d \in D : q = r \o d
  BY <1>3
<1>5. PICK p \in P, a \in A : r = p \o a
  BY <1>1, <1>4
<1>. QED
  BY <1>4, <1>5

\* An order of all begins with an order of those in front.
LEMMA PartedOnly ==
    ASSUME NEW rank, NEW B, NEW g, IsFiniteSet(B), IsFiniteSet(g), NEW w \in Nat,
           RanksOn(rank, B \cup g), InFront(rank, B, g),
           Cardinality(B) <= w,
           NEW k \in Nat, k = AtMost(Cardinality(g), w - Cardinality(B)),
           NEW q \in Orders(rank, B \cup g, w)
    PROVE  q \in Followed(Orders(rank, B, w), Arrangements(g, k))
<1>. DEFINE u == Cardinality(B)
            p == [i \in 1..u |-> q[i]]
            a == [i \in 1..k |-> q[u + i]]
<1>1. u \in Nat /\ Cardinality(g) \in Nat /\ B \cap g = {} /\ Cardinality(B \cup g) = u + Cardinality(g)
  BY FrontAndRear
<1>2. AtMost(Cardinality(B \cup g), w) = u + k
  BY <1>1 DEF AtMost
<1>3. AtMost(u, w) = u
  BY <1>1, AtMostIs
<1>4. q \in [1..(u + k) -> B \cup g] /\ \A i \in 1..(u + k) : \A j \in 1..(i - 1) : q[i] # q[j]
  BY <1>2 DEF Orders, Arrangements
<1>5. ASSUME NEW i \in 1..u PROVE q[i] \in B
  <2>1. i \in 1..AtMost(Cardinality(B \cup g), w) /\ i <= Cardinality(B)
    BY <1>1, <1>2
  <2>. HIDE DEF u
  <2>. QED BY <2>1, FirstInFront
<1>6. p \in Arrangements(B, u)
  <2>1. p \in [1..u -> B]
    BY <1>5
  <2>2. ASSUME NEW i \in 1..u, NEW j \in 1..(i - 1) PROVE p[i] # p[j]
    <3>1. i \in 1..(u + k) /\ j \in 1..u
      BY <1>1
    <3>2. p[i] = q[i] /\ p[j] = q[j]
      BY <3>1
    <3>. QED BY <1>4, <3>1, <3>2
  <2>. HIDE DEF p, u
  <2>. QED BY <2>1, <2>2 DEF Arrangements
<1>7. ASSUME NEW c \in B PROVE \E y \in 1..u : q[y] = c
  <2>1. \E y \in 1..u : p[y] = c
    <3>. HIDE DEF p
    <3>. QED BY <1>6, RowFills
  <2>. QED BY <2>1
<1>8. ASSUME NEW i \in 1..k PROVE q[u + i] \in g
  <2>1. u + i \in 1..(u + k) /\ \A y \in 1..u : y \in 1..((u + i) - 1)
    BY <1>1
  <2>2. q[u + i] \notin B
    BY <1>4, <1>7, <2>1
  <2>. QED BY <1>4, <2>1, <2>2
<1>9. a \in Arrangements(g, k)
  <2>1. a \in [1..k -> g]
    BY <1>8
  <2>2. ASSUME NEW i \in 1..k, NEW j \in 1..(i - 1) PROVE a[i] # a[j]
    <3>1. j \in 1..k /\ u + i \in 1..(u + k) /\ u + j \in 1..((u + i) - 1)
      BY <1>1
    <3>2. a[i] = q[u + i] /\ a[j] = q[u + j]
      BY <3>1
    <3>. QED BY <1>4, <3>1, <3>2
  <2>. HIDE DEF a, u
  <2>. QED BY <2>1, <2>2 DEF Arrangements
<1>10. p \in Orders(rank, B, w)
  <2>1. ASSUME NEW i \in 1..u, NEW c \in B, rank[c] < rank[p[i]]
        PROVE  \E j \in 1..(i - 1) : p[j] = c
    <3>1. i \in 1..AtMost(Cardinality(B \cup g), w) /\ c \in B \cup g /\ rank[c] < rank[q[i]]
      BY <1>1, <1>2, <2>1
    <3>2. PICK j \in 1..(i - 1) : q[j] = c
      BY <3>1 DEF Orders
    <3>3. j \in 1..u
      BY <1>1
    <3>. QED BY <3>2, <3>3
  <2>. HIDE DEF p
  <2>. QED BY <1>3, <1>6, <2>1 DEF Orders
<1>11. q = p \o a
  <2>. DEFINE r == p \o a
  <2>1. IsJoin(r, p, a, u, k, B \cup g)
    <3>1. u \in Nat /\ p \in Arrangements(B, u) /\ a \in Arrangements(g, k)
      BY <1>1, <1>6, <1>9
    <3>. HIDE DEF p, a, u
    <3>2. IsJoin(p \o a, p, a, u, k, B \cup g)
      BY <3>1, Joined
    <3>. QED BY <3>2
  <2>. HIDE DEF r
  <2>2. ASSUME NEW i \in 1..(u + k) PROVE r[i] = q[i]
    <3>1. i \in Int /\ 1 <= i /\ i <= u + k
      BY <1>1
    <3>2. CASE i <= u
      <4>1. p[i] = q[i]
        BY <3>1, <3>2, <1>1
      <4>. HIDE DEF p, a, u
      <4>. QED BY <2>1, <3>2, <4>1 DEF IsJoin
    <3>3. CASE ~(i <= u)
      <4>1. i - u \in 1..k /\ u + (i - u) = i
        BY <3>1, <3>3, <1>1
      <4>2. a[i - u] = q[i]
        BY <4>1
      <4>. HIDE DEF p, a, u
      <4>. QED BY <2>1, <3>3, <4>2 DEF IsJoin
    <3>. QED BY <3>2, <3>3
  <2>3. r = q
    <3>. HIDE DEF p, a, u
    <3>1. r \in [1..(u + k) -> B \cup g] /\ q \in [1..(u + k) -> B \cup g]
      BY <2>1, <1>4 DEF IsJoin
    <3>2. r = [i \in 1..(u + k) |-> r[i]] /\ q = [i \in 1..(u + k) |-> q[i]]
      BY <3>1
    <3>3. [i \in 1..(u + k) |-> r[i]] = [i \in 1..(u + k) |-> q[i]]
      BY <2>2
    <3>. QED BY <3>2, <3>3
  <2>. QED BY <2>3 DEF r
<1>. QED
  <2>. HIDE DEF p, a
  <2>1. p \o a \in Followed(Orders(rank, B, w), Arrangements(g, k))
    BY <1>9, <1>10, FollowedBy
  <2>. QED BY <1>11, <2>1

\* The orders of all are those of the ones in front, followed by the tied behind.
LEMMA OrdersParted ==
    ASSUME NEW rank, NEW B, NEW g, IsFiniteSet(B), IsFiniteSet(g), NEW w \in Nat,
           RanksOn(rank, B \cup g), InFront(rank, B, g), IsTied(rank, g),
           Cardinality(B) <= w,
           NEW k \in Nat, k = AtMost(Cardinality(g), w - Cardinality(B))
    PROVE  Orders(rank, B \cup g, w) = Followed(Orders(rank, B, w), Arrangements(g, k))
<1>. DEFINE both == Followed(Orders(rank, B, w), Arrangements(g, k))
<1>1. ASSUME NEW q \in both PROVE q \in Orders(rank, B \cup g, w)
  <2>1. PICK p \in Orders(rank, B, w), a \in Arrangements(g, k) : q = p \o a
    BY DEF Followed
  <2>2. p \o a \in Orders(rank, B \cup g, w)
    BY PartedThere
  <2>. QED BY <2>1, <2>2
<1>2. ASSUME NEW q \in Orders(rank, B \cup g, w) PROVE q \in both
  BY PartedOnly
<1>. HIDE DEF both
<1>3. Orders(rank, B \cup g, w) = both
  BY <1>1, <1>2
<1>. QED
  BY <1>3 DEF both

\* k of a finite set of at least k cars can be placed.
LEMMA ArrangementThere ==
    ASSUME NEW g, IsFiniteSet(g), NEW k \in Nat, k <= Cardinality(g)
    PROVE  Arrangements(g, k) # {}
<1>1. PICK n \in Nat : ExistsBijection(1..n, g)
  BY FS_NatBijection
<1>2. Cardinality(g) = n
  BY <1>1, FS_CountingElements
<1>3. PICK f \in Bijection(1..n, g) : TRUE
  BY <1>1 DEF ExistsBijection
<1>4. f \in [1..n -> g] /\ \A a, b \in 1..n : f[a] = f[b] => a = b
  BY <1>3 DEF Bijection, Injection, IsInjective
<1>5. 1..k \subseteq 1..n
  BY <1>2
<1>. DEFINE q == [i \in 1..k |-> f[i]]
<1>6. q \in [1..k -> g]
  BY <1>4, <1>5
<1>7. ASSUME NEW i \in 1..k, NEW j \in 1..(i - 1) PROVE q[i] # q[j]
  <2>1. j \in 1..k /\ i # j
    OBVIOUS
  <2>2. i \in 1..n /\ j \in 1..n /\ q[i] = f[i] /\ q[j] = f[j]
    BY <2>1, <1>5
  <2>. QED BY <1>4, <2>1, <2>2
<1>. HIDE DEF q
<1>8. q \in Arrangements(g, k)
  BY <1>6, <1>7 DEF Arrangements
<1>. QED
  BY <1>8

\* tied_rank_outcomes extends the orders of those in front by the tied behind.
LEMMA ExtensionIsOrders ==
    ASSUME NEW rank, NEW B, NEW g, IsFiniteSet(B), IsFiniteSet(g), NEW w \in Nat,
           RanksOn(rank, B \cup g), InFront(rank, B, g), IsTied(rank, g),
           Orders(rank, B, w) # {}
    PROVE  /\ ExtendPrefixes(w, Orders(rank, B, w), g) = Orders(rank, B \cup g, w)
           /\ Orders(rank, B \cup g, w) # {}
<1>. DEFINE u == Cardinality(B)
            used == Len(CHOOSE p \in Orders(rank, B, w) : TRUE)
<1>1. u \in Nat /\ Cardinality(g) \in Nat
  BY FrontAndRear
<1>2. AtMost(u, w) \in Nat /\ (w <= u => AtMost(u, w) = w) /\ (u <= w => AtMost(u, w) = u)
  BY <1>1, AtMostIs
<1>3. used = AtMost(u, w)
  <2>1. (CHOOSE p \in Orders(rank, B, w) : TRUE) \in Arrangements(B, AtMost(u, w))
    BY DEF Orders
  <2>. HIDE DEF u
  <2>. QED BY <1>2, <2>1, ArrangementIsSeq
<1>. HIDE DEF used
<1>4. CASE w <= u
  <2>1. used = w
    BY <1>2, <1>3, <1>4
  <2>2. ExtendPrefixes(w, Orders(rank, B, w), g) = Orders(rank, B, w)
    BY <2>1 DEF ExtendPrefixes, used
  <2>3. Orders(rank, B \cup g, w) = Orders(rank, B, w)
    BY <1>4, FrontIsEnough
  <2>. QED BY <2>2, <2>3
<1>5. CASE ~(w <= u)
  <2>. DEFINE k == AtMost(Cardinality(g), w - Cardinality(B))
              both == Followed(Orders(rank, B, w), Arrangements(g, k))
  <2>1. u <= w /\ w - u \in Nat /\ used = u /\ used # w
    <3>. HIDE DEF u
    <3>. QED BY <1>1, <1>2, <1>3, <1>5
  <2>2. k \in Nat /\ k <= Cardinality(g)
    BY <1>1, <2>1, AtMostIs
  <2>3. ExtendPrefixes(w, Orders(rank, B, w), g) = both
    <3>1. ExtendPrefixes(w, Orders(rank, B, w), g) =
             IF used = w THEN Orders(rank, B, w)
             ELSE Followed(Orders(rank, B, w), Arrangements(g, AtMost(Cardinality(g), w - used)))
      BY DEF ExtendPrefixes, Followed, used
    <3>. QED BY <2>1, <3>1
  <2>. HIDE DEF k
  <2>4. Orders(rank, B \cup g, w) = both
    <3>1. k = AtMost(Cardinality(g), w - Cardinality(B)) /\ Cardinality(B) <= w
      BY <2>1 DEF k
    <3>. QED BY <2>2, <3>1, OrdersParted
  <2>5. both # {}
    <3>1. Arrangements(g, k) # {}
      BY <2>2, ArrangementThere
    <3>2. PICK p \in Orders(rank, B, w), a \in Arrangements(g, k) : TRUE
      BY <3>1
    <3>3. p \o a \in both
      BY FollowedBy
    <3>. QED BY <3>3
  <2>. QED BY <2>3, <2>4, <2>5
<1>. QED
  BY <1>4, <1>5

\* What holds of no places and, from the places before the last, of places.
LEMMA PlacesInduction ==
    ASSUME NEW n \in Nat, NEW X, {} \in X,
           \A t \in SUBSET (1..n) : t # {} /\ t \ {Max(t)} \in X => t \in X
    PROVE  \A t \in SUBSET (1..n) : t \in X
<1>. DEFINE Bad == {c \in Nat : \E t \in SUBSET (1..n) : Cardinality(t) = c /\ t \notin X}
<1>1. Bad = {}
  <2>1. SUFFICES ASSUME Bad # {} PROVE FALSE
    OBVIOUS
  <2>2. PICK c \in Bad : \A k \in Bad : c <= k
    <3>1. Bad \in SUBSET Nat
      OBVIOUS
    <3>. HIDE DEF Bad
    <3>. QED BY <2>1, <3>1, LeastOf
  <2>3. PICK t \in SUBSET (1..n) : Cardinality(t) = c /\ t \notin X
    OBVIOUS
  <2>4. t # {} /\ t \in SUBSET Nat /\ IsFiniteSet(t)
    <3>1. IsFiniteSet(1..n)
      BY FS_Interval
    <3>2. IsFiniteSet(t)
      BY <3>1, FS_Subset
    <3>3. 1..n \subseteq Nat
      OBVIOUS
    <3>4. t # {}
      BY <2>3
    <3>. QED BY <3>2, <3>3, <3>4
  <2>5. Max(t) \in t
    BY <2>4, MaxIsLargest
  <2>. DEFINE u == t \ {Max(t)}
  <2>6. IsFiniteSet(u) /\ Cardinality(u) = Cardinality(t) - 1 /\ Cardinality(u) \in Nat
    <3>1. IsFiniteSet(u) /\ Cardinality(u) = Cardinality(t) - 1
      BY <2>4, <2>5, FS_RemoveElement
    <3>2. Cardinality(u) \in Nat
      <4>. HIDE DEF u
      <4>. QED BY <3>1, FS_CardinalityType
    <3>. QED BY <3>1, <3>2
  <2>7. u \notin X
    BY <2>3, <2>4
  <2>8. Cardinality(u) \in Bad
    BY <2>6, <2>7
  <2>9. ~(c <= Cardinality(u))
    BY <2>3, <2>6
  <2>. QED BY <2>2, <2>8, <2>9
<1>2. ASSUME NEW t \in SUBSET (1..n) PROVE t \in X
  <2>1. IsFiniteSet(1..n)
    BY FS_Interval
  <2>2. IsFiniteSet(t)
    BY <2>1, FS_Subset
  <2>3. Cardinality(t) \in Nat
    BY <2>2, FS_CardinalityType
  <2>. QED BY <1>1, <2>3
<1>. QED
  BY <1>2

\* s[1], ..., s[n] are the tied of S, each in front of the next.
Grouped(rank, S, s, n) ==
    /\ DOMAIN s = 1..n
    /\ \A i \in 1..n : s[i] \subseteq S /\ IsTied(rank, s[i])
    /\ \A i, j \in 1..n : i < j => InFront(rank, s[i], s[j])

AllOf(s, t) == UNION {s[j] : j \in t}

\* g is tied, and behind everybody in B.
IsRear(rank, B, g) ==
    /\ IsFiniteSet(B) /\ IsFiniteSet(g)
    /\ RanksOn(rank, B \cup g) /\ InFront(rank, B, g) /\ IsTied(rank, g)

\* The last group of some is behind the others.
LEMMA LastGroup ==
    ASSUME NEW rank, NEW S, IsFiniteSet(S), RanksOn(rank, S), NEW n \in Nat, NEW s,
           Grouped(rank, S, s, n), NEW t \in SUBSET (1..n), t # {}
    PROVE  /\ AllOf(s, t) = AllOf(s, t \ {Max(t)}) \cup s[Max(t)]
           /\ IsRear(rank, AllOf(s, t \ {Max(t)}), s[Max(t)])
<1>1. IsFiniteSet(1..n)
  BY FS_Interval
<1>2. IsFiniteSet(t) /\ t \in SUBSET Nat
  <2>1. IsFiniteSet(t)
    BY <1>1, FS_Subset
  <2>. QED BY <2>1
<1>3. Max(t) \in t /\ \A x \in t : x <= Max(t)
  BY <1>2, MaxIsLargest
<1>. DEFINE m == Max(t)
            u == t \ {m}
            B == AllOf(s, u)
            g == s[m]
<1>4. u \in SUBSET (1..n) /\ m \in 1..n /\ \A x \in u : x \in 1..n /\ x < m
  <2>1. m \in t /\ \A x \in t : x <= m
    BY <1>3
  <2>. HIDE DEF m
  <2>. QED BY <2>1
<1>. HIDE DEF m
<1>5. AllOf(s, t) = B \cup g
  BY <1>3 DEF AllOf, m
<1>6. B \subseteq S /\ g \subseteq S
  BY <1>4 DEF AllOf, Grouped
<1>7. IsFiniteSet(B) /\ IsFiniteSet(g)
  <2>. HIDE DEF B, g
  <2>. QED BY <1>6, FS_Subset
<1>8. RanksOn(rank, B \cup g)
  <2>. HIDE DEF B, g
  <2>. QED BY <1>6 DEF RanksOn
<1>9. InFront(rank, B, g)
  <2>1. ASSUME NEW c \in B, NEW d \in g PROVE rank[c] < rank[d]
    <3>1. PICK x \in u : c \in s[x]
      BY DEF AllOf
    <3>2. InFront(rank, s[x], g)
      BY <1>4 DEF Grouped
    <3>. QED BY <3>1, <3>2 DEF InFront
  <2>. QED BY <2>1 DEF InFront
<1>10. IsTied(rank, g)
  BY <1>4 DEF Grouped
<1>. QED
  BY <1>5, <1>7, <1>8, <1>9, <1>10 DEF m, IsRear

\* Nobody is placed in no places.
LEMMA NobodyPlaced ==
    ASSUME NEW rank, NEW w \in Nat PROVE Orders(rank, {}, w) = {<<>>}
<1>1. Cardinality({}) = 0 /\ AtMost(0, w) = 0
  BY FS_EmptySet, AtMostIs
<1>2. 1..0 = {}
  OBVIOUS
<1>3. Arrangements({}, 0) = {<<>>}
  <2>1. ASSUME NEW q \in Arrangements({}, 0) PROVE q = <<>>
    <3>1. q \in Seq({}) /\ Len(q) = 0
      BY ArrangementIsSeq
    <3>. QED BY <3>1, EmptySeq
  <2>2. <<>> \in [1..0 -> {}]
    <3>1. <<>> \in Seq({}) /\ Len(<<>>) = 0
      BY EmptySeq
    <3>2. <<>> \in [1..Len(<<>>) -> {}]
      BY <3>1, LenProperties
    <3>. QED BY <3>1, <3>2
  <2>3. <<>> \in Arrangements({}, 0)
    BY <1>2, <2>2 DEF Arrangements
  <2>. QED BY <2>1, <2>3
<1>. QED
  BY <1>1, <1>2, <1>3 DEF Orders

\* Any groups can be placed.
LEMMA OrdersThere ==
    ASSUME NEW rank, NEW S, IsFiniteSet(S), RanksOn(rank, S), NEW n \in Nat, NEW s,
           Grouped(rank, S, s, n), NEW w \in Nat
    PROVE  \A t \in SUBSET (1..n) : Orders(rank, AllOf(s, t), w) # {}
<1>. DEFINE X == {t \in SUBSET (1..n) : Orders(rank, AllOf(s, t), w) # {}}
<1>1. {} \in X
  <2>1. AllOf(s, {}) = {}
    BY DEF AllOf
  <2>. QED BY <2>1, NobodyPlaced
<1>2. ASSUME NEW t \in SUBSET (1..n), t # {}, t \ {Max(t)} \in X PROVE t \in X
  <2>. DEFINE B == AllOf(s, t \ {Max(t)})
              g == s[Max(t)]
  <2>1. AllOf(s, t) = B \cup g /\ IsRear(rank, B, g)
    BY <1>2, LastGroup
  <2>2. Orders(rank, B, w) # {}
    BY <1>2
  <2>. HIDE DEF B, g
  <2>3. /\ ExtendPrefixes(w, Orders(rank, B, w), g) = Orders(rank, B \cup g, w)
        /\ Orders(rank, B \cup g, w) # {}
    BY <2>1, <2>2, ExtensionIsOrders DEF IsRear
  <2>. QED BY <2>1, <2>3
<1>3. \A t \in SUBSET (1..n) : t \in X
  <2>. HIDE DEF X
  <2>. QED BY <1>1, <1>2, PlacesInduction
<1>. QED
  BY <1>3

\* The loop of tied_rank_outcomes: the prefixes after each of the groups so far.
TiedLoop(s, w, f) ==
    f = [t \in SUBSET (DOMAIN s) |->
            IF t = {} THEN {<<>>} ELSE ExtendPrefixes(w, f[t \ {Max(t)}], s[Max(t)])]

\* tied_rank_outcomes, of ranks as in a competition.
TiedFold(s, w) == FoldLeft(LAMBDA ps, g : ExtendPrefixes(w, ps, g), {<<>>}, s)

\* FoldLeft is the value of that function at all groups.
LEMMA FoldIsTiedLoop ==
    ASSUME NEW s, NEW w
    PROVE  TiedFold(s, w) = (CHOOSE f : TiedLoop(s, w, f))[DOMAIN s]
  BY DEF TiedFold, FoldLeft, MapThenFoldSet, TiedLoop

\* One pass of it.
LEMMA ExtensionIsPlaced ==
    ASSUME NEW rank, NEW S, IsFiniteSet(S), RanksOn(rank, S), NEW n \in Nat, NEW s,
           Grouped(rank, S, s, n), NEW w \in Nat, NEW t \in SUBSET (1..n), t # {}
    PROVE  ExtendPrefixes(w, Orders(rank, AllOf(s, t \ {Max(t)}), w), s[Max(t)])
             = Orders(rank, AllOf(s, t), w)
<1>. DEFINE B == AllOf(s, t \ {Max(t)})
            g == s[Max(t)]
<1>1. AllOf(s, t) = B \cup g /\ IsRear(rank, B, g)
  BY LastGroup
<1>2. Orders(rank, B, w) # {}
  <2>1. t \ {Max(t)} \in SUBSET (1..n)
    OBVIOUS
  <2>. QED BY <2>1, OrdersThere
<1>. HIDE DEF B, g
<1>3. /\ ExtendPrefixes(w, Orders(rank, B, w), g) = Orders(rank, B \cup g, w)
      /\ Orders(rank, B \cup g, w) # {}
  BY <1>1, <1>2, ExtensionIsOrders DEF IsRear
<1>. QED
  BY <1>1, <1>3 DEF B, g

\* The loop ends with the orders the ranks allow.
LEMMA TiedLoopIsOrders ==
    ASSUME NEW rank, NEW S, IsFiniteSet(S), RanksOn(rank, S), NEW n \in Nat, NEW s,
           Grouped(rank, S, s, n), NEW w \in Nat
    PROVE  TiedFold(s, w) = Orders(rank, AllOf(s, 1..n), w)
<1>. DEFINE OrdersOf(t) == Orders(rank, AllOf(s, t), w)
            loop == [t \in SUBSET (DOMAIN s) |-> OrdersOf(t)]
<1>0. DOMAIN s = 1..n
  BY DEF Grouped
<1>1. OrdersOf({}) = {<<>>}
  <2>1. AllOf(s, {}) = {}
    BY DEF AllOf
  <2>. QED BY <2>1, NobodyPlaced
<1>2. ASSUME NEW t \in SUBSET (1..n), t # {}
      PROVE  ExtendPrefixes(w, OrdersOf(t \ {Max(t)}), s[Max(t)]) = OrdersOf(t)
  BY <1>2, ExtensionIsPlaced
<1>3. TiedLoop(s, w, loop)
  <2>1. ASSUME NEW t \in SUBSET (DOMAIN s)
        PROVE  loop[t] = IF t = {} THEN {<<>>} ELSE ExtendPrefixes(w, loop[t \ {Max(t)}], s[Max(t)])
    <3>1. CASE t = {}
      <4>. HIDE DEF OrdersOf
      <4>. QED BY <3>1, <1>1
    <3>2. CASE t # {}
      <4>1. t \ {Max(t)} \in SUBSET (DOMAIN s)
        OBVIOUS
      <4>. HIDE DEF OrdersOf
      <4>2. loop[t] = OrdersOf(t) /\ loop[t \ {Max(t)}] = OrdersOf(t \ {Max(t)})
        BY <4>1
      <4>3. ExtendPrefixes(w, OrdersOf(t \ {Max(t)}), s[Max(t)]) = OrdersOf(t)
        BY <1>0, <1>2, <3>2
      <4>. HIDE DEF loop
      <4>. QED BY <3>2, <4>2, <4>3
    <3>. QED BY <3>1, <3>2
  <2>2. loop = [t \in SUBSET (DOMAIN s) |-> loop[t]]
    OBVIOUS
  <2>. HIDE DEF loop
  <2>. QED BY <2>1, <2>2 DEF TiedLoop
<1>. HIDE DEF loop
<1>. DEFINE f == CHOOSE h : TiedLoop(s, w, h)
<1>4. TiedLoop(s, w, f)
  BY <1>3
<1>. HIDE DEF f, OrdersOf
<1>. DEFINE X == {t \in SUBSET (1..n) : f[t] = OrdersOf(t)}
<1>5. \A t \in SUBSET (1..n) :
         f[t] = IF t = {} THEN {<<>>} ELSE ExtendPrefixes(w, f[t \ {Max(t)}], s[Max(t)])
  BY <1>0, <1>4 DEF TiedLoop
<1>6. {} \in X
  BY <1>1, <1>5
<1>7. ASSUME NEW t \in SUBSET (1..n), t # {}, t \ {Max(t)} \in X PROVE t \in X
  <2>1. f[t \ {Max(t)}] = OrdersOf(t \ {Max(t)})
    BY <1>7
  <2>2. f[t] = OrdersOf(t)
    BY <1>2, <1>5, <1>7, <2>1
  <2>. QED BY <2>2
<1>8. \A t \in SUBSET (1..n) : t \in X
  <2>. HIDE DEF X
  <2>. QED BY <1>6, <1>7, PlacesInduction
<1>9. f[1..n] = OrdersOf(1..n)
  BY <1>8
<1>. QED
  BY <1>0, <1>9, FoldIsTiedLoop DEF f, OrdersOf

(***************************************************************************)
(* The groups of a result are such groups.                                 *)
(***************************************************************************)
\* Fewer are below the smaller of two.
LEMMA FewerBelow ==
    ASSUME NEW R \in SUBSET Nat, IsFiniteSet(R), NEW x \in R, NEW y \in R, x < y
    PROVE  LET below(z) == Cardinality({m \in R : m < z})
           IN  below(x) \in Nat /\ below(y) \in Nat /\ below(x) < below(y)
<1>. DEFINE Bx == {m \in R : m < x}
            By == {m \in R : m < y}
<1>1. IsFiniteSet(Bx) /\ IsFiniteSet(By)
  <2>1. Bx \subseteq R /\ By \subseteq R
    OBVIOUS
  <2>. HIDE DEF Bx, By
  <2>. QED BY <2>1, FS_Subset
<1>2. x \notin Bx /\ Bx \cup {x} \subseteq By
  <2>1. x \in Nat /\ y \in Nat /\ ~(x < x) /\ x \in By
    OBVIOUS
  <2>2. ASSUME NEW m \in Bx PROVE m \in By
    <3>1. m \in Nat /\ m < x /\ m \in R
      OBVIOUS
    <3>. QED BY <2>1, <3>1
  <2>3. x \notin Bx
    BY <2>1
  <2>. HIDE DEF Bx, By
  <2>. QED BY <2>1, <2>2, <2>3
<1>. HIDE DEF Bx, By
<1>3. Cardinality(Bx) \in Nat /\ Cardinality(By) \in Nat
  BY <1>1, FS_CardinalityType
<1>4. IsFiniteSet(Bx \cup {x}) /\ Cardinality(Bx \cup {x}) = Cardinality(Bx) + 1
  BY <1>1, <1>2, FS_AddElement
<1>5. Cardinality(Bx \cup {x}) <= Cardinality(By)
  BY <1>1, <1>2, FS_Subset
<1>6. Cardinality(Bx) < Cardinality(By)
  BY <1>3, <1>4, <1>5
<1>. QED
  BY <1>3, <1>6 DEF Bx, By

\* The rank of every car of a result, and the ranks there are.
RankOf(result) == [c \in DOMAIN result |-> result[c].rank]
RanksThere(result) == {result[c].rank : c \in Ranked(result)}

\* The cars and the ranks of a result.
LEMMA RankedAre ==
    ASSUME NEW result, FinishOK(result)
    PROVE  /\ IsFiniteSet(Ranked(result)) /\ RanksOn(RankOf(result), Ranked(result))
           /\ RanksThere(result) \in SUBSET Nat /\ IsFiniteSet(RanksThere(result))
           /\ \A c \in Ranked(result) : RankOf(result)[c] = result[c].rank
<1>1. DOMAIN result = Cars /\ \A c \in Cars : result[c].rank \in Nat
  BY DEF FinishOK
<1>2. Ranked(result) \subseteq Cars /\ IsFiniteSet(Cars)
  BY <1>1, IntakeAssumption DEF Ranked
<1>3. IsFiniteSet(Ranked(result))
  BY <1>2, FS_Subset
<1>4. \A c \in Ranked(result) : RankOf(result)[c] = result[c].rank /\ result[c].rank \in Nat
  BY <1>1, <1>2 DEF RankOf
<1>5. IsFiniteSet(RanksThere(result))
  <2>. DEFINE f == [c \in Ranked(result) |-> result[c].rank]
  <2>1. f \in Surjection(Ranked(result), RanksThere(result))
    BY DEF Surjection, RanksThere
  <2>. HIDE DEF f
  <2>. QED BY <1>3, <2>1, FS_Surjection
<1>. QED
  BY <1>3, <1>4, <1>5 DEF RanksOn, RanksThere

\* The i-th group is that of the rank that i - 1 others precede.
LEMMA GroupsAre ==
    ASSUME NEW result
    PROVE  LET n == Cardinality(RanksThere(result))
           IN  GroupsInOrder(result) = [i \in 1..n |-> Group(result, InOrder(RanksThere(result), i - 1))]
  BY DEF GroupsInOrder, RanksThere, InOrder

\* They are the tied of those ranked, nobody left out, each in front of the next.
LEMMA GroupsAreGrouped ==
    ASSUME NEW result, FinishOK(result)
    PROVE  LET n == Cardinality(RanksThere(result))
               s == GroupsInOrder(result)
           IN  /\ n \in Nat
               /\ Grouped(RankOf(result), Ranked(result), s, n)
               /\ \A i \in 1..n : s[i] # {}
               /\ AllOf(s, 1..n) = Ranked(result)
<1>. DEFINE R == RanksThere(result)
            n == Cardinality(R)
            s == GroupsInOrder(result)
            Below(z) == Cardinality({m \in R : m < z})
            nth(i) == InOrder(R, i - 1)
<1>1. R \in SUBSET Nat /\ IsFiniteSet(R)
  BY RankedAre
<1>2. n \in Nat
  BY <1>1, FS_CardinalityType
<1>3. s = [i \in 1..n |-> Group(result, nth(i))]
  BY GroupsAre
<1>. HIDE DEF R, s
<1>4. ASSUME NEW i \in 1..n PROVE nth(i) \in R /\ Below(nth(i)) = i - 1
  <2>1. i - 1 \in Nat /\ i - 1 < Cardinality(R)
    BY <1>2
  <2>. QED BY <1>1, <2>1, InOrderIsThere
<1>5. DOMAIN s = 1..n /\ \A i \in 1..n : s[i] = Group(result, nth(i))
  BY <1>3
<1>. HIDE DEF n
<1>6. ASSUME NEW i \in 1..n, NEW j \in 1..n, i < j PROVE nth(i) < nth(j)
  <2>1. nth(i) \in R /\ nth(j) \in R /\ Below(nth(i)) = i - 1 /\ Below(nth(j)) = j - 1
    BY <1>4
  <2>. DEFINE x == nth(i)
              y == nth(j)
  <2>2. x \in R /\ y \in R /\ x \in Nat /\ y \in Nat /\ Below(x) < Below(y)
    <3>1. i - 1 < j - 1
      BY <1>2, <1>6
    <3>2. nth(i) \in Nat /\ nth(j) \in Nat
      BY <1>1, <2>1
    <3>. HIDE DEF nth, Below
    <3>. QED BY <2>1, <3>1, <3>2
  <2>. HIDE DEF x, y, nth
  <2>3. x # y
    BY <1>2, <1>6, <2>1 DEF x, y
  <2>4. ~(y < x)
    <3>1. SUFFICES ASSUME y < x PROVE FALSE
      OBVIOUS
    <3>2. Below(y) \in Nat /\ Below(x) \in Nat /\ Below(y) < Below(x)
      BY <1>1, <2>2, <3>1, FewerBelow
    <3>. HIDE DEF Below
    <3>. QED BY <2>2, <3>2
  <2>5. x < y
    BY <2>2, <2>3, <2>4
  <2>. QED BY <2>5 DEF x, y
<1>7. ASSUME NEW x \in R PROVE \E i \in 1..n : nth(i) = x
  <2>. DEFINE B == {m \in R : m < x}
              i == Cardinality(B) + 1
  <2>1. B \subseteq R \ {x}
    BY <1>1
  <2>2. IsFiniteSet(R \ {x}) /\ Cardinality(R \ {x}) = n - 1
    BY <1>1, FS_RemoveElement DEF n
  <2>. HIDE DEF B
  <2>3. IsFiniteSet(B) /\ Cardinality(B) <= Cardinality(R \ {x})
    BY <2>1, <2>2, FS_Subset
  <2>4. Cardinality(B) \in Nat
    BY <2>3, FS_CardinalityType
  <2>5. i \in 1..n /\ i - 1 = Cardinality(B)
    BY <1>2, <2>2, <2>3, <2>4
  <2>. HIDE DEF i
  <2>6. nth(i) \in R /\ Below(nth(i)) = Below(x)
    BY <1>4, <2>5 DEF B
  <2>. DEFINE y == nth(i)
  <2>7. y \in R /\ Below(y) = Below(x) /\ x \in Nat /\ y \in Nat
    BY <1>1, <2>6
  <2>. HIDE DEF y
  <2>8. ~(y < x)
    <3>1. SUFFICES ASSUME y < x PROVE FALSE
      OBVIOUS
    <3>2. Below(y) \in Nat /\ Below(x) \in Nat /\ Below(y) < Below(x)
      BY <1>1, <2>7, <3>1, FewerBelow
    <3>. HIDE DEF Below
    <3>. QED BY <2>7, <3>2
  <2>9. ~(x < y)
    <3>1. SUFFICES ASSUME x < y PROVE FALSE
      OBVIOUS
    <3>2. Below(y) \in Nat /\ Below(x) \in Nat /\ Below(x) < Below(y)
      BY <1>1, <2>7, <3>1, FewerBelow
    <3>. HIDE DEF Below
    <3>. QED BY <2>7, <3>2
  <2>10. y = x
    BY <2>7, <2>8, <2>9
  <2>. QED BY <2>5, <2>10 DEF y
<1>. HIDE DEF nth, Below
<1>8. DOMAIN result = Cars /\ \A c \in Cars : result[c].rank \in Nat
  BY DEF FinishOK
<1>9. ASSUME NEW i \in 1..n
      PROVE  /\ s[i] # {} /\ s[i] \subseteq Ranked(result)
             /\ \A c \in s[i] : RankOf(result)[c] = nth(i) /\ nth(i) \in Nat
  <2>1. nth(i) \in R
    BY <1>4
  <2>2. PICK c \in Ranked(result) : nth(i) = result[c].rank
    BY <2>1 DEF R, RanksThere
  <2>3. nth(i) > 0 /\ nth(i) \in Nat /\ c \in DOMAIN result
    BY <1>1, <2>1, <2>2 DEF Ranked
  <2>4. c \in s[i]
    BY <1>5, <2>2, <2>3 DEF Group
  <2>5. ASSUME NEW d \in s[i] PROVE d \in Ranked(result) /\ RankOf(result)[d] = nth(i)
    BY <1>5, <2>3 DEF Group, Ranked, RankOf
  <2>. QED BY <2>3, <2>4, <2>5
<1>10. \A i \in 1..n : IsTied(RankOf(result), s[i])
  <2>. TAKE i \in 1..n
  <2>1. ASSUME NEW c \in s[i], NEW d \in s[i] PROVE ~(RankOf(result)[c] < RankOf(result)[d])
    BY <1>9
  <2>. QED BY <2>1 DEF IsTied
<1>11. ASSUME NEW i \in 1..n, NEW j \in 1..n, i < j PROVE InFront(RankOf(result), s[i], s[j])
  <2>1. ASSUME NEW c \in s[i], NEW d \in s[j] PROVE RankOf(result)[c] < RankOf(result)[d]
    <3>1. RankOf(result)[c] = nth(i) /\ RankOf(result)[d] = nth(j)
      BY <1>9
    <3>. QED BY <1>6, <1>11, <3>1
  <2>. QED BY <2>1 DEF InFront
<1>12. Grouped(RankOf(result), Ranked(result), s, n)
  BY <1>5, <1>9, <1>10, <1>11 DEF Grouped
<1>13. AllOf(s, 1..n) = Ranked(result)
  <2>1. ASSUME NEW c \in Ranked(result) PROVE c \in AllOf(s, 1..n)
    <3>1. result[c].rank \in R /\ c \in DOMAIN result
      BY DEF R, RanksThere, Ranked
    <3>2. PICK i \in 1..n : nth(i) = result[c].rank
      BY <1>7, <3>1
    <3>3. c \in s[i]
      BY <1>5, <3>1, <3>2 DEF Group
    <3>. QED BY <3>3 DEF AllOf
  <2>2. ASSUME NEW c \in AllOf(s, 1..n) PROVE c \in Ranked(result)
    <3>1. PICK i \in 1..n : c \in s[i]
      BY DEF AllOf
    <3>. QED BY <1>9, <3>1
  <2>. QED BY <2>1, <2>2
<1>14. \A i \in 1..n : s[i] # {}
  BY <1>9
<1>. QED
  BY <1>2, <1>12, <1>13, <1>14 DEF n, R, s

(***************************************************************************)
(* outcomes: the product of the groups' permutations, of as many groups as *)
(* the width needs.                                                        *)
(***************************************************************************)
\* FlattenSeq's loop.
FlatLoop(p, f) == f = [i \in 1..Len(p) |-> IF i = 1 THEN p[i] ELSE f[i - 1] \o p[i]]

\* p's sequences, one behind another.
Chained(p) ==
    IF Len(p) = 1 THEN p[1]
    ELSE IF Len(p) = 2 THEN p[1] \o p[2] ELSE (p[1] \o p[2]) \o p[3]

\* It puts up to three sequences one behind another.
LEMMA Flattened ==
    ASSUME NEW p, Len(p) \in {1, 2, 3}
    PROVE  FlattenSeq(p) = Chained(p)
<1>. DEFINE n == Len(p)
            one == p[1]
            two == p[1] \o p[2]
            three == (p[1] \o p[2]) \o p[3]
            flat == [i \in 1..n |-> IF i = 1 THEN one ELSE IF i = 2 THEN two ELSE three]
            f == CHOOSE h : FlatLoop(p, h)
<1>0. n = 1 \/ n = 2 \/ n = 3
  OBVIOUS
<1>1. FlattenSeq(p) = f[n]
  <2>1. Len(p) # 0
    OBVIOUS
  <2>. QED BY <2>1 DEF FlattenSeq, FlatLoop
<1>. HIDE DEF n
<1>2. ASSUME NEW i \in 1..n PROVE flat[i] = IF i = 1 THEN p[i] ELSE flat[i - 1] \o p[i]
  <2>1. i = 1 \/ (i = 2 /\ 1 \in 1..n) \/ (i = 3 /\ 2 \in 1..n)
    BY <1>0
  <2>2. CASE i = 1
    BY <2>2
  <2>3. CASE i = 2 /\ 1 \in 1..n
    <3>1. flat[i] = two /\ flat[i - 1] = one
      <4>. HIDE DEF one, two, three
      <4>. QED BY <2>3
    <3>2. two = one \o p[i]
      BY <2>3
    <3>3. i # 1
      BY <2>3
    <3>. HIDE DEF flat, one, two, three
    <3>4. flat[i] = flat[i - 1] \o p[i]
      BY <3>1, <3>2
    <3>. QED BY <3>3, <3>4
  <2>4. CASE i = 3 /\ 2 \in 1..n
    <3>1. flat[i] = three /\ flat[i - 1] = two
      <4>. HIDE DEF one, two, three
      <4>. QED BY <2>4
    <3>2. three = two \o p[i]
      BY <2>4
    <3>3. i # 1
      BY <2>4
    <3>. HIDE DEF flat, one, two, three
    <3>4. flat[i] = flat[i - 1] \o p[i]
      BY <3>1, <3>2
    <3>. QED BY <3>3, <3>4
  <2>. QED BY <2>1, <2>2, <2>3, <2>4
<1>3. FlatLoop(p, flat)
  <2>1. flat = [i \in 1..n |-> flat[i]]
    OBVIOUS
  <2>. HIDE DEF flat
  <2>. QED BY <1>2, <2>1 DEF FlatLoop, n
<1>4. FlatLoop(p, f)
  <2>. HIDE DEF flat
  <2>. QED BY <1>3
<1>. HIDE DEF f, flat
<1>5. ASSUME NEW i \in 1..n PROVE f[i] = IF i = 1 THEN p[i] ELSE f[i - 1] \o p[i]
  BY <1>4 DEF FlatLoop, n
<1>6. 1 \in 1..n => f[1] = one
  BY <1>5
<1>7. 2 \in 1..n => f[2] = two
  <2>. SUFFICES ASSUME 2 \in 1..n PROVE f[2] = two
    OBVIOUS
  <2>1. f[2] = IF 2 = 1 THEN p[2] ELSE f[2 - 1] \o p[2]
    BY <1>5
  <2>2. 1 \in 1..n /\ 2 - 1 = 1 /\ 2 # 1
    BY <1>0
  <2>3. f[2] = f[1] \o p[2]
    BY <2>1, <2>2
  <2>. QED BY <1>6, <2>2, <2>3
<1>8. 3 \in 1..n => f[3] = three
  <2>. SUFFICES ASSUME 3 \in 1..n PROVE f[3] = three
    OBVIOUS
  <2>1. f[3] = IF 3 = 1 THEN p[3] ELSE f[3 - 1] \o p[3]
    BY <1>5
  <2>2. 2 \in 1..n /\ 3 - 1 = 2 /\ 3 # 1
    BY <1>0
  <2>3. f[3] = f[2] \o p[3]
    BY <2>1, <2>2
  <2>. QED BY <1>7, <2>2, <2>3
<1>9. n \in 1..n
  BY <1>0
<1>10. f[n] = IF n = 1 THEN one ELSE IF n = 2 THEN two ELSE three
  <2>. HIDE DEF one, two, three
  <2>. QED BY <1>0, <1>6, <1>7, <1>8, <1>9
<1>. QED
  BY <1>1, <1>10 DEF n, Chained

\* A choice from each of the first m groups.
Parts(C, m) == {p \in [1..m -> UNION {C[i] : i \in 1..m}] : \A i \in 1..m : p[i] \in C[i]}

\* What up to three choices are put together.
LEMMA PartsFlattened ==
    ASSUME NEW C, NEW m \in {1, 2, 3}
    PROVE  {FlattenSeq(p) : p \in Parts(C, m)} =
               IF m = 1 THEN C[1]
               ELSE IF m = 2 THEN Followed(C[1], C[2]) ELSE Followed(Followed(C[1], C[2]), C[3])
<1>. DEFINE U == UNION {C[i] : i \in 1..m}
            flattened == {FlattenSeq(p) : p \in Parts(C, m)}
<1>1. ASSUME NEW p \in Parts(C, m)
      PROVE  /\ m = 1 => FlattenSeq(p) = p[1]
             /\ m = 2 => FlattenSeq(p) = p[1] \o p[2]
             /\ m = 3 => FlattenSeq(p) = (p[1] \o p[2]) \o p[3]
             /\ \A i \in 1..m : p[i] \in C[i]
  <2>1. p \in [1..m -> U] /\ \A i \in 1..m : p[i] \in C[i]
    BY DEF Parts
  <2>2. Len(p) = m
    <3>. HIDE DEF U
    <3>1. m \in Nat /\ p \in Seq(U)
      BY <2>1, SeqDef
    <3>2. Len(p) \in Nat /\ DOMAIN p = 1..Len(p)
      BY <3>1, LenProperties
    <3>. QED BY <2>1, <3>1, <3>2
  <2>3. Len(p) \in {1, 2, 3}
    BY <2>2
  <2>4. FlattenSeq(p) = Chained(p)
    BY <2>3, Flattened
  <2>5. CASE m = 1
    BY <2>1, <2>2, <2>4, <2>5 DEF Chained
  <2>6. CASE m = 2
    BY <2>1, <2>2, <2>4, <2>6 DEF Chained
  <2>7. CASE m = 3
    BY <2>1, <2>2, <2>4, <2>7 DEF Chained
  <2>. QED BY <2>5, <2>6, <2>7
<1>2. CASE m = 1
  <2>1. ASSUME NEW q \in flattened PROVE q \in C[1]
    <3>1. PICK p \in Parts(C, m) : q = FlattenSeq(p)
      OBVIOUS
    <3>. QED BY <1>1, <1>2, <3>1
  <2>2. ASSUME NEW q \in C[1] PROVE q \in flattened
    <3>. DEFINE p == [i \in 1..m |-> q]
    <3>1. p \in Parts(C, m) /\ p[1] = q
      BY <1>2 DEF Parts
    <3>. HIDE DEF p
    <3>. QED BY <1>1, <1>2, <3>1
  <2>. HIDE DEF flattened
  <2>3. flattened = C[1]
    BY <2>1, <2>2
  <2>. QED BY <1>2, <2>3 DEF flattened
<1>3. CASE m = 2
  <2>1. ASSUME NEW q \in flattened PROVE q \in Followed(C[1], C[2])
    <3>1. PICK p \in Parts(C, m) : q = FlattenSeq(p)
      OBVIOUS
    <3>2. q = p[1] \o p[2] /\ p[1] \in C[1] /\ p[2] \in C[2]
      <4>1. 1 \in 1..m /\ 2 \in 1..m
        BY <1>3
      <4>. QED BY <1>1, <1>3, <3>1, <4>1
    <3>3. p[1] \o p[2] \in Followed(C[1], C[2])
      BY <3>2, FollowedBy
    <3>. QED BY <3>2, <3>3
  <2>2. ASSUME NEW q \in Followed(C[1], C[2]) PROVE q \in flattened
    <3>1. PICK a \in C[1], b \in C[2] : q = a \o b
      BY FollowedOnly
    <3>. DEFINE p == [i \in 1..m |-> IF i = 1 THEN a ELSE b]
    <3>2. p \in Parts(C, m) /\ p[1] = a /\ p[2] = b
      BY <1>3 DEF Parts
    <3>. HIDE DEF p
    <3>3. FlattenSeq(p) = p[1] \o p[2]
      BY <1>1, <1>3, <3>2
    <3>. QED BY <3>1, <3>2, <3>3
  <2>. HIDE DEF flattened
  <2>3. flattened = Followed(C[1], C[2])
    BY <2>1, <2>2
  <2>. QED BY <1>3, <2>3 DEF flattened
<1>4. CASE m = 3
  <2>1. ASSUME NEW q \in flattened PROVE q \in Followed(Followed(C[1], C[2]), C[3])
    <3>1. PICK p \in Parts(C, m) : q = FlattenSeq(p)
      OBVIOUS
    <3>2. q = (p[1] \o p[2]) \o p[3] /\ p[1] \in C[1] /\ p[2] \in C[2] /\ p[3] \in C[3]
      <4>1. 1 \in 1..m /\ 2 \in 1..m /\ 3 \in 1..m
        BY <1>4
      <4>. QED BY <1>1, <1>4, <3>1, <4>1
    <3>3. p[1] \o p[2] \in Followed(C[1], C[2])
      BY <3>2, FollowedBy
    <3>4. (p[1] \o p[2]) \o p[3] \in Followed(Followed(C[1], C[2]), C[3])
      BY <3>2, <3>3, FollowedBy
    <3>. QED BY <3>2, <3>4
  <2>2. ASSUME NEW q \in Followed(Followed(C[1], C[2]), C[3]) PROVE q \in flattened
    <3>1. \E a \in C[1], b \in C[2], c \in C[3] : q = (a \o b) \o c
      BY FollowedTwice
    <3>2. PICK a \in C[1], b \in C[2], c \in C[3] : q = (a \o b) \o c
      BY <3>1
    <3>. DEFINE p == [i \in 1..m |-> IF i = 1 THEN a ELSE IF i = 2 THEN b ELSE c]
    <3>3. p \in Parts(C, m) /\ p[1] = a /\ p[2] = b /\ p[3] = c
      BY <1>4 DEF Parts
    <3>. HIDE DEF p
    <3>4. FlattenSeq(p) = (p[1] \o p[2]) \o p[3]
      BY <1>1, <1>4, <3>3
    <3>. QED BY <3>2, <3>3, <3>4
  <2>. HIDE DEF flattened
  <2>3. flattened = Followed(Followed(C[1], C[2]), C[3])
    BY <2>1, <2>2
  <2>. QED BY <1>4, <2>3 DEF flattened
<1>. QED
  BY <1>2, <1>3, <1>4

\* The groups of s, none empty, are all of S.
GroupsOf(rank, S, s, n) ==
    /\ IsFiniteSet(S) /\ RanksOn(rank, S)
    /\ Grouped(rank, S, s, n)
    /\ \A i \in 1..n : s[i] # {}
    /\ AllOf(s, 1..n) = S

\* The first i groups are the first i - 1 and, behind them, the i-th.
LEMMA NextGroup ==
    ASSUME NEW rank, NEW S, NEW n \in Nat, NEW s, GroupsOf(rank, S, s, n), NEW i \in 1..n
    PROVE  /\ AllOf(s, 1..i) = AllOf(s, 1..(i - 1)) \cup s[i]
           /\ IsRear(rank, AllOf(s, 1..(i - 1)), s[i])
<1>. DEFINE t == 1..i
<1>1. t \in SUBSET (1..n) /\ t \in SUBSET Nat /\ t # {}
  OBVIOUS
<1>2. IsFiniteSet(t)
  BY FS_Interval
<1>3. Max(t) \in t /\ \A x \in t : x <= Max(t)
  <2>. HIDE DEF t
  <2>. QED BY <1>1, <1>2, MaxIsLargest
<1>4. Max(t) = i
  <2>1. i \in t /\ Max(t) \in Nat /\ Max(t) <= i
    BY <1>3
  <2>2. i <= Max(t)
    <3>. HIDE DEF t
    <3>. QED BY <1>3, <2>1
  <2>. HIDE DEF t
  <2>. QED BY <2>1, <2>2
<1>5. t \ {i} = 1..(i - 1)
  OBVIOUS
<1>. HIDE DEF t
<1>6. /\ AllOf(s, t) = AllOf(s, t \ {Max(t)}) \cup s[Max(t)]
      /\ IsRear(rank, AllOf(s, t \ {Max(t)}), s[Max(t)])
  BY <1>1, LastGroup DEF GroupsOf
<1>. QED
  BY <1>4, <1>5, <1>6 DEF t

\* What TakenBefore says of the i-th group and of the next.
TakenGrowing(s, i) ==
    /\ TakenBefore(s, i) \in Nat /\ TakenBefore(s, i + 1) \in Nat
    /\ TakenBefore(s, i) < TakenBefore(s, i + 1)
    /\ TakenBefore(s, i) = Cardinality(AllOf(s, 1..(i - 1)))
    /\ TakenBefore(s, i + 1) = Cardinality(AllOf(s, 1..i))

\* How many cars come before a group grows with every group.
LEMMA TakenGrows ==
    ASSUME NEW rank, NEW S, NEW n \in Nat, NEW s, GroupsOf(rank, S, s, n), NEW i \in 1..n
    PROVE  TakenGrowing(s, i)
<1>. DEFINE B == AllOf(s, 1..(i - 1))
            g == s[i]
<1>1. AllOf(s, 1..i) = B \cup g /\ IsRear(rank, B, g)
  BY NextGroup
<1>2. g # {}
  BY DEF GroupsOf
<1>3. TakenBefore(s, i) = Cardinality(B)
  BY DEF TakenBefore, AllOf
<1>4. TakenBefore(s, i + 1) = Cardinality(AllOf(s, 1..i))
  <2>1. (i + 1) - 1 = i
    OBVIOUS
  <2>. QED BY <2>1 DEF TakenBefore, AllOf
<1>. HIDE DEF B, g
<1>5. /\ Cardinality(B) \in Nat /\ Cardinality(g) \in Nat
      /\ Cardinality(B \cup g) = Cardinality(B) + Cardinality(g)
  BY <1>1, FrontAndRear DEF IsRear
<1>6. Cardinality(g) # 0
  BY <1>1, <1>2, FS_EmptySet DEF IsRear
<1>7. Cardinality(B \cup g) \in Nat /\ Cardinality(B) < Cardinality(B \cup g)
  BY <1>5, <1>6
<1>. QED
  BY <1>1, <1>3, <1>4, <1>5, <1>7 DEF B, TakenGrowing

\* Nobody comes before the first group.
LEMMA NobodyBefore == \A s : TakenBefore(s, 1) = 0 /\ AllOf(s, 1..(1 - 1)) = {}
<1>. TAKE s
<1>1. 1..(1 - 1) = {}
  OBVIOUS
<1>2. AllOf(s, 1..(1 - 1)) = {}
  BY <1>1 DEF AllOf
<1>3. TakenBefore(s, 1) = Cardinality({})
  BY <1>1 DEF TakenBefore
<1>. QED
  BY <1>2, <1>3, FS_EmptySet

\* The orders of the first i groups.
LEMMA NextOrders ==
    ASSUME NEW rank, NEW S, NEW n \in Nat, NEW s, GroupsOf(rank, S, s, n), NEW i \in 1..n,
           NEW w \in Nat, TakenBefore(s, i) <= w
    PROVE  Orders(rank, AllOf(s, 1..i), w)
             = Followed(Orders(rank, AllOf(s, 1..(i - 1)), w), GroupChoices(s, w, i))
<1>. DEFINE B == AllOf(s, 1..(i - 1))
            g == s[i]
            k == AtMost(Cardinality(g), w - Cardinality(B))
<1>1. AllOf(s, 1..i) = B \cup g /\ IsRear(rank, B, g)
  BY NextGroup
<1>2. TakenBefore(s, i) = Cardinality(B) /\ Cardinality(B) \in Nat /\ Cardinality(B) <= w
  <2>1. TakenGrowing(s, i)
    BY TakenGrows
  <2>. QED BY <2>1 DEF TakenGrowing
<1>3. GroupChoices(s, w, i) = Arrangements(g, k)
  BY <1>2 DEF GroupChoices
<1>. HIDE DEF B, g
<1>4. k \in Nat
  <2>1. Cardinality(g) \in Nat /\ w - Cardinality(B) \in Nat
    BY <1>1, <1>2, FrontAndRear DEF IsRear
  <2>. QED BY <2>1, AtMostIs
<1>5. Orders(rank, B \cup g, w) = Followed(Orders(rank, B, w), Arrangements(g, k))
  <2>1. k = AtMost(Cardinality(g), w - Cardinality(B))
    OBVIOUS
  <2>. HIDE DEF k
  <2>. QED BY <1>1, <1>2, <1>4, <2>1, OrdersParted DEF IsRear
<1>. QED
  BY <1>1, <1>3, <1>5 DEF B

\* The orders of the first group are its choices.
LEMMA FirstOrders ==
    ASSUME NEW rank, NEW S, NEW n \in Nat, NEW s, GroupsOf(rank, S, s, n), 1 \in 1..n,
           NEW w \in Nat
    PROVE  Orders(rank, AllOf(s, 1..1), w) = GroupChoices(s, w, 1)
<1>. DEFINE A == GroupChoices(s, w, 1)
<1>1. Orders(rank, AllOf(s, 1..(1 - 1)), w) = {<<>>}
  BY NobodyBefore, NobodyPlaced
<1>2. TakenBefore(s, 1) <= w
  BY NobodyBefore
<1>3. Orders(rank, AllOf(s, 1..1), w) = Followed({<<>>}, A)
  <2>1. Orders(rank, AllOf(s, 1..1), w) = Followed(Orders(rank, AllOf(s, 1..(1 - 1)), w), A)
    <3>. DEFINE i == 1
    <3>1. i \in 1..n /\ TakenBefore(s, i) <= w
      BY <1>2
    <3>. HIDE DEF i
    <3>2. Orders(rank, AllOf(s, 1..i), w)
             = Followed(Orders(rank, AllOf(s, 1..(i - 1)), w), GroupChoices(s, w, i))
      BY <3>1, NextOrders
    <3>. QED BY <3>2 DEF i
  <2>. QED BY <1>1, <2>1
<1>4. ASSUME NEW a \in A PROVE <<>> \o a = a
  <2>1. TakenBefore(s, 1) = 0 /\ w - 0 = w
    BY NobodyBefore
  <2>2. a \in Arrangements(s[1], AtMost(Cardinality(s[1]), w))
    BY <2>1 DEF GroupChoices
  <2>3. Cardinality(s[1]) \in Nat
    <3>1. IsFiniteSet(s[1])
      BY NextGroup DEF IsRear
    <3>. QED BY <3>1, FS_CardinalityType
  <2>4. AtMost(Cardinality(s[1]), w) \in Nat
    BY <2>3, AtMostIs
  <2>5. a \in Seq(s[1])
    BY <2>2, <2>4, ArrangementIsSeq
  <2>. QED BY <2>5, ConcatEmptySeq
<1>. HIDE DEF A
<1>. DEFINE P == {<<>>}
<1>5. ASSUME NEW q \in Followed(P, A) PROVE q \in A
  <2>1. \E p \in P, a \in A : q = p \o a
    <3>. HIDE DEF P
    <3>. QED BY FollowedOnly
  <2>. QED BY <1>4, <2>1
<1>6. ASSUME NEW a \in A PROVE a \in Followed(P, A)
  <2>1. <<>> \in P
    OBVIOUS
  <2>2. <<>> \o a \in Followed(P, A)
    <3>. HIDE DEF P
    <3>. QED BY <2>1, FollowedBy
  <2>. QED BY <1>4, <2>2
<1>7. Followed(P, A) = A
  BY <1>5, <1>6
<1>. QED
  BY <1>3, <1>7 DEF A

\* Where the first groups fill the width, they are enough.
LEMMA EnoughGroups ==
    ASSUME NEW rank, NEW S, NEW n \in Nat, NEW s, GroupsOf(rank, S, s, n), NEW m \in 1..n,
           NEW w \in Nat, w <= TakenBefore(s, m + 1)
    PROVE  Orders(rank, S, w) = Orders(rank, AllOf(s, 1..m), w)
<1>. DEFINE B == AllOf(s, 1..m)
            g == AllOf(s, (m + 1)..n)
<1>1. w <= Cardinality(B)
  BY TakenGrows DEF TakenGrowing
<1>2. S = B \cup g
  <2>1. 1..n = (1..m) \cup ((m + 1)..n)
    OBVIOUS
  <2>2. S = AllOf(s, 1..n)
    BY DEF GroupsOf
  <2>. QED BY <2>1, <2>2 DEF AllOf
<1>3. InFront(rank, B, g)
  <2>1. ASSUME NEW c \in B, NEW d \in g PROVE rank[c] < rank[d]
    <3>1. PICK i \in 1..m : c \in s[i]
      BY DEF AllOf
    <3>2. PICK j \in (m + 1)..n : d \in s[j]
      BY DEF AllOf
    <3>3. i \in 1..n /\ j \in 1..n /\ i < j
      OBVIOUS
    <3>4. InFront(rank, s[i], s[j])
      BY <3>3 DEF GroupsOf, Grouped
    <3>. QED BY <3>1, <3>2, <3>4 DEF InFront
  <2>. QED BY <2>1 DEF InFront
<1>. HIDE DEF B, g
<1>4. IsFiniteSet(B) /\ IsFiniteSet(g)
  <2>1. IsFiniteSet(S) /\ B \subseteq S /\ g \subseteq S
    BY <1>2 DEF GroupsOf
  <2>. QED BY <2>1, FS_Subset
<1>5. RanksOn(rank, B \cup g)
  BY <1>2 DEF GroupsOf
<1>6. Orders(rank, B \cup g, w) = Orders(rank, B, w)
  BY <1>1, <1>3, <1>4, <1>5, FrontIsEnough
<1>. QED
  BY <1>2, <1>6 DEF B

\* Nobody placed is forgotten: of two groups the later has no fewer before it.
LEMMA TakenInOrder ==
    ASSUME NEW rank, NEW S, NEW n \in Nat, NEW s, GroupsOf(rank, S, s, n),
           NEW i \in 1..(n + 1), NEW j \in 1..(n + 1), i <= j
    PROVE  /\ TakenBefore(s, i) \in Nat /\ TakenBefore(s, j) \in Nat
           /\ TakenBefore(s, i) <= TakenBefore(s, j)
<1>. DEFINE B == AllOf(s, 1..(i - 1))
            D == AllOf(s, 1..(j - 1))
<1>1. B \subseteq D /\ D \subseteq S
  <2>1. 1..(i - 1) \subseteq 1..(j - 1) /\ 1..(j - 1) \subseteq 1..n
    OBVIOUS
  <2>2. \A k \in 1..n : s[k] \subseteq S
    BY DEF GroupsOf, Grouped
  <2>. QED BY <2>1, <2>2 DEF AllOf
<1>2. TakenBefore(s, i) = Cardinality(B) /\ TakenBefore(s, j) = Cardinality(D)
  BY DEF TakenBefore, AllOf
<1>. HIDE DEF B, D
<1>3. IsFiniteSet(D)
  <2>1. IsFiniteSet(S)
    BY DEF GroupsOf
  <2>. QED BY <1>1, <2>1, FS_Subset
<1>4. IsFiniteSet(B) /\ Cardinality(B) <= Cardinality(D)
  BY <1>1, <1>3, FS_Subset
<1>5. Cardinality(B) \in Nat /\ Cardinality(D) \in Nat
  BY <1>3, <1>4, FS_CardinalityType
<1>. QED
  BY <1>2, <1>4, <1>5

\* The groups needed are the first m, when these fill the width and fewer do not.
LEMMA NeededAre ==
    ASSUME NEW rank, NEW S, NEW n \in Nat, NEW s, GroupsOf(rank, S, s, n), NEW w \in Nat,
           NEW m \in 1..n, TakenBefore(s, m) < w, w <= TakenBefore(s, m + 1)
    PROVE  {i \in 1..n : TakenBefore(s, i) < w} = 1..m
<1>1. ASSUME NEW i \in 1..n PROVE TakenBefore(s, i) < w <=> i <= m
  <2>1. CASE i <= m
    <3>1. i \in 1..(n + 1) /\ m \in 1..(n + 1)
      OBVIOUS
    <3>2. /\ TakenBefore(s, i) \in Nat /\ TakenBefore(s, m) \in Nat
          /\ TakenBefore(s, i) <= TakenBefore(s, m)
      BY <2>1, <3>1, TakenInOrder
    <3>. QED BY <2>1, <3>2
  <2>2. CASE ~(i <= m)
    <3>. DEFINE k == m + 1
    <3>1. k \in 1..(n + 1) /\ i \in 1..(n + 1) /\ k <= i /\ w <= TakenBefore(s, k)
      BY <2>2
    <3>. HIDE DEF k
    <3>2. /\ TakenBefore(s, k) \in Nat /\ TakenBefore(s, i) \in Nat
          /\ TakenBefore(s, k) <= TakenBefore(s, i)
      BY <3>1, TakenInOrder
    <3>. QED BY <2>2, <3>1, <3>2
  <2>. QED BY <2>1, <2>2
<1>. HIDE DEF TakenBefore
<1>2. 1..m \subseteq 1..n /\ \A i \in 1..n : i <= m <=> i \in 1..m
  OBVIOUS
<1>. QED
  BY <1>1, <1>2

\* All groups hold everybody.
LEMMA EverybodyTaken ==
    ASSUME NEW rank, NEW S, NEW n \in Nat, NEW s, GroupsOf(rank, S, s, n)
    PROVE  TakenBefore(s, n + 1) = Cardinality(S)
<1>1. (n + 1) - 1 = n
  OBVIOUS
<1>. QED
  BY <1>1 DEF TakenBefore, GroupsOf, AllOf

\* No more than three groups are needed, for three places.
LEMMA NeededThere ==
    ASSUME NEW rank, NEW S, NEW n \in Nat, NEW s, GroupsOf(rank, S, s, n),
           NEW w \in 1..3, w <= Cardinality(S)
    PROVE  \E m \in {1, 2, 3} : m \in 1..n /\ TakenBefore(s, m) < w /\ w <= TakenBefore(s, m + 1)
<1>. DEFINE T(i) == TakenBefore(s, i)
<1>1. T(1) = 0
  BY NobodyBefore
<1>2. w <= T(n + 1)
  BY EverybodyTaken
<1>3. \A i \in 1..n : T(i) \in Nat /\ T(i + 1) \in Nat /\ T(i) < T(i + 1)
  BY TakenGrows DEF TakenGrowing
<1>. HIDE DEF T
<1>4. n # 0
  BY <1>1, <1>2
<1>5. CASE w <= T(2)
  <2>1. 1 \in 1..n /\ T(1) < w /\ w <= T(1 + 1)
    BY <1>1, <1>4, <1>5
  <2>. QED BY <2>1 DEF T
<1>6. CASE ~(w <= T(2)) /\ w <= T(3)
  <2>1. n # 1
    BY <1>2, <1>6
  <2>2. 2 \in 1..n /\ 1 \in 1..n
    BY <1>4, <2>1
  <2>3. T(2) \in Nat
    BY <1>3, <2>2
  <2>4. T(2) < w /\ w <= T(2 + 1)
    BY <1>6, <2>3
  <2>. QED BY <2>2, <2>4 DEF T
<1>7. CASE ~(w <= T(2)) /\ ~(w <= T(3))
  <2>1. n # 1 /\ n # 2
    BY <1>2, <1>7
  <2>2. 1 \in 1..n /\ 2 \in 1..n /\ 3 \in 1..n
    BY <1>4, <2>1
  <2>3. /\ T(1) < T(2) /\ T(2) < T(3) /\ T(3) < T(4)
        /\ T(2) \in Nat /\ T(3) \in Nat /\ T(4) \in Nat
    BY <1>3, <2>2
  <2>4. T(3) < w /\ w <= T(3 + 1)
    BY <1>1, <1>7, <2>3
  <2>. QED BY <2>2, <2>4 DEF T
<1>. QED
  BY <1>5, <1>6, <1>7

\* outcomes gives the orders the ranks allow.
LEMMA OutcomesAreOrders ==
    ASSUME NEW rank, NEW S, NEW n \in Nat, NEW s, GroupsOf(rank, S, s, n), Len(s) = n,
           NEW w \in 1..3, w <= Cardinality(S)
    PROVE  outcomes(s, w) = Orders(rank, S, w)
<1>1. PICK m \in {1, 2, 3} : m \in 1..n /\ TakenBefore(s, m) < w /\ w <= TakenBefore(s, m + 1)
  BY NeededThere
<1>2. {i \in 1..Len(s) : TakenBefore(s, i) < w} = 1..m
  BY <1>1, NeededAre
<1>3. Cardinality(1..m) = m
  <2>1. Cardinality(1..m) = IF 1 > m THEN 0 ELSE m - 1 + 1
    BY FS_Interval
  <2>. QED BY <2>1
<1>4. ~(TakenBefore(s, Len(s) + 1) < w)
  <2>1. TakenBefore(s, Len(s) + 1) = Cardinality(S)
    BY EverybodyTaken
  <2>2. Cardinality(S) \in Nat
    BY FS_CardinalityType DEF GroupsOf
  <2>. QED BY <2>1, <2>2
<1>. DEFINE C == [i \in 1..m |-> GroupChoices(s, w, i)]
<1>5. {p \in [1..m -> UNION {GroupChoices(s, w, i) : i \in 1..m}] :
          \A i \in 1..m : p[i] \in GroupChoices(s, w, i)} = Parts(C, m)
  BY DEF Parts
<1>6. outcomes(s, w) = {FlattenSeq(p) : p \in Parts(C, m)}
  BY <1>2, <1>3, <1>4, <1>5 DEF outcomes
<1>7. \A i \in 1..m : C[i] = GroupChoices(s, w, i)
  OBVIOUS
<1>. HIDE DEF C
<1>. DEFINE OrdersOf(i) == Orders(rank, AllOf(s, 1..i), w)
<1>8. OrdersOf(1) = C[1]
  <2>1. 1 \in 1..n /\ 1 \in 1..m
    BY <1>1
  <2>. QED BY <1>7, <2>1, FirstOrders
<1>9. \A i \in 2..m : OrdersOf(i) = Followed(OrdersOf(i - 1), C[i])
  <2>. TAKE i \in 2..m
  <2>1. i \in 1..n /\ i \in 1..m /\ i \in 1..(n + 1) /\ m \in 1..(n + 1) /\ i <= m
    BY <1>1
  <2>2. /\ TakenBefore(s, i) \in Nat /\ TakenBefore(s, m) \in Nat
        /\ TakenBefore(s, i) <= TakenBefore(s, m)
    BY <2>1, TakenInOrder
  <2>3. TakenBefore(s, i) <= w
    BY <1>1, <2>2
  <2>4. Orders(rank, AllOf(s, 1..i), w)
          = Followed(Orders(rank, AllOf(s, 1..(i - 1)), w), GroupChoices(s, w, i))
    BY <2>1, <2>3, NextOrders
  <2>. QED BY <1>7, <2>1, <2>4
<1>. HIDE DEF OrdersOf
<1>10. outcomes(s, w) = OrdersOf(m)
  <2>1. {FlattenSeq(p) : p \in Parts(C, m)} =
            IF m = 1 THEN C[1]
            ELSE IF m = 2 THEN Followed(C[1], C[2]) ELSE Followed(Followed(C[1], C[2]), C[3])
    BY PartsFlattened
  <2>2. CASE m = 1
    BY <1>6, <1>8, <2>1, <2>2
  <2>3. CASE m = 2
    <3>1. OrdersOf(2) = Followed(OrdersOf(1), C[2])
      BY <1>9, <2>3
    <3>. QED BY <1>6, <1>8, <2>1, <2>3, <3>1
  <2>4. CASE m = 3
    <3>1. OrdersOf(2) = Followed(OrdersOf(1), C[2]) /\ OrdersOf(3) = Followed(OrdersOf(2), C[3])
      BY <1>9, <2>4
    <3>. QED BY <1>6, <1>8, <2>1, <2>4, <3>1
  <2>. QED BY <2>2, <2>3, <2>4
<1>11. Orders(rank, S, w) = OrdersOf(m)
  BY <1>1, EnoughGroups DEF OrdersOf
<1>. QED
  BY <1>10, <1>11

(***************************************************************************)
(* Both expansions, for any cars, any finish and any number of groups.     *)
(***************************************************************************)
\* The groups of a result, as many as it has ranks, are groups of its cars.
LEMMA GroupsGiven ==
    ASSUME NEW result, FinishOK(result)
    PROVE  LET n == Cardinality(RanksThere(result))
               s == GroupsInOrder(result)
           IN  n \in Nat /\ GroupsOf(RankOf(result), Ranked(result), s, n) /\ Len(s) = n
<1>. DEFINE n == Cardinality(RanksThere(result))
            s == GroupsInOrder(result)
            S == Ranked(result)
            rank == RankOf(result)
<1>1. /\ n \in Nat /\ Grouped(rank, S, s, n)
      /\ \A i \in 1..n : s[i] # {}
      /\ AllOf(s, 1..n) = S
  BY GroupsAreGrouped
<1>2. IsFiniteSet(S) /\ RanksOn(rank, S)
  BY RankedAre
<1>3. GroupsOf(rank, S, s, n)
  BY <1>1, <1>2 DEF GroupsOf
<1>4. Len(s) = n
  <2>1. s = [i \in 1..n |-> Group(result, InOrder(RanksThere(result), i - 1))]
    BY GroupsAre
  <2>2. \A i \in 1..n : Group(result, InOrder(RanksThere(result), i - 1)) \in SUBSET (DOMAIN result)
    BY DEF Group
  <2>. HIDE DEF n, s
  <2>3. s \in [1..n -> SUBSET (DOMAIN result)]
    BY <2>1, <2>2
  <2>4. s \in Seq(SUBSET (DOMAIN result))
    BY <1>1, <2>3, SeqDef
  <2>5. Len(s) \in Nat /\ DOMAIN s = 1..Len(s)
    BY <2>4, LenProperties
  <2>6. DOMAIN s = 1..n
    BY <2>3
  <2>. QED BY <1>1, <2>5, <2>6
<1>. QED
  BY <1>1, <1>3, <1>4

\* Both are the orders the ranks allow.
LEMMA BothAreOrders ==
    ASSUME NEW result, FinishOK(result), CompetitionRanks(result),
           NEW w \in 1..3, w <= Cardinality(Ranked(result))
    PROVE  /\ tied_rank_outcomes(result, w) = Orders(RankOf(result), Ranked(result), w)
           /\ outcomes(GroupsInOrder(result), w) = Orders(RankOf(result), Ranked(result), w)
<1>. DEFINE n == Cardinality(RanksThere(result))
            s == GroupsInOrder(result)
            S == Ranked(result)
            rank == RankOf(result)
<1>1. /\ n \in Nat /\ Grouped(rank, S, s, n)
      /\ \A i \in 1..n : s[i] # {}
      /\ AllOf(s, 1..n) = S
  BY GroupsAreGrouped
<1>2. IsFiniteSet(S) /\ RanksOn(rank, S)
  BY RankedAre
<1>3. GroupsOf(rank, S, s, n) /\ Len(s) = n
  BY GroupsGiven
<1>5. TiedFold(s, w) = Orders(rank, AllOf(s, 1..n), w)
  <2>. HIDE DEF n, s, S, rank
  <2>. QED BY <1>1, <1>2, TiedLoopIsOrders
<1>6. tied_rank_outcomes(result, w) = Orders(rank, S, w)
  <2>1. ~(Cardinality(S) < w)
    <3>1. Cardinality(S) \in Nat
      BY <1>2, FS_CardinalityType
    <3>. QED BY <3>1
  <2>2. tied_rank_outcomes(result, w) = TiedFold(s, w)
    BY <2>1 DEF tied_rank_outcomes, TiedFold
  <2>. HIDE DEF n, s, S, rank
  <2>. QED BY <1>1, <1>5, <2>2
<1>7. outcomes(s, w) = Orders(rank, S, w)
  <2>1. w <= Cardinality(S)
    OBVIOUS
  <2>. HIDE DEF n, s, S, rank
  <2>. QED BY <1>1, <1>3, <2>1, OutcomesAreOrders
<1>. QED
  BY <1>6, <1>7

\* So is what is paid.
LEMMA PaidAreOrders ==
    ASSUME NEW result, FinishOK(result), NEW w \in 1..3, w <= Cardinality(Ranked(result))
    PROVE  Payable(result, w) = Orders(RankOf(result), Ranked(result), w)
<1>. DEFINE S == Ranked(result)
<1>1. IsFiniteSet(S) /\ \A c \in S : RankOf(result)[c] = result[c].rank
  BY RankedAre
<1>2. Cardinality(S) \in Nat /\ AtMost(Cardinality(S), w) = w /\ ~(Cardinality(S) < w)
  <2>1. Cardinality(S) \in Nat
    BY <1>1, FS_CardinalityType
  <2>. QED BY <2>1, AtMostIs
<1>3. ASSUME NEW q \in Arrangements(S, w), NEW i \in 1..w
      PROVE  RankOf(result)[q[i]] = result[q[i]].rank
  BY <1>1 DEF Arrangements
<1>4. Payable(result, w) = {q \in Arrangements(S, w) :
             \A i \in 1..w, c \in S : result[c].rank < result[q[i]].rank => \E j \in 1..(i - 1) : q[j] = c}
  BY <1>2 DEF Payable
<1>5. Orders(RankOf(result), S, w) = {q \in Arrangements(S, w) :
             \A i \in 1..w, c \in S :
                 RankOf(result)[c] < RankOf(result)[q[i]] => \E j \in 1..(i - 1) : q[j] = c}
  BY <1>2 DEF Orders
<1>. HIDE DEF S
<1>6. Payable(result, w) = Orders(RankOf(result), S, w)
  BY <1>1, <1>3, <1>4, <1>5
<1>. QED
  BY <1>6 DEF S

\* Every way a race can finish has ranks as in a competition.
LEMMA ResultsRanked == ASSUME NEW result \in Results PROVE CompetitionRanks(result)
<1>. DEFINE Entry == {[rank |-> n, state |-> "finished"] : n \in 1..Cardinality(Cars)}
                         \cup {[rank |-> 0, state |-> s] : s \in {"dnf", "dsq_unclear"}}
            Withdrawal == [rank |-> 0, state |-> "dns"]
<1>1. PICK f \in [Cars \ out -> Entry] :
          /\ CompetitionRanks(f)
          /\ result = [c \in Cars |-> IF c \in out THEN Withdrawal ELSE f[c]]
  BY DEF Results
<1>. HIDE DEF Entry
<1>2. Ranked(result) = Ranked(f) /\ \A c \in Ranked(f) : result[c] = f[c]
  <2>1. DOMAIN result = Cars /\ DOMAIN f = Cars \ out
    BY <1>1
  <2>2. \A c \in Cars : result[c] = IF c \in out THEN Withdrawal ELSE f[c]
    BY <1>1
  <2>3. ASSUME NEW c \in Ranked(result) PROVE c \in Ranked(f)
    BY <2>1, <2>2 DEF Ranked
  <2>4. ASSUME NEW c \in Ranked(f) PROVE c \in Ranked(result) /\ result[c] = f[c]
    BY <2>1, <2>2 DEF Ranked
  <2>. QED BY <2>3, <2>4
<1>3. ASSUME NEW c \in Ranked(result)
      PROVE  result[c].rank = 1 + Cardinality({d \in Ranked(result) : result[d].rank < result[c].rank})
  <2>1. c \in Ranked(f) /\ result[c].rank = f[c].rank
    BY <1>2
  <2>2. {d \in Ranked(result) : result[d].rank < result[c].rank} =
           {d \in Ranked(f) : f[d].rank < f[c].rank}
    BY <1>2, <2>1
  <2>. QED BY <1>1, <2>1, <2>2 DEF CompetitionRanks
<1>. QED
  BY <1>3 DEF CompetitionRanks

\* A race gets its finish in one step.
LEMMA FinishOnce ==
    ASSUME [PrepNext]_allVars, finish' # finish PROVE finish' \in Results
<1>1. CASE Edit
  BY <1>1 DEF Edit, world
<1>2. CASE IntakeNext /\ UNCHANGED <<runnerVars, prepVars>>
  BY <1>2 DEF IntakeNext, Tick, Reschedule, Withdraw, Cancel, Finish, Publish, SavePre, SaveHeader,
     SaveResultPage, SaveList, ExportTables, Assemble, Review, world
<1>3. ASSUME NEW p \in Processes,
             \/ \E flag \in BOOLEAN : Launch(p, flag)
             \/ TaskLock(p) \/ WriteTask(p) \/ Resume(p) \/ Reconcile(p) \/ Run(p)
             \/ Prepare(p) \/ WriteOutput(p) \/ OutputConflict(p) \/ ReadBack(p)
             \/ RunnerStep(p) \/ Receipt(p) \/ Stop(p)
      PROVE  UNCHANGED intakeVars
  BY <1>3 DEF Launch, TaskLock, WriteTask, Resume, Reconcile, Run, Prepare, WriteOutput, OutputConflict,
     ReadBack, RunnerStep, Receipt, Stop
<1>4. CASE UNCHANGED intakeVars
  BY <1>4 DEF intakeVars
<1>5. CASE UNCHANGED allVars
  BY <1>4, <1>5 DEF allVars
<1>. QED
  BY <1>1, <1>2, <1>3, <1>4, <1>5 DEF PrepNext

\* tied_rank_outcomes and outcomes give exactly the beginnings of the orders the
\* finish allows, for any cars and any ties: the official intake, which extends
\* prefixes, and the tables', which multiplies permutations, pay the same.
THEOREM TiedOutcomesAreExact == PrepSpec => TiedOutcomesExact
<1>1. ASSUME [PrepNext]_allVars, finish' # finish, Cardinality(Ranked(finish')) >= 3, NEW w \in 1..3
      PROVE  /\ tied_rank_outcomes(finish', w) = Payable(finish', w)
             /\ outcomes(GroupsInOrder(finish'), w) = Payable(finish', w)
  <2>. DEFINE result == finish'
  <2>1. FinishOK(result) /\ CompetitionRanks(result)
    BY <1>1, FinishOnce, ResultsOK, ResultsRanked
  <2>2. w <= Cardinality(Ranked(result))
    <3>1. IsFiniteSet(Ranked(result))
      BY <2>1, RankedAre
    <3>2. Cardinality(Ranked(result)) \in Nat /\ Cardinality(Ranked(result)) >= 3
      BY <1>1, <3>1, FS_CardinalityType
    <3>. HIDE DEF result
    <3>. QED BY <3>2
  <2>. HIDE DEF result
  <2>3. /\ tied_rank_outcomes(result, w) = Orders(RankOf(result), Ranked(result), w)
        /\ outcomes(GroupsInOrder(result), w) = Orders(RankOf(result), Ranked(result), w)
    BY <2>1, <2>2, BothAreOrders
  <2>4. Payable(result, w) = Orders(RankOf(result), Ranked(result), w)
    BY <2>1, <2>2, PaidAreOrders
  <2>. QED BY <2>3, <2>4 DEF result
<1>2. [PrepNext]_allVars =>
        [finish' # finish /\ Cardinality(Ranked(finish')) >= 3 =>
            /\ tied_rank_outcomes(finish', 3) = Payable(finish', 3)
            /\ outcomes(GroupsInOrder(finish'), 3) = Payable(finish', 3)
            /\ tied_rank_outcomes(finish', 2) = Payable(finish', 2)
            /\ outcomes(GroupsInOrder(finish'), 2) = Payable(finish', 2)]_intakeVars
  <2>1. 2 \in 1..3 /\ 3 \in 1..3
    OBVIOUS
  <2>. QED BY <1>1, <2>1
<1>. QED
  BY <1>2, PTL DEF PrepSpec, TiedOutcomesExact

(***************************************************************************)
(* What is in a partition.                                                 *)
(***************************************************************************)
\* A table of a race that was held, if it settles on one order, settles on the one
\* that is paid.
LEMMA SettledIsPaid ==
    ASSUME NEW result, FinishOK(result), CompetitionRanks(result), NEW t,
           t.result = result, settlement(t, 3, t.trifecta), Cardinality(t.trifecta \ Refund) = 1
    PROVE  t.trifecta \ Refund = Payable(result, 3)
<1>. DEFINE groups == GroupsInOrder(result)
            expected == outcomes(groups, 3)
            n == Cardinality(RanksThere(result))
<1>1. t.trifecta = IF expected = {} THEN Refund ELSE expected
  BY DEF settlement
<1>2. expected # {}
  <2>1. SUFFICES ASSUME expected = {} PROVE FALSE
    OBVIOUS
  <2>2. t.trifecta \ Refund = {}
    BY <1>1, <2>1
  <2>. HIDE DEF expected
  <2>. QED BY <2>2, FS_EmptySet
<1>3. n \in Nat /\ GroupsOf(RankOf(result), Ranked(result), groups, n) /\ Len(groups) = n
  BY GroupsGiven
<1>4. IsFiniteSet(Ranked(result)) /\ Cardinality(Ranked(result)) \in Nat
  BY RankedAre, FS_CardinalityType
<1>5. TakenBefore(groups, Len(groups) + 1) = Cardinality(Ranked(result))
  <2>. HIDE DEF groups, n
  <2>. QED BY <1>3, EverybodyTaken
<1>6. ~(Cardinality(Ranked(result)) < 3)
  <2>1. TakenBefore(groups, Len(groups) + 1) < 3 => expected = {}
    BY DEF outcomes
  <2>. HIDE DEF groups, expected
  <2>. QED BY <1>2, <1>5, <2>1
<1>7. 3 \in 1..3 /\ 3 <= Cardinality(Ranked(result))
  BY <1>4, <1>6
<1>8. expected = Payable(result, 3)
  BY <1>7, BothAreOrders, PaidAreOrders
<1>9. <<>> \notin Payable(result, 3)
  <2>1. \A q \in Payable(result, 3) : q \in [1..3 -> Ranked(result)]
    BY <1>6 DEF Payable, Arrangements
  <2>2. <<>> \notin [1..3 -> Ranked(result)]
    <3>1. <<>> \in Seq(Ranked(result)) /\ Len(<<>>) = 0
      BY EmptySeq
    <3>2. DOMAIN <<>> = {}
      OBVIOUS
    <3>. QED BY <3>2
  <2>. QED BY <2>1, <2>2
<1>. HIDE DEF expected
<1>. QED
  BY <1>1, <1>2, <1>8, <1>9 DEF Refund

\* What is certain of a record from the tables.
TableChecked(rec) ==
    /\ rec.source = "table" /\ rec.riders = Cars
    /\ \E t \in collect(tables) : normalize(t) /\ rec.outcomes = t.trifecta \ Refund

\* Confirmed and with times filled in, it is what was converted.
LEMMA ConvertedChecked ==
    ASSUME NEW a \in review_records(tables)
    PROVE  /\ TableChecked(a) /\ TableChecked(Confirmed(a))
           /\ \A t \in Attested : TableChecked(Timed(Confirmed(a), t))
<1>1. PICK t \in collect(tables) : a \in convert(t)
  BY DEF review_records
<1>2. normalize(t)
  BY <1>1 DEF convert
<1>3. PICK x, y :
         /\ x = t.trifecta \ Refund
         /\ a = [source |-> "table", riders |-> Cars, feature |-> NoTime, start |-> NoTime, result |-> NoTime,
                 outcomes |-> x, dead_heat |-> y, styled |-> TRUE, confirmed |-> FALSE]
  BY <1>1 DEF convert
<1>. DEFINE Kept(rec) == rec.source = "table" /\ rec.riders = Cars /\ rec.outcomes = x
<1>4. ASSUME NEW rec, Kept(rec) PROVE TableChecked(rec)
  BY <1>2, <1>3, <1>4 DEF TableChecked
<1>5. Kept(a)
  BY <1>3
<1>6. Kept(Confirmed(a))
  BY <1>3 DEF Confirmed
<1>7. ASSUME NEW u \in Attested PROVE Kept(Timed(Confirmed(a), u))
  <2>1. PICK rec : rec = Confirmed(a)
    OBVIOUS
  <2>2. rec = [source |-> "table", riders |-> Cars, feature |-> NoTime, start |-> NoTime, result |-> NoTime,
               outcomes |-> x, dead_heat |-> y, styled |-> TRUE, confirmed |-> TRUE]
    BY <1>3, <2>1 DEF Confirmed
  <2>3. Kept(Timed(rec, u))
    BY <2>2 DEF Timed
  <2>. QED
    BY <2>1, <2>3
<1>. HIDE DEF Kept
<1>. QED
  BY <1>4, <1>5, <1>6, <1>7

\* A record that can pass the review is from the official pages or the tables: a
\* list has no style.
LEMMA ReviewedIsChecked ==
    ASSUME NEW rec \in Supplied, NEW reviewed, Reviewed(rec, reviewed)
    PROVE  JoinChecked(rec, pre, head, res) \/ TableChecked(rec)
<1>1. ASSUME NEW a \in Converted, rec \in {a, Confirmed(a)}
      PROVE  JoinChecked(rec, pre, head, res) \/ TableChecked(rec)
  <2>1. ASSUME a \in reconcile(pre, list) PROVE FALSE
    <3>1. PICK x, y, z, w :
             a = [source |-> "list", riders |-> Cars, feature |-> x, start |-> y, result |-> z, outcomes |-> w,
                  dead_heat |-> "unknown", styled |-> FALSE, confirmed |-> FALSE]
      BY <2>1 DEF reconcile
    <3>2. ~rec.styled
      BY <1>1, <3>1 DEF Confirmed
    <3>. QED
      BY <3>2 DEF Reviewed
  <2>. QED
    BY <1>1, <2>1, JoinGives, ConvertedChecked DEF Converted
<1>2. ASSUME NEW a \in Converted, a.source = "table" PROVE a \in review_records(tables)
  <2>1. ASSUME a \in reconcile(pre, list) PROVE FALSE
    <3>1. \E x, y, z, w :
             a = [source |-> "list", riders |-> Cars, feature |-> x, start |-> y, result |-> z, outcomes |-> w,
                  dead_heat |-> "unknown", styled |-> FALSE, confirmed |-> FALSE]
      BY <2>1 DEF reconcile
    <3>. QED
      BY <1>2, <3>1
  <2>2. ASSUME a \in join(pre, head, res) PROVE FALSE
    <3>1. \E x, y, z, w, o :
             a = [source |-> "official", riders |-> x, feature |-> y, start |-> z, result |-> w, outcomes |-> o,
                  dead_heat |-> "no", styled |-> TRUE, confirmed |-> FALSE]
      BY <2>2 DEF join
    <3>. QED
      BY <1>2, <3>1
  <2>. QED
    BY <2>1, <2>2 DEF Converted
<1>. QED
  BY <1>1, <1>2, ConvertedChecked DEF Supplied

\* Every record of a race_id that is in a partition passed the audit and the
\* review, and is in the partition its times call for.
LEMMA PartitionGuards ==
    ASSUME NEW given, NEW reviewed, NEW b, NEW i \in 1..Len(given),
           prepare(given, reviewed, b)[given[i].source] # "none"
    PROVE  /\ Audited(given[i]) /\ Reviewed(given[i], reviewed)
           /\ prepare(given, reviewed, b)[given[i].source] = Partition(given[i], b)
<1>. DEFINE id == given[i].source
            rec == Original(given, id)
<1>1. id \in {given[j].source : j \in 1..Len(given)} /\ i \in OfRace(given, id)
  BY DEF OfRace
<1>2. prepare(given, reviewed, b)[id] =
        IF Conflicting(given, id) \/ ~Audited(rec) \/ ~Reviewed(rec, reviewed) THEN "none"
        ELSE Partition(rec, b)
  BY <1>1 DEF prepare
<1>3. ~Conflicting(given, id) /\ Audited(rec) /\ Reviewed(rec, reviewed)
  BY <1>2
<1>4. given[i] = rec
  BY <1>1, <1>3 DEF Conflicting
<1>. QED
  BY <1>2, <1>3, <1>4

\* A record of the official pages tells the truth about the race.
LEMMA JoinedIsTrue ==
    ASSUME WorldOK, PagesInv, NEW rec, JoinChecked(rec, pre, head, res)
    PROVE  /\ finish # NoFinish /\ rec.outcomes = Payable(finish, 3)
           /\ rec.riders = Cars \ Withdrawn(finish)
           /\ rec.feature < starts[2] /\ starts[2] <= rec.result
<1>1. /\ res # None /\ res.result = finish /\ finish # NoFinish /\ FinishOK(finish)
      /\ PaidOK(res.trifecta)
  BY DEF JoinChecked, PagesInv, WorldOK
<1>2. PICK t \in res.trifecta : res.trifecta = {t} /\ \A i \in 1..3 : finish[t[i]].rank = i
  BY <1>1 DEF JoinChecked, PayoutsAgree
<1>3. t \in [1..3 -> Cars]
  BY <1>1, <1>2 DEF PaidOK, JoinChecked, PayoutsAgree, Ordered, Refund
<1>4. Payable(finish, 3) = {t}
  BY <1>1, <1>2, <1>3, PlacedIsPaid DEF JoinChecked
<1>. QED
  BY <1>1, <1>2, <1>4, JoinedTimes DEF JoinChecked

\* A record of the tables has the order the race was won in, if it has one.
LEMMA TableIsTrue ==
    ASSUME WorldOK, PagesInv, NEW rec, TableChecked(rec), Cardinality(rec.outcomes) = 1
    PROVE  finish # NoFinish /\ rec.outcomes = Payable(finish, 3) /\ rec.riders = Cars
<1>1. PICK t \in collect(tables) : normalize(t) /\ rec.outcomes = t.trifecta \ Refund
  BY DEF TableChecked
<1>2. PICK e \in tables :
         \E x, y : t = [held |-> e.held, card |-> e.card, result |-> e.result, trifecta |-> x, exacta |-> y]
  BY DEF collect
<1>3. t.held /\ CompetitionRanks(t.result) /\ settlement(t, 3, t.trifecta)
  BY <1>1 DEF normalize
<1>4. e.held /\ t.result = e.result
  BY <1>2, <1>3
<1>5. finish # NoFinish /\ t.result = finish /\ FinishOK(finish)
  BY <1>4 DEF PagesInv, WorldOK
<1>6. t.trifecta \ Refund = Payable(finish, 3)
  BY <1>1, <1>3, <1>5, SettledIsPaid
<1>. QED
  BY <1>1, <1>5, <1>6 DEF TableChecked

\* A partitioned record is true as far as its intake can know.
LEMMA RaceInvPartition == RaceInv => PartitionedIsTrue
<1>. SUFFICES ASSUME RaceInv, NEW b \in Boundaries, NEW i \in 1..Len(rows), NEW rec, rec = rows[i],
                     NEW part, part = prepare(rows, reviews, b)[rec.source], part # "none"
              PROVE  /\ finish # NoFinish /\ rec.outcomes = Payable(finish, 3)
                     /\ Cars \ Withdrawn(finish) \subseteq rec.riders
                     /\ rec.feature < rec.start /\ rec.start <= rec.result
                     /\ part = "train" => rec.result < b[1]
                     /\ part = "validation" => rec.result < b[2]
                     /\ rec.source = "official" =>
                           /\ rec.riders = Cars \ Withdrawn(finish)
                           /\ rec.feature < starts[2] /\ starts[2] <= rec.result
  BY DEF PartitionedIsTrue
<1>1. Audited(rec) /\ Reviewed(rec, reviews) /\ part = Partition(rec, b)
  BY PartitionGuards
<1>2. WorldOK /\ PagesInv /\ rec \in Supplied
  BY DEF RaceInv, RowsInv
<1>3. JoinChecked(rec, pre, head, res) \/ TableChecked(rec)
  BY <1>1, <1>2, ReviewedIsChecked
<1>4. rec.feature < rec.start /\ rec.start <= rec.result /\ Cardinality(rec.outcomes) = 1
  BY <1>1 DEF Audited, Reviewed
<1>5. (part = "train" => rec.result < b[1]) /\ (part = "validation" => rec.result < b[2])
  BY <1>1 DEF Partition
<1>6. CASE JoinChecked(rec, pre, head, res)
  BY <1>2, <1>4, <1>5, <1>6, JoinedIsTrue
<1>7. CASE TableChecked(rec)
  <2>1. finish # NoFinish /\ rec.outcomes = Payable(finish, 3) /\ rec.riders = Cars
    BY <1>2, <1>4, <1>7, TableIsTrue
  <2>2. rec.source # "official"
    BY <1>7 DEF TableChecked
  <2>. QED
    BY <1>4, <1>5, <2>1, <2>2
<1>. QED
  BY <1>3, <1>6, <1>7

\* prepare puts a race_id in a partition only with the order the race was won in
\* and all riders that started, whichever intake it comes from, whatever the
\* operator filled in and however many records of it there are; a record of the
\* official pages also has no other riders and times on the right sides of the
\* start.  For any number of cars, any start, any boundaries and attested times.
THEOREM PartitionsAreTrue == PrepSpec => []PartitionedIsTrue
<1>. QED
  BY RaceInvariant, RaceInvPartition, PTL

=============================================================================
