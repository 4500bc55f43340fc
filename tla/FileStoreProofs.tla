--------------------------- MODULE FileStoreProofs --------------------------
(***************************************************************************)
(* The two programs that keep their truth in one file each.                *)
(*                                                                         *)
(* AgentRunner, for any task, any number of processes and any number of    *)
(* crashes and reconciliations.  RunnerInv is inductive: the lock leaves   *)
(* one running process, whose copy is the state file, and the attempts on  *)
(* record account for every call and every effect.                         *)
(*                                                                         *)
(* The workbench, for any rider counts, outcomes and limits, any number of *)
(* requests, failed saves, crashes, restarts and files put back by hand.   *)
(***************************************************************************)
EXTENDS LocalRunner, Workbench, FiniteSetTheorems, TLAPS


\* Where run is while it works on one step.
OnStep == {"attempt", "invoke", "refused", "failed", "save", "verify", "complete"}
Pcs == {"idle", "entered", "next"} \cup OnStep

\* The types of the state file, of the processes and of the histories.
RunnerTypeOK ==
    /\ disk \in TaskState
    /\ lock \in Processes \cup {Nobody}
    /\ proc \in [Processes -> [pc : Pcs, step : 0..N, mem : TaskState]]
    /\ applied \in [Steps -> Nat]
    /\ invoked \in [Steps -> Nat]
    /\ approved \in [Steps -> Nat]
    /\ confirmed \subseteq Steps
    /\ decisions \in Nat

\* Calls that earlier decisions allowed and a reset took off the record.
Written(s) == MaxAttempts[s] * approved[s]

\* A running process holds the lock, so its copy is never stale.
OneRunner ==
    \A p \in Processes : proc[p].pc # "idle" =>
        /\ lock = p
        /\ proc[p].mem.completed = disk.completed
        /\ proc[p].mem.attempts = disk.attempts

\* The step in hand is the only one whose outcome can be unknown.
OneStepInDoubt ==
    \A p \in Processes :
        /\ proc[p].pc = "next" => Unresolved(disk) = {}
        /\ proc[p].pc \in OnStep =>
              /\ Step(p) \in Steps \ disk.completed
              /\ Unresolved(disk) \subseteq {Step(p)}

\* No more attempts on record than allowed; one is left at the top of the loop.
AttemptsBounded ==
    /\ \A s \in Steps : disk.attempts[s] <= MaxAttempts[s]
    /\ \A p \in Processes : proc[p].pc = "attempt" =>
          disk.attempts[Step(p)] < MaxAttempts[Step(p)]

\* An attempt is on record for every effect and every call, and one more
\* between BeginAttempt and Invoke.
AttemptsCover ==
    /\ \A s \in Steps :
          /\ applied[s] <= disk.attempts[s]
          /\ invoked[s] <= Written(s) + disk.attempts[s]
    /\ \A p \in Processes : proc[p].pc = "invoke" =>
          /\ applied[Step(p)] < disk.attempts[Step(p)]
          /\ invoked[Step(p)] < Written(Step(p)) + disk.attempts[Step(p)]

\* A step about to be completed took effect and was verified.
SuccessIsReal ==
    \A p \in Processes :
        /\ proc[p].pc \in {"save", "verify", "complete"} => applied[Step(p)] > 0
        /\ proc[p].pc = "complete" /\ Step(p) \in HasVerifier => Step(p) \in confirmed

\* The inductive invariant.
RunnerInv ==
    /\ RunnerTypeOK
    /\ OneRunner
    /\ OneStepInDoubt
    /\ AttemptsBounded
    /\ AttemptsCover
    /\ SuccessIsReal
    /\ CompletedIsReal

-----------------------------------------------------------------------------

\* What a product of two naturals is, and what one more decision adds to it.
LEMMA WrittenGrows ==
    ASSUME NEW m \in Nat, NEW a \in Nat
    PROVE  /\ m * a \in Nat
           /\ m * (a + 1) = m * a + m
           /\ m * (1 + a) = m * a + m
OBVIOUS

\* The calls taken off the record are a natural number.
LEMMA WrittenTyped ==
    ASSUME RunnerTypeOK, NEW s \in Steps
    PROVE  Written(s) \in Nat
BY RunnerAssumption, WrittenGrows DEF Written, RunnerTypeOK

\* Save: the file and the process's copy are the state, and nobody else moves.
LEMMA SaveShape ==
    ASSUME RunnerTypeOK, NEW p \in Processes, NEW state \in TaskState, NEW pc \in Pcs,
           Save(p, state, pc)
    PROVE  /\ disk' \in TaskState
           /\ disk'.completed = state.completed
           /\ disk'.attempts = state.attempts
           /\ proc' \in [Processes -> [pc : Pcs, step : 0..N, mem : TaskState]]
           /\ proc'[p] = [pc |-> pc, step |-> proc[p].step, mem |-> disk']
           /\ \A q \in Processes \ {p} : proc'[q] = proc[q]
<1>1. /\ disk' \in TaskState
      /\ disk'.completed = state.completed
      /\ disk'.attempts = state.attempts
  BY DEF Save, TaskState
<1>2. proc'[p] = [pc |-> pc, step |-> proc[p].step, mem |-> disk']
  <2>1. proc[p] = [pc |-> proc[p].pc, step |-> proc[p].step, mem |-> proc[p].mem]
    BY DEF RunnerTypeOK
  <2>2. proc'[p] = [proc[p] EXCEPT !.mem = disk', !.pc = pc]
    BY DEF Save, RunnerTypeOK
  <2>. QED
    BY <2>1, <2>2
<1>3. /\ \A q \in Processes \ {p} : proc'[q] = proc[q]
      /\ proc' = [q \in Processes |-> proc'[q]]
  BY DEF Save, RunnerTypeOK
<1>. QED
  BY <1>1, <1>2, <1>3 DEF RunnerTypeOK

\* The lock: while p runs, every other process is outside run.
LEMMA OthersIdle ==
    ASSUME OneRunner, NEW p \in Processes, proc[p].pc # "idle",
           NEW q \in Processes \ {p}
    PROVE  proc[q].pc = "idle"
BY DEF OneRunner

\* The initial state.
LEMMA RunnerInitInv == RunnerInit => RunnerInv
<1>. SUFFICES ASSUME RunnerInit PROVE RunnerInv
  OBVIOUS
<1>1. NewState \in TaskState /\ [NewState EXCEPT !.exists = TRUE] \in TaskState
  BY RunnerAssumption DEF NewState, TaskState, TaskStatus
<1>2. /\ disk.completed = {}
      /\ disk.attempts = [s \in Steps |-> 0]
  BY DEF RunnerInit, NewState
<1>3. RunnerTypeOK
  <2>1. "idle" \in Pcs /\ 0 \in 0..N
    BY RunnerAssumption DEF Pcs
  <2>2. proc \in [Processes -> [pc : Pcs, step : 0..N, mem : TaskState]]
    BY <1>1, <2>1 DEF RunnerInit
  <2>. QED
    BY <1>1, <2>2 DEF RunnerInit, RunnerTypeOK
<1>4. \A p \in Processes : proc[p].pc = "idle"
  BY DEF RunnerInit
<1>5. OneRunner /\ OneStepInDoubt /\ SuccessIsReal /\ CompletedIsReal
  BY <1>2, <1>4 DEF OneRunner, OneStepInDoubt, SuccessIsReal, CompletedIsReal, OnStep
<1>6. \A s \in Steps : Written(s) \in Nat
  BY <1>3, WrittenTyped
<1>7. AttemptsBounded /\ AttemptsCover
  BY <1>2, <1>4, <1>6, RunnerAssumption DEF RunnerInit, AttemptsBounded, AttemptsCover
<1>. QED
  BY <1>3, <1>5, <1>7 DEF RunnerInv

\* A save that changes neither attempts nor completed steps, after which run is
\* at pc with nothing more to show there.
LEMMA QuietSave ==
    ASSUME RunnerInv, NEW p \in Processes, proc[p].pc # "idle",
           NEW state \in TaskState, NEW pc \in {"idle", "entered"},
           Save(p, state, pc),
           state.completed = proc[p].mem.completed,
           state.attempts = proc[p].mem.attempts,
           lock' = IF pc = "idle" THEN Nobody ELSE lock,
           UNCHANGED history
    PROVE  RunnerInv'
<1>1. /\ disk' \in TaskState
      /\ disk'.completed = state.completed
      /\ disk'.attempts = state.attempts
      /\ proc' \in [Processes -> [pc : Pcs, step : 0..N, mem : TaskState]]
      /\ proc'[p] = [pc |-> pc, step |-> proc[p].step, mem |-> disk']
      /\ \A q \in Processes \ {p} : proc'[q] = proc[q]
  BY SaveShape DEF RunnerInv, Pcs
<1>2. disk'.completed = disk.completed /\ disk'.attempts = disk.attempts
  BY <1>1 DEF RunnerInv, OneRunner
<1>3. \A q \in Processes \ {p} : proc'[q].pc = "idle"
  BY <1>1, OthersIdle DEF RunnerInv
<1>4. RunnerTypeOK'
  BY <1>1 DEF RunnerInv, RunnerTypeOK, history
<1>5. \A s \in Steps : Written(s)' = Written(s)
  BY DEF Written, history
<1>6. OneRunner'
  BY <1>1, <1>3 DEF OneRunner, RunnerInv
<1>7. OneStepInDoubt' /\ SuccessIsReal'
  BY <1>1, <1>3 DEF OneStepInDoubt, SuccessIsReal, OnStep
<1>8. AttemptsBounded' /\ AttemptsCover'
  BY <1>1, <1>2, <1>3, <1>5 DEF AttemptsBounded, AttemptsCover, RunnerInv, history
<1>9. CompletedIsReal'
  BY <1>2 DEF CompletedIsReal, RunnerInv, history
<1>. QED
  BY <1>4, <1>6, <1>7, <1>8, <1>9 DEF RunnerInv

\* Every way of returning with a saved status preserves the invariant.
LEMMA ReturnInv ==
    ASSUME RunnerInv, NEW p \in Processes, proc[p].pc # "idle",
           NEW status \in TaskStatus, SaveAndReturn(p, status)
    PROVE  RunnerInv'
<1>1. proc[p].mem \in TaskState
  BY DEF RunnerInv, RunnerTypeOK
<1>. DEFINE state == [proc[p].mem EXCEPT !.status = status]
<1>2. /\ state \in TaskState
      /\ state.completed = proc[p].mem.completed
      /\ state.attempts = proc[p].mem.attempts
  BY <1>1 DEF TaskState
<1>3. Save(p, state, "idle") /\ lock' = Nobody /\ UNCHANGED history
  BY DEF SaveAndReturn
<1>. HIDE DEF state
<1>. QED
  BY <1>2, <1>3, QuietSave

\* Leaving run without a save: a resume that is skipped, or a crash.
LEMMA LeaveInv ==
    ASSUME RunnerInv, NEW p \in Processes, proc[p].pc # "idle",
           proc' = [proc EXCEPT ![p].pc = "idle"],
           lock' \in {lock, Nobody},
           UNCHANGED <<disk, history>>
    PROVE  RunnerInv'
<1>1. /\ proc' \in [Processes -> [pc : Pcs, step : 0..N, mem : TaskState]]
      /\ proc'[p].pc = "idle"
      /\ \A q \in Processes \ {p} : proc'[q] = proc[q]
  <2>1. "idle" \in Pcs
    BY DEF Pcs
  <2>. QED
    BY <2>1 DEF RunnerInv, RunnerTypeOK
<1>2. \A q \in Processes : proc'[q].pc = "idle"
  BY <1>1, OthersIdle DEF RunnerInv
<1>3. RunnerTypeOK'
  BY <1>1 DEF RunnerInv, RunnerTypeOK, history
<1>4. \A s \in Steps : Written(s)' = Written(s)
  BY DEF Written, history
<1>5. OneRunner' /\ OneStepInDoubt' /\ SuccessIsReal'
  BY <1>2 DEF OneRunner, OneStepInDoubt, SuccessIsReal, OnStep
<1>6. AttemptsBounded' /\ AttemptsCover'
  BY <1>2, <1>4 DEF AttemptsBounded, AttemptsCover, RunnerInv, history
<1>7. CompletedIsReal'
  BY DEF CompletedIsReal, RunnerInv, history
<1>. QED
  BY <1>3, <1>5, <1>6, <1>7 DEF RunnerInv

-----------------------------------------------------------------------------
(* One lemma per step of run that goes on *)

\* Acquire: the lock was free, and the copy is read under it.
LEMMA AcquireInv ==
    ASSUME RunnerInv, NEW p \in Processes, NEW spec \in Specs, Acquire(p, spec)
    PROVE  RunnerInv'
<1>. DEFINE given == [disk EXCEPT !.spec = spec]
<1>1. /\ given \in TaskState
      /\ given.completed = disk.completed
      /\ given.attempts = disk.attempts
  BY DEF RunnerInv, RunnerTypeOK, TaskState
<1>2. /\ proc' = [proc EXCEPT ![p] = [pc |-> "entered", step |-> 0, mem |-> given]]
      /\ lock = Nobody /\ lock' = p /\ UNCHANGED <<disk, history>>
  BY DEF Acquire
<1>. HIDE DEF given
<1>3. "entered" \in Pcs /\ 0 \in 0..N
  BY RunnerAssumption DEF Pcs
<1>4. /\ proc'[p] = [pc |-> "entered", step |-> 0, mem |-> given]
      /\ proc' \in [Processes -> [pc : Pcs, step : 0..N, mem : TaskState]]
      /\ \A q \in Processes \ {p} : proc'[q] = proc[q]
  BY <1>1, <1>2, <1>3 DEF RunnerInv, RunnerTypeOK
<1>5. \A q \in Processes \ {p} : proc'[q].pc = "idle"
  BY <1>2, <1>4, RunnerAssumption DEF RunnerInv, OneRunner
<1>6. RunnerTypeOK'
  BY <1>2, <1>4 DEF RunnerInv, RunnerTypeOK, history
<1>7. OneRunner'
  BY <1>1, <1>2, <1>4, <1>5 DEF OneRunner
<1>8. OneStepInDoubt' /\ SuccessIsReal'
  BY <1>4, <1>5 DEF OneStepInDoubt, SuccessIsReal, OnStep
<1>9. \A s \in Steps : Written(s)' = Written(s)
  BY <1>2 DEF Written, history
<1>10. AttemptsBounded' /\ AttemptsCover'
  BY <1>2, <1>4, <1>5, <1>9 DEF AttemptsBounded, AttemptsCover, RunnerInv, history
<1>11. CompletedIsReal'
  BY <1>2 DEF CompletedIsReal, RunnerInv, history
<1>. QED
  BY <1>6, <1>7, <1>8, <1>10, <1>11 DEF RunnerInv

\* BindSpec: the copy, bound to the spec, becomes the file.
LEMMA BindSpecInv ==
    ASSUME RunnerInv, NEW p \in Processes, BindSpec(p)
    PROVE  RunnerInv'
<1>1. proc[p].mem \in TaskState
  BY DEF RunnerInv, RunnerTypeOK
<1>2. proc[p].pc # "idle" /\ Save(p, proc[p].mem, "entered") /\ UNCHANGED <<lock, history>>
  BY DEF BindSpec
<1>. QED
  BY <1>1, <1>2, QuietSave

\* Begin: nothing is in doubt when the loop starts.
LEMMA BeginInv ==
    ASSUME RunnerInv, NEW p \in Processes, Begin(p)
    PROVE  RunnerInv'
<1>. DEFINE state == [proc[p].mem EXCEPT !.status = "running"]
<1>1. /\ state \in TaskState
      /\ state.completed = proc[p].mem.completed
      /\ state.attempts = proc[p].mem.attempts
  BY DEF RunnerInv, RunnerTypeOK, TaskState, TaskStatus
<1>2. /\ proc[p].pc # "idle" /\ Unresolved(proc[p].mem) = {}
      /\ Save(p, state, "next") /\ UNCHANGED <<lock, history>>
  BY DEF Begin, Entered
<1>. HIDE DEF state
<1>3. "next" \in Pcs
  BY DEF Pcs
<1>4. /\ disk' \in TaskState
      /\ disk'.completed = state.completed
      /\ disk'.attempts = state.attempts
      /\ proc' \in [Processes -> [pc : Pcs, step : 0..N, mem : TaskState]]
      /\ proc'[p] = [pc |-> "next", step |-> proc[p].step, mem |-> disk']
      /\ \A q \in Processes \ {p} : proc'[q] = proc[q]
  BY <1>1, <1>2, <1>3, SaveShape DEF RunnerInv
<1>5. \A q \in Processes \ {p} : proc'[q].pc = "idle"
  BY <1>2, <1>4, OthersIdle DEF RunnerInv
<1>6. /\ disk'.completed = disk.completed /\ disk'.attempts = disk.attempts
      /\ Unresolved(disk') = {}
  BY <1>1, <1>2, <1>4 DEF RunnerInv, OneRunner, Unresolved
<1>7. RunnerTypeOK'
  BY <1>2, <1>4 DEF RunnerInv, RunnerTypeOK, history
<1>8. OneRunner'
  BY <1>2, <1>4, <1>5 DEF OneRunner, RunnerInv
<1>9. OneStepInDoubt' /\ SuccessIsReal'
  BY <1>4, <1>5, <1>6 DEF OneStepInDoubt, SuccessIsReal, OnStep
<1>10. \A s \in Steps : Written(s)' = Written(s)
  BY <1>2 DEF Written, history
<1>11. AttemptsBounded' /\ AttemptsCover'
  BY <1>2, <1>4, <1>5, <1>6, <1>10 DEF AttemptsBounded, AttemptsCover, RunnerInv, history
<1>12. CompletedIsReal'
  BY <1>2, <1>6 DEF CompletedIsReal, RunnerInv, history
<1>. QED
  BY <1>7, <1>8, <1>9, <1>11, <1>12 DEF RunnerInv

\* TakeStep: a step that is not completed has no attempt on record, so one is left.
LEMMA TakeStepInv ==
    ASSUME RunnerInv, NEW p \in Processes, NEW s \in Steps, TakeStep(p, s)
    PROVE  RunnerInv'
<1>1. proc[p].pc = "next" /\ s \in Steps \ disk.completed
  BY DEF TakeStep, IsNext, Remaining, RunnerInv, OneRunner
<1>2. CASE s \in Unregistered[p]
  BY <1>1, <1>2, ReturnInv DEF TakeStep, TaskStatus
<1>3. CASE s \notin Unregistered[p]
  <2>1. /\ proc' = [proc EXCEPT ![p].pc = "attempt", ![p].step = s]
        /\ UNCHANGED <<disk, lock, history>>
    BY <1>3 DEF TakeStep
  <2>2. "attempt" \in Pcs /\ s \in 0..N
    BY RunnerAssumption DEF Pcs, OnStep, Steps
  <2>3. /\ proc' \in [Processes -> [pc : Pcs, step : 0..N, mem : TaskState]]
        /\ proc'[p].pc = "attempt" /\ proc'[p].step = s /\ proc'[p].mem = proc[p].mem
        /\ \A q \in Processes \ {p} : proc'[q] = proc[q]
    BY <2>1, <2>2 DEF RunnerInv, RunnerTypeOK
  <2>4. \A q \in Processes \ {p} : proc'[q].pc = "idle"
    BY <1>1, <2>3, OthersIdle DEF RunnerInv
  <2>5. Unresolved(disk') = {} /\ disk.attempts[s] = 0
    <3>1. Unresolved(disk) = {}
      BY <1>1 DEF RunnerInv, OneStepInDoubt
    <3>2. disk.attempts[s] \in Nat
      BY DEF RunnerInv, RunnerTypeOK, TaskState
    <3>. QED
      BY <1>1, <2>1, <3>1, <3>2 DEF Unresolved
  <2>6. RunnerTypeOK'
    BY <2>1, <2>3 DEF RunnerInv, RunnerTypeOK, history
  <2>7. OneRunner'
    BY <1>1, <2>1, <2>3, <2>4 DEF OneRunner, RunnerInv
  <2>8. OneStepInDoubt' /\ SuccessIsReal'
    BY <1>1, <2>1, <2>3, <2>4, <2>5 DEF OneStepInDoubt, SuccessIsReal, OnStep, Step
  <2>9. \A r \in Steps : Written(r)' = Written(r)
    BY <2>1 DEF Written, history
  <2>10. AttemptsBounded'
    BY <2>1, <2>3, <2>4, <2>5, RunnerAssumption DEF AttemptsBounded, RunnerInv, Step
  <2>11. AttemptsCover'
    BY <2>1, <2>3, <2>4, <2>9 DEF AttemptsCover, RunnerInv, history
  <2>12. CompletedIsReal'
    BY <2>1 DEF CompletedIsReal, RunnerInv, history
  <2>. QED
    BY <2>6, <2>7, <2>8, <2>10, <2>11, <2>12 DEF RunnerInv
<1>. QED
  BY <1>2, <1>3

\* BeginAttempt: the record is one attempt ahead of the calls before the call.
LEMMA BeginAttemptInv ==
    ASSUME RunnerInv, NEW p \in Processes, BeginAttempt(p)
    PROVE  RunnerInv'
<1>0. PICK s \in Steps \ disk.completed : s = Step(p)
  BY DEF BeginAttempt, Attempting, RunnerInv, OneStepInDoubt, OnStep
<1>. DEFINE state == [proc[p].mem EXCEPT !.attempts[s] = @ + 1]
<1>1. proc[p].pc = "attempt" /\ Save(p, state, "invoke") /\ UNCHANGED <<lock, history>>
  BY <1>0 DEF BeginAttempt, Attempting
<1>2. Unresolved(disk) \subseteq {s} /\ disk.attempts[s] < MaxAttempts[s]
  BY <1>0, <1>1 DEF RunnerInv, OneStepInDoubt, AttemptsBounded, OnStep
<1>3. /\ state \in TaskState
      /\ state.completed = disk.completed
      /\ state.attempts = [disk.attempts EXCEPT ![s] = @ + 1]
  <2>1. /\ proc[p].mem \in TaskState
        /\ proc[p].mem.completed = disk.completed
        /\ proc[p].mem.attempts = disk.attempts
    BY <1>1 DEF RunnerInv, RunnerTypeOK, OneRunner
  <2>2. state.attempts = [proc[p].mem.attempts EXCEPT ![s] = @ + 1]
    BY <2>1 DEF TaskState
  <2>. QED
    BY <2>1, <2>2 DEF TaskState
<1>. HIDE DEF state
<1>4. "invoke" \in Pcs
  BY DEF Pcs, OnStep
<1>5. /\ disk' \in TaskState
      /\ disk'.completed = state.completed
      /\ disk'.attempts = state.attempts
      /\ proc' \in [Processes -> [pc : Pcs, step : 0..N, mem : TaskState]]
      /\ proc'[p] = [pc |-> "invoke", step |-> proc[p].step, mem |-> disk']
      /\ \A q \in Processes \ {p} : proc'[q] = proc[q]
  BY <1>1, <1>3, <1>4, SaveShape DEF RunnerInv
<1>6. \A q \in Processes \ {p} : proc'[q].pc = "idle"
  BY <1>1, <1>5, OthersIdle DEF RunnerInv
<1>7. /\ disk.attempts \in [Steps -> Nat]
      /\ disk'.attempts[s] = disk.attempts[s] + 1
      /\ \A r \in Steps \ {s} : disk'.attempts[r] = disk.attempts[r]
  BY <1>2, <1>3, <1>5 DEF RunnerInv, RunnerTypeOK, TaskState
<1>8. RunnerTypeOK'
  BY <1>1, <1>5 DEF RunnerInv, RunnerTypeOK, history
<1>9. OneRunner'
  BY <1>1, <1>5, <1>6 DEF OneRunner, RunnerInv
<1>10. OneStepInDoubt' /\ SuccessIsReal'
  <2>1. Unresolved(disk') \subseteq {s}
    BY <1>2, <1>3, <1>5, <1>7 DEF Unresolved
  <2>. QED
    BY <1>0, <1>3, <1>5, <1>6, <2>1 DEF OneStepInDoubt, SuccessIsReal, OnStep, Step
<1>11. \A r \in Steps : Written(r)' = Written(r) /\ Written(r) \in Nat
  BY <1>1, WrittenTyped DEF Written, history, RunnerInv
<1>12. AttemptsBounded'
  <2>1. \A r \in Steps : MaxAttempts[r] \in Nat
    BY RunnerAssumption
  <2>. QED
    BY <1>2, <1>5, <1>6, <1>7, <2>1 DEF AttemptsBounded, RunnerInv
<1>13. AttemptsCover'
  <2>1. \A r \in Steps : applied[r] \in Nat /\ invoked[r] \in Nat
    BY DEF RunnerInv, RunnerTypeOK
  <2>2. \A r \in Steps :
           /\ applied[r] <= disk.attempts[r] /\ disk.attempts[r] \in Nat
           /\ invoked[r] <= Written(r) + disk.attempts[r]
    BY <1>7 DEF RunnerInv, AttemptsCover
  <2>3. applied' = applied /\ invoked' = invoked
    BY <1>1 DEF history
  <2>4. \A r \in Steps :
           /\ applied'[r] <= disk'.attempts[r]
           /\ invoked'[r] <= Written(r)' + disk'.attempts[r]
    BY <1>7, <1>11, <2>1, <2>2, <2>3
  <2>5. /\ applied'[s] < disk'.attempts[s]
        /\ invoked'[s] < Written(s)' + disk'.attempts[s]
    BY <1>2, <1>7, <1>11, <2>1, <2>2, <2>3
  <2>6. \A q \in Processes : proc'[q].pc = "invoke" => Step(q)' = s
    BY <1>0, <1>5, <1>6 DEF Step
  <2>. QED
    BY <1>0, <2>4, <2>5, <2>6 DEF AttemptsCover, Written
<1>14. CompletedIsReal'
  BY <1>1, <1>3, <1>5 DEF CompletedIsReal, RunnerInv, history
<1>. QED
  BY <1>8, <1>9, <1>10, <1>12, <1>13, <1>14 DEF RunnerInv

\* Invoke: the attempt on record pays for the call and its possible effect.
LEMMA InvokeInv ==
    ASSUME RunnerInv, NEW p \in Processes, Invoke(p)
    PROVE  RunnerInv'
<1>. DEFINE s == Step(p)
<1>1. PICK outcome \in {"save", "refused", "failed"}, effect \in {0, 1} :
        /\ proc' = [proc EXCEPT ![p].pc = outcome]
        /\ applied' = [applied EXCEPT ![s] = @ + effect]
        /\ outcome = "save" => effect = 1
  BY DEF Invoke
<1>2. /\ proc[p].pc = "invoke"
      /\ invoked' = [invoked EXCEPT ![s] = @ + 1]
      /\ confirmed' = confirmed \ {s}
      /\ UNCHANGED <<disk, lock, approved, decisions>>
  BY DEF Invoke, Attempting
<1>3. /\ s \in Steps \ disk.completed /\ Unresolved(disk) \subseteq {s}
      /\ applied[s] < disk.attempts[s]
      /\ invoked[s] < Written(s) + disk.attempts[s]
  BY <1>2 DEF RunnerInv, OneStepInDoubt, AttemptsCover, OnStep
<1>. HIDE DEF s
<1>4. outcome \in Pcs /\ outcome \in OnStep
  BY DEF Pcs, OnStep
<1>5. /\ proc' \in [Processes -> [pc : Pcs, step : 0..N, mem : TaskState]]
      /\ proc'[p].pc = outcome /\ proc'[p].mem = proc[p].mem
      /\ proc'[p].step = proc[p].step
      /\ \A q \in Processes \ {p} : proc'[q] = proc[q]
  BY <1>1, <1>4 DEF RunnerInv, RunnerTypeOK
<1>6. \A q \in Processes \ {p} : proc'[q].pc = "idle"
  BY <1>2, <1>5, OthersIdle DEF RunnerInv
<1>7. /\ applied \in [Steps -> Nat] /\ invoked \in [Steps -> Nat]
      /\ applied' \in [Steps -> Nat] /\ invoked' \in [Steps -> Nat]
      /\ applied'[s] = applied[s] + effect /\ invoked'[s] = invoked[s] + 1
      /\ \A r \in Steps \ {s} : applied'[r] = applied[r] /\ invoked'[r] = invoked[r]
  BY <1>1, <1>2, <1>3 DEF RunnerInv, RunnerTypeOK
<1>8. disk.attempts \in [Steps -> Nat]
  BY DEF RunnerInv, RunnerTypeOK, TaskState
<1>9. RunnerTypeOK'
  BY <1>2, <1>5, <1>7 DEF RunnerInv, RunnerTypeOK
<1>10. OneRunner'
  BY <1>2, <1>5, <1>6 DEF OneRunner, RunnerInv
<1>11. OneStepInDoubt'
  BY <1>2, <1>3, <1>4, <1>5, <1>6 DEF OneStepInDoubt, OnStep, Step, s
<1>12. AttemptsBounded'
  BY <1>2, <1>5, <1>6 DEF AttemptsBounded, RunnerInv
<1>13. AttemptsCover'
  <2>1. \A r \in Steps : Written(r)' = Written(r) /\ Written(r) \in Nat
    BY <1>2, WrittenTyped DEF Written, RunnerInv
  <2>2. \A r \in Steps :
           /\ applied[r] <= disk.attempts[r]
           /\ invoked[r] <= Written(r) + disk.attempts[r]
    BY DEF RunnerInv, AttemptsCover
  <2>3. \A r \in Steps :
           /\ applied'[r] <= disk.attempts[r]
           /\ invoked'[r] <= Written(r) + disk.attempts[r]
    BY <1>3, <1>7, <1>8, <2>1, <2>2
  <2>4. \A q \in Processes : proc'[q].pc # "invoke"
    BY <1>5, <1>6
  <2>. QED
    BY <1>2, <2>1, <2>3, <2>4 DEF AttemptsCover
<1>14. SuccessIsReal'
  BY <1>1, <1>3, <1>5, <1>6, <1>7 DEF SuccessIsReal, Step, s
<1>15. CompletedIsReal'
  BY <1>2, <1>3, <1>7 DEF CompletedIsReal, RunnerInv, RunnerTypeOK, TaskState
<1>. QED
  BY <1>9, <1>10, <1>11, <1>12, <1>13, <1>14, <1>15 DEF RunnerInv

\* Failed: a retry is allowed only while an attempt is left.
LEMMA FailedInv ==
    ASSUME RunnerInv, NEW p \in Processes, Failed(p)
    PROVE  RunnerInv'
<1>1. proc[p].pc = "failed"
  BY DEF Failed, Attempting
<1>2. CASE \E status \in TaskStatus : SaveAndReturn(p, status)
  BY <1>1, <1>2, ReturnInv
<1>3. CASE /\ proc[p].mem.attempts[Step(p)] < MaxAttempts[Step(p)]
           /\ proc' = [proc EXCEPT ![p].pc = "attempt"]
           /\ UNCHANGED <<disk, lock, history>>
  <2>1. "attempt" \in Pcs
    BY DEF Pcs, OnStep
  <2>2. /\ proc' \in [Processes -> [pc : Pcs, step : 0..N, mem : TaskState]]
        /\ proc'[p].pc = "attempt" /\ proc'[p].mem = proc[p].mem
        /\ proc'[p].step = proc[p].step
        /\ \A q \in Processes \ {p} : proc'[q] = proc[q]
    BY <1>3, <2>1 DEF RunnerInv, RunnerTypeOK
  <2>3. \A q \in Processes \ {p} : proc'[q].pc = "idle"
    BY <1>1, <2>2, OthersIdle DEF RunnerInv
  <2>4. RunnerTypeOK'
    BY <1>3, <2>2 DEF RunnerInv, RunnerTypeOK, history
  <2>5. OneRunner'
    BY <1>1, <1>3, <2>2, <2>3 DEF OneRunner, RunnerInv
  <2>6. OneStepInDoubt' /\ SuccessIsReal'
    BY <1>1, <1>3, <2>2, <2>3 DEF OneStepInDoubt, SuccessIsReal, OnStep, Step, RunnerInv
  <2>7. AttemptsBounded'
    BY <1>1, <1>3, <2>2, <2>3 DEF AttemptsBounded, RunnerInv, OneRunner, Step
  <2>8. \A r \in Steps : Written(r)' = Written(r)
    BY <1>3 DEF Written, history
  <2>9. AttemptsCover'
    BY <1>3, <2>2, <2>3, <2>8 DEF AttemptsCover, RunnerInv, history
  <2>10. CompletedIsReal'
    BY <1>3 DEF CompletedIsReal, RunnerInv, history
  <2>. QED
    BY <2>4, <2>5, <2>6, <2>7, <2>9, <2>10 DEF RunnerInv
<1>4. Step(p) \in Steps /\ proc[p].mem.attempts[Step(p)] \in Nat /\ MaxAttempts[Step(p)] \in Nat
  BY <1>1, RunnerAssumption DEF RunnerInv, RunnerTypeOK, TaskState, OneStepInDoubt, OnStep
<1>. QED
  BY <1>2, <1>3, <1>4 DEF Failed, TaskStatus

\* SaveResult: the artifacts are saved, the effect has taken place.
LEMMA SaveResultInv ==
    ASSUME RunnerInv, NEW p \in Processes, SaveResult(p)
    PROVE  RunnerInv'
<1>1. PICK pc \in {"verify", "complete"} :
         /\ proc[p].pc = "save" /\ Save(p, proc[p].mem, pc) /\ UNCHANGED <<lock, history>>
         /\ pc = "complete" => Step(p) \notin HasVerifier
  BY DEF SaveResult, Attempting
<1>2. pc \in Pcs /\ pc \in OnStep
  BY DEF Pcs, OnStep
<1>3. proc[p].mem \in TaskState
  BY DEF RunnerInv, RunnerTypeOK
<1>4. /\ disk' \in TaskState
      /\ disk'.completed = proc[p].mem.completed
      /\ disk'.attempts = proc[p].mem.attempts
      /\ proc' \in [Processes -> [pc : Pcs, step : 0..N, mem : TaskState]]
      /\ proc'[p] = [pc |-> pc, step |-> proc[p].step, mem |-> disk']
      /\ \A q \in Processes \ {p} : proc'[q] = proc[q]
  BY <1>1, <1>2, <1>3, SaveShape DEF RunnerInv
<1>5. \A q \in Processes \ {p} : proc'[q].pc = "idle"
  BY <1>1, <1>4, OthersIdle DEF RunnerInv
<1>6. /\ disk'.completed = disk.completed /\ disk'.attempts = disk.attempts
      /\ Unresolved(disk') = Unresolved(disk)
  BY <1>1, <1>4 DEF RunnerInv, OneRunner, Unresolved
<1>7. RunnerTypeOK'
  BY <1>1, <1>4 DEF RunnerInv, RunnerTypeOK, history
<1>8. OneRunner'
  BY <1>1, <1>4, <1>5 DEF OneRunner, RunnerInv
<1>9. OneStepInDoubt'
  BY <1>1, <1>4, <1>5, <1>6 DEF OneStepInDoubt, OnStep, Step, RunnerInv
<1>10. SuccessIsReal'
  BY <1>1, <1>4, <1>5 DEF SuccessIsReal, Step, RunnerInv, history
<1>11. \A r \in Steps : Written(r)' = Written(r)
  BY <1>1 DEF Written, history
<1>12. AttemptsBounded' /\ AttemptsCover'
  BY <1>1, <1>4, <1>5, <1>6, <1>11 DEF AttemptsBounded, AttemptsCover, RunnerInv, history
<1>13. CompletedIsReal'
  BY <1>1, <1>6 DEF CompletedIsReal, RunnerInv, history
<1>. QED
  BY <1>7, <1>8, <1>9, <1>10, <1>12, <1>13 DEF RunnerInv

\* Verify: the verifier confirms the step in hand, or run returns.
LEMMA VerifyInv ==
    ASSUME RunnerInv, NEW p \in Processes, Verify(p)
    PROVE  RunnerInv'
<1>1. proc[p].pc = "verify"
  BY DEF Verify, Attempting
<1>2. CASE SaveAndReturn(p, "blocked")
  BY <1>1, <1>2, ReturnInv DEF TaskStatus
<1>3. CASE /\ confirmed' = confirmed \cup {Step(p)}
           /\ proc' = [proc EXCEPT ![p].pc = "complete"]
           /\ UNCHANGED <<disk, lock, applied, invoked, approved, decisions>>
  <2>1. "complete" \in Pcs /\ Step(p) \in Steps
    BY <1>1 DEF Pcs, OnStep, RunnerInv, OneStepInDoubt
  <2>2. /\ proc' \in [Processes -> [pc : Pcs, step : 0..N, mem : TaskState]]
        /\ proc'[p].pc = "complete" /\ proc'[p].mem = proc[p].mem
        /\ proc'[p].step = proc[p].step
        /\ \A q \in Processes \ {p} : proc'[q] = proc[q]
    BY <1>3, <2>1 DEF RunnerInv, RunnerTypeOK
  <2>3. \A q \in Processes \ {p} : proc'[q].pc = "idle"
    BY <1>1, <2>2, OthersIdle DEF RunnerInv
  <2>4. RunnerTypeOK'
    BY <1>3, <2>1, <2>2 DEF RunnerInv, RunnerTypeOK
  <2>5. OneRunner'
    BY <1>1, <1>3, <2>2, <2>3 DEF OneRunner, RunnerInv
  <2>6. OneStepInDoubt' /\ SuccessIsReal'
    BY <1>1, <1>3, <2>2, <2>3 DEF OneStepInDoubt, SuccessIsReal, OnStep, Step, RunnerInv
  <2>7. \A r \in Steps : Written(r)' = Written(r)
    BY <1>3 DEF Written
  <2>8. AttemptsBounded' /\ AttemptsCover'
    BY <1>3, <2>2, <2>3, <2>7 DEF AttemptsBounded, AttemptsCover, RunnerInv
  <2>9. CompletedIsReal'
    BY <1>3 DEF CompletedIsReal, RunnerInv
  <2>. QED
    BY <2>4, <2>5, <2>6, <2>8, <2>9 DEF RunnerInv
<1>. QED
  BY <1>2, <1>3 DEF Verify

\* CompleteStep: the step in doubt is settled, and it is real.
LEMMA CompleteStepInv ==
    ASSUME RunnerInv, NEW p \in Processes, CompleteStep(p)
    PROVE  RunnerInv'
<1>0. PICK s \in Steps \ disk.completed : s = Step(p)
  BY DEF CompleteStep, Attempting, RunnerInv, OneStepInDoubt, OnStep
<1>. DEFINE state == [proc[p].mem EXCEPT !.completed = @ \cup {s}]
<1>1. proc[p].pc = "complete" /\ Save(p, state, "next") /\ UNCHANGED <<lock, history>>
  BY <1>0 DEF CompleteStep, Attempting
<1>2. /\ Unresolved(disk) \subseteq {s} /\ applied[s] > 0
      /\ s \in HasVerifier => s \in confirmed
  BY <1>0, <1>1 DEF RunnerInv, OneStepInDoubt, SuccessIsReal, OnStep
<1>3. /\ state \in TaskState
      /\ state.completed = disk.completed \cup {s}
      /\ state.attempts = disk.attempts
  BY <1>1 DEF RunnerInv, RunnerTypeOK, OneRunner, TaskState
<1>. HIDE DEF state
<1>4. "next" \in Pcs
  BY DEF Pcs
<1>5. /\ disk' \in TaskState
      /\ disk'.completed = state.completed
      /\ disk'.attempts = state.attempts
      /\ proc' \in [Processes -> [pc : Pcs, step : 0..N, mem : TaskState]]
      /\ proc'[p] = [pc |-> "next", step |-> proc[p].step, mem |-> disk']
      /\ \A q \in Processes \ {p} : proc'[q] = proc[q]
  BY <1>1, <1>3, <1>4, SaveShape DEF RunnerInv
<1>6. \A q \in Processes \ {p} : proc'[q].pc = "idle"
  BY <1>1, <1>5, OthersIdle DEF RunnerInv
<1>7. RunnerTypeOK'
  BY <1>1, <1>5 DEF RunnerInv, RunnerTypeOK, history
<1>8. OneRunner'
  BY <1>1, <1>5, <1>6 DEF OneRunner, RunnerInv
<1>9. Unresolved(disk') = {}
  BY <1>2, <1>3, <1>5 DEF Unresolved
<1>10. OneStepInDoubt' /\ SuccessIsReal'
  BY <1>5, <1>6, <1>9 DEF OneStepInDoubt, SuccessIsReal, OnStep
<1>11. \A r \in Steps : Written(r)' = Written(r)
  BY <1>1 DEF Written, history
<1>12. AttemptsBounded' /\ AttemptsCover'
  BY <1>1, <1>3, <1>5, <1>6, <1>11 DEF AttemptsBounded, AttemptsCover, RunnerInv, history
<1>13. CompletedIsReal'
  BY <1>1, <1>2, <1>3, <1>5 DEF CompletedIsReal, RunnerInv, history
<1>. QED
  BY <1>7, <1>8, <1>10, <1>12, <1>13 DEF RunnerInv

-----------------------------------------------------------------------------
(* The operator *)

\* A decision is made while nobody runs: only the record itself matters.
LEMMA DecideInv ==
    ASSUME RunnerInv, NEW state \in TaskState, Decide(state),
           confirmed' \subseteq Steps, approved' \in [Steps -> Nat],
           AttemptsBounded', AttemptsCover', CompletedIsReal'
    PROVE  RunnerInv'
<1>1. /\ lock = Nobody /\ decisions' \in Nat /\ disk' = state
      /\ UNCHANGED <<lock, proc, applied, invoked>>
  BY DEF Decide, RunnerInv, RunnerTypeOK
<1>2. RunnerTypeOK'
  BY <1>1 DEF RunnerInv, RunnerTypeOK
<1>3. \A q \in Processes : proc'[q].pc = "idle"
  BY <1>1, RunnerAssumption DEF RunnerInv, OneRunner
<1>4. OneRunner' /\ OneStepInDoubt' /\ SuccessIsReal'
  BY <1>3 DEF OneRunner, OneStepInDoubt, SuccessIsReal, OnStep
<1>. QED
  BY <1>2, <1>4 DEF RunnerInv

\* reconcile_not_applied: the attempts it takes off the record are paid for by
\* the decision, and no effect is forgotten.
LEMMA NotAppliedInv ==
    ASSUME RunnerInv, NEW s \in Steps, reconcile_not_applied(s)
    PROVE  RunnerInv'
<1>. DEFINE state == [disk EXCEPT !.status = "pending", !.attempts[s] = 0]
<1>1. /\ applied[s] = 0 /\ Decide(state) /\ confirmed' = confirmed
      /\ approved' = [approved EXCEPT ![s] = @ + 1]
  BY DEF reconcile_not_applied
<1>2. /\ disk \in TaskState /\ disk.attempts \in [Steps -> Nat]
      /\ approved \in [Steps -> Nat] /\ invoked \in [Steps -> Nat]
      /\ confirmed \subseteq Steps
  BY DEF RunnerInv, RunnerTypeOK, TaskState
<1>3. /\ state \in TaskState
      /\ state.completed = disk.completed
      /\ state.attempts = [disk.attempts EXCEPT ![s] = 0]
  <2>1. state.attempts = [disk.attempts EXCEPT ![s] = 0]
    BY <1>2 DEF TaskState
  <2>. QED
    BY <1>2, <2>1 DEF TaskState, TaskStatus
<1>. HIDE DEF state
<1>4. /\ lock = Nobody /\ disk' = state
      /\ UNCHANGED <<lock, proc, applied, invoked>>
  BY <1>1 DEF Decide
<1>5. /\ approved' \in [Steps -> Nat]
      /\ disk'.attempts[s] = 0
      /\ \A r \in Steps \ {s} : disk'.attempts[r] = disk.attempts[r]
  BY <1>1, <1>2, <1>3, <1>4
<1>6. \A q \in Processes : proc'[q].pc = "idle"
  BY <1>4, RunnerAssumption DEF RunnerInv, OneRunner
<1>7. AttemptsBounded'
  BY <1>5, <1>6, RunnerAssumption DEF RunnerInv, AttemptsBounded
<1>8. AttemptsCover'
  <2>1. \A r \in Steps \ {s} : Written(r)' = Written(r)
    BY <1>1, <1>2 DEF Written
  <2>2. Written(s)' = Written(s) + MaxAttempts[s]
    <3>1. approved'[s] = approved[s] + 1 /\ approved[s] \in Nat
      BY <1>1, <1>2
    <3>2. MaxAttempts[s] \in Nat
      BY RunnerAssumption
    <3>. QED
      BY <3>1, <3>2, WrittenGrows DEF Written
  <2>3. /\ invoked[s] <= Written(s) + disk.attempts[s]
        /\ disk.attempts[s] <= MaxAttempts[s]
        /\ MaxAttempts[s] \in Nat /\ Written(s) \in Nat
    BY RunnerAssumption, WrittenTyped DEF RunnerInv, AttemptsBounded, AttemptsCover
  <2>4. invoked[s] <= Written(s)' + disk'.attempts[s]
    BY <1>2, <1>5, <2>2, <2>3
  <2>5. \A r \in Steps : /\ applied'[r] <= disk'.attempts[r]
                         /\ invoked'[r] <= Written(r)' + disk'.attempts[r]
    BY <1>1, <1>4, <1>5, <2>1, <2>4 DEF RunnerInv, AttemptsCover
  <2>. QED
    BY <1>6, <2>5 DEF AttemptsCover
<1>9. CompletedIsReal'
  BY <1>1, <1>3, <1>4 DEF RunnerInv, CompletedIsReal
<1>. QED
  BY <1>1, <1>2, <1>3, <1>5, <1>7, <1>8, <1>9, DecideInv

\* reconcile_applied_and_verified: the operator completes a step that is real.
LEMMA AppliedInv ==
    ASSUME RunnerInv, NEW s \in Steps, reconcile_applied_and_verified(s)
    PROVE  RunnerInv'
<1>. DEFINE state == [disk EXCEPT !.status = "pending", !.completed = @ \cup {s}]
<1>1. /\ applied[s] > 0 /\ Decide(state) /\ approved' = approved
      /\ confirmed' = confirmed \cup {s}
  BY DEF reconcile_applied_and_verified
<1>2. /\ state \in TaskState
      /\ state.completed = disk.completed \cup {s}
      /\ state.attempts = disk.attempts
  BY DEF RunnerInv, RunnerTypeOK, TaskState, TaskStatus
<1>. HIDE DEF state
<1>3. /\ lock = Nobody /\ disk' = state
      /\ UNCHANGED <<lock, proc, applied, invoked>>
  BY <1>1 DEF Decide
<1>4. \A q \in Processes : proc'[q].pc = "idle"
  BY <1>3, RunnerAssumption DEF RunnerInv, OneRunner
<1>5. \A r \in Steps : Written(r)' = Written(r)
  BY <1>1 DEF Written
<1>6. AttemptsBounded' /\ AttemptsCover'
  BY <1>2, <1>3, <1>4, <1>5 DEF RunnerInv, AttemptsBounded, AttemptsCover
<1>7. CompletedIsReal'
  BY <1>1, <1>2, <1>3 DEF RunnerInv, CompletedIsReal
<1>8. confirmed' \subseteq Steps /\ approved' \in [Steps -> Nat]
  BY <1>1 DEF RunnerInv, RunnerTypeOK
<1>. QED
  BY <1>1, <1>2, <1>6, <1>7, <1>8, DecideInv

\* reconcile_needs_manual_action: the record stays as it is.
LEMMA ManualInv ==
    ASSUME RunnerInv, reconcile_needs_manual_action
    PROVE  RunnerInv'
<1>1. /\ lock = Nobody /\ Decide(disk) /\ disk' = disk
      /\ UNCHANGED <<lock, proc, applied, invoked, approved, confirmed>>
  BY DEF reconcile_needs_manual_action, Decide
<1>2. disk \in TaskState /\ confirmed' \subseteq Steps /\ approved' \in [Steps -> Nat]
  BY <1>1 DEF RunnerInv, RunnerTypeOK
<1>3. \A r \in Steps : Written(r)' = Written(r)
  BY <1>1 DEF Written
<1>4. \A q \in Processes : proc'[q].pc = "idle"
  BY <1>1, RunnerAssumption DEF RunnerInv, OneRunner
<1>5. AttemptsBounded' /\ AttemptsCover' /\ CompletedIsReal'
  BY <1>1, <1>3, <1>4 DEF RunnerInv, AttemptsBounded, AttemptsCover, CompletedIsReal
<1>. QED
  BY <1>1, <1>2, <1>5, DecideInv

-----------------------------------------------------------------------------
(* The theorems *)

\* Every step of a process or of the operator preserves the invariant.
LEMMA RunnerNextInv == RunnerInv /\ [RunnerNext]_runnerVars => RunnerInv'
<1>. SUFFICES ASSUME RunnerInv, [RunnerNext]_runnerVars PROVE RunnerInv'
  OBVIOUS
<1>1. ASSUME NEW p \in Processes, RunStep(p) PROVE RunnerInv'
  <2>1. CASE BindSpec(p)
    BY <2>1, BindSpecInv
  <2>2. CASE ResumeSkipped(p)
    BY <2>2, LeaveInv DEF ResumeSkipped, Entered
  <2>3. CASE BlockUnresolved(p)
    BY <2>3, ReturnInv DEF BlockUnresolved, Entered, TaskStatus
  <2>4. CASE Begin(p)
    BY <2>4, BeginInv
  <2>5. CASE \E s \in Steps : TakeStep(p, s)
    BY <2>5, TakeStepInv
  <2>6. CASE BeginAttempt(p)
    BY <2>6, BeginAttemptInv
  <2>7. CASE Invoke(p)
    BY <2>7, InvokeInv
  <2>8. CASE Refused(p)
    BY <2>8, ReturnInv DEF Refused, Attempting, TaskStatus
  <2>9. CASE Failed(p)
    BY <2>9, FailedInv
  <2>10. CASE SaveResult(p)
    BY <2>10, SaveResultInv
  <2>11. CASE Verify(p)
    BY <2>11, VerifyInv
  <2>12. CASE CompleteStep(p)
    BY <2>12, CompleteStepInv
  <2>13. CASE CompleteTask(p)
    BY <2>13, ReturnInv DEF CompleteTask, TaskStatus
  <2>. QED
    BY <1>1, <2>1, <2>2, <2>3, <2>4, <2>5, <2>6, <2>7, <2>8, <2>9, <2>10, <2>11,
       <2>12, <2>13 DEF RunStep
<1>2. ASSUME NEW p \in Processes, Crash(p) PROVE RunnerInv'
  BY <1>2, LeaveInv DEF Crash
<1>3. ASSUME NEW p \in Processes, NEW spec \in Specs, Acquire(p, spec) PROVE RunnerInv'
  BY <1>3, AcquireInv
<1>4. CASE OperatorStep
  BY <1>4, NotAppliedInv, AppliedInv, ManualInv DEF OperatorStep
<1>5. CASE UNCHANGED runnerVars
  <2>1. \A r \in Steps : Written(r)' = Written(r)
    BY <1>5 DEF Written, runnerVars
  <2>2. \A p \in Processes : Step(p)' = Step(p)
    BY <1>5 DEF Step, runnerVars
  <2>3. RunnerTypeOK' /\ OneRunner'
    BY <1>5 DEF runnerVars, RunnerInv, RunnerTypeOK, OneRunner
  <2>4. OneStepInDoubt' /\ SuccessIsReal' /\ AttemptsBounded' /\ CompletedIsReal'
    BY <1>5, <2>2 DEF runnerVars, RunnerInv, OneStepInDoubt, SuccessIsReal,
       AttemptsBounded, CompletedIsReal, Unresolved
  <2>5. AttemptsCover'
    BY <1>5 DEF runnerVars, RunnerInv, AttemptsCover, Written, Step
  <2>. QED
    BY <2>3, <2>4, <2>5 DEF RunnerInv
<1>. QED
  BY <1>1, <1>2, <1>3, <1>4, <1>5 DEF RunnerNext

\* run and reconcile_blocked_step keep the invariant in every reachable state.
THEOREM RunnerInvariant == RunnerSpec => []RunnerInv
BY RunnerInitInv, RunnerNextInv, PTL DEF RunnerSpec

\* The invariant bounds the effects and the calls.
LEMMA InvBoundsEffects == RunnerInv => EffectsBounded
<1>. SUFFICES ASSUME RunnerInv PROVE EffectsBounded
  OBVIOUS
<1>1. UnsafeEffectOnce
  BY SingleAttemptAssumption DEF UnsafeEffectOnce, RunnerInv, RunnerTypeOK,
     TaskState, AttemptsBounded, AttemptsCover
<1>2. InvocationBudget
  <2>. SUFFICES ASSUME NEW s \in Steps
                PROVE  invoked[s] <= MaxAttempts[s] * (1 + approved[s])
    BY DEF InvocationBudget
  <2>1. /\ MaxAttempts[s] \in Nat /\ approved[s] \in Nat /\ invoked[s] \in Nat
        /\ disk.attempts[s] \in Nat
    BY RunnerAssumption DEF RunnerInv, RunnerTypeOK, TaskState
  <2>2. MaxAttempts[s] * (1 + approved[s]) = Written(s) + MaxAttempts[s] /\ Written(s) \in Nat
    BY <2>1, WrittenGrows DEF Written
  <2>3. /\ invoked[s] <= Written(s) + disk.attempts[s]
        /\ disk.attempts[s] <= MaxAttempts[s]
    BY DEF RunnerInv, AttemptsBounded, AttemptsCover
  <2>. QED
    BY <2>1, <2>2, <2>3
<1>. QED
  BY <1>1, <1>2 DEF EffectsBounded

\* Whatever crashes, competing processes and reconciliations happen, an action
\* that is not retry-safe takes effect at most once, and no action is called
\* more often than max_attempts and the operator's decisions allow.
THEOREM EffectsAreBounded == RunnerSpec => []EffectsBounded
BY RunnerInvariant, InvBoundsEffects, PTL

\* The state file never claims a step that did not happen or was not verified.
THEOREM CompletionIsReal == RunnerSpec => []CompletedIsReal
<1>1. RunnerInv => CompletedIsReal
  BY DEF RunnerInv
<1>. QED
  BY <1>1, RunnerInvariant, PTL

-----------------------------------------------------------------------------
Snapshots == [series : Nat, count : Counts, captured : Nat, scheduled : Nat]
Histories == [snapshot : Snapshots, result : Outcomes \cup HELD_STATUSES]

\* A session whose keys are among the first n and that validate_session accepts.
Session(p, n) ==
    /\ p \in [scheduled : Nat, series : Nat, snapshots : {p.snapshots},
              histories : {p.histories}, current : Nat]
    /\ DOMAIN p.snapshots \subseteq 1..n
    /\ p.snapshots \in [DOMAIN p.snapshots -> Snapshots]
    /\ p.histories \in [DOMAIN p.histories -> Histories]
    /\ validate_session(p)

\* The types of the variables, and what was answered as two tables.
WorkbenchTypeOK ==
    /\ now \in Nat /\ keys \in Nat /\ up \in BOOLEAN
    /\ saving \in {"none", "compare", "write", "sync"} /\ (saving # "none" => up)
    /\ acked \in [snapshots : {acked.snapshots}, histories : {acked.histories}]
    /\ acked.snapshots \in [DOMAIN acked.snapshots -> Snapshots]
    /\ DOMAIN acked.histories \subseteq DOMAIN acked.snapshots

\* Every file there ever was can be loaded.
FilesInv ==
    /\ file # NoFile => Session(file, keys)
    /\ synced # NoFile => Session(synced, keys)
    /\ \A c \in copies : c # NoFile /\ Session(c, keys)

\* Memory is the file as the server last read or wrote it.
MemoryInv ==
    up => /\ Session(mem, keys)
          /\ IF expected = NoFile THEN mem.snapshots = Empty /\ mem.histories = Empty
                                  ELSE mem = expected

\* A save under way adds to memory, and replaces the file memory came from.
SavingInv ==
    saving # "none" =>
        /\ next # NoFile /\ Session(next, keys)
        /\ Within(mem.snapshots, next.snapshots) /\ Within(mem.histories, next.histories)
        /\ saving = "write" => file = expected
        /\ saving = "sync" => file = next

\* The inductive invariant.
WorkbenchInv ==
    /\ WorkbenchTypeOK
    /\ FilesInv
    /\ MemoryInv
    /\ SavingInv
    /\ AnsweredSurvives

-----------------------------------------------------------------------------
(* Tables *)

\* Containment of tables is a preorder, and the empty table is the least.
LEMMA WithinFacts ==
    /\ \A f, g, h : Within(f, g) /\ Within(g, h) => Within(f, h)
    /\ \A f : Within(f, f)
    /\ \A f : Within(Empty, f) /\ (DOMAIN f = {} => \A g : Within(f, g))
BY DEF Within, Empty

\* A table that is merged into one that contains it gives that one.
LEMMA MergeFacts ==
    ASSUME NEW f, NEW g, Within(f, g)
    PROVE  /\ DOMAIN Merge(f, g) = DOMAIN g
           /\ Within(Merge(f, g), g)
           /\ \A k \in DOMAIN g : Merge(f, g)[k] = g[k]
<1>1. DOMAIN f \cup DOMAIN g = DOMAIN g
  BY DEF Within
<1>. QED
  BY <1>1 DEF Merge, Within

\* A session stays one as keys are handed out.
LEMMA SessionGrows ==
    ASSUME NEW p, NEW n \in Nat, NEW m \in Nat, n <= m, Session(p, n)
    PROVE  Session(p, m)
<1>1. 1..n \subseteq 1..m
  OBVIOUS
<1>. QED
  BY <1>1 DEF Session

\* The tables of a session are finite.
LEMMA SessionFinite ==
    ASSUME NEW p, NEW n \in Nat, Session(p, n)
    PROVE  /\ IsFiniteSet(DOMAIN p.snapshots) /\ IsFiniteSet(DOMAIN p.histories)
           /\ Cardinality(DOMAIN p.snapshots) \in Nat
<1>1. IsFiniteSet(1..n)
  BY FS_Interval
<1>2. DOMAIN p.snapshots \in SUBSET (1..n)
  BY DEF Session
<1>3. IsFiniteSet(DOMAIN p.snapshots)
  BY <1>1, <1>2, FS_Subset
<1>4. DOMAIN p.histories \in SUBSET (DOMAIN p.snapshots)
  BY DEF Session, validate_session
<1>. QED
  BY <1>3, <1>4, FS_Subset, FS_CardinalityType

-----------------------------------------------------------------------------
(* What the server builds is a session again *)

\* A prediction, under the plan of now: the start that is ahead, or a new series.
LEMMA PredictBuilds ==
    ASSUME WorkbenchInv, NEW count \in Counts, NEW captured \in 0..MaxClock,
           CanPredict(count, captured), NEW q, q = PredictPayload(mem, count, captured)
    PROVE  /\ Session(q, keys + 1) /\ q # NoFile
           /\ Within(mem.snapshots, q.snapshots) /\ Within(mem.histories, q.histories)
<1>1. /\ up /\ Session(mem, keys) /\ keys \in Nat /\ now \in Nat /\ captured \in Nat
  BY WorkbenchAssumption DEF WorkbenchInv, WorkbenchTypeOK, MemoryInv, CanPredict
<1>2. PICK sn, hs, sched, ser :
        /\ sn = mem.snapshots /\ hs = mem.histories /\ sched = mem.scheduled /\ ser = mem.series
        /\ sched \in Nat /\ ser \in Nat
  BY <1>1 DEF Session
<1>3. /\ DOMAIN sn \subseteq 1..keys /\ sn \in [DOMAIN sn -> Snapshots]
      /\ hs \in [DOMAIN hs -> Histories]
  BY <1>1, <1>2 DEF Session
<1>4. /\ DOMAIN hs \subseteq DOMAIN sn
      /\ \A k \in DOMAIN sn :
            /\ ValidSnapshot(sn[k]) /\ sn[k].series <= ser
            /\ sn[k].series = ser => sn[k].scheduled = sched
            /\ k \in DOMAIN hs => ValidHistory(hs[k]) /\ hs[k].snapshot = sn[k]
  BY <1>1, <1>2 DEF Session, validate_session
<1>5. PICK a \in Nat, b \in Nat :
        /\ a = Plan(mem)[1] /\ b = Plan(mem)[2]
        /\ (a = sched /\ b = ser) \/ b = ser + 1
  BY <1>1, <1>2, WorkbenchAssumption DEF Plan
<1>6. PICK s : s = [series |-> b, count |-> count, captured |-> captured, scheduled |-> a]
  OBVIOUS
<1>7. s \in Snapshots /\ s.series = b /\ s.scheduled = a
  BY <1>1, <1>6 DEF Snapshots
<1>8. s = Captured(mem, count, captured) /\ ValidSnapshot(s)
  BY <1>5, <1>6 DEF CanPredict, Captured
<1>9. PICK new : new = With(sn, keys + 1, s)
  OBVIOUS
<1>10. keys + 1 \notin DOMAIN sn
  BY <1>1, <1>3
<1>11. /\ DOMAIN new = DOMAIN sn \cup {keys + 1} /\ new \in [DOMAIN new -> Snapshots]
       /\ new[keys + 1] = s /\ Within(sn, new)
       /\ \A k \in DOMAIN sn : new[k] = sn[k]
  BY <1>3, <1>7, <1>9, <1>10 DEF With, Within
<1>12. q = [scheduled |-> a, series |-> b, snapshots |-> new, histories |-> hs,
            current |-> keys + 1]
  BY <1>2, <1>5, <1>8, <1>9 DEF PredictPayload
<1>13. /\ q.scheduled = a /\ q.series = b /\ q.snapshots = new /\ q.histories = hs
       /\ q.current = keys + 1
       /\ q \in [scheduled : Nat, series : Nat, snapshots : {q.snapshots},
                 histories : {q.histories}, current : Nat]
  BY <1>1, <1>12
<1>14. Cardinality(DOMAIN new) <= MAX_SNAPSHOTS
  <2>1. IsFiniteSet(DOMAIN sn) /\ Cardinality(DOMAIN sn) \in Nat
    BY <1>1, <1>2, SessionFinite
  <2>2. Cardinality(DOMAIN sn \cup {keys + 1}) = Cardinality(DOMAIN sn) + 1
    BY <1>10, <2>1, FS_AddElement
  <2>3. Cardinality(DOMAIN sn) < MAX_SNAPSHOTS
    BY <1>2 DEF CanPredict
  <2>. QED
    BY <1>11, <2>1, <2>2, <2>3, WorkbenchAssumption
<1>15. ASSUME NEW k \in DOMAIN new
       PROVE  /\ ValidSnapshot(new[k]) /\ new[k].series <= b
              /\ new[k].series = b => new[k].scheduled = a
              /\ k \in DOMAIN hs => ValidHistory(hs[k]) /\ hs[k].snapshot = new[k]
  <2>1. CASE k = keys + 1
    BY <1>4, <1>7, <1>8, <1>10, <1>11, <2>1
  <2>2. CASE k \in DOMAIN sn
    <3>1. sn[k].series \in Nat /\ new[k] = sn[k]
      BY <1>3, <1>11, <2>2 DEF Snapshots
    <3>2. PICK x \in Nat : x = sn[k].series
      BY <3>1
    <3>3. x <= ser /\ (x = ser => sn[k].scheduled = sched)
      BY <1>4, <2>2, <3>2
    <3>4. x <= b /\ (x = b => sn[k].scheduled = a)
      BY <1>2, <1>5, <3>3
    <3>. QED
      BY <1>4, <2>2, <3>1, <3>2, <3>4
  <2>. QED
    BY <1>11, <2>1, <2>2
<1>16. validate_session(q)
  BY <1>4, <1>11, <1>13, <1>14, <1>15 DEF validate_session
<1>17. DOMAIN new \subseteq 1..(keys + 1)
  BY <1>1, <1>3, <1>11
<1>18. Session(q, keys + 1)
  BY <1>3, <1>11, <1>13, <1>16, <1>17 DEF Session
<1>19. q # NoFile
  BY <1>1, <1>13 DEF NoFile
<1>. QED
  BY <1>2, <1>11, <1>13, <1>18, <1>19, WithinFacts

\* A settlement, or a hold.
LEMMA RecordBuilds ==
    ASSUME WorkbenchInv, NEW k, CanRecord(k), NEW result \in Outcomes \cup HELD_STATUSES,
           NEW q, q = RecordPayload(mem, k, result)
    PROVE  /\ Session(q, keys) /\ q # NoFile
           /\ Within(mem.snapshots, q.snapshots) /\ Within(mem.histories, q.histories)
<1>1. /\ up /\ Session(mem, keys) /\ keys \in Nat
      /\ k \in DOMAIN mem.snapshots /\ k \notin DOMAIN mem.histories
  BY DEF WorkbenchInv, WorkbenchTypeOK, MemoryInv, CanRecord
<1>2. PICK sn, hs : sn = mem.snapshots /\ hs = mem.histories
  OBVIOUS
<1>3. /\ DOMAIN sn \subseteq 1..keys /\ sn \in [DOMAIN sn -> Snapshots]
      /\ hs \in [DOMAIN hs -> Histories] /\ k \in DOMAIN sn /\ k \notin DOMAIN hs
      /\ mem \in [scheduled : Nat, series : Nat, snapshots : {sn}, histories : {hs},
                  current : Nat]
  BY <1>1, <1>2 DEF Session
<1>4. /\ Cardinality(DOMAIN sn) <= MAX_SNAPSHOTS /\ DOMAIN hs \subseteq DOMAIN sn
      /\ \A j \in DOMAIN sn :
            /\ ValidSnapshot(sn[j]) /\ sn[j].series <= mem.series
            /\ sn[j].series = mem.series => sn[j].scheduled = mem.scheduled
            /\ j \in DOMAIN hs => ValidHistory(hs[j]) /\ hs[j].snapshot = sn[j]
  BY <1>1, <1>2 DEF Session, validate_session
<1>5. PICK h : h = [snapshot |-> sn[k], result |-> result]
  OBVIOUS
<1>6. h \in Histories /\ ValidHistory(h) /\ h.snapshot = sn[k]
  BY <1>3, <1>4, <1>5 DEF Histories, ValidHistory
<1>7. PICK new : new = With(hs, k, h)
  OBVIOUS
<1>8. /\ DOMAIN new = DOMAIN hs \cup {k} /\ new \in [DOMAIN new -> Histories]
      /\ new[k] = h /\ Within(hs, new)
      /\ \A j \in DOMAIN hs : new[j] = hs[j]
  BY <1>3, <1>6, <1>7 DEF With, Within
<1>9. q = [mem EXCEPT !.histories = new, !.current = k]
  BY <1>2, <1>5, <1>7 DEF RecordPayload, settle_snapshot
<1>10. k \in Nat /\ k # 0
  BY <1>1, <1>3
<1>11. /\ q.scheduled = mem.scheduled /\ q.series = mem.series /\ q.snapshots = sn
       /\ q.histories = new /\ q.current = k
       /\ q \in [scheduled : Nat, series : Nat, snapshots : {q.snapshots},
                 histories : {q.histories}, current : Nat]
  BY <1>3, <1>9, <1>10
<1>12. validate_session(q)
  BY <1>3, <1>4, <1>6, <1>8, <1>11 DEF validate_session
<1>13. Session(q, keys)
  BY <1>3, <1>8, <1>11, <1>12 DEF Session
<1>14. q # NoFile
  BY <1>10, <1>11 DEF NoFile
<1>. QED
  BY <1>2, <1>8, <1>11, <1>13, <1>14, WithinFacts

\* A selection.
LEMMA SelectBuilds ==
    ASSUME WorkbenchInv, up, NEW k \in DOMAIN mem.snapshots,
           NEW q, q = [mem EXCEPT !.current = k]
    PROVE  /\ Session(q, keys) /\ q # NoFile
           /\ Within(mem.snapshots, q.snapshots) /\ Within(mem.histories, q.histories)
<1>1. Session(mem, keys) /\ keys \in Nat
  BY DEF WorkbenchInv, WorkbenchTypeOK, MemoryInv
<1>2. /\ mem \in [scheduled : Nat, series : Nat, snapshots : {mem.snapshots},
                  histories : {mem.histories}, current : Nat]
      /\ k \in 1..keys
  BY <1>1 DEF Session
<1>3. k \in Nat /\ k # 0
  BY <1>1, <1>2
<1>4. /\ q.scheduled = mem.scheduled /\ q.series = mem.series
      /\ q.snapshots = mem.snapshots /\ q.histories = mem.histories /\ q.current = k
      /\ q \in [scheduled : Nat, series : Nat, snapshots : {q.snapshots},
                histories : {q.histories}, current : Nat]
  BY <1>2, <1>3
<1>5. validate_session(q)
  BY <1>1, <1>4 DEF Session, validate_session
<1>6. Session(q, keys)
  BY <1>1, <1>4, <1>5 DEF Session
<1>7. q # NoFile
  BY <1>3, <1>4 DEF NoFile
<1>. QED
  BY <1>4, <1>6, <1>7, WithinFacts

-----------------------------------------------------------------------------
(* Every step keeps the invariant *)

\* Nothing is there before the first start.
LEMMA WorkbenchInit == Init => WorkbenchInv
<1>. SUFFICES ASSUME Init PROVE WorkbenchInv
  OBVIOUS
<1>1. WorkbenchTypeOK
  BY DEF Init, WorkbenchTypeOK, Empty
<1>2. FilesInv /\ MemoryInv /\ SavingInv
  BY DEF Init, FilesInv, MemoryInv, SavingInv
<1>3. AnsweredSurvives
  BY DEF Init, AnsweredSurvives
<1>. QED
  BY <1>1, <1>2, <1>3 DEF WorkbenchInv

\* A request starts to save what it has built.
LEMMA RequestKeeps ==
    ASSUME WorkbenchInv, NEW q, Request(q), now' \in Nat, keys' \in Nat, keys <= keys',
           Session(q, keys'), q # NoFile,
           Within(mem.snapshots, q.snapshots), Within(mem.histories, q.histories)
    PROVE  WorkbenchInv'
<1>1. /\ up' = up /\ up /\ mem' = mem /\ expected' = expected /\ file' = file /\ synced' = synced
      /\ copies' = copies /\ acked' = acked /\ saving' = "compare" /\ next' = q
  BY DEF Request, Ready
<1>2. \A p : Session(p, keys) => Session(p, keys')
  BY SessionGrows DEF WorkbenchInv, WorkbenchTypeOK
<1>3. WorkbenchTypeOK'
  BY <1>1 DEF WorkbenchInv, WorkbenchTypeOK
<1>4. FilesInv'
  BY <1>1, <1>2 DEF WorkbenchInv, FilesInv
<1>5. MemoryInv'
  BY <1>1, <1>2 DEF WorkbenchInv, MemoryInv
<1>6. SavingInv'
  BY <1>1 DEF SavingInv
<1>7. AnsweredSurvives'
  BY <1>1 DEF WorkbenchInv, AnsweredSurvives
<1>. QED
  BY <1>3, <1>4, <1>5, <1>6, <1>7 DEF WorkbenchInv

\* The three requests.
LEMMA RequestsKeep ==
    ASSUME WorkbenchInv,
           \/ \E count \in Counts, captured \in 0..MaxClock : predict(count, captured)
           \/ \E k \in 1..MaxKeys :
                 select(k) \/ \E result \in Outcomes \cup HELD_STATUSES : Record(k, result)
    PROVE  WorkbenchInv'
<1>1. keys \in Nat /\ now \in Nat
  BY DEF WorkbenchInv, WorkbenchTypeOK
<1>2. ASSUME NEW count \in Counts, NEW captured \in 0..MaxClock, predict(count, captured)
      PROVE  WorkbenchInv'
  <2>1. PICK q : q = PredictPayload(mem, count, captured)
    OBVIOUS
  <2>2. Request(q) /\ keys' = keys + 1 /\ now' = captured /\ CanPredict(count, captured)
    BY <1>2, <2>1 DEF predict
  <2>3. /\ Session(q, keys + 1) /\ q # NoFile
        /\ Within(mem.snapshots, q.snapshots) /\ Within(mem.histories, q.histories)
    BY <2>1, <2>2, PredictBuilds
  <2>4. now' \in Nat /\ keys' \in Nat /\ keys <= keys' /\ Session(q, keys')
    BY <1>1, <2>2, <2>3, WorkbenchAssumption
  <2>. QED
    BY <2>2, <2>3, <2>4, RequestKeeps
<1>3. ASSUME NEW k \in 1..MaxKeys, select(k) PROVE WorkbenchInv'
  <2>1. PICK q : q = [mem EXCEPT !.current = k]
    OBVIOUS
  <2>2. Request(q) /\ keys' = keys /\ now' = now /\ up /\ k \in DOMAIN mem.snapshots
    BY <1>3, <2>1 DEF select
  <2>3. /\ Session(q, keys) /\ q # NoFile
        /\ Within(mem.snapshots, q.snapshots) /\ Within(mem.histories, q.histories)
    BY <2>1, <2>2, SelectBuilds
  <2>4. now' \in Nat /\ keys' \in Nat /\ keys <= keys' /\ Session(q, keys')
    BY <1>1, <2>2, <2>3
  <2>. QED
    BY <2>2, <2>3, <2>4, RequestKeeps
<1>4. ASSUME NEW k \in 1..MaxKeys, NEW result \in Outcomes \cup HELD_STATUSES, Record(k, result)
      PROVE  WorkbenchInv'
  <2>1. PICK q : q = RecordPayload(mem, k, result)
    OBVIOUS
  <2>2. Request(q) /\ keys' = keys /\ now' = now /\ CanRecord(k)
    BY <1>4, <2>1 DEF Record
  <2>3. /\ Session(q, keys) /\ q # NoFile
        /\ Within(mem.snapshots, q.snapshots) /\ Within(mem.histories, q.histories)
    BY <2>1, <2>2, RecordBuilds
  <2>4. now' \in Nat /\ keys' \in Nat /\ keys <= keys' /\ Session(q, keys')
    BY <1>1, <2>2, <2>3
  <2>. QED
    BY <2>2, <2>3, <2>4, RequestKeeps
<1>. QED
  BY <1>2, <1>3, <1>4

\* A save that fails or gets past the comparison, and time: no file changes.
LEMMA QuietKeeps ==
    ASSUME WorkbenchInv, SaveFails \/ Compare \/ Tick \/ UNCHANGED vars
    PROVE  WorkbenchInv'
<1>1. /\ keys' = keys /\ up' = up /\ mem' = mem /\ expected' = expected /\ file' = file
      /\ synced' = synced /\ copies' = copies /\ acked' = acked
  BY DEF SaveFails, Compare, Tick, vars
<1>2. /\ now' \in Nat
      /\ \/ saving' = "none"
         \/ saving' = saving /\ next' = next
         \/ saving = "compare" /\ saving' = "write" /\ next' = next /\ file = expected
  BY DEF SaveFails, Compare, Tick, vars, WorkbenchInv, WorkbenchTypeOK
<1>3. WorkbenchTypeOK'
  BY <1>1, <1>2 DEF WorkbenchInv, WorkbenchTypeOK
<1>4. FilesInv'
  BY <1>1 DEF WorkbenchInv, FilesInv
<1>5. MemoryInv'
  BY <1>1 DEF WorkbenchInv, MemoryInv
<1>6. SavingInv'
  BY <1>1, <1>2 DEF WorkbenchInv, SavingInv
<1>7. AnsweredSurvives'
  BY <1>1 DEF WorkbenchInv, AnsweredSurvives
<1>. QED
  BY <1>3, <1>4, <1>5, <1>6, <1>7 DEF WorkbenchInv

\* What was answered is in a session that was built on the memory of the file.
LEMMA AnsweredInNext ==
    ASSUME WorkbenchInv, saving = "write"
    PROVE  Within(acked.snapshots, next.snapshots) /\ Within(acked.histories, next.histories)
<1>1. /\ file = expected /\ up
      /\ Within(mem.snapshots, next.snapshots) /\ Within(mem.histories, next.histories)
  BY DEF WorkbenchInv, SavingInv, WorkbenchTypeOK
<1>2. CASE file = NoFile
  <2>1. acked.snapshots = Empty
    BY <1>2 DEF WorkbenchInv, AnsweredSurvives
  <2>2. DOMAIN acked.snapshots = {} /\ DOMAIN acked.histories = {}
    BY <2>1 DEF Empty, WorkbenchInv, WorkbenchTypeOK
  <2>. QED
    BY <2>2, WithinFacts
<1>3. CASE file # NoFile
  <2>1. mem = file
    BY <1>1, <1>3 DEF WorkbenchInv, MemoryInv
  <2>2. Within(acked.snapshots, mem.snapshots) /\ Within(acked.histories, mem.histories)
    BY <1>3, <2>1 DEF WorkbenchInv, AnsweredSurvives
  <2>. QED
    BY <1>1, <2>2, WithinFacts
<1>. QED
  BY <1>2, <1>3

\* The replacement of the file loses nothing that was answered.
LEMMA ReplaceKeeps == ASSUME WorkbenchInv, Replace PROVE WorkbenchInv'
<1>1. /\ now' = now /\ keys' = keys /\ up' = up /\ mem' = mem /\ expected' = expected
      /\ synced' = synced /\ copies' = copies /\ acked' = acked /\ next' = next
      /\ file' = next /\ saving = "write" /\ saving' = "sync"
  BY DEF Replace
<1>2. next # NoFile /\ Session(next, keys)
  BY <1>1 DEF WorkbenchInv, SavingInv
<1>3. WorkbenchTypeOK'
  BY <1>1 DEF WorkbenchInv, WorkbenchTypeOK
<1>4. FilesInv'
  BY <1>1, <1>2 DEF WorkbenchInv, FilesInv
<1>5. MemoryInv'
  BY <1>1 DEF WorkbenchInv, MemoryInv
<1>6. SavingInv'
  BY <1>1 DEF WorkbenchInv, SavingInv
<1>7. AnsweredSurvives'
  <2>1. Within(acked.snapshots, next.snapshots) /\ Within(acked.histories, next.histories)
    BY <1>1, AnsweredInNext
  <2>. QED
    BY <1>1, <1>2, <2>1 DEF WorkbenchInv, AnsweredSurvives
<1>. QED
  BY <1>3, <1>4, <1>5, <1>6, <1>7 DEF WorkbenchInv

\* The answer adds to what was answered exactly what the synced file holds.
LEMMA CommitKeeps == ASSUME WorkbenchInv, Commit PROVE WorkbenchInv'
<1>1. /\ now' = now /\ keys' = keys /\ up' = up /\ mem' = next /\ expected' = next
      /\ synced' = file /\ file' = file /\ saving = "sync" /\ saving' = "none"
      /\ copies' \subseteq copies \cup {next}
  BY DEF Commit
<1>2. PICK sn, hs : sn = Merge(acked.snapshots, next.snapshots)
                    /\ hs = Merge(acked.histories, next.histories)
  OBVIOUS
<1>3. acked' = [snapshots |-> sn, histories |-> hs]
  BY <1>2 DEF Commit
<1>4. acked'.snapshots = sn /\ acked'.histories = hs
  BY <1>3
<1>5. file = next /\ next # NoFile /\ Session(next, keys) /\ up
  BY <1>1 DEF WorkbenchInv, SavingInv, WorkbenchTypeOK
<1>6. Within(acked.snapshots, next.snapshots) /\ Within(acked.histories, next.histories)
  BY <1>5 DEF WorkbenchInv, AnsweredSurvives
<1>7. /\ DOMAIN sn = DOMAIN next.snapshots /\ Within(sn, next.snapshots)
      /\ \A k \in DOMAIN next.snapshots : sn[k] = next.snapshots[k]
  BY <1>2, <1>6, MergeFacts
<1>8. DOMAIN hs = DOMAIN next.histories /\ Within(hs, next.histories)
  BY <1>2, <1>6, MergeFacts
<1>9. WorkbenchTypeOK'
  <2>1. sn \in [DOMAIN sn -> Snapshots]
    <3>1. next.snapshots \in [DOMAIN next.snapshots -> Snapshots]
      BY <1>5 DEF Session
    <3>2. sn = [k \in DOMAIN sn |-> sn[k]]
      BY <1>2 DEF Merge
    <3>. QED
      BY <1>7, <3>1, <3>2
  <2>2. DOMAIN hs \subseteq DOMAIN sn
    BY <1>5, <1>7, <1>8 DEF Session, validate_session
  <2>. QED
    BY <1>1, <1>3, <1>4, <2>1, <2>2 DEF WorkbenchInv, WorkbenchTypeOK
<1>10. FilesInv'
  BY <1>1, <1>5 DEF WorkbenchInv, FilesInv
<1>11. MemoryInv'
  BY <1>1, <1>5 DEF MemoryInv
<1>12. SavingInv'
  BY <1>1 DEF SavingInv
<1>13. AnsweredSurvives'
  BY <1>1, <1>4, <1>5, <1>7, <1>8 DEF AnsweredSurvives
<1>. QED
  BY <1>9, <1>10, <1>11, <1>12, <1>13 DEF WorkbenchInv

\* A start reads the file, or begins an empty session.
LEMMA StartKeeps == ASSUME WorkbenchInv, Start PROVE WorkbenchInv'
<1>1. /\ now' = now /\ keys' = keys /\ ~up /\ up' = TRUE /\ expected' = file /\ file' = file
      /\ synced' = synced /\ copies' = copies /\ acked' = acked /\ saving' = saving
  BY DEF Start
<1>2. saving = "none" /\ now \in Nat /\ keys \in Nat
  BY <1>1 DEF WorkbenchInv, WorkbenchTypeOK
<1>3. WorkbenchTypeOK'
  BY <1>1, <1>2 DEF WorkbenchInv, WorkbenchTypeOK
<1>4. FilesInv' /\ SavingInv'
  BY <1>1, <1>2 DEF WorkbenchInv, FilesInv, SavingInv
<1>5. MemoryInv'
  <2>1. CASE file # NoFile
    BY <1>1, <2>1 DEF Start, MemoryInv, WorkbenchInv, FilesInv
  <2>2. CASE file = NoFile
    <3>1. mem' = Fresh
      BY <2>2 DEF Start
    <3>2. PICK p : p = Fresh
      OBVIOUS
    <3>3. /\ p = [scheduled |-> now + Lead, series |-> 0, snapshots |-> Empty,
                  histories |-> Empty, current |-> 0]
          /\ now + Lead \in Nat
      BY <1>2, <3>2, WorkbenchAssumption DEF Fresh
    <3>4. /\ p.scheduled = now + Lead /\ p.series = 0 /\ p.snapshots = Empty
          /\ p.histories = Empty /\ p.current = 0
          /\ p \in [scheduled : Nat, series : Nat, snapshots : {p.snapshots},
                    histories : {p.histories}, current : Nat]
      BY <3>3
    <3>5. DOMAIN Empty = {} /\ Empty \in [{} -> Snapshots] /\ Empty \in [{} -> Histories]
      BY DEF Empty
    <3>6. Cardinality({}) <= MAX_SNAPSHOTS
      BY FS_EmptySet, WorkbenchAssumption
    <3>7. validate_session(p)
      BY <3>4, <3>5, <3>6 DEF validate_session
    <3>8. Session(p, keys)
      BY <3>4, <3>5, <3>7 DEF Session
    <3>. QED
      BY <1>1, <2>2, <3>1, <3>2, <3>4, <3>8 DEF MemoryInv
  <2>. QED
    BY <2>1, <2>2
<1>6. AnsweredSurvives'
  BY <1>1 DEF WorkbenchInv, AnsweredSurvives
<1>. QED
  BY <1>3, <1>4, <1>5, <1>6 DEF WorkbenchInv

\* A stop or a crash leaves files that were there, and each has all that was
\* answered.
LEMMA StopKeeps == ASSUME WorkbenchInv, Stop \/ MachineStop PROVE WorkbenchInv'
<1>1. /\ now' = now /\ keys' = keys /\ up' = FALSE /\ saving' = "none"
      /\ copies' = copies /\ acked' = acked /\ file' \in {file, synced} /\ synced' \in {file, synced}
  BY DEF Stop, MachineStop, Down
<1>2. WorkbenchTypeOK'
  BY <1>1 DEF WorkbenchInv, WorkbenchTypeOK
<1>3. FilesInv' /\ MemoryInv' /\ SavingInv'
  BY <1>1 DEF WorkbenchInv, FilesInv, MemoryInv, SavingInv
<1>4. AnsweredSurvives'
  BY <1>1 DEF WorkbenchInv, AnsweredSurvives
<1>. QED
  BY <1>2, <1>3, <1>4 DEF WorkbenchInv

\* An earlier copy is a session that was answered.
LEMMA RestoreKeeps == ASSUME WorkbenchInv, Restore PROVE WorkbenchInv'
<1>1. PICK c \in copies : /\ file' = c /\ synced' = c
                          /\ acked' = [snapshots |-> c.snapshots, histories |-> c.histories]
  BY DEF Restore
<1>2. /\ now' = now /\ keys' = keys /\ up' = up /\ mem' = mem /\ expected' = expected
      /\ saving = "none" /\ saving' = "none" /\ copies' \subseteq copies
  BY DEF Restore
<1>3. c # NoFile /\ Session(c, keys)
  BY DEF WorkbenchInv, FilesInv
<1>4. acked'.snapshots = c.snapshots /\ acked'.histories = c.histories
  BY <1>1
<1>5. WorkbenchTypeOK'
  <2>1. /\ c.snapshots \in [DOMAIN c.snapshots -> Snapshots]
        /\ DOMAIN c.histories \subseteq DOMAIN c.snapshots
    BY <1>3 DEF Session, validate_session
  <2>. QED
    BY <1>1, <1>2, <1>4, <2>1 DEF WorkbenchInv, WorkbenchTypeOK
<1>6. FilesInv' /\ SavingInv'
  BY <1>1, <1>2, <1>3 DEF WorkbenchInv, FilesInv, SavingInv
<1>7. MemoryInv'
  BY <1>2 DEF WorkbenchInv, MemoryInv
<1>8. AnsweredSurvives'
  BY <1>1, <1>3, <1>4, WithinFacts DEF AnsweredSurvives
<1>. QED
  BY <1>5, <1>6, <1>7, <1>8 DEF WorkbenchInv

\* The server, its failures, crashes and restarts, and the person who puts an
\* earlier file back keep the invariant.
THEOREM WorkbenchInvariant == Spec => []WorkbenchInv
<1>1. Init => WorkbenchInv
  BY WorkbenchInit
<1>2. WorkbenchInv /\ [Next]_vars => WorkbenchInv'
  <2>. SUFFICES ASSUME WorkbenchInv, [Next]_vars PROVE WorkbenchInv'
    OBVIOUS
  <2>1. CASE \/ \E count \in Counts, captured \in 0..MaxClock : predict(count, captured)
             \/ \E k \in 1..MaxKeys :
                   select(k) \/ \E result \in Outcomes \cup HELD_STATUSES : Record(k, result)
    BY <2>1, RequestsKeep
  <2>2. CASE SaveFails \/ Compare \/ Tick \/ UNCHANGED vars
    BY <2>2, QuietKeeps
  <2>3. CASE Replace
    BY <2>3, ReplaceKeeps
  <2>4. CASE Commit
    BY <2>4, CommitKeeps
  <2>5. CASE Start
    BY <2>5, StartKeeps
  <2>6. CASE Stop \/ MachineStop
    BY <2>6, StopKeeps
  <2>7. CASE Restore
    BY <2>7, RestoreKeeps
  <2>. QED
    BY <2>1, <2>2, <2>3, <2>4, <2>5, <2>6, <2>7 DEF Next
<1>. QED
  BY <1>1, <1>2, PTL DEF Spec

\* Whenever the process or the machine stops, the file that is left has every
\* prediction and settlement that was answered.
THEOREM AnswersSurvive == Spec => []AnsweredSurvives
<1>1. WorkbenchInv => AnsweredSurvives
  BY DEF WorkbenchInv
<1>. QED
  BY <1>1, WorkbenchInvariant, PTL

\* validate_session refuses neither the file at the next start nor anything the
\* server builds for a request.
THEOREM SessionsStayUsable == Spec => []SessionNeverLocksItself
<1>1. WorkbenchInv => SessionNeverLocksItself
  <2>. SUFFICES ASSUME WorkbenchInv PROVE SessionNeverLocksItself
    OBVIOUS
  <2>1. file # NoFile => validate_session(file)
    BY DEF WorkbenchInv, FilesInv, Session
  <2>2. ASSUME NEW count \in Counts, NEW captured \in 0..MaxClock, CanPredict(count, captured)
        PROVE  validate_session(PredictPayload(mem, count, captured))
    BY <2>2, PredictBuilds DEF Session
  <2>3. ASSUME NEW k \in 1..MaxKeys, NEW result \in Outcomes \cup HELD_STATUSES, CanRecord(k)
        PROVE  validate_session(RecordPayload(mem, k, result))
    BY <2>3, RecordBuilds DEF Session
  <2>. QED
    BY <2>1, <2>2, <2>3 DEF SessionNeverLocksItself
<1>. QED
  BY <1>1, WorkbenchInvariant, PTL

-----------------------------------------------------------------------------
(* The review *)

\* A race held in some records is held in all that contain them.
LEMMA HeldGrows ==
    ASSUME NEW f, NEW g, Within(f, g)
    PROVE  Held(f) \subseteq Held(g)
<1>. SUFFICES ASSUME NEW race \in Held(f) PROVE race \in Held(g)
  OBVIOUS
<1>1. PICK k \in DOMAIN f : RaceKey(f[k].snapshot) = race /\ f[k].result \in HELD_STATUSES
  BY DEF Held, Group
<1>2. k \in DOMAIN g /\ g[k] = f[k]
  BY DEF Within
<1>. QED
  BY <1>1, <1>2 DEF Held, Group, Races

\* Every record is of an evaluated race or of an excluded one, and of one only.
LEMMA ReviewCounts ==
    ASSUME NEW hs, IsFiniteSet(DOMAIN hs)
    PROVE  LET r == evaluate_histories(hs)
           IN  Cardinality(DOMAIN hs) = Cardinality(r.evaluated) + r.excluded + r.duplicates
<1>. DEFINE E == Races(hs) \ Excluded(hs)
            X == Excluded(hs)
            RecordsOf(rs) == {k \in DOMAIN hs : RaceKey(hs[k].snapshot) \in rs}
            A == RecordsOf(E)
            B == RecordsOf(X)
            r == evaluate_histories(hs)
<1>1. /\ r.evaluated = E /\ r.excluded = Cardinality(B)
      /\ r.duplicates = Cardinality(A) - Cardinality(E)
  BY DEF evaluate_histories
<1>2. A \cup B = DOMAIN hs /\ A \cap B = {}
  BY DEF Races
<1>3. A \in SUBSET DOMAIN hs /\ B \in SUBSET DOMAIN hs
  OBVIOUS
<1>4. IsFiniteSet(E)
  <2>1. PICK h : h = [k \in DOMAIN hs |-> RaceKey(hs[k].snapshot)]
    OBVIOUS
  <2>2. h \in Surjection(DOMAIN hs, Races(hs))
    BY <2>1 DEF Surjection, Races
  <2>3. IsFiniteSet(Races(hs))
    BY <2>2, FS_Surjection
  <2>4. E \in SUBSET Races(hs)
    OBVIOUS
  <2>. QED
    BY <2>3, <2>4, FS_Subset
<1>. HIDE DEF E, X, A, B, r
<1>5. IsFiniteSet(A) /\ IsFiniteSet(B)
  BY <1>3, FS_Subset
<1>6. Cardinality(DOMAIN hs) = Cardinality(A) + Cardinality(B) - Cardinality({})
  BY <1>2, <1>5, FS_Union
<1>7. /\ Cardinality(A) \in Nat /\ Cardinality(B) \in Nat /\ Cardinality(E) \in Nat
      /\ Cardinality({}) = 0
  BY <1>4, <1>5, FS_CardinalityType, FS_EmptySet
<1>8. Cardinality(DOMAIN hs) = Cardinality(r.evaluated) + r.excluded + r.duplicates
  BY <1>1, <1>6, <1>7
<1>. QED
  BY <1>8 DEF r

\* The review leaves no exception out and no record over: memory has all that was
\* answered as long as the server works from the file that is there.
THEOREM ReviewsAreFaithful == Spec => []ReviewIsFaithful
<1>1. WorkbenchInv => ReviewIsFaithful
  <2>. SUFFICES ASSUME WorkbenchInv, up PROVE ReviewIsFaithful
    BY DEF ReviewIsFaithful, HeldNeverEvaluated, ReviewAccountsForAll
  <2>1. ASSUME expected \in {file, synced}
        PROVE  evaluate_histories(mem.histories).evaluated \cap Held(acked.histories) = {}
    <3>1. Within(acked.histories, mem.histories)
      <4>1. CASE expected = NoFile
        <5>1. acked.snapshots = Empty
          BY <2>1, <4>1 DEF WorkbenchInv, AnsweredSurvives
        <5>2. DOMAIN acked.histories = {}
          BY <5>1 DEF Empty, WorkbenchInv, WorkbenchTypeOK
        <5>. QED
          BY <5>2, WithinFacts
      <4>2. CASE expected # NoFile
        BY <2>1, <4>2 DEF WorkbenchInv, AnsweredSurvives, MemoryInv
      <4>. QED
        BY <4>1, <4>2
    <3>2. Held(acked.histories) \subseteq Held(mem.histories)
      BY <3>1, HeldGrows
    <3>3. evaluate_histories(mem.histories).evaluated \cap Held(mem.histories) = {}
      BY DEF evaluate_histories, Excluded
    <3>. QED
      BY <3>2, <3>3
  <2>2. IsFiniteSet(DOMAIN mem.histories)
    BY SessionFinite DEF WorkbenchInv, MemoryInv, WorkbenchTypeOK
  <2>3. ReviewAccountsForAll
    BY <2>2, ReviewCounts DEF ReviewAccountsForAll
  <2>4. HeldNeverEvaluated
    BY <2>1 DEF HeldNeverEvaluated
  <2>. QED
    BY <2>3, <2>4 DEF ReviewIsFaithful
<1>. QED
  BY <1>1, WorkbenchInvariant, PTL

=============================================================================
