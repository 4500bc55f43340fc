----------------------------- MODULE LocalRunner ----------------------------
(***************************************************************************)
(* AgentRunner over FileStateStore: processes that run the same task on    *)
(* one host, each step attempted, verified and marked completed through a  *)
(* state file, and an operator who reconciles blocked steps.  A process    *)
(* can die between any two of its steps; the kernel then drops its lock.   *)
(*                                                                         *)
(* Abstractions.  One task, its steps numbered in order.  save_state is    *)
(* atomic (os.replace).  The activity ledger, artifacts, messages and      *)
(* diagnostics are left out: no decision depends on them.  What an action  *)
(* does to the world is one counter per step, applied.  An exception that  *)
(* escapes run, an artifact conflict included, is a Crash.                 *)
(***************************************************************************)
EXTENDS Integers

CONSTANTS
    N,              \* the number of steps of the task
    RetrySafe,      \* the steps with retry_safe
    MaxAttempts,    \* max_attempts of each step
    HasVerifier,    \* the steps with a verify_action
    Unregistered,   \* process -> the steps whose action no adapter of its registry provides
    NoVerifier,     \* the steps whose verify_action no adapter provides
    Processes,      \* processes that call AgentRunner.run
    Nobody,         \* the lock is free
    Specs,          \* fingerprints of the task files processes are given
    NoSpec,         \* spec_fingerprint is None
    MaxDecisions    \* bound: reconciliations

Steps == 1..N

ASSUME RunnerAssumption ==
    /\ N \in Nat \ {0}
    /\ RetrySafe \subseteq Steps /\ HasVerifier \subseteq Steps
    /\ Unregistered \in [Processes -> SUBSET Steps] /\ NoVerifier \subseteq HasVerifier
    /\ MaxAttempts \in [Steps -> Nat \ {0}]
    /\ Nobody \notin Processes /\ NoSpec \notin Specs
    /\ MaxDecisions \in Nat

\* StepSpec.validate
ASSUME SingleAttemptAssumption == \A s \in Steps \ RetrySafe : MaxAttempts[s] = 1

VARIABLES
    disk,           \* the state file
    lock,           \* who holds the flock
    proc,           \* each process: where it is, its spec, step and copy of the state
    applied,        \* how often each step's effect took place
    invoked,        \* history: how often each action was called
    approved,       \* history: operator decisions that a step was not applied
    confirmed,      \* history: steps whose last invocation was found good
    decisions       \* reconciliations so far

runnerVars == <<disk, lock, proc, applied, invoked, approved, confirmed, decisions>>
history == <<applied, invoked, approved, confirmed, decisions>>

TaskStatus == {"pending", "running", "blocked", "completed", "failed"}
TaskState == [exists : BOOLEAN, status : TaskStatus, completed : SUBSET Steps,
              attempts : [Steps -> Nat], spec : Specs \cup {NoSpec}]

NewState == [exists |-> FALSE, status |-> "pending", completed |-> {},
             attempts |-> [s \in Steps |-> 0], spec |-> NoSpec]

-----------------------------------------------------------------------------

\* save_state: the process's copy replaces the file.
Save(p, state, pc) ==
    /\ disk' = [state EXCEPT !.exists = TRUE]
    /\ proc' = [proc EXCEPT ![p].mem = disk', ![p].pc = pc]

\* A save after which run returns and gives up the lock.
SaveAndReturn(p, status) ==
    /\ Save(p, [proc[p].mem EXCEPT !.status = status], "idle")
    /\ lock' = Nobody
    /\ UNCHANGED history

\* Attempts on record without completion: their outcome is unknown.
Unresolved(state) == {s \in Steps : state.attempts[s] > 0 /\ s \notin state.completed}

\* run: the nonblocking lock, then the state of this very spec or none at all.
Acquire(p, spec) ==
    /\ proc[p].pc = "idle"
    /\ lock = Nobody
    /\ disk.exists => disk.spec = spec
    /\ lock' = p
    /\ proc' = [proc EXCEPT ![p] =
                  [pc |-> "entered", step |-> 0, mem |-> [disk EXCEPT !.spec = spec]]]
    /\ UNCHANGED <<disk, history>>

\* A new state file is bound to the spec before anything else is decided.
BindSpec(p) ==
    /\ proc[p].pc = "entered"
    /\ ~proc[p].mem.exists
    /\ Save(p, proc[p].mem, "entered")
    /\ UNCHANGED <<lock, history>>

Entered(p) == proc[p].pc = "entered" /\ proc[p].mem.exists
Terminal(p) == proc[p].mem.status \in {"completed", "blocked", "failed"}

ResumeSkipped(p) ==
    /\ Entered(p)
    /\ Terminal(p)
    /\ lock' = Nobody
    /\ proc' = [proc EXCEPT ![p].pc = "idle"]
    /\ UNCHANGED <<disk, history>>

BlockUnresolved(p) ==
    /\ Entered(p)
    /\ ~Terminal(p)
    /\ Unresolved(proc[p].mem) # {}
    /\ SaveAndReturn(p, "blocked")

\* Mutant: an interrupted step does not stop the run.
BeginAnyway(p) ==
    /\ Entered(p)
    /\ ~Terminal(p)
    /\ Save(p, [proc[p].mem EXCEPT !.status = "running"], "next")
    /\ UNCHANGED <<lock, history>>

Begin(p) ==
    /\ Entered(p)
    /\ ~Terminal(p)
    /\ Unresolved(proc[p].mem) = {}
    /\ Save(p, [proc[p].mem EXCEPT !.status = "running"], "next")
    /\ UNCHANGED <<lock, history>>

-----------------------------------------------------------------------------
(* The loop over the steps *)

Remaining(p) == Steps \ proc[p].mem.completed
IsNext(p, s) == s \in Remaining(p) /\ \A r \in Remaining(p) : s <= r

Attempting(p, pc) == proc[p].pc = pc
Step(p) == proc[p].step

\* Mutant: the runner waits for an adapter to turn up.
TakeStepWaiting(p, s) ==
    /\ proc[p].pc = "next"
    /\ IsNext(p, s)
    /\ s \notin Unregistered[p]
    /\ proc' = [proc EXCEPT ![p].pc = "attempt", ![p].step = s]
    /\ UNCHANGED <<disk, lock, history>>

\* Completed steps are skipped; the first other one is taken up.
TakeStep(p, s) ==
    /\ proc[p].pc = "next"
    /\ IsNext(p, s)
    /\ IF s \in Unregistered[p]
       THEN SaveAndReturn(p, "blocked")
       ELSE /\ proc' = [proc EXCEPT ![p].pc = "attempt", ![p].step = s]
            /\ UNCHANGED <<disk, lock, history>>

\* The attempt is on disk before the action is called.
BeginAttempt(p) ==
    /\ Attempting(p, "attempt")
    /\ Save(p, [proc[p].mem EXCEPT !.attempts[Step(p)] = @ + 1], "invoke")
    /\ UNCHANGED <<lock, history>>

\* The action succeeds, refuses before doing anything (BlockedAction), or fails
\* with its effect in doubt.
Invoke(p) ==
    /\ Attempting(p, "invoke")
    /\ \E outcome \in {"save", "refused", "failed"} :
         \E effect \in CASE outcome = "save"    -> {1}
                         [] outcome = "refused" -> {0}
                         [] OTHER               -> {0, 1} :
            /\ proc' = [proc EXCEPT ![p].pc = outcome]
            /\ applied' = [applied EXCEPT ![Step(p)] = @ + effect]
    /\ invoked' = [invoked EXCEPT ![Step(p)] = @ + 1]
    /\ confirmed' = confirmed \ {Step(p)}
    /\ UNCHANGED <<disk, lock, approved, decisions>>

Refused(p) ==
    /\ Attempting(p, "refused")
    /\ SaveAndReturn(p, "blocked")

Failed(p) ==
    /\ Attempting(p, "failed")
    /\ IF Step(p) \notin RetrySafe THEN SaveAndReturn(p, "blocked")
       ELSE IF proc[p].mem.attempts[Step(p)] >= MaxAttempts[Step(p)]
       THEN SaveAndReturn(p, "failed")
       ELSE /\ proc' = [proc EXCEPT ![p].pc = "attempt"]
            /\ UNCHANGED <<disk, lock, history>>

\* The artifacts of the result are saved before it is verified.
SaveResult(p) ==
    /\ Attempting(p, "save")
    /\ Save(p, proc[p].mem, IF Step(p) \in HasVerifier THEN "verify" ELSE "complete")
    /\ UNCHANGED <<lock, history>>

\* Mutant: a verifier that fails or says no is overlooked.
VerifyLenient(p) ==
    /\ Attempting(p, "verify")
    /\ \E ok \in BOOLEAN :
          /\ confirmed' = IF ok THEN confirmed \cup {Step(p)} ELSE confirmed
          /\ proc' = [proc EXCEPT ![p].pc = "complete"]
          /\ UNCHANGED <<disk, lock, applied, invoked, approved, decisions>>

\* The verifier confirms, or the task is blocked: it said no, raised an
\* exception, or there is none.
Verify(p) ==
    /\ Attempting(p, "verify")
    /\ \/ /\ Step(p) \notin NoVerifier
          /\ confirmed' = confirmed \cup {Step(p)}
          /\ proc' = [proc EXCEPT ![p].pc = "complete"]
          /\ UNCHANGED <<disk, lock, applied, invoked, approved, decisions>>
       \/ SaveAndReturn(p, "blocked")

CompleteStep(p) ==
    /\ Attempting(p, "complete")
    /\ Save(p, [proc[p].mem EXCEPT !.completed = @ \cup {Step(p)}], "next")
    /\ UNCHANGED <<lock, history>>

CompleteTask(p) ==
    /\ proc[p].pc = "next"
    /\ Remaining(p) = {}
    /\ SaveAndReturn(p, "completed")

\* The process dies, or an exception leaves run; either way the lock is free.
Crash(p) ==
    /\ proc[p].pc # "idle"
    /\ proc' = [proc EXCEPT ![p].pc = "idle"]
    /\ lock' = IF lock = p THEN Nobody ELSE lock
    /\ UNCHANGED <<disk, history>>

-----------------------------------------------------------------------------
(* reconcile_blocked_step, under the same lock.  The operator tells the     *)
(* truth about the effect of the step he names, which may be any step.      *)

Decide(state) ==
    /\ lock = Nobody
    /\ disk.exists /\ disk.status = "blocked"
    /\ decisions < MaxDecisions
    /\ disk' = state
    /\ decisions' = decisions + 1
    /\ UNCHANGED <<lock, proc, applied, invoked>>

reconcile_not_applied(s) ==
    /\ applied[s] = 0
    /\ Decide([disk EXCEPT !.status = "pending", !.attempts[s] = 0])
    /\ approved' = [approved EXCEPT ![s] = @ + 1]
    /\ UNCHANGED confirmed

reconcile_applied_and_verified(s) ==
    /\ applied[s] > 0
    /\ Decide([disk EXCEPT !.status = "pending", !.completed = @ \cup {s}])
    /\ confirmed' = confirmed \cup {s}
    /\ UNCHANGED approved

reconcile_needs_manual_action ==
    /\ Decide(disk)
    /\ UNCHANGED <<approved, confirmed>>

-----------------------------------------------------------------------------

\* No file yet, or one from before files were bound to a spec.
RunnerInit ==
    /\ disk \in {NewState, [NewState EXCEPT !.exists = TRUE]}
    /\ lock = Nobody
    /\ proc = [p \in Processes |-> [pc |-> "idle", step |-> 0, mem |-> NewState]]
    /\ applied = [s \in Steps |-> 0]
    /\ invoked = [s \in Steps |-> 0]
    /\ approved = [s \in Steps |-> 0]
    /\ confirmed = {}
    /\ decisions = 0

RunStep(p) ==
    \/ BindSpec(p) \/ ResumeSkipped(p) \/ BlockUnresolved(p) \/ Begin(p)
    \/ \E s \in Steps : TakeStep(p, s)
    \/ BeginAttempt(p) \/ Invoke(p) \/ Refused(p) \/ Failed(p) \/ SaveResult(p)
    \/ Verify(p) \/ CompleteStep(p) \/ CompleteTask(p)

OperatorStep ==
    \/ \E s \in Steps : reconcile_not_applied(s) \/ reconcile_applied_and_verified(s)
    \/ reconcile_needs_manual_action

RunnerNext ==
    \/ \E p \in Processes : RunStep(p) \/ Crash(p) \/ \E spec \in Specs : Acquire(p, spec)
    \/ OperatorStep

RunnerSpec == RunnerInit /\ [][RunnerNext]_runnerVars

\* A process that is running takes its next step: actions and verifiers return.
FairRunnerSpec == RunnerSpec /\ \A p \in Processes : WF_runnerVars(RunStep(p))

-----------------------------------------------------------------------------
(* Properties *)

\* The effect of a step that is not retry-safe takes place at most once, through
\* crashes, restarts, competing processes and reconciliations.
UnsafeEffectOnce == \A s \in Steps \ RetrySafe : applied[s] <= 1

\* Actions are called within the budget: max_attempts calls, and as many again
\* for every decision that the step was not applied.
InvocationBudget ==
    \A s \in Steps : invoked[s] <= MaxAttempts[s] * (1 + approved[s])

\* Effects and calls stay within what the spec and the operator's decisions allow.
EffectsBounded == UnsafeEffectOnce /\ InvocationBudget

\* A step is on record as completed only if its effect took place and, when it
\* has a verifier, its last invocation was confirmed by that or by the operator.
CompletedIsReal ==
    \A s \in disk.completed :
        /\ applied[s] > 0
        /\ s \in HasVerifier => s \in confirmed

\* Every run comes to an end.
RunEnds == \A p \in Processes : proc[p].pc # "idle" ~> proc[p].pc = "idle"
=============================================================================
