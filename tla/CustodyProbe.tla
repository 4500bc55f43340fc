---------------------------- MODULE CustodyProbe ----------------------------
(***************************************************************************)
(* review/secret_custody_h2b.py, h2c.py and h2d.py: synthetic probes of    *)
(* the installed custody identity, composed with the installer.            *)
(*                                                                         *)
(* A probe verifies the installation, takes the installer's lock, starts   *)
(* transient units under the custody account, and removes them.  h2b (and  *)
(* h2c, which only adds probe settings) runs one unit to its end; h2d      *)
(* kills the unit's main process in a first unit and the launcher in a     *)
(* second, and waits for what the service manager does.  The manager is    *)
(* external.  Any step of a probe can fail or be interrupted (a signal     *)
(* raises Stop wherever the program is), which runs the finally blocks     *)
(* that are left; a kill runs none of them.  Unit names are fresh uuids,   *)
(* so own() holds of every unit a probe looks at.                          *)
(***************************************************************************)
EXTENDS CustodyInstall

CONSTANTS
    MaxUnits,     \* bound on transient units
    Probers,      \* processes that run probe scripts
    Kinds         \* probes started: "h2b", "h2d"

ASSUME ProbeAssumption ==
    MaxUnits \in Nat /\ Probers \subseteq Procs /\ Kinds \subseteq {"h2b", "h2d"}

VARIABLES
    units,        \* name -> the transient unit as the manager has it
    made,         \* names used so far
    launcher,     \* process -> its systemd-run child
    names,        \* process -> units of its last probe, in order
    failed,       \* processes in which an exception is on its way up
    kinds         \* the probes this host is for

probe == <<units, made, launcher, names, failed>>

Names == 1..MaxUnits

NoUnit ==
    [phase |-> "absent", result |-> "none", main |-> "none", child |-> "none",
     ready |-> FALSE, tree |-> FALSE, collect |-> FALSE, uid |-> 0]

\* An installed host to be probed, or a fresh one and no probes.
ProbeInit ==
    /\ (Installed /\ kinds = Kinds) \/ (Init /\ kinds = {})
    /\ units = [n \in Names |-> NoUnit] /\ made = 0
    /\ launcher = [p \in Procs |-> "none"] /\ names = [p \in Procs |-> <<>>]
    /\ failed = {}

(***************************************************************************)
(* The scripts.  "cleanup" steps and "reap" are the finally blocks of a    *)
(* case; what follows <<"finally", "h2a">> is the outermost one.           *)
(***************************************************************************)
Cleanup ==
    << <<"cleanup", "stop">>, <<"cleanup", "reset">>, <<"cleanup", "gone">>, <<"reap", "launcher">> >>

ParentCase ==
    << <<"launch", "tree">>, <<"ready", "tree">>, <<"active", "unit">>, <<"observe", "tree">>,
       <<"active", "unit">>, <<"fault", "main">>, <<"await", "signal">>, <<"await", "exit">> >> \o Cleanup

LauncherCase ==
    << <<"launch", "tree">>, <<"ready", "tree">>, <<"active", "unit">>, <<"observe", "tree">>,
       <<"fault", "launcher">>, <<"active", "unit">>, <<"await", "timeout">> >> \o Cleanup

SandboxCase == << <<"launch", "single">>, <<"await", "success">> >> \o Cleanup

\* verify in one step: under the lock nothing it reads but the account's processes
\* changes, and the first one, before the lock, is repeated under it.
Verify == << <<"verify", "h2a">> >>

Finally == << <<"finally", "h2a">> >> \o Verify \o << <<"report", "ok">> >>

ProbeScript(kind) ==
    Verify \o LockState \o Verify \o << <<"try", "h2a">> >>
      \o (IF kind = "h2b" THEN SandboxCase ELSE ParentCase \o Verify \o LauncherCase)
      \o Finally

From(todo, step) ==
    LET at == {i \in DOMAIN todo : todo[i] = step}
    IN  IF at = {} THEN <<>> ELSE SubSeq(todo, CHOOSE i \in at : \A j \in at : i <= j, Len(todo))

Contains(todo, step) == \E i \in DOMAIN todo : todo[i] = step

\* Where an exception raised before the first step of todo continues.
Handler(todo) ==
    CASE Contains(todo, <<"try", "h2a">>) -> <<>>
      [] Head(todo)[1] \in {"launch", "ready", "active", "observe", "fault", "await"} ->
           From(todo, <<"cleanup", "stop">>)
      [] Head(todo)[1] = "cleanup" -> From(todo, <<"reap", "launcher">>)
      [] OTHER -> From(todo, <<"finally", "h2a">>)

(***************************************************************************)
(* Steps of a probe.                                                       *)
(***************************************************************************)
Probing(p) == Contains(proc[p].todo, <<"report", "ok">>)

Name(p) == IF names[p] = <<>> THEN 0 ELSE names[p][Len(names[p])]

\* The unit of the current case, as systemctl show has it.
Mine(p) == IF Name(p) = 0 THEN NoUnit ELSE units[Name(p)]

SetUnit(n, u) == units' = [units EXCEPT ![n] = u]

Go(p) == Advance(p) /\ UNCHANGED <<host, answer, ops, edits>>

StartProbe(p) ==
    \E kind \in {k \in kinds : p \in Probers} :
      /\ Begin(p, ProbeScript(kind), 0)
      /\ names' = [names EXCEPT ![p] = <<>>]
      /\ failed' = failed \ {p} /\ launcher' = [launcher EXCEPT ![p] = "none"]
      /\ UNCHANGED <<units, made>>

\* A refused check, a failed or late command, a signal: Stop is raised.
Raise(p) ==
    /\ Probing(p)
    /\ LET rest == Handler(proc[p].todo)
       IN  /\ proc' = [proc EXCEPT ![p] = IF rest = <<>> THEN Idle ELSE [@ EXCEPT !.todo = rest]]
           /\ failed' = IF rest = <<>> THEN failed \ {p} ELSE failed \cup {p}
    /\ UNCHANGED <<host, answer, ops, edits, units, made, launcher, names>>

Marker(p) ==
    /\ At(p, "try", "h2a") \/ At(p, "finally", "h2a")
    /\ Go(p) /\ UNCHANGED probe

VerifyInstalled(p) ==
    /\ At(p, "verify", "h2a") /\ Complete
    /\ Go(p) /\ UNCHANGED probe

Launch(p) ==
    /\ At(p, "launch", "tree") \/ At(p, "launch", "single")
    /\ launcher[p] = "none" /\ made < MaxUnits
    /\ made' = made + 1
    /\ names' = [names EXCEPT ![p] = Append(@, made + 1)]
    /\ launcher' = [launcher EXCEPT ![p] = "running"]
    /\ SetUnit(made + 1, [NoUnit EXCEPT !.phase = "requested", !.uid = user.uid,
                            !.tree = At(p, "launch", "tree"), !.collect = At(p, "launch", "single")])
    /\ Go(p) /\ UNCHANGED failed

ready(p) ==
    /\ At(p, "ready", "tree") /\ Mine(p).ready
    /\ Go(p) /\ UNCHANGED probe

active(p) ==
    /\ At(p, "active", "unit") /\ Mine(p).phase = "active"
    /\ Go(p) /\ UNCHANGED probe

observe_processes(p) ==
    /\ At(p, "observe", "tree")
    /\ Mine(p).main = "live" /\ Mine(p).child = "live"
    /\ Go(p) /\ UNCHANGED probe

\* systemctl kill --kill-whom=main; it has no effect on a process already dead.
FaultMain(p) ==
    /\ At(p, "fault", "main") /\ Mine(p).phase = "active"
    /\ SetUnit(Name(p), IF Mine(p).main = "live"
                        THEN [Mine(p) EXCEPT !.main = "zombie", !.result = "signal"]
                        ELSE Mine(p))
    /\ Go(p) /\ UNCHANGED <<made, launcher, names, failed>>

FaultLauncher(p) ==
    /\ At(p, "fault", "launcher") /\ launcher[p] = "running"
    /\ launcher' = [launcher EXCEPT ![p] = "killed"]
    /\ Go(p) /\ UNCHANGED <<units, made, names, failed>>

reaped(u) == u.main = "none" /\ u.child = "none"

\* Mutant: any failure of the unit is accepted.
wait_failureAnyReason(p) ==
    /\ At(p, "await", "signal") \/ At(p, "await", "timeout")
    /\ Mine(p).phase = "failed" /\ reaped(Mine(p))
    /\ Go(p) /\ UNCHANGED probe

wait_failure(p) ==
    /\ \E reason \in {"signal", "timeout"} :
         At(p, "await", reason) /\ Mine(p).result = reason
    /\ Mine(p).phase = "failed" /\ reaped(Mine(p))
    /\ Go(p) /\ UNCHANGED probe

\* launcher.wait after the parent fault; the --wait exit status of h2b.
LauncherEnds(p) ==
    /\ launcher[p] = "exited"
    /\ At(p, "await", "exit") \/ (At(p, "await", "success") /\ Mine(p).result = "success")
    /\ Go(p) /\ UNCHANGED probe

\* A unit still requested is not-found to systemctl show.
Known(u) == u.phase \notin {"absent", "requested"}

CleanupStop(p) ==
    /\ At(p, "cleanup", "stop")
    /\ units' = IF Mine(p).phase = "active"
                THEN [units EXCEPT ![Name(p)].phase = "stopping", ![Name(p)].result = "stopped"]
                ELSE units
    /\ Go(p) /\ UNCHANGED <<made, launcher, names, failed>>

\* systemctl stop has returned; reset-failed unloads the unit.
CleanupReset(p) ==
    /\ At(p, "cleanup", "reset")
    /\ Mine(p).phase \notin {"active", "stopping"}
    /\ units' = IF Known(Mine(p))
                THEN [units EXCEPT ![Name(p)].phase = "absent"] ELSE units
    /\ Go(p) /\ UNCHANGED <<made, launcher, names, failed>>

CleanupGone(p) ==
    /\ At(p, "cleanup", "gone")
    /\ ~Known(Mine(p))
    /\ Go(p) /\ UNCHANGED probe

\* The innermost finally; an exception on its way up then skips the next case.
ReapLauncher(p) ==
    /\ At(p, "reap", "launcher")
    /\ launcher' = [launcher EXCEPT ![p] = "none"]
    /\ proc' = [proc EXCEPT ![p].todo = IF p \in failed THEN From(@, <<"finally", "h2a">>) ELSE Tail(@)]
    /\ UNCHANGED <<host, answer, ops, edits, units, made, names, failed>>

Report(p) ==
    /\ At(p, "report", "ok")
    /\ answer' = [answer EXCEPT ![p] = IF p \in failed THEN "stop" ELSE "probed"]
    /\ names' = [names EXCEPT ![p] = IF p \in failed THEN <<>> ELSE @]
    /\ proc' = [proc EXCEPT ![p] = Idle] /\ failed' = failed \ {p}
    /\ UNCHANGED <<host, ops, edits, units, made, launcher>>

ProbeStep(p) ==
    \/ StartProbe(p) \/ Raise(p) \/ Marker(p) \/ VerifyInstalled(p) \/ Launch(p) \/ ready(p) \/ active(p)
    \/ observe_processes(p) \/ FaultMain(p) \/ FaultLauncher(p) \/ wait_failure(p)
    \/ LauncherEnds(p) \/ CleanupStop(p) \/ CleanupReset(p) \/ CleanupGone(p)
    \/ ReapLauncher(p) \/ Report(p)

(***************************************************************************)
(* The service manager and the processes of a unit (external).             *)
(***************************************************************************)
\* A request whose sender was killed may or may not have been sent.
StartUnit(n) ==
    /\ units[n].phase = "requested"
    /\ \/ user.uid = units[n].uid
          /\ SetUnit(n, [units[n] EXCEPT !.phase = "active", !.main = "live"])
       \/ user.uid # units[n].uid
          /\ SetUnit(n, [units[n] EXCEPT !.phase = IF units[n].collect THEN "absent" ELSE "failed",
                                         !.result = "exit"])
       \/ /\ \A p \in Procs : launcher[p] = "running" => Name(p) # n
          /\ SetUnit(n, [units[n] EXCEPT !.phase = "absent"])

ForkChild(n) ==
    /\ units[n].tree /\ units[n].phase = "active"
    /\ units[n].main = "live" /\ units[n].child = "none"
    /\ SetUnit(n, [units[n] EXCEPT !.child = "live", !.ready = TRUE])

MainExits(n) ==
    /\ units[n].phase = "active" /\ units[n].main = "live"
    /\ SetUnit(n, [units[n] EXCEPT !.main = "zombie",
                     !.result = IF units[n].tree THEN "exit" ELSE "success"])

\* ExitType=main: the unit stops when its main process is gone.
MainReaped(n) ==
    /\ units[n].phase = "active" /\ units[n].main = "zombie"
    /\ SetUnit(n, [units[n] EXCEPT !.phase = "stopping", !.main = "none"])

\* Mutant: the deadline lives in the launcher.
RuntimeMaxLauncher(n) ==
    /\ units[n].phase = "active" /\ units[n].main = "live"
    /\ \E p \in Procs : launcher[p] = "running" /\ Name(p) = n
    /\ SetUnit(n, [units[n] EXCEPT !.phase = "stopping", !.result = "timeout"])

RuntimeMax(n) ==
    /\ units[n].phase = "active" /\ units[n].main = "live"
    /\ SetUnit(n, [units[n] EXCEPT !.phase = "stopping", !.result = "timeout"])

\* KillMode=control-group: SIGTERM ends the main process, SIGKILL the child.
KillTree(n) ==
    /\ units[n].phase = "stopping"
    /\ \/ units[n].main # "none" /\ SetUnit(n, [units[n] EXCEPT !.main = "none"])
       \/ units[n].child = "live" /\ SetUnit(n, [units[n] EXCEPT !.child = "zombie"])

ChildReaped(n) ==
    /\ units[n].child = "zombie"
    /\ SetUnit(n, [units[n] EXCEPT !.child = "none"])

Settle(n) ==
    /\ units[n].phase = "stopping" /\ units[n].main = "none" /\ units[n].child # "live"
    /\ SetUnit(n, [units[n] EXCEPT !.phase =
                     IF units[n].result \in {"exit", "signal", "timeout"} /\ ~units[n].collect
                     THEN "failed" ELSE "absent"])

StopStep(n) == MainReaped(n) \/ RuntimeMax(n) \/ KillTree(n) \/ ChildReaped(n) \/ Settle(n)

ManagerStep(n) ==
    /\ StartUnit(n) \/ ForkChild(n) \/ MainExits(n) \/ StopStep(n)
    /\ UNCHANGED <<host, proc, answer, ops, edits, made, launcher, names, failed>>

LauncherExits(p) ==
    /\ launcher[p] = "running"
    /\ Mine(p).phase \in {"absent", "failed"}
    /\ launcher' = [launcher EXCEPT ![p] = "exited"]
    /\ UNCHANGED <<host, proc, answer, ops, edits, units, made, names, failed>>

(***************************************************************************)
(* Specification.                                                          *)
(***************************************************************************)
InstallerStep ==
    /\ Step
    /\ UNCHANGED probe

Owners(us) == {us[n].uid : n \in {k \in Names : us[k].main # "none" \/ us[k].child # "none"}}

ProbeNext ==
    /\ \/ InstallerStep
       \/ \E p \in Procs : (Undisturbed(p) /\ ProbeStep(p)) \/ LauncherExits(p)
       \/ \E n \in Names : ManagerStep(n)
    /\ busy' = Owners(units')
    /\ Observe
    /\ UNCHANGED kinds

probeVars == <<vars, probe, kinds>>

\* The manager's deadlines, kills and reaping happen; what the processes of a
\* unit and the scripts do need not.
ManagerFairness ==
    \A n \in Names : WF_probeVars(ManagerStep(n) /\ StopStep(n) /\ busy' = Owners(units') /\ Observe /\ UNCHANGED kinds)

ProbeSpec == ProbeInit /\ [][ProbeNext]_probeVars /\ ManagerFairness

(***************************************************************************)
(* Properties.                                                             *)
(***************************************************************************)
\* H2D_SYNTHETIC_PROCESS_FAILURE_OK and H2B_BASIC_SANDBOX_OK are printed only
\* when the manager ended the units for the reasons under test (so the stop in
\* the cleanup did not stand in for it), nothing of them is left, and the
\* installation was complete at some instant of the run.
PassIsEarned ==
    \A p \in Procs : answer[p] = "probed" =>
      /\ p \in seen /\ launcher[p] # "running"
      /\ \A i \in DOMAIN names[p] : ~Known(units[names[p][i]]) /\ reaped(units[names[p][i]])
      /\ [i \in DOMAIN names[p] |-> units[names[p][i]].result]
           \in { <<"signal", "timeout">>, <<"success">> }

InTry(p) ==
    /\ Contains(proc[p].todo, <<"finally", "h2a">>)
    /\ ~Contains(proc[p].todo, <<"try", "h2a">>)

\* While a probe runs its units no other process changes the installation it
\* verified, because it holds the installer's lock.
ProbedHostStands ==
    \A p \in Procs : InTry(p) =>
      /\ ReceiptReadable /\ AllFiles /\ loaded
      /\ user.tag = saved.id /\ group.gid = user.uid

\* A probe's result is earned, and the host it is about stays as it was verified.
ProbesAreSound == PassIsEarned /\ ProbedHostStands

\* Whatever is killed and whenever, the processes a probe started are gone in
\* the end: RuntimeMaxSec and control-group killing do not need the script.
ProcessesEnd == []<>(busy = {})
=============================================================================
