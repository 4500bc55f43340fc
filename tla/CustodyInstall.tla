--------------------------- MODULE CustodyInstall ---------------------------
(***************************************************************************)
(* review/secret_custody_h2.py: apply, verify and rollback of the disabled *)
(* custody identity on one host.  An operation is a script of host steps;  *)
(* it can stop before any of them (Stop, an OSError, a kill), and nothing  *)
(* is cleaned up then.  apply and rollback exclude each other by a flock   *)
(* on the state directory; verify takes no lock.                           *)
(*                                                                         *)
(* A path is absent, half made ("raw": created, but owner, mode or bytes   *)
(* are not in place yet), "ok", or "foreign" (made or altered by the       *)
(* administrator).  Uid and gid of the account are one number.             *)
(***************************************************************************)
EXTENDS Naturals, Sequences

CONSTANTS
    Procs,        \* processes running the script
    Uids,         \* numbers useradd may allocate
    MaxOps,       \* bound on operations started
    MaxEdits,     \* bound on edits of the administrator
    AtomicLock    \* no other process acts between os.open and flock

ASSUME CustodyAssumption ==
    /\ Uids \subseteq Nat \ {0} /\ Uids # {}
    /\ MaxOps \in Nat /\ MaxEdits \in Nat /\ AtomicLock \in BOOLEAN

VARIABLES
    obj,          \* path -> its condition
    dirs,         \* state directories made so far: the inode of the last one
    saved,        \* content of receipt.json
    draft,        \* content of receipt.json.next
    user, group,  \* the account databases
    loaded,       \* the manager knows the unit
    busy,         \* uids that own a process
    proc,         \* process -> what it is doing
    answer,       \* process -> result line of its last operation
    seen,         \* processes during whose last operation a complete
                  \*   installation existed at some instant
    ops, edits    \* operations started, edits made

vars == <<obj, dirs, saved, draft, user, group, loaded, busy, proc, answer, seen, ops, edits>>
host == <<obj, dirs, saved, draft, user, group, loaded>>

Targets == {"opt", "etc", "gates", "unit"}
Paths == Targets \cup {"state", "receipt", "next"}
Conditions == {"absent", "raw", "ok", "foreign"}

\* Tag 0 is the administrator's; uid 0 stands for None in a receipt.
NoReceipt == [id |-> 0, uid |-> 0]
NoUser == [tag |-> 0, uid |-> 0, clean |-> TRUE]
NoGroup == [gid |-> 0, own |-> FALSE, clean |-> TRUE]
Idle == [todo |-> <<>>, r |-> NoReceipt, dir |-> 0, locked |-> FALSE]

Init ==
    /\ obj = [x \in Paths |-> "absent"] /\ dirs = 0
    /\ saved = NoReceipt /\ draft = NoReceipt
    /\ user = NoUser /\ group = NoGroup /\ loaded = FALSE /\ busy = {}
    /\ proc = [p \in Procs |-> Idle] /\ answer = [p \in Procs |-> "none"]
    /\ seen = {} /\ ops = 0 /\ edits = 0

\* The host after a complete apply.  No edit is left to the administrator.
Installed ==
    /\ obj = [x \in Paths |-> IF x = "next" THEN "absent" ELSE "ok"] /\ dirs = 1
    /\ draft = NoReceipt /\ loaded = TRUE /\ busy = {}
    /\ \E n \in Uids :
         /\ saved = [id |-> 1, uid |-> n]
         /\ user = [tag |-> 1, uid |-> n, clean |-> TRUE]
         /\ group = [gid |-> n, own |-> TRUE, clean |-> TRUE]
    /\ proc = [p \in Procs |-> Idle] /\ answer = [p \in Procs |-> "none"]
    /\ seen = {} /\ ops = 2 /\ edits = MaxEdits

(***************************************************************************)
(* The checks.                                                             *)
(***************************************************************************)
Parent(x) == CASE x \in {"receipt", "next"} -> "state"
               [] x = "gates" -> "etc"
               [] OTHER -> x

Fresh ==
    /\ user = NoUser /\ group = NoGroup /\ ~loaded
    /\ \A x \in Targets \cup {"state"} : obj[x] = "absent"

ReceiptReadable == obj["state"] = "ok" /\ obj["receipt"] = "ok" /\ obj["next"] = "absent"

\* Mutant: the account's tag is not compared with the receipt.
IdentityAnyTag(r) ==
    /\ user # NoUser /\ user.clean /\ group.gid = user.uid /\ group.clean
    /\ r.uid \in {0, user.uid} /\ user.uid \notin busy

Identity(r) ==
    /\ user # NoUser /\ user.tag = r.id /\ user.clean
    /\ group.gid = user.uid /\ group.clean
    /\ r.uid \in {0, user.uid} /\ user.uid \notin busy

PartialIdentity(r) ==
    IF user # NoUser THEN Identity(r)
    ELSE (group # NoGroup => r.uid = group.gid /\ group.clean) /\ r.uid \notin busy

AllFiles == \A x \in Targets : obj[x] = "ok"

PartialFiles(r) ==
    /\ \A x \in Targets : obj[x] \in {"absent", "ok"}
    /\ obj["etc"] = "ok" => user # NoUser \/ r.uid # 0

\* Everything apply sets up, at one instant.
InPlace ==
    /\ ReceiptReadable /\ user # NoUser /\ user.tag = saved.id /\ user.clean
    /\ group.gid = user.uid /\ group.clean /\ saved.uid = user.uid
    /\ AllFiles /\ loaded

\* And no process runs under its account: what verify asks for.
Complete == InPlace /\ Identity(saved)

(***************************************************************************)
(* The scripts.  <<"make", x>>, <<"own", x>> are the creation of a path    *)
(* and the setting of its owner, mode and bytes.                           *)
(***************************************************************************)
MakeOwn(x) == << <<"make", x>>, <<"own", x>> >>

SaveReceipt == MakeOwn("next") \o << <<"replace", "next">> >>

LockState == << <<"open", "state">>, <<"flock", "state">> >>

\* Mutant: verify does not look at the files.
VerifyStepsNoFiles == << <<"receipt", "installed">>, <<"identity", "full">>, <<"unit", "loaded">> >>

VerifySteps ==
    << <<"receipt", "installed">>, <<"identity", "full">>, <<"files", "full">>, <<"unit", "loaded">> >>

VerifyScript == VerifySteps \o << <<"answer", "installed">> >>

InstallScript ==
    MakeOwn("receipt") \o << <<"useradd", "user">>, <<"identity", "adopt">> >>
      \o SaveReceipt \o MakeOwn("opt") \o MakeOwn("etc")
      \o MakeOwn("gates") \o MakeOwn("unit") \o << <<"reload", "unit">> >> \o VerifyScript

ApplyScript == MakeOwn("state") \o LockState \o InstallScript

\* Mutant: the group is deleted while the account still uses it.
RemoveScriptGroupFirst ==
    << <<"receipt", "any">>, <<"check", "partial">>,
       <<"drop", "gates">>, <<"drop", "unit">>, <<"drop", "etc">>, <<"drop", "opt">>,
       <<"reload", "unit">>, <<"unit", "gone">>, <<"groupdel", "group">>, <<"record", "user">>,
       <<"confirm", "identity">>, <<"drop", "receipt">>, <<"drop", "state">>,
       <<"answer", "rolled_back">> >>

RemoveScript ==
    << <<"receipt", "any">>, <<"check", "partial">>,
       <<"drop", "gates">>, <<"drop", "unit">>, <<"drop", "etc">>, <<"drop", "opt">>,
       <<"reload", "unit">>, <<"unit", "gone">>, <<"record", "user">>, <<"groupdel", "group">>,
       <<"confirm", "identity">>, <<"drop", "receipt">>, <<"drop", "state">>,
       <<"answer", "rolled_back">> >>

RollbackScript == LockState \o RemoveScript

UserdelScript == SaveReceipt \o << <<"userdel", "user">> >>

(***************************************************************************)
(* Steps of a process.                                                     *)
(***************************************************************************)
Active(p) == proc[p].todo # <<>>

At(p, kind, x) == Active(p) /\ Head(proc[p].todo) = <<kind, x>>

Advance(p) == proc' = [proc EXCEPT ![p].todo = Tail(@)]

AdvanceWith(p, r) == proc' = [proc EXCEPT ![p].todo = Tail(@), ![p].r = r]

\* An exception, a kill, or a refused check: locks are released, the rest stays.
Abort(p) ==
    /\ Active(p)
    /\ proc' = [proc EXCEPT ![p] = Idle]
    /\ UNCHANGED <<host, answer, ops, edits>>

Begin(p, script, id) ==
    /\ ~Active(p) /\ ops < MaxOps
    /\ ops' = ops + 1
    /\ proc' = [proc EXCEPT ![p] = [Idle EXCEPT !.todo = script, !.r.id = id]]
    /\ answer' = [answer EXCEPT ![p] = "none"]
    /\ UNCHANGED <<host, edits>>

apply(p) == Fresh /\ Begin(p, ApplyScript, ops + 1)

verify(p) == Begin(p, VerifyScript, 0)

rollback(p) == Begin(p, RollbackScript, 0)

Open(p) ==
    /\ At(p, "open", "state") /\ obj["state"] # "absent"
    /\ proc' = [proc EXCEPT ![p].todo = Tail(@), ![p].dir = dirs]
    /\ UNCHANGED <<host, answer, ops, edits>>

Flock(p) ==
    /\ At(p, "flock", "state")
    /\ ~\E q \in Procs \ {p} : proc[q].locked /\ proc[q].dir = proc[p].dir
    /\ proc' = [proc EXCEPT ![p].todo = Tail(@), ![p].locked = TRUE]
    /\ UNCHANGED <<host, answer, ops, edits>>

Make(p, x) ==
    /\ At(p, "make", x)
    /\ obj[x] = "absent" /\ (Parent(x) = x \/ obj[Parent(x)] # "absent")
    /\ obj' = [obj EXCEPT ![x] = "raw"]
    /\ dirs' = IF x = "state" THEN dirs + 1 ELSE dirs
    /\ Advance(p)
    /\ UNCHANGED <<saved, draft, user, group, loaded, answer, ops, edits>>

Own(p, x) ==
    /\ At(p, "own", x) /\ obj[x] # "absent"
    /\ obj' = [obj EXCEPT ![x] = "ok"]
    /\ saved' = IF x = "receipt" THEN proc[p].r ELSE saved
    /\ draft' = IF x = "next" THEN proc[p].r ELSE draft
    /\ Advance(p)
    /\ UNCHANGED <<dirs, user, group, loaded, answer, ops, edits>>

Replace(p) ==
    /\ At(p, "replace", "next") /\ obj["next"] # "absent"
    /\ obj' = [obj EXCEPT !["receipt"] = obj["next"], !["next"] = "absent"]
    /\ saved' = draft /\ draft' = NoReceipt
    /\ Advance(p)
    /\ UNCHANGED <<dirs, user, group, loaded, answer, ops, edits>>

create_user(p) ==
    /\ At(p, "useradd", "user") /\ user = NoUser /\ group = NoGroup
    /\ \E n \in Uids :
         /\ group' = [gid |-> n, own |-> TRUE, clean |-> TRUE]
         /\ \/ user' = [tag |-> proc[p].r.id, uid |-> n, clean |-> TRUE] /\ Advance(p)
            \/ user' = NoUser /\ proc' = [proc EXCEPT ![p] = Idle]  \* failed half way
    /\ UNCHANGED <<obj, dirs, saved, draft, loaded, answer, ops, edits>>

ReadReceipt(p) ==
    /\ \/ At(p, "receipt", "any")
       \/ At(p, "receipt", "installed") /\ saved.uid # 0
    /\ ReceiptReadable
    /\ AdvanceWith(p, saved)
    /\ UNCHANGED <<host, answer, ops, edits>>

CheckIdentity(p) ==
    /\ Identity(proc[p].r)
    /\ \/ At(p, "identity", "full") /\ Advance(p)
       \/ At(p, "identity", "adopt") /\ AdvanceWith(p, [proc[p].r EXCEPT !.uid = user.uid])
    /\ UNCHANGED <<host, answer, ops, edits>>

CheckFiles(p) ==
    /\ At(p, "files", "full") /\ AllFiles
    /\ Advance(p)
    /\ UNCHANGED <<host, answer, ops, edits>>

CheckPartial(p) ==
    /\ At(p, "check", "partial")
    /\ PartialIdentity(proc[p].r) /\ PartialFiles(proc[p].r)
    /\ Advance(p)
    /\ UNCHANGED <<host, answer, ops, edits>>

CheckUnit(p) ==
    /\ \/ At(p, "unit", "loaded") /\ loaded
       \/ At(p, "unit", "gone") /\ ~loaded
    /\ Advance(p)
    /\ UNCHANGED <<host, answer, ops, edits>>

Reload(p) ==
    /\ At(p, "reload", "unit")
    /\ loaded' = (obj["unit"] # "absent")
    /\ Advance(p)
    /\ UNCHANGED <<obj, dirs, saved, draft, user, group, answer, ops, edits>>

\* unlink or rmdir; a directory must be empty.
Drop(p, x) ==
    /\ At(p, "drop", x)
    /\ \A y \in Paths \ {x} : Parent(y) = x => obj[y] = "absent"
    /\ obj' = [obj EXCEPT ![x] = "absent"]
    /\ saved' = IF x = "receipt" THEN NoReceipt ELSE saved
    /\ Advance(p)
    /\ UNCHANGED <<dirs, draft, user, group, loaded, answer, ops, edits>>

\* The number is made durable before the account that proves it goes away.
RecordUser(p) ==
    /\ At(p, "record", "user")
    /\ IF user = NoUser THEN Advance(p)
       ELSE proc' = [proc EXCEPT ![p].todo = UserdelScript \o Tail(@), ![p].r.uid = user.uid]
    /\ UNCHANGED <<host, answer, ops, edits>>

remove_user(p) ==
    /\ At(p, "userdel", "user") /\ Identity(proc[p].r)
    /\ user' = NoUser /\ group' \in {group, NoGroup}
    /\ Advance(p)
    /\ UNCHANGED <<obj, dirs, saved, draft, loaded, answer, ops, edits>>

remove_group(p) ==
    /\ At(p, "groupdel", "group") /\ PartialIdentity(proc[p].r)
    /\ group' = NoGroup
    /\ Advance(p)
    /\ UNCHANGED <<obj, dirs, saved, draft, user, loaded, answer, ops, edits>>

ConfirmRemoval(p) ==
    /\ At(p, "confirm", "identity") /\ user = NoUser /\ group = NoGroup
    /\ Advance(p)
    /\ UNCHANGED <<host, answer, ops, edits>>

Answer(p) ==
    /\ \E line \in {"installed", "rolled_back"} :
         At(p, "answer", line) /\ answer' = [answer EXCEPT ![p] = line]
    /\ proc' = [proc EXCEPT ![p] = Idle]
    /\ UNCHANGED <<host, ops, edits>>

HostStep(p) ==
    \/ Abort(p) \/ Open(p) \/ Flock(p) \/ Replace(p) \/ create_user(p)
    \/ ReadReceipt(p) \/ CheckIdentity(p) \/ CheckFiles(p) \/ CheckPartial(p) \/ CheckUnit(p)
    \/ Reload(p) \/ RecordUser(p) \/ remove_user(p) \/ remove_group(p) \/ ConfirmRemoval(p)
    \/ Answer(p)
    \/ \E x \in Paths : Make(p, x) \/ Own(p, x) \/ Drop(p, x)

(***************************************************************************)
(* The administrator (external) edits the host between operations, never   *)
(* during one, and does not give a group of his own a number a receipt     *)
(* records.                                                                *)
(***************************************************************************)
Quiet == \A p \in Procs : ~Active(p)

AdminFile ==
    /\ \E x \in Targets :
         /\ Parent(x) = x \/ obj[Parent(x)] # "absent"
         /\ obj' = [obj EXCEPT ![x] = "foreign"]
    /\ UNCHANGED <<user, group>>

AdminAccount ==
    /\ \/ /\ user = NoUser /\ group = NoGroup
          /\ \E n \in Uids \ {saved.uid} :
               /\ group' = [gid |-> n, own |-> FALSE, clean |-> TRUE]
               /\ user' \in {NoUser, [tag |-> 0, uid |-> n, clean |-> TRUE]}
       \/ /\ user # NoUser
          /\ user' = [user EXCEPT !.clean = ~@]
          /\ UNCHANGED group
    /\ UNCHANGED obj

AdminEdit ==
    /\ Quiet /\ edits < MaxEdits
    /\ edits' = edits + 1
    /\ AdminFile \/ AdminAccount
    /\ UNCHANGED <<dirs, saved, draft, loaded, proc, answer, ops>>

(***************************************************************************)
(* Specification.                                                          *)
(***************************************************************************)
Undisturbed(p) ==
    AtomicLock => \A q \in Procs \ {p} : ~At(q, "flock", "state")

Step ==
    \/ \E p \in Procs : Undisturbed(p) /\ (apply(p) \/ verify(p) \/ rollback(p) \/ HostStep(p))
    \/ AdminEdit

\* History: who had a complete installation before its eyes.
Beginning(p) == proc[p].todo = <<>> /\ proc'[p].todo # <<>>

Observe ==
    seen' = {p \in Procs : \/ p \in seen /\ ~Beginning(p)
                           \/ InPlace' /\ proc'[p].todo # <<>>}

Next == Step /\ UNCHANGED busy /\ Observe

Spec == Init /\ [][Next]_vars

(***************************************************************************)
(* Properties.                                                             *)
(***************************************************************************)
\* Whoever prints INSTALLED_DISABLED_NOT_QUALIFIED, also a verify that takes
\* no lock and reads receipt, account, files and unit one after the other while
\* others apply and roll back: at one instant of its run all was in place.  (That
\* no process owned the account holds when verify looked, not at that instant.)
VerifiedWasInstalled ==
    \A p \in Procs : answer[p] = "installed" => p \in seen

OwnTarget(x) == obj[x] \in {"raw", "ok"}

\* Wherever an operation stops, nothing the package made is on the host without
\* the state directory that makes fresh refuse the next apply.
StateGuardsArtifacts ==
    user.tag # 0 \/ group.own \/ (\E x \in Targets : OwnTarget(x))
      => obj["state"] # "absent"

\* The interrupted states that need a manual review: no complete receipt, a
\* receipt being replaced, something half made, a group whose number was lost.
NeedsReview ==
    \/ ~ReceiptReadable
    \/ \E x \in Targets : obj[x] = "raw"
    \/ user = NoUser /\ group # NoGroup /\ saved.uid = 0

AdminTouched ==
    \/ \E x \in Targets : obj[x] = "foreign"
    \/ user # NoUser /\ (user.tag = 0 \/ ~user.clean)
    \/ group # NoGroup /\ ~group.own

\* Every other interrupted apply or rollback, at whatever step, leaves a host
\* whose remains the next rollback accepts and removes.
InterruptedStaysRemovable ==
    Quiet /\ ~Fresh /\ ~AdminTouched /\ busy = {}
      => NeedsReview \/ (PartialIdentity(saved) /\ PartialFiles(saved))

\* An apply or rollback that stops anywhere leaves nothing behind that the next
\* apply could overlook or, short of the cases for review, rollback not remove.
RemainsAreRecoverable == StateGuardsArtifacts /\ InterruptedStaysRemovable

\* No operation removes or replaces what the administrator made or altered: a
\* changed file, an account with another tag or changed settings, a group.
ForeignUntouched ==
    [][/\ \A x \in Targets : obj[x] = "foreign" => obj'[x] = "foreign"
       /\ user # NoUser /\ (user.tag = 0 \/ ~user.clean) => user'.uid = user.uid
       /\ group # NoGroup /\ ~group.own => group' = group]_vars

\* An advisory lock serializes package mutation: two processes that change the
\* host (more than their answer is left to do) never both hold the lock.
Mutating(p) == proc[p].locked /\ Len(proc[p].todo) > 1

MutationSerialised ==
    \A p, q \in Procs : Mutating(p) /\ Mutating(q) => p = q
=============================================================================
