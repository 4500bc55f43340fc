----------------------------- MODULE DurableCas -----------------------------
(***************************************************************************)
(* The PostgreSQL secret backend of the hosts: each compare_and_swap runs  *)
(* in a process of its own (ProcessDeadlinePostgresSecretBackend), which   *)
(* opens a connection, executes cas_binding and commits                    *)
(* (PostgresSecretBackend._operate), while the parent waits with a         *)
(* deadline and kills it when the deadline passes.                         *)
(*                                                                         *)
(* Four actors per call: the parent, the child, the database session and   *)
(* the row it locks.  A session outlives its client: what was sent before  *)
(* the child died is still executed.                                       *)
(*                                                                         *)
(* Abstractions.  The record is its version and whether it is revoked.     *)
(* The validation of a record against its binding, which cannot fail for a *)
(* record the store encoded, is left out, and so is the read's own child:  *)
(* a read that fails changes nothing.                                      *)
(***************************************************************************)
EXTENDS Integers

CONSTANTS
    Calls,          \* calls of compare_and_swap
    Hosts           \* processes that own a backend object

VARIABLES
    row,            \* the committed row of agent_credential_private.bindings
    session,        \* the database session of each call
    child,          \* the spawned process of each call
    message,        \* the response the child publishes in shared memory
    parent,         \* where the call stands in the parent
    call,           \* what each call is: its host, and whether it revokes
    expected,       \* the expected_version of each call
    outcome,        \* what the caller of the backend was told
    quarantined     \* _quarantined of each host's backend

durableVars == <<row, session, child, message, parent, call, expected, outcome, quarantined>>

NotCalled == -1
Outcomes == {"ok", "conflict", "unavailable", "ambiguous"}
Locking == {"held", "committing"}
Alive == {"connect", "execute", "commit"}

DurableInit ==
    /\ row = [version |-> 0, revoked |-> FALSE]
    /\ session = [c \in Calls |-> "none"]
    /\ child = [c \in Calls |-> "off"]
    /\ message = [c \in Calls |-> "none"]
    /\ parent = [c \in Calls |-> "idle"]
    /\ call \in [Calls -> [host : Hosts, revoke : BOOLEAN]]
    /\ expected = [c \in Calls |-> NotCalled]
    /\ outcome = [c \in Calls |-> "pending"]
    /\ quarantined = [h \in Hosts |-> FALSE]

-----------------------------------------------------------------------------
(* The database *)

\* Mutant: the row is read without FOR UPDATE.
LockFreeAlways == TRUE

LockFree == \A c \in Calls : session[c] \notin Locking

\* Mutant: a revoked row may be replaced.
CasExecuteRevoked(c) ==
    /\ session[c] = "running"
    /\ LockFree
    /\ session' = [session EXCEPT ![c] =
           IF row.version # expected[c] THEN "stale" ELSE "held"]
    /\ UNCHANGED <<row, child, message, parent, call, expected, outcome, quarantined>>

\* cas_binding waits for the row lock, then compares the version; it refuses a
\* revoked row with another error.
CasExecute(c) ==
    /\ session[c] = "running"
    /\ LockFree
    /\ session' = [session EXCEPT ![c] =
           IF row.version # expected[c] THEN "stale"
           ELSE IF row.revoked THEN "aborted" ELSE "held"]
    /\ UNCHANGED <<row, child, message, parent, call, expected, outcome, quarantined>>

CasCommit(c) ==
    /\ session[c] = "committing"
    /\ session' = [session EXCEPT ![c] = "committed"]
    /\ row' = [version |-> expected[c] + 1, revoked |-> call[c].revoke]
    /\ UNCHANGED <<child, message, parent, call, expected, outcome, quarantined>>

\* Mutant: no limit on a transaction that sits idle.
AbortNoIdle(c) ==
    /\ session[c] = "running"
    /\ session' = [session EXCEPT ![c] = "aborted"]
    /\ UNCHANGED <<row, child, message, parent, call, expected, outcome, quarantined>>

\* statement_timeout, lock_timeout and idle_in_transaction_session_timeout,
\* a lost connection, a missing vault secret, a commit that fails.
Abort(c) ==
    /\ session[c] \in {"running", "held", "committing"}
    /\ session' = [session EXCEPT ![c] = "aborted"]
    /\ UNCHANGED <<row, child, message, parent, call, expected, outcome, quarantined>>

-----------------------------------------------------------------------------
(* The child: PostgresSecretBackend._operate under _child *)

Publish(c, m) ==
    /\ child' = [child EXCEPT ![c] = "exited"]
    /\ message' = [message EXCEPT ![c] = m]

\* Nothing was submitted; an interrupt is reported as ambiguous all the same.
ConnectFails(c) ==
    /\ child[c] = "connect"
    /\ \E m \in {"unavailable", "ambiguous"} : Publish(c, m)
    /\ UNCHANGED <<row, session, parent, call, expected, outcome, quarantined>>

Submit(c) ==
    /\ child[c] = "connect"
    /\ child' = [child EXCEPT ![c] = "execute"]
    /\ session' = [session EXCEPT ![c] = "running"]
    /\ UNCHANGED <<row, message, parent, call, expected, outcome, quarantined>>

\* Only credential_version_conflict, rolled back, proves a conflict.
Conflict(c) ==
    /\ child[c] = "execute"
    /\ session[c] = "stale"
    /\ Publish(c, "conflict")
    /\ UNCHANGED <<row, session, parent, call, expected, outcome, quarantined>>

\* The readback equals the payload; the commit is sent.
SendCommit(c) ==
    /\ child[c] = "execute"
    /\ session[c] = "held"
    /\ child' = [child EXCEPT ![c] = "commit"]
    /\ session' = [session EXCEPT ![c] = "committing"]
    /\ UNCHANGED <<row, message, parent, call, expected, outcome, quarantined>>

Committed(c) ==
    /\ child[c] = "commit"
    /\ session[c] = "committed"
    /\ Publish(c, "ok")
    /\ UNCHANGED <<row, session, parent, call, expected, outcome, quarantined>>

\* Any other failure once the statement was sent, a conflict whose rollback
\* failed and a readback that differs too; the rollback may fail as well.
Fails(c) ==
    /\ child[c] \in {"execute", "commit"}
    /\ Publish(c, "ambiguous")
    /\ session' \in {session, [session EXCEPT ![c] = IF @ = "held" THEN "aborted" ELSE @]}
    /\ UNCHANGED <<row, parent, call, expected, outcome, quarantined>>

ChildDies(c) ==
    /\ child[c] \in Alive
    /\ child' = [child EXCEPT ![c] = "gone"]
    /\ UNCHANGED <<row, session, message, parent, call, expected, outcome, quarantined>>

-----------------------------------------------------------------------------
(* The parent: ProcessDeadlinePostgresSecretBackend._operate *)

Told(c, o) ==
    /\ parent' = [parent EXCEPT ![c] = "ended"]
    /\ outcome' = [outcome EXCEPT ![c] = o]

\* The process is stopped and closed, and the shared memory erased unless the
\* backend is quarantined.
Reap(c) ==
    /\ child' = [child EXCEPT ![c] = IF @ = "off" THEN @ ELSE "gone"]
    /\ message' = [message EXCEPT ![c] = IF quarantined[call[c].host] THEN @ ELSE "none"]

Read(c) ==
    /\ parent[c] = "idle"
    /\ ~quarantined[call[c].host]
    /\ parent' = [parent EXCEPT ![c] = "ready"]
    /\ expected' = [expected EXCEPT ![c] = row.version]
    /\ UNCHANGED <<row, session, child, message, call, outcome, quarantined>>

\* A quarantined backend, or an unsafe environment, starts nothing.
Refuse(c) ==
    /\ parent[c] = "ready"
    /\ Told(c, "unavailable")
    /\ UNCHANGED <<row, session, child, message, call, expected, quarantined>>

\* The start may fail before or after the process exists.
Start(c) ==
    /\ parent[c] = "ready"
    /\ ~quarantined[call[c].host]
    /\ parent' = [parent EXCEPT ![c] = "waiting"]
    /\ \/ child' = [child EXCEPT ![c] = "connect"]
       \/ UNCHANGED child
    /\ UNCHANGED <<row, session, message, call, expected, outcome, quarantined>>

\* The response of a child is believed, unless another call has quarantined the
\* backend meanwhile.
Reported(c) == IF quarantined[call[c].host] THEN "ambiguous" ELSE message[c]

\* A clean exit before the deadline.
Response(c) ==
    /\ parent[c] = "waiting"
    /\ child[c] = "exited"
    /\ Told(c, Reported(c))
    /\ Reap(c)
    /\ UNCHANGED <<row, session, call, expected, quarantined>>

\* Mutant: a deadline that passes is reported as unavailable.
DeadlineUnavailable(c) ==
    /\ parent[c] = "waiting"
    /\ Told(c, "unavailable")
    /\ Reap(c)
    /\ UNCHANGED <<row, session, call, expected, quarantined>>

\* The deadline passes, the start fails or the response is unusable.  A live
\* process is terminated, then killed; one that stays alive, or cannot be
\* closed, quarantines the backend.
Deadline(c) ==
    /\ parent[c] = "waiting"
    /\ Told(c, "ambiguous")
    /\ \/ Reap(c) /\ UNCHANGED quarantined
       \/ /\ child[c] # "off"
          /\ quarantined' = [quarantined EXCEPT ![call[c].host] = TRUE]
          /\ UNCHANGED <<child, message>>
    /\ UNCHANGED <<row, session, call, expected>>

\* The host process dies; the child's parent-death guard ends it too.
ParentDies(c) ==
    /\ parent[c] \in {"ready", "waiting"}
    /\ parent' = [parent EXCEPT ![c] = "ended"]
    /\ Reap(c)
    /\ UNCHANGED <<row, session, call, expected, outcome, quarantined>>

-----------------------------------------------------------------------------
ServerStep(c) == CasExecute(c) \/ CasCommit(c) \/ Abort(c)

ChildStep(c) ==
    \/ ConnectFails(c) \/ Submit(c) \/ Conflict(c) \/ SendCommit(c)
    \/ Committed(c) \/ Fails(c) \/ ChildDies(c)

ParentStep(c) ==
    \/ Read(c) \/ Refuse(c) \/ Start(c)
    \/ Response(c) \/ Deadline(c) \/ ParentDies(c)

DurableNext == \E c \in Calls : ServerStep(c) \/ ChildStep(c) \/ ParentStep(c)

DurableSpec == DurableInit /\ [][DurableNext]_durableVars

\* The server runs a statement when the row is free, ends a transaction that sits
\* idle after it (idle_in_transaction_session_timeout) and a commit it was sent.
\* Nothing is assumed of children and parents, nor of lock_timeout.
DurableFairSpec ==
    /\ DurableSpec
    /\ \A c \in Calls :
          /\ WF_durableVars(CasExecute(c))
          /\ WF_durableVars(session[c] = "held" /\ Abort(c))
          /\ WF_durableVars(CasCommit(c) \/ (session[c] = "committing" /\ Abort(c)))

-----------------------------------------------------------------------------
Register == INSTANCE CasRegister WITH
    version <- row.version,
    expected <- expected,
    applied <- {c \in Calls : session[c] = "committed"},
    outcome <- outcome

\* The backend keeps the promise of DurableSecretBackend: ok, conflict and
\* unavailable are true for good, and a write is applied after its caller was
\* answered only when the answer was "ambiguous".
ImplementsCas == Register!CasSpec

\* Sessions, processes, messages and answers are well formed; in particular only
\* a published response is ever passed on to the caller.
DurableTypeOK ==
    /\ row \in [version : Nat, revoked : BOOLEAN]
    /\ session \in [Calls -> {"none", "running", "stale", "held", "committing",
                              "committed", "aborted"}]
    /\ child \in [Calls -> Alive \cup {"off", "exited", "gone"}]
    /\ message \in [Calls -> Outcomes \cup {"none"}]
    /\ parent \in [Calls -> {"idle", "ready", "waiting", "ended"}]
    /\ call \in [Calls -> [host : Hosts, revoke : BOOLEAN]]
    /\ expected \in [Calls -> Nat \cup {NotCalled}]
    /\ outcome \in [Calls -> Outcomes \cup {"pending"}]
    /\ quarantined \in [Hosts -> BOOLEAN]

\* No lost update: two calls that were both applied replaced different
\* versions, however their transactions, kills and late commits interleave.
NoLostUpdate ==
    \A c, d \in Calls :
        session[c] = "committed" /\ session[d] = "committed" /\ c # d
            => expected[c] # expected[d]

\* A caller told "conflict" really lost a race: the version it expected was
\* replaced by somebody, so giving up loses no refresh.
ConflictIsStale ==
    \A c \in Calls : outcome[c] = "conflict" => expected[c] < row.version

\* The row lock is exclusive; its holder expects the current version and found
\* the row not revoked.
RowLock ==
    /\ \A c, d \in Calls : session[c] \in Locking /\ session[d] \in Locking => c = d
    /\ \A c \in Calls : session[c] \in Locking => expected[c] = row.version
    /\ \A c \in Calls : session[c] \in Locking => ~row.revoked

\* Versions only grow, so a stale or committed call stays behind.
Behind ==
    \A c \in Calls :
        /\ expected[c] <= row.version
        /\ session[c] \in {"stale", "committed"} => expected[c] < row.version

\* Where the child can be while its session is where it is.
ChildMatchesSession ==
    \A c \in Calls :
        /\ child[c] \in {"off", "connect"} => session[c] = "none"
        /\ child[c] = "execute" => session[c] \in {"running", "stale", "held", "aborted"}
        /\ child[c] = "commit" => session[c] \in {"committing", "committed", "aborted"}

\* What a published response or an answer says is true and stays true.
Truthful(c, o) ==
    /\ o = "ok" => session[c] = "committed"
    /\ o = "conflict" => session[c] = "stale"
    /\ o = "unavailable" => session[c] = "none" /\ child[c] \notin Alive

Answers ==
    \A c \in Calls :
        /\ Truthful(c, message[c])
        /\ Truthful(c, outcome[c])
        /\ child[c] = "exited" => message[c] # "none"
        /\ message[c] # "none" => child[c] \in {"exited", "gone"}

\* A call answers once, after it was started.
CallOrder ==
    \A c \in Calls :
        /\ parent[c] = "idle" <=> expected[c] = NotCalled
        /\ parent[c] \in {"idle", "ready"} => child[c] = "off"
        /\ parent[c] # "ended" => outcome[c] = "pending"

\* The inductive invariant: the row lock serialises the sessions, no update is
\* lost, and every response or answer is true and stays so, whichever of parent,
\* child and session goes first.
DurableInv ==
    /\ DurableTypeOK
    /\ RowLock
    /\ Behind
    /\ ChildMatchesSession
    /\ Answers
    /\ CallOrder
    /\ NoLostUpdate

\* The revocation of the record is final: no late or racing write revives it.
RevocationFinal == [][row.revoked => UNCHANGED row]_durableVars

\* Whoever waits for the row gets to it and ends, although the clients of those
\* before him were killed between their statement and their commit: in the end
\* it is settled whether an ambiguous write is applied.
TransactionsEnd ==
    \A c \in Calls :
        session[c] \in {"running"} \cup Locking ~> session[c] \in {"stale", "committed", "aborted"}
=============================================================================
