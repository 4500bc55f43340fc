----------------------------- MODULE SecretStore ----------------------------
(***************************************************************************)
(* Refresh of a rotating credential by several hosts: the versioned secret *)
(* record of one binding and VersionedHostCredentialSource, which claims   *)
(* the record by compare-and-swap, exchanges the refresh secret with the   *)
(* provider, and commits the rotated secret before it returns access.      *)
(*                                                                         *)
(* Each call of refresh_access is an attempt: attempt ids are fresh (uuid4)*)
(* so the call and its id are one.  A store write whose outcome is unknown *)
(* stays in writes and may be applied at any later time, or never; so may  *)
(* a request to the provider.  A failing read, an uncaught store error and *)
(* a process that dies all end the attempt where it stands (Crash).        *)
(*                                                                         *)
(* Abstractions.  Secrets are numbered in the order the provider issues    *)
(* them.  The failure code of a record only selects the exception raised,  *)
(* so it is left out.  The read-back after a failed block or revoke only   *)
(* chooses what the caller is told, so the call simply ends there.         *)
(***************************************************************************)
EXTENDS Integers

CONSTANTS
    Attempts,       \* calls of refresh_access
    NoAttempt,      \* None in an attempt id field
    Operators       \* calls of the recovery and revocation operations

ASSUME StoreAssumption == NoAttempt \notin Attempts

VARIABLES
    store,          \* the record of the binding
    writes,         \* compare-and-swaps of unknown outcome, not yet applied
    host,           \* the local state of each attempt
    op,             \* the local state of each operator call
    provider,       \* the refresh secret the provider accepts
    requests,       \* attempts whose request the provider has yet to handle
    reply,          \* the provider's answer to each attempt
    sends           \* history: the requests sent

secretVars == <<store, writes, host, op, provider, requests, reply, sends>>

NoSecret == -1      \* the cleared secret of a revoked record

Record == [version : Nat,
           state : {"ready", "refreshing", "blocked_auth", "blocked_ambiguous", "revoked"},
           secret : Int, generation : Nat,
           active : Attempts \cup {NoAttempt}, last : Attempts \cup {NoAttempt}]

Seed == [version |-> 0, state |-> "ready", secret |-> 0, generation |-> 0,
         active |-> NoAttempt, last |-> NoAttempt]

-----------------------------------------------------------------------------
(* compare_and_swap: replacement.version is expected_version + 1 *)

\* Mutant: the write is accepted on top of any version.
CurrentAnyVersion(replacement) == TRUE

Current(replacement) == store.version = replacement.version - 1

CasOk(replacement) ==
    /\ Current(replacement)
    /\ store' = replacement
    /\ UNCHANGED writes

CasConflict(replacement) ==
    /\ ~Current(replacement)
    /\ UNCHANGED <<store, writes>>

\* SecretStoreAmbiguousWrite: the write may be applied, now or later.
CasAmbiguous(replacement) ==
    /\ writes' = writes \cup {replacement}
    /\ UNCHANGED store

DeliverWrite(replacement) ==
    /\ Current(replacement)
    /\ store' = replacement
    /\ writes' = writes \ {replacement}
    /\ UNCHANGED <<host, op, provider, requests, reply, sends>>

-----------------------------------------------------------------------------
(* The replacements *)

ClaimOf(a) == [host[a].cur EXCEPT !.version = @ + 1, !.state = "refreshing",
                                  !.active = a]

BlockOf(a) == [host[a].cur EXCEPT !.version = @ + 1, !.state = host[a].outcome,
                                  !.active = NoAttempt, !.last = a]

CommitOf(a) == [host[a].cur EXCEPT !.version = @ + 1, !.state = "ready",
                                   !.secret = host[a].rotated,
                                   !.generation = @ + 1,
                                   !.active = NoAttempt, !.last = a]

-----------------------------------------------------------------------------
(* refresh_access *)

Goto(a, pc) == host' = [host EXCEPT ![a].pc = pc]

\* Every state but ready is refused.
ReadForClaim(a) ==
    /\ host[a].pc = "idle"
    /\ store.state = "ready"
    /\ host' = [host EXCEPT ![a].pc = "claim", ![a].cur = store]
    /\ UNCHANGED <<store, writes, op, provider, requests, reply, sends>>

\* The claim carries on when its write is known to have been applied; on a
\* conflict another attempt owns the refresh.
Claim(a) ==
    /\ host[a].pc = "claim"
    /\ \/ /\ CasOk(ClaimOf(a))
          /\ host' = [host EXCEPT ![a].pc = "exchange", ![a].cur = store']
       \/ CasConflict(ClaimOf(a)) /\ Goto(a, "ended")
       \/ CasAmbiguous(ClaimOf(a)) /\ Goto(a, "claim_readback")
    /\ UNCHANGED <<op, provider, requests, reply, sends>>

ClaimReadback(a) ==
    /\ host[a].pc = "claim_readback"
    /\ IF /\ store.state = "refreshing"
          /\ store.active = a
          /\ store.version = ClaimOf(a).version
       THEN host' = [host EXCEPT ![a].pc = "exchange", ![a].cur = store]
       ELSE Goto(a, "ambiguous")
    /\ UNCHANGED <<store, writes, op, provider, requests, reply, sends>>

Exchange(a) ==
    /\ host[a].pc = "exchange"
    /\ Goto(a, "waiting")
    /\ requests' = requests \cup {a}
    /\ sends' = sends \cup {[attempt |-> a, secret |-> host[a].cur.secret,
                             stale |-> host[a].cur.secret # provider]}
    /\ UNCHANGED <<store, writes, op, provider, reply>>

\* Mutant: an unknown outcome is taken for a rejection and tried again.
AnswerRetry(a) ==
    /\ host[a].pc = "waiting"
    /\ \/ /\ reply[a].kind = "rotated"
          /\ host' = [host EXCEPT ![a].pc = "commit", ![a].rotated = reply[a].secret]
       \/ /\ reply[a].kind = "rejected"
          /\ host' = [host EXCEPT ![a].pc = "block", ![a].outcome = "blocked_auth"]
       \/ /\ a \notin requests
          /\ Goto(a, "exchange")
    /\ UNCHANGED <<store, writes, op, provider, requests, reply, sends>>

\* The answer is a valid result, a definite rejection, or anything else: a
\* timeout, an interrupt, an answer that does not validate.
Answer(a) ==
    /\ host[a].pc = "waiting"
    /\ \/ /\ reply[a].kind = "rotated"
          /\ host' = [host EXCEPT ![a].pc = "commit", ![a].rotated = reply[a].secret]
       \/ /\ reply[a].kind = "rejected"
          /\ host' = [host EXCEPT ![a].pc = "block", ![a].outcome = "blocked_auth"]
       \/ host' = [host EXCEPT ![a].pc = "block", ![a].outcome = "blocked_ambiguous"]
    /\ UNCHANGED <<store, writes, op, provider, requests, reply, sends>>

\* The access grant is returned when the rotated secret is known to be stored.
Commit(a) ==
    /\ host[a].pc = "commit"
    /\ \/ CasOk(CommitOf(a)) /\ Goto(a, "granted")
       \/ CasConflict(CommitOf(a)) /\ Goto(a, "ended")
       \/ CasAmbiguous(CommitOf(a)) /\ Goto(a, "commit_readback")
    /\ UNCHANGED <<op, provider, requests, reply, sends>>

\* Mutant: an unconfirmed commit is trusted unless it can be seen to have failed.
CommitReadbackTrusting(a) ==
    /\ host[a].pc = "commit_readback"
    /\ IF store.state = "revoked" THEN Goto(a, "ambiguous") ELSE Goto(a, "granted")
    /\ UNCHANGED <<store, writes, op, provider, requests, reply, sends>>

CommitReadback(a) ==
    /\ host[a].pc = "commit_readback"
    /\ IF store = CommitOf(a) THEN Goto(a, "granted")
       ELSE IF store.state = "refreshing" /\ store.active = a
       THEN host' = [host EXCEPT ![a].pc = "block", ![a].cur = store,
                                 ![a].outcome = "blocked_ambiguous"]
       ELSE Goto(a, "ambiguous")
    /\ UNCHANGED <<store, writes, op, provider, requests, reply, sends>>

\* _block: the attempt is over whatever becomes of the write.
Block(a) ==
    /\ host[a].pc = "block"
    /\ \/ CasOk(BlockOf(a))
       \/ CasConflict(BlockOf(a))
       \/ CasAmbiguous(BlockOf(a))
    /\ Goto(a, IF host[a].outcome = "blocked_auth" THEN "ended" ELSE "ambiguous")
    /\ UNCHANGED <<op, provider, requests, reply, sends>>

Crash(a) ==
    /\ host[a].pc \notin {"granted", "ended", "ambiguous", "crashed"}
    /\ Goto(a, "crashed")
    /\ UNCHANGED <<store, writes, op, provider, requests, reply, sends>>

-----------------------------------------------------------------------------
(* The provider: single-use refresh secrets *)

Rotate(a) ==
    /\ a \in requests
    /\ host[a].cur.secret = provider
    /\ provider' = provider + 1
    /\ reply' = [reply EXCEPT ![a] = [kind |-> "rotated", secret |-> provider + 1]]
    /\ requests' = requests \ {a}
    /\ UNCHANGED <<store, writes, host, op, sends>>

Reject(a) ==
    /\ a \in requests
    /\ reply' = [reply EXCEPT ![a] = [kind |-> "rejected", secret |-> NoSecret]]
    /\ requests' = requests \ {a}
    /\ UNCHANGED <<store, writes, host, op, provider, sends>>

\* The request never arrives.
Lose(a) ==
    /\ a \in requests
    /\ requests' = requests \ {a}
    /\ UNCHANGED <<store, writes, host, op, provider, reply, sends>>

-----------------------------------------------------------------------------
(* Operators *)

Prepare(o, replacement) ==
    /\ op[o].pc = "idle"
    /\ op' = [op EXCEPT ![o] = [pc |-> "cas", replacement |-> replacement]]
    /\ UNCHANGED <<store, writes, host, provider, requests, reply, sends>>

\* The caller must have proof that the exchange of the last attempt was not, and
\* will not be, applied.
recover_ambiguous_not_applied(o) ==
    /\ store.state = "blocked_ambiguous"
    /\ store.secret = provider
    /\ store.last \notin requests
    /\ Prepare(o, [store EXCEPT !.version = @ + 1, !.state = "ready"])

\* The caller must have the secret the provider rotated to.
recover_ambiguous_with_rotated_secret(o) ==
    /\ store.state = "blocked_ambiguous"
    /\ store.secret # provider
    /\ Prepare(o, [store EXCEPT !.version = @ + 1, !.state = "ready",
                                !.secret = provider, !.generation = @ + 1])

revoke(o) ==
    /\ store.state # "revoked"
    /\ Prepare(o, [store EXCEPT !.version = @ + 1, !.state = "revoked",
                                !.secret = NoSecret, !.active = NoAttempt])

\* _recover_cas, and the end of revoke.
OperatorCas(o) ==
    /\ op[o].pc = "cas"
    /\ \/ CasOk(op[o].replacement)
       \/ CasConflict(op[o].replacement)
       \/ CasAmbiguous(op[o].replacement)
    /\ op' = [op EXCEPT ![o].pc = "ended"]
    /\ UNCHANGED <<host, provider, requests, reply, sends>>

-----------------------------------------------------------------------------

SecretInit ==
    /\ store = Seed
    /\ writes = {}
    /\ host = [a \in Attempts |-> [pc |-> "idle", cur |-> Seed, rotated |-> NoSecret,
                                   outcome |-> "blocked_ambiguous"]]
    /\ op = [o \in Operators |-> [pc |-> "idle", replacement |-> Seed]]
    /\ provider = 0
    /\ requests = {}
    /\ reply = [a \in Attempts |-> [kind |-> "none", secret |-> NoSecret]]
    /\ sends = {}

HostStep(a) == \/ ReadForClaim(a) \/ Claim(a) \/ ClaimReadback(a) \/ Exchange(a)
               \/ Answer(a) \/ Commit(a) \/ CommitReadback(a) \/ Block(a) \/ Crash(a)
ProviderStep(a) == Rotate(a) \/ Reject(a) \/ Lose(a)
OperatorStep(o) == \/ recover_ambiguous_not_applied(o)
                   \/ recover_ambiguous_with_rotated_secret(o)
                   \/ revoke(o) \/ OperatorCas(o)

SecretNext ==
    \/ \E a \in Attempts : HostStep(a) \/ ProviderStep(a)
    \/ \E o \in Operators : OperatorStep(o)
    \/ \E w \in writes : DeliverWrite(w)

SecretSpec == SecretInit /\ [][SecretNext]_secretVars

-----------------------------------------------------------------------------
(* Properties *)

\* No host ever sends the provider a refresh secret that was already exchanged,
\* whatever was claimed, retried, recovered or delivered late: with single-use
\* secrets a replay revokes the whole credential.
NoSecretReplayed == \A s \in sends : ~s.stale

\* At most one attempt is between its claim and the end of its exchange, and as
\* long as it has not written again the record is its own or revoked.
ExchangeIsExclusive ==
    \A a \in Attempts : host[a].pc \in {"exchange", "waiting", "commit"} =>
        store.state = "revoked" \/ (store.state = "refreshing" /\ store.active = a)

\* A record offered for refresh always holds the secret the provider accepts,
\* and its generation counts the rotations: a rotated secret is never lost
\* behind a ready record, nor an old one put back.
ReadyHoldsCurrentSecret ==
    store.state = "ready" => store.secret = provider /\ store.generation = provider

\* Access is returned only after the rotated secret reached the store: the
\* record then is, or has moved on from, the committed one.
GrantedAfterCommit ==
    \A a \in Attempts : host[a].pc = "granted" =>
        /\ store.generation >= host[a].rotated
        /\ store.version >= host[a].cur.version + 1

\* A single-use secret goes to the provider once, from one attempt at a time.
ExchangesOnce == NoSecretReplayed /\ ExchangeIsExclusive

\* What is offered for refresh, and what was granted, rests on the rotation that
\* the provider made last, also after lost answers and late writes.
GrantsAreCurrent == ReadyHoldsCurrentSecret /\ GrantedAfterCommit

RevokedStep ==
    store.state = "revoked" =>
        /\ store' = store
        /\ \A a \in Attempts : host'[a].pc = "granted" => host[a].pc = "granted"

\* Revocation is final: no late write, recovery or commit brings a secret back,
\* and no access is granted any more.
RevokedIsFinal == [][RevokedStep]_secretVars

=============================================================================
