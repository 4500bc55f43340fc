---------------------------- MODULE CredentialProofs ------------------------
(***************************************************************************)
(* The host's credentials: the versioned record and its refresh calls      *)
(* (SecretStore), the provider in front of them (CredentialProvider) and   *)
(* the backend that stores the record (DurableCas).  The three share no    *)
(* state; each has its inductive invariant and its theorems.               *)
(***************************************************************************)
EXTENDS SecretStore, CredentialProvider, DurableCas, TLAPS

(***************************************************************************)
(* The guarantees of VersionedHostCredentialSource for any number of       *)
(* refresh calls and operator calls.  SecretInv is inductive.  Its heart   *)
(* is PendingInv: a write that could still be applied is a legal successor *)
(* of the record as it stands, and a record, once replaced, leaves every   *)
(* other prepared write behind for good.                                   *)
(***************************************************************************)

Past == {"commit_readback", "block", "granted", "ended", "ambiguous", "crashed"}
HostPcs == {"idle", "claim", "claim_readback", "exchange", "waiting", "commit"} \cup Past

Call == [pc : HostPcs, cur : Record, rotated : Int,
         outcome : {"blocked_auth", "blocked_ambiguous"}]

\* The types of the record, the calls and the provider.
SecretTypeOK ==
    /\ store \in Record
    /\ writes \subseteq Record
    /\ host \in [Attempts -> Call]
    /\ op \in [Operators -> [pc : {"idle", "cas", "ended"}, replacement : Record]]
    /\ provider \in Nat
    /\ requests \subseteq Attempts
    /\ reply \in [Attempts -> [kind : {"none", "rotated", "rejected"}, secret : Int]]

-----------------------------------------------------------------------------
(* The legal successors of the record *)

Claims(r, a) ==
    /\ store.state = "ready"
    /\ reply[a].kind = "none" /\ a \notin requests
    /\ r = [store EXCEPT !.version = @ + 1, !.state = "refreshing", !.active = a]

Blocks(r, a) ==
    /\ store.state = "refreshing" /\ store.active = a
    /\ \E blocked \in {"blocked_auth", "blocked_ambiguous"} :
          /\ blocked = "blocked_auth" => reply[a].kind = "rejected"
          /\ r = [store EXCEPT !.version = @ + 1, !.state = blocked,
                               !.active = NoAttempt, !.last = a]

Commits(r, a) ==
    /\ store.state = "refreshing" /\ store.active = a
    /\ reply[a].kind = "rotated"
    /\ r = [store EXCEPT !.version = @ + 1, !.state = "ready",
                         !.secret = reply[a].secret, !.generation = @ + 1,
                         !.active = NoAttempt, !.last = a]

RecoversSame(r) ==
    /\ store.state = "blocked_ambiguous"
    /\ store.secret = provider /\ store.last \notin requests
    /\ r = [store EXCEPT !.version = @ + 1, !.state = "ready"]

RecoversRotated(r) ==
    /\ store.state = "blocked_ambiguous"
    /\ store.secret # provider
    /\ r = [store EXCEPT !.version = @ + 1, !.state = "ready",
                         !.secret = provider, !.generation = @ + 1]

Revokes(r) ==
    /\ store.state # "revoked"
    /\ r = [store EXCEPT !.version = @ + 1, !.state = "revoked",
                         !.secret = NoSecret, !.active = NoAttempt]

\* What the record may be replaced by, given that the attempt that blocks or
\* commits it no longer counts on holding it.
Successor(r) ==
    \/ \E a \in Attempts : Claims(r, a)
    \/ \E a \in Attempts : host[a].pc \in Past /\ (Blocks(r, a) \/ Commits(r, a))
    \/ RecoversSame(r) \/ RecoversRotated(r) \/ Revokes(r)

Legit(r) == r.version <= store.version + 1 /\ (Current(r) => Successor(r))

-----------------------------------------------------------------------------
(* The inductive invariant *)

\* The attempt can still use the provider's secret.
Live(a) == host[a].pc = "exchange" \/ a \in requests

\* The record and the provider: at most one rotation apart.
StoreInv ==
    /\ ReadyHoldsCurrentSecret
    /\ store.state = "refreshing" =>
          /\ store.active \in Attempts
          /\ store.generation = store.secret
          /\ provider = IF reply[store.active].kind = "rotated"
                        THEN store.secret + 1 ELSE store.secret
          /\ reply[store.active].kind = "rotated" => reply[store.active].secret = provider
    /\ store.state = "blocked_ambiguous" =>
          /\ store.generation = store.secret
          /\ provider \in {store.secret, store.secret + 1}

\* One attempt at most can use the secret, and only while the record is its own.
LiveInv ==
    \A a \in Attempts : Live(a) =>
        /\ host[a].cur.secret = provider
        /\ \A b \in Attempts : Live(b) => a = b
        /\ \/ store.state = "revoked"
           \/ /\ store.secret = provider
              /\ \/ store.state = "refreshing" /\ store.active = a
                 \/ store.state = "blocked_ambiguous" /\ store.last = a

PendingInv ==
    /\ \A w \in writes : Legit(w)
    /\ \A o \in Operators : op[o].pc = "cas" => Legit(op[o].replacement)

\* A copy of the record is old, or is the record.
CopyInv(a) ==
    /\ host[a].cur.version <= store.version
    /\ host[a].cur.version = store.version => store = host[a].cur

\* The record is the attempt's own until it writes again, unless it was revoked.
HoldsRecord(a) ==
    \/ store = host[a].cur
    \/ store.state = "revoked" /\ store.version > host[a].cur.version

OwnCopy(a) ==
    /\ host[a].cur.state = "refreshing" /\ host[a].cur.active = a
    /\ host[a].cur.generation = host[a].cur.secret

\* The answer to the attempt has not been looked for yet.
Unasked(a) == reply[a].kind = "none" /\ a \notin requests

\* Each attempt, by where it is.
HostInv(a) ==
    /\ a \in requests => reply[a].kind = "none"
    /\ host[a].pc = "idle" => Unasked(a)
    /\ host[a].pc \in {"claim", "claim_readback"} =>
          Unasked(a) /\ CopyInv(a) /\ host[a].cur.state = "ready"
    /\ host[a].pc = "exchange" => Unasked(a)
    /\ host[a].pc \in {"exchange", "waiting", "commit"} => OwnCopy(a) /\ HoldsRecord(a)
    /\ host[a].pc = "waiting" /\ reply[a].kind = "rotated" =>
          reply[a].secret = host[a].cur.generation + 1
    /\ host[a].pc \in {"commit", "commit_readback"} =>
          /\ OwnCopy(a) /\ CopyInv(a)
          /\ reply[a].kind = "rotated"
          /\ host[a].rotated = reply[a].secret
          /\ host[a].rotated = host[a].cur.generation + 1
    /\ host[a].pc = "block" =>
          /\ OwnCopy(a) /\ CopyInv(a)
          /\ host[a].outcome = "blocked_auth" => reply[a].kind = "rejected"
    /\ host[a].pc = "granted" =>
          /\ store.generation >= host[a].rotated
          /\ store.version >= host[a].cur.version + 1

SecretInv ==
    /\ SecretTypeOK
    /\ StoreInv
    /\ LiveInv
    /\ PendingInv
    /\ \A a \in Attempts : HostInv(a)
    /\ NoSecretReplayed

-----------------------------------------------------------------------------

\* The initial state: a ready record, and nobody has asked for anything.
LEMMA SecretInitInv == SecretInit => SecretInv
<1>. SUFFICES ASSUME SecretInit PROVE SecretInv
  OBVIOUS
<1>1. Seed \in Record /\ NoSecret \in Int /\ "idle" \in HostPcs
  BY DEF Seed, Record, NoSecret, HostPcs
<1>2. SecretTypeOK
  BY <1>1 DEF SecretInit, SecretTypeOK, Call
<1>3. StoreInv
  BY DEF SecretInit, StoreInv, ReadyHoldsCurrentSecret, Seed
<1>4. LiveInv
  BY DEF SecretInit, LiveInv, Live
<1>5. PendingInv
  BY DEF SecretInit, PendingInv
<1>6. \A a \in Attempts : host[a].pc = "idle" /\ Unasked(a) /\ a \notin requests
  BY DEF SecretInit, Unasked
<1>7. \A a \in Attempts : HostInv(a)
  BY <1>6 DEF HostInv
<1>. QED
  BY <1>2, <1>3, <1>4, <1>5, <1>7 DEF SecretInv, SecretInit, NoSecretReplayed

-----------------------------------------------------------------------------
(* Steps that leave the record alone *)

\* What such a step guarantees about everything a prepared write rests on.
Calm ==
    /\ store' = store
    /\ \A a \in Attempts : host[a].pc \in Past => host'[a].pc \in Past
    /\ \A a \in Attempts \ requests : reply'[a] = reply[a]
    /\ \A a \in requests' \ requests : host[a].pc = "exchange"
    /\ requests = {} => provider' = provider

\* While the record is ready, or was found unexchanged or rotated after an
\* ambiguous answer, nobody can use the provider's secret.
LEMMA NobodyLive ==
    ASSUME SecretInv,
           \/ store.state \in {"ready", "blocked_auth"}
           \/ store.state = "blocked_ambiguous" /\ store.last \notin requests
           \/ store.state = "blocked_ambiguous" /\ store.secret # provider
    PROVE  \A a \in Attempts : ~Live(a)
<1>. SUFFICES ASSUME NEW a \in Attempts, Live(a) PROVE FALSE
  OBVIOUS
<1>1. /\ store.secret = provider
      /\ store.state = "blocked_ambiguous" /\ store.last = a
  BY DEF SecretInv, LiveInv
<1>2. host[a].pc = "exchange"
  BY <1>1 DEF Live
<1>. QED
  BY <1>1, <1>2 DEF SecretInv, HostInv, HoldsRecord, OwnCopy

\* A prepared write stays legitimate.
LEMMA CalmLegit ==
    ASSUME SecretInv, Calm, requests' \subseteq Attempts, NEW r, Legit(r)
    PROVE  Legit(r)'
<1>1. store' = store /\ (Current(r)' <=> Current(r))
  BY DEF Calm, Current
<1>2. ASSUME Current(r) PROVE Successor(r)'
  <2>1. ASSUME NEW a \in Attempts, Claims(r, a) PROVE Claims(r, a)'
    BY <1>1, <2>1, NobodyLive DEF Calm, Claims, Live
  <2>2. \A a \in Attempts : reply[a].kind # "none" => reply'[a] = reply[a]
    BY DEF Calm, SecretInv, HostInv
  <2>3. ASSUME NEW a \in Attempts, host[a].pc \in Past, Blocks(r, a)
        PROVE  host'[a].pc \in Past /\ Blocks(r, a)'
    BY <1>1, <2>2, <2>3 DEF Calm, Blocks
  <2>4. ASSUME NEW a \in Attempts, host[a].pc \in Past, Commits(r, a)
        PROVE  host'[a].pc \in Past /\ Commits(r, a)'
    BY <1>1, <2>2, <2>4 DEF Calm, Commits
  <2>5. ASSUME \A a \in Attempts : ~Live(a)
        PROVE  provider' = provider /\ requests' = {}
    BY <2>5 DEF Calm, Live, SecretInv, SecretTypeOK
  <2>6. ASSUME RecoversSame(r) PROVE RecoversSame(r)'
    BY <1>1, <2>5, <2>6, NobodyLive DEF RecoversSame
  <2>7. ASSUME RecoversRotated(r) PROVE RecoversRotated(r)'
    BY <1>1, <2>5, <2>7, NobodyLive DEF RecoversRotated
  <2>8. ASSUME Revokes(r) PROVE Revokes(r)'
    BY <1>1, <2>8 DEF Revokes
  <2>. QED
    BY <1>2, <2>1, <2>3, <2>4, <2>6, <2>7, <2>8 DEF Legit, Successor
<1>. QED
  BY <1>1, <1>2 DEF Legit

-----------------------------------------------------------------------------
(* Steps that replace the record *)

\* The successors again, for a step in which the attempt that blocks or commits
\* the record lets go of it.
Moves(r) ==
    \/ \E a \in Attempts : Claims(r, a)
    \/ \E a \in Attempts : host'[a].pc \in Past /\ (Blocks(r, a) \/ Commits(r, a))
    \/ RecoversSame(r) \/ RecoversRotated(r) \/ Revokes(r)

\* What a replacement may look like besides.
Replaces(r) ==
    /\ Current(r) /\ store' = r /\ Moves(r)
    /\ writes' \subseteq writes
    /\ \A o \in Operators : op'[o].pc = "cas" => op'[o] = op[o]
    /\ UNCHANGED <<provider, requests, reply>>

\* A successor is a later version, of no earlier generation, and a revoked
\* record has none.
LEMMA MovesForward ==
    ASSUME SecretInv, NEW r \in Record, Moves(r)
    PROVE  /\ store.state # "revoked"
           /\ r.version = store.version + 1
           /\ r.generation >= store.generation
<1>. DEFINE Onward == /\ store.state # "revoked"
                      /\ r.version = store.version + 1
                      /\ r.generation >= store.generation
<1>1. store \in Record
  BY DEF SecretInv, SecretTypeOK
<1>2. \A a \in Attempts : Claims(r, a) => Onward
  BY <1>1 DEF Claims, Record
<1>3. \A a \in Attempts : Blocks(r, a) => Onward
  BY <1>1 DEF Blocks, Record
<1>4. \A a \in Attempts : Commits(r, a) => Onward
  BY <1>1 DEF Commits, Record
<1>5. RecoversSame(r) => Onward
  BY <1>1 DEF RecoversSame, Record
<1>6. RecoversRotated(r) => Onward
  BY <1>1 DEF RecoversRotated, Record
<1>7. Revokes(r) => Onward
  BY <1>1 DEF Revokes, Record
<1>. HIDE DEF Onward
<1>8. Onward
  BY <1>2, <1>3, <1>4, <1>5, <1>6, <1>7 DEF Moves
<1>. QED
  BY <1>8 DEF Onward

\* The new record agrees with the provider.
LEMMA ReplacedStore ==
    ASSUME SecretInv, NEW r \in Record, Replaces(r)
    PROVE  StoreInv'
<1>1. store' = r /\ UNCHANGED <<provider, requests, reply>>
  BY DEF Replaces
<1>2. store \in Record /\ provider \in Nat
  BY DEF SecretInv, SecretTypeOK
<1>3. ASSUME NEW a \in Attempts, Claims(r, a) PROVE StoreInv'
  BY <1>1, <1>2, <1>3 DEF Claims, SecretInv, StoreInv, ReadyHoldsCurrentSecret, Record
<1>4. ASSUME NEW a \in Attempts, Blocks(r, a) PROVE StoreInv'
  BY <1>1, <1>2, <1>4 DEF Blocks, SecretInv, StoreInv, ReadyHoldsCurrentSecret, Record
<1>5. ASSUME NEW a \in Attempts, Commits(r, a) PROVE StoreInv'
  BY <1>1, <1>2, <1>5 DEF Commits, SecretInv, StoreInv, ReadyHoldsCurrentSecret, Record
<1>6. ASSUME RecoversSame(r) PROVE StoreInv'
  BY <1>1, <1>2, <1>6 DEF RecoversSame, SecretInv, StoreInv, ReadyHoldsCurrentSecret, Record
<1>7. ASSUME RecoversRotated(r) PROVE StoreInv'
  BY <1>1, <1>2, <1>7 DEF RecoversRotated, SecretInv, StoreInv, ReadyHoldsCurrentSecret, Record
<1>8. ASSUME Revokes(r) PROVE StoreInv'
  BY <1>1, <1>2, <1>8 DEF Revokes, StoreInv, ReadyHoldsCurrentSecret, Record
<1>. QED
  BY <1>3, <1>4, <1>5, <1>6, <1>7, <1>8 DEF Replaces, Moves

\* Every other prepared write is left behind.
LEMMA ReplacedPending ==
    ASSUME SecretInv, NEW r \in Record, Replaces(r)
    PROVE  PendingInv'
<1>1. /\ store' = r /\ r.version = store.version + 1 /\ store.version \in Nat
      /\ writes' \subseteq writes
      /\ \A o \in Operators : op'[o].pc = "cas" => op'[o] = op[o]
  BY MovesForward DEF Replaces, SecretInv, SecretTypeOK, Record
<1>2. ASSUME NEW w \in Record, Legit(w) PROVE Legit(w)'
  <2>1. w.version \in Nat /\ w.version <= store.version + 1
    BY <1>2 DEF Legit, Record
  <2>2. w.version <= store'.version + 1 /\ ~Current(w)'
    BY <1>1, <2>1 DEF Current
  <2>. QED
    BY <2>2 DEF Legit
<1>3. \A w \in writes' : Legit(w)'
  BY <1>1, <1>2 DEF SecretInv, SecretTypeOK, PendingInv
<1>4. \A o \in Operators : op'[o].pc = "cas" => Legit(op[o].replacement)'
  BY <1>1, <1>2 DEF SecretInv, SecretTypeOK, PendingInv
<1>. QED
  BY <1>1, <1>3, <1>4 DEF PendingInv

\* The attempts let go of the secret, or the record is still theirs.
LEMMA ReplacedLive ==
    ASSUME SecretInv, NEW r \in Record, Replaces(r),
           \A b \in Attempts : \/ host'[b] = host[b]
                               \/ host'[b].pc \in Past /\ host'[b].cur = host[b].cur
    PROVE  LiveInv'
<1>1. store' = r /\ UNCHANGED <<provider, requests, reply>>
  BY DEF Replaces
<1>2. store \in Record /\ \A a \in Attempts : HostInv(a)
  BY DEF SecretInv, SecretTypeOK
<1>3. ASSUME NEW b \in Attempts, Live(b)' PROVE Live(b) /\ host'[b].cur = host[b].cur
  BY <1>1, <1>3 DEF Live, Past
<1>4. ASSUME \A b \in Attempts : ~Live(b) PROVE LiveInv'
  BY <1>3, <1>4 DEF LiveInv
<1>5. ASSUME NEW a \in Attempts, Claims(r, a) PROVE LiveInv'
  BY <1>4, <1>5, NobodyLive DEF Claims
<1>6. ASSUME NEW a \in Attempts, host'[a].pc \in Past, Commits(r, a) PROVE LiveInv'
  <2>1. \A b \in Attempts : Live(b) => b = a
    BY <1>6 DEF Commits, SecretInv, LiveInv
  <2>2. ~Live(a)'
    BY <1>1, <1>2, <1>6 DEF Commits, Live, HostInv, Past
  <2>. QED
    BY <1>3, <2>1, <2>2 DEF LiveInv
<1>7. ASSUME NEW a \in Attempts, host'[a].pc \in Past, Blocks(r, a) PROVE LiveInv'
  <2>1. \A b \in Attempts : Live(b) => b = a /\ host[b].cur.secret = provider
                                             /\ store.secret = provider
    BY <1>7 DEF Blocks, SecretInv, LiveInv
  <2>2. CASE reply[a].kind = "rejected"
    <3>1. ~Live(a)'
      BY <1>1, <1>2, <1>7, <2>2 DEF Live, HostInv, Past
    <3>. QED
      BY <1>3, <2>1, <3>1 DEF LiveInv
  <2>3. CASE reply[a].kind # "rejected"
    <3>1. r.state = "blocked_ambiguous" /\ r.last = a /\ r.secret = store.secret
      BY <1>2, <1>7, <2>3 DEF Blocks, Record
    <3>. QED
      BY <1>1, <1>3, <2>1, <3>1 DEF LiveInv
  <2>. QED
    BY <2>2, <2>3
<1>8. ASSUME RecoversSame(r) \/ RecoversRotated(r) PROVE LiveInv'
  BY <1>4, <1>8, NobodyLive DEF RecoversSame, RecoversRotated
<1>9. ASSUME Revokes(r) PROVE LiveInv'
  <2>1. r.state = "revoked"
    BY <1>2, <1>9 DEF Revokes, Record
  <2>. QED
    BY <1>1, <1>3, <2>1 DEF LiveInv, SecretInv
<1>. QED
  BY <1>5, <1>6, <1>7, <1>8, <1>9 DEF Replaces, Moves

\* An attempt that does not move finds its copy outdated, or the record revoked.
LEMMA ReplacedHost ==
    ASSUME SecretInv, NEW r \in Record, Replaces(r),
           NEW b \in Attempts, host'[b] = host[b]
    PROVE  HostInv(b)'
<1>1. store' = r /\ UNCHANGED <<provider, requests, reply>>
  BY DEF Replaces
<1>2. /\ HostInv(b) /\ store \in Record /\ host[b].cur \in Record
      /\ host[b].rotated \in Int
  BY DEF SecretInv, SecretTypeOK, Call
<1>3. /\ store.state # "revoked"
      /\ r.version = store.version + 1
      /\ r.generation >= store.generation
  BY MovesForward DEF Replaces
<1>4. CopyInv(b) => CopyInv(b)'
  BY <1>1, <1>2, <1>3 DEF CopyInv, Record
<1>5. ASSUME host[b].pc \in {"exchange", "waiting", "commit"}
      PROVE  HoldsRecord(b)'
  <2>1. store = host[b].cur /\ store.state = "refreshing" /\ store.active = b
    BY <1>2, <1>3, <1>5 DEF HostInv, HoldsRecord, OwnCopy
  <2>2. \A a \in Attempts : ~Claims(r, a) /\ (Blocks(r, a) \/ Commits(r, a) => a = b)
    BY <2>1 DEF Claims, Blocks, Commits
  <2>3. ~RecoversSame(r) /\ ~RecoversRotated(r) /\ host'[b].pc \notin Past
    BY <1>5, <2>1 DEF RecoversSame, RecoversRotated, Past
  <2>4. Revokes(r)
    BY <2>2, <2>3 DEF Replaces, Moves
  <2>5. r.state = "revoked"
    BY <1>2, <2>4 DEF Revokes, Record
  <2>. QED
    BY <1>1, <1>2, <1>3, <2>1, <2>5 DEF HoldsRecord, Record
<1>6. (OwnCopy(b)' <=> OwnCopy(b)) /\ (Unasked(b)' <=> Unasked(b))
  BY <1>1 DEF OwnCopy, Unasked
<1>7. host[b].pc = "granted" =>
          /\ r.generation >= host[b].rotated
          /\ r.version >= host[b].cur.version + 1
  <2>1. /\ store.generation \in Nat /\ r.generation \in Nat /\ host[b].rotated \in Int
        /\ store.version \in Nat /\ host[b].cur.version \in Nat
    BY <1>2 DEF Record
  <2>. QED
    BY <1>2, <1>3, <2>1 DEF HostInv
<1>. QED
  BY <1>1, <1>2, <1>4, <1>5, <1>6, <1>7 DEF HostInv

-----------------------------------------------------------------------------
(* Steps of an attempt *)

\* Goto changes the program counter of one attempt.
LEMMA GotoShape ==
    ASSUME SecretTypeOK, NEW a \in Attempts, NEW pc \in HostPcs, Goto(a, pc)
    PROVE  /\ host' \in [Attempts -> Call]
           /\ host'[a].pc = pc
           /\ host'[a].cur = host[a].cur
           /\ host'[a].rotated = host[a].rotated
           /\ host'[a].outcome = host[a].outcome
           /\ \A b \in Attempts \ {a} : host'[b] = host[b]
BY DEF Goto, SecretTypeOK, Call

\* An attempt nobody touched, with the record and its answer unchanged.
LEMMA HostStays ==
    ASSUME NEW b, HostInv(b), store' = store, host'[b] = host[b],
           reply'[b] = reply[b], b \in requests' <=> b \in requests
    PROVE  HostInv(b)'
BY DEF HostInv, Unasked, CopyInv, OwnCopy, HoldsRecord

\* One attempt moves on without taking up the secret, and prepares at most
\* legitimate writes.
LEMMA QuietHost ==
    ASSUME SecretInv, NEW a \in Attempts,
           host' \in [Attempts -> Call],
           \A b \in Attempts \ {a} : host'[b] = host[b],
           host'[a].pc # "exchange",
           host[a].pc \in Past => host'[a].pc \in Past,
           a \in requests => host'[a].cur = host[a].cur,
           HostInv(a)',
           \A w \in writes' : w \in writes \/ (w \in Record /\ Legit(w)'),
           UNCHANGED <<store, op, provider, requests, reply, sends>>
    PROVE  SecretInv'
<1>1. SecretTypeOK'
  BY DEF SecretInv, SecretTypeOK
<1>2. StoreInv'
  BY DEF SecretInv, StoreInv, ReadyHoldsCurrentSecret
<1>3. \A b \in Attempts : Live(b)' => Live(b) /\ host'[b].cur = host[b].cur
  BY DEF Live
<1>4. LiveInv'
  BY <1>3 DEF SecretInv, LiveInv
<1>5. Calm
  BY DEF Calm
<1>6. \A w \in writes : Legit(w)'
  BY <1>5, CalmLegit DEF SecretInv, PendingInv, SecretTypeOK
<1>7. \A o \in Operators : op[o].pc = "cas" => Legit(op[o].replacement)'
  <2>1. ASSUME NEW r, Legit(r) PROVE Legit(r)'
    BY <1>5, <2>1, CalmLegit DEF SecretInv, SecretTypeOK
  <2>. QED
    BY <2>1 DEF SecretInv, PendingInv
<1>8. PendingInv'
  BY <1>6, <1>7 DEF PendingInv
<1>9. \A b \in Attempts : HostInv(b)'
  <2>1. \A b \in Attempts \ {a} : HostInv(b)'
    BY HostStays DEF SecretInv
  <2>. QED
    BY <2>1
<1>. QED
  BY <1>1, <1>2, <1>4, <1>8, <1>9 DEF SecretInv, NoSecretReplayed

\* A claim is legitimate while the record is the one it was read from.
LEMMA ClaimLegit ==
    ASSUME SecretInv, NEW a \in Attempts, host[a].pc = "claim"
    PROVE  /\ ClaimOf(a) \in Record
           /\ ClaimOf(a).version <= store.version + 1
           /\ Current(ClaimOf(a)) => Claims(ClaimOf(a), a)
<1>1. /\ Unasked(a) /\ CopyInv(a) /\ host[a].cur.state = "ready"
      /\ host[a].cur \in Record /\ store \in Record
  BY DEF SecretInv, HostInv, SecretTypeOK, Call
<1>2. ClaimOf(a) \in Record /\ ClaimOf(a).version = host[a].cur.version + 1
  <2>0. host[a].cur \in Record /\ host[a].cur.version + 1 \in Nat
    BY <1>1 DEF Record
  <2>1. PICK c \in Record, v \in Nat : c = host[a].cur /\ v = host[a].cur.version + 1
    BY <2>0, Zenon
  <2>2. ClaimOf(a) = [c EXCEPT !.version = v, !.state = "refreshing", !.active = a]
    BY <2>1, Zenon DEF ClaimOf
  <2>. QED
    BY <2>1, <2>2 DEF Record
<1>3. ClaimOf(a).version <= store.version + 1
  BY <1>1, <1>2 DEF CopyInv, Record
<1>4. ASSUME Current(ClaimOf(a)) PROVE store = host[a].cur
  BY <1>1, <1>2, <1>4 DEF CopyInv, Current, Record
<1>. QED
  BY <1>1, <1>2, <1>3, <1>4 DEF Claims, ClaimOf, Unasked

\* So is a block.
LEMMA BlockLegit ==
    ASSUME SecretInv, NEW a \in Attempts, host[a].pc = "block"
    PROVE  /\ BlockOf(a) \in Record
           /\ BlockOf(a).version <= store.version + 1
           /\ Current(BlockOf(a)) => Blocks(BlockOf(a), a)
<1>1. /\ OwnCopy(a) /\ CopyInv(a)
      /\ host[a].outcome = "blocked_auth" => reply[a].kind = "rejected"
      /\ host[a].outcome \in {"blocked_auth", "blocked_ambiguous"}
      /\ host[a].cur \in Record /\ store \in Record
  BY DEF SecretInv, HostInv, SecretTypeOK, Call
<1>2. BlockOf(a) \in Record /\ BlockOf(a).version = host[a].cur.version + 1
  <2>0. host[a].cur \in Record /\ host[a].cur.version + 1 \in Nat
    BY <1>1 DEF Record
  <2>1. PICK c \in Record, v \in Nat : c = host[a].cur /\ v = host[a].cur.version + 1
    BY <2>0, Zenon
  <2>2. BlockOf(a) = [c EXCEPT !.version = v, !.state = host[a].outcome,
                               !.active = NoAttempt, !.last = a]
    BY <2>1, Zenon DEF BlockOf
  <2>. QED
    BY <1>1, <2>1, <2>2 DEF Record
<1>3. BlockOf(a).version <= store.version + 1
  BY <1>1, <1>2 DEF CopyInv, Record
<1>4. ASSUME Current(BlockOf(a)) PROVE store = host[a].cur
  BY <1>1, <1>2, <1>4 DEF CopyInv, Current, Record
<1>. QED
  BY <1>1, <1>2, <1>3, <1>4 DEF Blocks, BlockOf, OwnCopy

\* So is a commit.
LEMMA CommitLegit ==
    ASSUME SecretInv, NEW a \in Attempts, host[a].pc \in {"commit", "commit_readback"}
    PROVE  /\ CommitOf(a) \in Record
           /\ CommitOf(a).version = host[a].cur.version + 1
           /\ CommitOf(a).generation = host[a].rotated
           /\ CommitOf(a).state = "ready"
           /\ CommitOf(a).version <= store.version + 1
           /\ Current(CommitOf(a)) => Commits(CommitOf(a), a)
<1>1. /\ OwnCopy(a) /\ CopyInv(a) /\ reply[a].kind = "rotated"
      /\ host[a].rotated = reply[a].secret
      /\ host[a].rotated = host[a].cur.generation + 1
      /\ host[a].cur \in Record /\ store \in Record /\ host[a].rotated \in Int
  BY DEF SecretInv, HostInv, SecretTypeOK, Call
<1>2. /\ CommitOf(a) \in Record /\ CommitOf(a).version = host[a].cur.version + 1
      /\ CommitOf(a).generation = host[a].rotated
      /\ CommitOf(a).state = "ready"
  <2>1. PICK c \in Record, v \in Nat, g \in Nat :
           /\ c = host[a].cur /\ v = host[a].cur.version + 1
           /\ g = host[a].cur.generation + 1
    BY <1>1 DEF Record
  <2>2. CommitOf(a) = [c EXCEPT !.version = v, !.state = "ready",
                                !.secret = host[a].rotated, !.generation = g,
                                !.active = NoAttempt, !.last = a]
    BY <2>1, Zenon DEF CommitOf
  <2>. QED
    BY <1>1, <2>1, <2>2 DEF Record
<1>3. CommitOf(a).version <= store.version + 1
  BY <1>1, <1>2 DEF CopyInv, Record
<1>4. ASSUME Current(CommitOf(a)) PROVE store = host[a].cur
  BY <1>1, <1>2, <1>4 DEF CopyInv, Current, Record
<1>. QED
  BY <1>1, <1>2, <1>3, <1>4 DEF Commits, CommitOf, OwnCopy

\* An attempt that is over has nothing left to uphold.
LEMMA OverInv ==
    ASSUME SecretInv, NEW a \in Attempts,
           host'[a].pc \in {"ended", "ambiguous", "crashed"},
           UNCHANGED <<requests, reply>>
    PROVE  HostInv(a)'
BY DEF SecretInv, HostInv

\* A call that ends, or dies, with at most legitimate writes left behind.
LEMMA EndsInv ==
    ASSUME SecretInv, NEW a \in Attempts,
           NEW pc \in {"ended", "ambiguous", "crashed"}, Goto(a, pc),
           \A w \in writes' : w \in writes \/ (w \in Record /\ Legit(w)'),
           UNCHANGED <<store, op, provider, requests, reply, sends>>
    PROVE  SecretInv'
<1>1. pc \in HostPcs /\ pc \in Past /\ pc # "exchange"
  BY DEF HostPcs, Past
<1>2. /\ host' \in [Attempts -> Call]
      /\ host'[a].pc = pc
      /\ host'[a].cur = host[a].cur
      /\ \A b \in Attempts \ {a} : host'[b] = host[b]
  BY <1>1, GotoShape DEF SecretInv
<1>3. HostInv(a)'
  BY <1>2, OverInv
<1>. QED
  BY <1>1, <1>2, <1>3, QuietHost

\* ReadForClaim: the copy is the record, which is ready.
LEMMA ReadForClaimInv ==
    ASSUME SecretInv, NEW a \in Attempts, ReadForClaim(a)
    PROVE  SecretInv'
<1>1. /\ host[a].pc = "idle" /\ store.state = "ready"
      /\ host' = [host EXCEPT ![a].pc = "claim", ![a].cur = store]
      /\ UNCHANGED <<store, writes, op, provider, requests, reply, sends>>
  BY DEF ReadForClaim
<1>2. "claim" \in HostPcs /\ "idle" \notin Past
  BY DEF HostPcs, Past
<1>3. /\ host' \in [Attempts -> Call]
      /\ host'[a].pc = "claim" /\ host'[a].cur = store
      /\ \A b \in Attempts \ {a} : host'[b] = host[b]
  BY <1>1, <1>2 DEF SecretInv, SecretTypeOK, Call
<1>4. Unasked(a) /\ store.version \in Nat
  BY <1>1 DEF SecretInv, HostInv, SecretTypeOK, Record
<1>5. HostInv(a)'
  BY <1>1, <1>3, <1>4 DEF HostInv, Unasked, CopyInv
<1>6. a \notin requests
  BY <1>4 DEF Unasked
<1>. QED
  BY <1>1, <1>2, <1>3, <1>5, <1>6, QuietHost

\* Claim: applied, the record is the attempt's own; in doubt, it is a
\* legitimate write.
LEMMA ClaimInv ==
    ASSUME SecretInv, NEW a \in Attempts, Claim(a)
    PROVE  SecretInv'
<1>1. PICK r \in Record : /\ r = ClaimOf(a) /\ r.version <= store.version + 1
                          /\ Current(r) => Claims(r, a)
  BY ClaimLegit DEF Claim
<1>2. /\ host[a].pc = "claim" /\ UNCHANGED <<op, provider, requests, reply, sends>>
      /\ "claim" \notin Past
  BY DEF Claim, Past
<1>3. Unasked(a) /\ CopyInv(a) /\ host[a].cur.state = "ready"
  BY <1>2 DEF SecretInv, HostInv
<1>4. CASE CasOk(r) /\ host' = [host EXCEPT ![a].pc = "exchange", ![a].cur = store']
  <2>1. Current(r) /\ store' = r /\ writes' = writes /\ Claims(r, a)
    BY <1>1, <1>4 DEF CasOk
  <2>2. "exchange" \in HostPcs
    BY DEF HostPcs
  <2>3. /\ host' \in [Attempts -> Call]
        /\ host'[a].pc = "exchange" /\ host'[a].cur = r
        /\ \A b \in Attempts \ {a} : host'[b] = host[b]
    BY <1>4, <2>1, <2>2 DEF SecretInv, SecretTypeOK, Call
  <2>4. Replaces(r)
    BY <1>2, <2>1 DEF Replaces, Moves
  <2>5. /\ r.state = "refreshing" /\ r.active = a /\ r.secret = store.secret
        /\ r.generation = store.generation
    BY <2>1 DEF Claims, SecretInv, SecretTypeOK, Record
  <2>6. /\ store.secret = provider /\ store.generation = provider
        /\ \A b \in Attempts : ~Live(b)
    BY <2>1, NobodyLive DEF Claims, SecretInv, StoreInv, ReadyHoldsCurrentSecret
  <2>7. SecretTypeOK' /\ StoreInv' /\ PendingInv'
    BY <1>2, <2>1, <2>3, <2>4, ReplacedStore, ReplacedPending DEF SecretInv, SecretTypeOK
  <2>8. LiveInv'
    <3>1. \A b \in Attempts : Live(b)' => b = a
      BY <1>2, <2>3, <2>6 DEF Live
    <3>. QED
      BY <1>2, <2>1, <2>3, <2>5, <2>6, <3>1 DEF LiveInv
  <2>9. \A b \in Attempts \ {a} : HostInv(b)'
    BY <2>3, <2>4, ReplacedHost
  <2>10. HostInv(a)'
    BY <1>2, <1>3, <2>1, <2>3, <2>5, <2>6 DEF HostInv, Unasked, OwnCopy, HoldsRecord
  <2>. QED
    BY <1>2, <2>7, <2>8, <2>9, <2>10 DEF SecretInv, NoSecretReplayed
<1>5. CASE CasConflict(r) /\ Goto(a, "ended")
  <2>1. UNCHANGED <<store, writes>>
    BY <1>5 DEF CasConflict
  <2>. QED
    BY <1>2, <1>5, <2>1, EndsInv
<1>6. CASE CasAmbiguous(r) /\ Goto(a, "claim_readback")
  <2>1. writes' = writes \cup {r} /\ store' = store
    BY <1>6 DEF CasAmbiguous
  <2>2. "claim_readback" \in HostPcs
    BY DEF HostPcs
  <2>3. /\ host' \in [Attempts -> Call]
        /\ host'[a].pc = "claim_readback" /\ host'[a].cur = host[a].cur
        /\ \A b \in Attempts \ {a} : host'[b] = host[b]
    BY <1>6, <2>2, GotoShape DEF SecretInv
  <2>4. HostInv(a)'
    BY <1>2, <1>3, <2>1, <2>3 DEF HostInv, Unasked, CopyInv
  <2>5. Legit(r)'
    BY <1>1, <1>2, <2>1 DEF Legit, Current, Successor, Claims
  <2>. QED
    BY <1>2, <2>1, <2>3, <2>4, <2>5, QuietHost
<1>. QED
  BY <1>1, <1>4, <1>5, <1>6 DEF Claim

\* ClaimReadback: a claim seen in the record was applied, and its secret is
\* still unused.
LEMMA ClaimReadbackInv ==
    ASSUME SecretInv, NEW a \in Attempts, ClaimReadback(a)
    PROVE  SecretInv'
<1>1. /\ host[a].pc = "claim_readback" /\ Unasked(a)
      /\ UNCHANGED <<store, writes, op, provider, requests, reply, sends>>
  BY DEF ClaimReadback, SecretInv, HostInv
<1>2. CASE Goto(a, "ambiguous")
  BY <1>1, <1>2, EndsInv
<1>3. CASE /\ store.state = "refreshing" /\ store.active = a
           /\ host' = [host EXCEPT ![a].pc = "exchange", ![a].cur = store]
  <2>1. "exchange" \in HostPcs /\ "claim_readback" \notin Past
    BY DEF HostPcs, Past
  <2>2. /\ host' \in [Attempts -> Call]
        /\ host'[a].pc = "exchange" /\ host'[a].cur = store
        /\ \A b \in Attempts \ {a} : host'[b] = host[b]
    <3>1. /\ host' = [host EXCEPT ![a].pc = "exchange", ![a].cur = store]
          /\ store \in Record /\ host \in [Attempts -> Call]
      BY <1>3 DEF SecretInv, SecretTypeOK
    <3>. QED
      BY <2>1, <3>1 DEF Call
  <2>3. store.generation = store.secret /\ store.secret = provider
    BY <1>1, <1>3 DEF SecretInv, StoreInv, Unasked
  <2>4. SecretTypeOK'
    BY <1>1, <2>2 DEF SecretInv, SecretTypeOK
  <2>5. StoreInv'
    BY <1>1 DEF SecretInv, StoreInv, ReadyHoldsCurrentSecret
  <2>6. LiveInv'
    <3>1. \A b \in Attempts : Live(b) => b = a
      BY <1>3 DEF SecretInv, LiveInv
    <3>2. \A b \in Attempts : Live(b)' => b = a
      BY <1>1, <2>2, <3>1 DEF Live
    <3>. QED
      BY <1>1, <1>3, <2>2, <2>3, <3>2 DEF LiveInv
  <2>7. Calm /\ requests' \subseteq Attempts
    BY <1>1, <2>1, <2>2, <2>4 DEF Calm, SecretTypeOK
  <2>8. PendingInv'
    <3>1. \A w \in writes : Legit(w)'
      BY <2>7, CalmLegit DEF SecretInv, PendingInv
    <3>2. ASSUME NEW r, Legit(r) PROVE Legit(r)'
      BY <2>7, <3>2, CalmLegit
    <3>3. \A o \in Operators : op[o].pc = "cas" => Legit(op[o].replacement)'
      BY <1>1, <3>2 DEF SecretInv, PendingInv
    <3>. QED
      BY <1>1, <3>1, <3>3 DEF PendingInv
  <2>9. HostInv(a)'
    BY <1>1, <1>3, <2>2, <2>3 DEF HostInv, Unasked, OwnCopy, HoldsRecord
  <2>10. \A b \in Attempts \ {a} : HostInv(b)'
    BY <1>1, <2>2, HostStays DEF SecretInv
  <2>. QED
    BY <1>1, <2>4, <2>5, <2>6, <2>8, <2>9, <2>10 DEF SecretInv, NoSecretReplayed
<1>. QED
  BY <1>2, <1>3 DEF ClaimReadback

\* Exchange: the secret sent is the one the provider accepts.
LEMMA ExchangeInv ==
    ASSUME SecretInv, NEW a \in Attempts, Exchange(a)
    PROVE  SecretInv'
<1>1. /\ host[a].pc = "exchange" /\ Unasked(a) /\ OwnCopy(a) /\ HoldsRecord(a)
      /\ requests' = requests \cup {a} /\ Goto(a, "waiting")
      /\ UNCHANGED <<store, writes, op, provider, reply>>
  BY DEF Exchange, SecretInv, HostInv
<1>2. "waiting" \in HostPcs /\ "exchange" \notin Past
  BY DEF HostPcs, Past
<1>3. /\ host' \in [Attempts -> Call]
      /\ host'[a].pc = "waiting" /\ host'[a].cur = host[a].cur
      /\ \A b \in Attempts \ {a} : host'[b] = host[b]
  BY <1>1, <1>2, GotoShape DEF SecretInv
<1>4. host[a].cur.secret = provider
  BY <1>1 DEF SecretInv, LiveInv, Live
<1>5. NoSecretReplayed'
  <2>1. (host[a].cur.secret # provider) = FALSE
    BY <1>4
  <2>2. sends' = sends \cup {[attempt |-> a, secret |-> host[a].cur.secret, stale |-> FALSE]}
    BY <2>1, Zenon DEF Exchange
  <2>. QED
    BY <2>2 DEF SecretInv, NoSecretReplayed
<1>6. SecretTypeOK'
  BY <1>1, <1>3 DEF SecretInv, SecretTypeOK
<1>7. StoreInv'
  BY <1>1 DEF SecretInv, StoreInv, ReadyHoldsCurrentSecret
<1>8. \A b \in Attempts : /\ Live(b)' => Live(b)
                          /\ host'[b].cur = host[b].cur
  BY <1>1, <1>3 DEF Live
<1>9. LiveInv'
  BY <1>1, <1>8 DEF SecretInv, LiveInv
<1>10. Calm /\ requests' \subseteq Attempts
  BY <1>1, <1>2, <1>3, <1>6 DEF Calm, SecretTypeOK
<1>11. PendingInv'
  <2>1. ASSUME NEW r, Legit(r) PROVE Legit(r)'
    BY <1>10, <2>1, CalmLegit
  <2>2. \A w \in writes : Legit(w)'
    BY <2>1 DEF SecretInv, PendingInv
  <2>3. \A o \in Operators : op[o].pc = "cas" => Legit(op[o].replacement)'
    BY <1>1, <2>1 DEF SecretInv, PendingInv
  <2>. QED
    BY <1>1, <2>2, <2>3 DEF PendingInv
<1>12. HostInv(a)'
  BY <1>1, <1>3 DEF HostInv, Unasked, OwnCopy, HoldsRecord
<1>13. \A b \in Attempts \ {a} : HostInv(b)'
  BY <1>1, <1>3, HostStays DEF SecretInv
<1>. QED
  BY <1>5, <1>6, <1>7, <1>9, <1>11, <1>12, <1>13 DEF SecretInv

\* Answer: a rotated secret is committed, anything else blocks the record.
LEMMA AnswerInv ==
    ASSUME SecretInv, NEW a \in Attempts, Answer(a)
    PROVE  SecretInv'
<1>1. /\ host[a].pc = "waiting" /\ OwnCopy(a) /\ HoldsRecord(a) /\ HostInv(a)
      /\ UNCHANGED <<store, writes, op, provider, requests, reply, sends>>
  BY DEF Answer, SecretInv, HostInv
<1>2. "waiting" \notin Past /\ "commit" \in HostPcs /\ "block" \in HostPcs
  BY DEF HostPcs, Past
<1>3. CopyInv(a) /\ host \in [Attempts -> Call] /\ reply[a].secret \in Int
  BY <1>1 DEF SecretInv, SecretTypeOK, Call, Record, CopyInv, HoldsRecord
<1>4. CASE /\ reply[a].kind = "rotated"
           /\ host' = [host EXCEPT ![a].pc = "commit", ![a].rotated = reply[a].secret]
  <2>1. /\ host' \in [Attempts -> Call]
        /\ host'[a].pc = "commit" /\ host'[a].cur = host[a].cur
        /\ host'[a].rotated = reply[a].secret
        /\ \A b \in Attempts \ {a} : host'[b] = host[b]
    <3>1. PICK x \in Int : host' = [host EXCEPT ![a].pc = "commit", ![a].rotated = x]
                           /\ x = reply[a].secret
      BY <1>3, <1>4
    <3>. QED
      BY <1>2, <1>3, <3>1 DEF Call
  <2>2. HostInv(a)'
    BY <1>1, <1>3, <1>4, <2>1 DEF HostInv, OwnCopy, HoldsRecord, CopyInv
  <2>. QED
    BY <1>1, <1>2, <2>1, <2>2, QuietHost
<1>5. CASE \E verdict \in {"blocked_auth", "blocked_ambiguous"} :
              /\ host' = [host EXCEPT ![a].pc = "block", ![a].outcome = verdict]
              /\ verdict = "blocked_auth" => reply[a].kind = "rejected"
  <2>1. PICK verdict \in {"blocked_auth", "blocked_ambiguous"} :
              /\ host' = [host EXCEPT ![a].pc = "block", ![a].outcome = verdict]
              /\ verdict = "blocked_auth" => reply[a].kind = "rejected"
    BY <1>5
  <2>2. /\ host' \in [Attempts -> Call]
        /\ host'[a].pc = "block" /\ host'[a].cur = host[a].cur
        /\ host'[a].outcome = verdict
        /\ \A b \in Attempts \ {a} : host'[b] = host[b]
    BY <1>2, <1>3, <2>1 DEF Call
  <2>3. HostInv(a)'
    BY <1>1, <1>3, <2>1, <2>2 DEF HostInv, OwnCopy, CopyInv
  <2>. QED
    BY <1>1, <1>2, <2>2, <2>3, QuietHost
<1>. QED
  BY <1>4, <1>5 DEF Answer

\* Commit: applied, the rotated secret is in the record before access is granted.
LEMMA CommitInv ==
    ASSUME SecretInv, NEW a \in Attempts, Commit(a)
    PROVE  SecretInv'
<1>1. /\ host[a].pc = "commit" /\ UNCHANGED <<op, provider, requests, reply, sends>>
      /\ "commit" \notin Past
  BY DEF Commit, Past
<1>2. PICK r \in Record :
        /\ r = CommitOf(a) /\ r.version <= store.version + 1
        /\ r.version = host[a].cur.version + 1 /\ r.generation = host[a].rotated
        /\ Current(r) => Commits(r, a)
  BY <1>1, CommitLegit
<1>3. HostInv(a) /\ a \notin requests
  BY <1>1 DEF SecretInv, HostInv
<1>4. CASE CasOk(r) /\ Goto(a, "granted")
  <2>1. Current(r) /\ store' = r /\ writes' = writes /\ Commits(r, a)
    BY <1>2, <1>4 DEF CasOk
  <2>2. "granted" \in HostPcs /\ "granted" \in Past
    BY DEF HostPcs, Past
  <2>3. /\ host' \in [Attempts -> Call]
        /\ host'[a].pc = "granted" /\ host'[a].cur = host[a].cur
        /\ host'[a].rotated = host[a].rotated
        /\ \A b \in Attempts \ {a} : host'[b] = host[b]
    BY <1>4, <2>2, GotoShape DEF SecretInv
  <2>4. Replaces(r)
    BY <1>1, <2>1, <2>2, <2>3 DEF Replaces, Moves
  <2>5. SecretTypeOK' /\ StoreInv' /\ PendingInv'
    BY <1>1, <2>1, <2>3, <2>4, ReplacedStore, ReplacedPending DEF SecretInv, SecretTypeOK
  <2>6. LiveInv'
    BY <2>2, <2>3, <2>4, ReplacedLive
  <2>7. HostInv(a)'
    BY <1>1, <1>2, <1>3, <2>1, <2>3 DEF HostInv, Record
  <2>8. \A b \in Attempts \ {a} : HostInv(b)'
    BY <2>3, <2>4, ReplacedHost
  <2>. QED
    BY <1>1, <2>5, <2>6, <2>7, <2>8 DEF SecretInv, NoSecretReplayed
<1>5. CASE CasConflict(r) /\ Goto(a, "ended")
  <2>1. UNCHANGED <<store, writes>>
    BY <1>5 DEF CasConflict
  <2>. QED
    BY <1>1, <1>5, <2>1, EndsInv
<1>6. CASE CasAmbiguous(r) /\ Goto(a, "commit_readback")
  <2>1. writes' = writes \cup {r} /\ store' = store
    BY <1>6 DEF CasAmbiguous
  <2>2. "commit_readback" \in HostPcs /\ "commit_readback" \in Past
    BY DEF HostPcs, Past
  <2>3. /\ host' \in [Attempts -> Call]
        /\ host'[a].pc = "commit_readback" /\ host'[a].cur = host[a].cur
        /\ host'[a].rotated = host[a].rotated
        /\ \A b \in Attempts \ {a} : host'[b] = host[b]
    BY <1>6, <2>2, GotoShape DEF SecretInv
  <2>4. HostInv(a)'
    BY <1>1, <1>3, <2>1, <2>3 DEF HostInv, OwnCopy, CopyInv
  <2>5. Legit(r)'
    BY <1>1, <1>2, <2>1, <2>2, <2>3 DEF Legit, Current, Successor, Commits
  <2>. QED
    BY <1>1, <2>1, <2>3, <2>4, <2>5, QuietHost
<1>. QED
  BY <1>2, <1>4, <1>5, <1>6 DEF Commit

\* CommitReadback: access is granted when the record is the committed one.
LEMMA CommitReadbackInv ==
    ASSUME SecretInv, NEW a \in Attempts, CommitReadback(a)
    PROVE  SecretInv'
<1>1. /\ host[a].pc = "commit_readback"
      /\ UNCHANGED <<store, writes, op, provider, requests, reply, sends>>
  BY DEF CommitReadback
<1>2. HostInv(a) /\ a \notin requests
  BY <1>1 DEF SecretInv, HostInv
<1>3. CASE store = CommitOf(a) /\ Goto(a, "granted")
  <2>1. "granted" \in HostPcs /\ "granted" \in Past
    BY DEF HostPcs, Past
  <2>2. /\ host' \in [Attempts -> Call]
        /\ host'[a].pc = "granted" /\ host'[a].cur = host[a].cur
        /\ host'[a].rotated = host[a].rotated
        /\ \A b \in Attempts \ {a} : host'[b] = host[b]
    BY <1>3, <2>1, GotoShape DEF SecretInv
  <2>3. /\ store.version = host[a].cur.version + 1 /\ store.generation = host[a].rotated
        /\ store.version \in Nat /\ store.generation \in Nat
    BY <1>1, <1>3, CommitLegit DEF Record
  <2>4. HostInv(a)'
    BY <1>1, <1>2, <2>2, <2>3 DEF HostInv
  <2>. QED
    BY <1>1, <1>2, <2>1, <2>2, <2>4, QuietHost
<1>4. CASE /\ store.state = "refreshing" /\ store.active = a
           /\ host' = [host EXCEPT ![a].pc = "block", ![a].cur = store,
                                   ![a].outcome = "blocked_ambiguous"]
  <2>1. "block" \in HostPcs /\ "block" \in Past
    BY DEF HostPcs, Past
  <2>2. /\ host' \in [Attempts -> Call]
        /\ host'[a].pc = "block" /\ host'[a].cur = store
        /\ host'[a].outcome = "blocked_ambiguous"
        /\ \A b \in Attempts \ {a} : host'[b] = host[b]
    <3>1. /\ host' = [host EXCEPT ![a].pc = "block", ![a].cur = store,
                                  ![a].outcome = "blocked_ambiguous"]
          /\ store \in Record /\ host \in [Attempts -> Call]
      BY <1>4 DEF SecretInv, SecretTypeOK
    <3>. QED
      BY <2>1, <3>1 DEF Call
  <2>3. store.generation = store.secret /\ store.version \in Nat
    BY <1>4 DEF SecretInv, StoreInv, SecretTypeOK, Record
  <2>4. HostInv(a)'
    BY <1>1, <1>2, <1>4, <2>2, <2>3 DEF HostInv, OwnCopy, CopyInv
  <2>. QED
    BY <1>1, <1>2, <2>1, <2>2, <2>4, QuietHost
<1>5. CASE Goto(a, "ambiguous")
  BY <1>1, <1>5, EndsInv
<1>. QED
  BY <1>3, <1>4, <1>5 DEF CommitReadback

\* Block: the attempt is over; its write is legitimate whenever it is applied.
LEMMA BlockInv ==
    ASSUME SecretInv, NEW a \in Attempts, Block(a)
    PROVE  SecretInv'
<1>1. /\ host[a].pc = "block" /\ "block" \in Past
      /\ UNCHANGED <<op, provider, requests, reply, sends>>
  BY DEF Block, Past
<1>2. PICK r \in Record :
        /\ r = BlockOf(a) /\ r.version <= store.version + 1
        /\ Current(r) => Blocks(r, a)
  BY <1>1, BlockLegit
<1>3. PICK pc \in {"ended", "ambiguous", "crashed"} : Goto(a, pc)
  BY DEF Block
<1>4. CASE CasOk(r)
  <2>1. Current(r) /\ store' = r /\ writes' = writes /\ Blocks(r, a)
    BY <1>2, <1>4 DEF CasOk
  <2>2. pc \in HostPcs /\ pc \in Past
    BY DEF HostPcs, Past
  <2>3. /\ host' \in [Attempts -> Call]
        /\ host'[a].pc = pc /\ host'[a].cur = host[a].cur
        /\ \A b \in Attempts \ {a} : host'[b] = host[b]
    BY <1>3, <2>2, GotoShape DEF SecretInv
  <2>4. Replaces(r)
    BY <1>1, <2>1, <2>2, <2>3 DEF Replaces, Moves
  <2>5. SecretTypeOK' /\ StoreInv' /\ PendingInv'
    BY <1>1, <2>1, <2>3, <2>4, ReplacedStore, ReplacedPending DEF SecretInv, SecretTypeOK
  <2>6. LiveInv'
    BY <2>2, <2>3, <2>4, ReplacedLive
  <2>7. HostInv(a)'
    BY <1>1, <2>3, OverInv
  <2>8. \A b \in Attempts \ {a} : HostInv(b)'
    BY <2>3, <2>4, ReplacedHost
  <2>. QED
    BY <1>1, <2>5, <2>6, <2>7, <2>8 DEF SecretInv, NoSecretReplayed
<1>5. CASE CasConflict(r)
  <2>1. UNCHANGED <<store, writes>>
    BY <1>5 DEF CasConflict
  <2>. QED
    BY <1>1, <1>3, <2>1, EndsInv
<1>6. CASE CasAmbiguous(r)
  <2>1. writes' = writes \cup {r} /\ store' = store
    BY <1>6 DEF CasAmbiguous
  <2>2. pc \in HostPcs /\ pc \in Past
    BY DEF HostPcs, Past
  <2>3. host'[a].pc = pc
    BY <1>3, <2>2, GotoShape DEF SecretInv
  <2>4. Legit(r)'
    BY <1>1, <1>2, <2>1, <2>2, <2>3 DEF Legit, Current, Successor, Blocks
  <2>. QED
    BY <1>1, <1>3, <2>1, <2>4, EndsInv
<1>. QED
  BY <1>2, <1>4, <1>5, <1>6 DEF Block

-----------------------------------------------------------------------------
(* The provider *)

\* A request is settled, one way or the other: prepared writes stay legitimate.
LEMMA SettledPending ==
    ASSUME SecretInv, NEW a \in requests, requests' = requests \ {a},
           \A b \in Attempts \ {a} : reply'[b] = reply[b],
           UNCHANGED <<store, writes, host, op, sends>>
    PROVE  PendingInv' /\ NoSecretReplayed'
<1>1. Calm /\ requests' \subseteq Attempts
  BY DEF Calm, SecretInv, SecretTypeOK
<1>2. ASSUME NEW r, Legit(r) PROVE Legit(r)'
  BY <1>1, <1>2, CalmLegit
<1>3. \A w \in writes : Legit(w)'
  BY <1>2 DEF SecretInv, PendingInv
<1>4. \A o \in Operators : op[o].pc = "cas" => Legit(op[o].replacement)'
  BY <1>2 DEF SecretInv, PendingInv
<1>. QED
  BY <1>3, <1>4 DEF PendingInv, SecretInv, NoSecretReplayed

\* Rotate: the one request that could use the secret has used it.
LEMMA RotateInv ==
    ASSUME SecretInv, NEW a \in Attempts, Rotate(a)
    PROVE  SecretInv'
<1>1. /\ a \in requests /\ host[a].cur.secret = provider /\ provider' = provider + 1
      /\ requests' = requests \ {a}
      /\ UNCHANGED <<store, writes, host, op, sends>>
  BY DEF Rotate
<1>2. /\ reply' \in [Attempts -> [kind : {"none", "rotated", "rejected"}, secret : Int]]
      /\ reply'[a].kind = "rotated" /\ reply'[a].secret = provider + 1
      /\ \A b \in Attempts \ {a} : reply'[b] = reply[b]
  BY DEF Rotate, SecretInv, SecretTypeOK
<1>3. SecretTypeOK'
  BY <1>1, <1>2 DEF SecretInv, SecretTypeOK
<1>4. /\ HostInv(a) /\ reply[a].kind = "none" /\ host[a].pc # "exchange"
      /\ \A b \in Attempts : Live(b) => b = a
      /\ \/ store.state = "revoked"
         \/ /\ store.secret = provider
            /\ \/ store.state = "refreshing" /\ store.active = a
               \/ store.state = "blocked_ambiguous" /\ store.last = a
  BY <1>1 DEF SecretInv, HostInv, Unasked, LiveInv, Live
<1>5. LiveInv'
  <2>1. \A b \in Attempts : ~Live(b)'
    BY <1>1, <1>4 DEF Live
  <2>. QED
    BY <2>1 DEF LiveInv
<1>6. StoreInv'
  BY <1>1, <1>2, <1>4 DEF SecretInv, StoreInv, ReadyHoldsCurrentSecret
<1>7. HostInv(a)'
  BY <1>1, <1>2, <1>4 DEF HostInv, Unasked, OwnCopy, HoldsRecord, CopyInv
<1>8. \A b \in Attempts \ {a} : HostInv(b)'
  BY <1>1, <1>2, HostStays DEF SecretInv
<1>. QED
  BY <1>1, <1>2, <1>3, <1>5, <1>6, <1>7, <1>8, SettledPending DEF SecretInv

\* Reject, and Lose: the request can no longer use the secret.
LEMMA SettledInv ==
    ASSUME SecretInv, NEW a \in Attempts, Reject(a) \/ Lose(a)
    PROVE  SecretInv'
<1>1. /\ a \in requests /\ requests' = requests \ {a}
      /\ UNCHANGED <<store, writes, host, op, provider, sends>>
  BY DEF Reject, Lose
<1>2. /\ reply' \in [Attempts -> [kind : {"none", "rotated", "rejected"}, secret : Int]]
      /\ reply'[a].kind # "rotated"
      /\ \A b \in Attempts \ {a} : reply'[b] = reply[b]
  <2>1. reply[a].kind = "none" /\ NoSecret \in Int
    BY <1>1 DEF SecretInv, HostInv, NoSecret
  <2>2. CASE Reject(a)
    BY <2>1, <2>2 DEF Reject, SecretInv, SecretTypeOK
  <2>3. CASE Lose(a)
    BY <2>1, <2>3 DEF Lose, SecretInv, SecretTypeOK
  <2>. QED
    BY <2>2, <2>3
<1>3. SecretTypeOK'
  BY <1>1, <1>2 DEF SecretInv, SecretTypeOK
<1>4. HostInv(a) /\ reply[a].kind = "none" /\ host[a].pc # "exchange"
  BY <1>1 DEF SecretInv, HostInv, Unasked
<1>5. LiveInv'
  <2>1. \A b \in Attempts : Live(b)' => Live(b)
    BY <1>1 DEF Live
  <2>. QED
    BY <1>1, <2>1 DEF SecretInv, LiveInv
<1>6. StoreInv'
  BY <1>1, <1>2, <1>4 DEF SecretInv, StoreInv, ReadyHoldsCurrentSecret
<1>7. HostInv(a)'
  BY <1>1, <1>2, <1>4 DEF HostInv, Unasked, OwnCopy, HoldsRecord, CopyInv
<1>8. \A b \in Attempts \ {a} : HostInv(b)'
  BY <1>1, <1>2, HostStays DEF SecretInv
<1>. QED
  BY <1>1, <1>2, <1>3, <1>5, <1>6, <1>7, <1>8, SettledPending DEF SecretInv

-----------------------------------------------------------------------------
(* Operators and late writes *)

\* A step of an operator that touches neither the record nor the attempts.
LEMMA OperatorQuiet ==
    ASSUME SecretInv,
           op' \in [Operators -> [pc : {"idle", "cas", "ended"}, replacement : Record]],
           \A o \in Operators : op'[o].pc = "cas" => Legit(op'[o].replacement),
           \A w \in writes' : w \in Record /\ Legit(w),
           UNCHANGED <<store, host, provider, requests, reply, sends>>
    PROVE  SecretInv'
<1>1. SecretTypeOK'
  BY DEF SecretInv, SecretTypeOK
<1>2. StoreInv' /\ NoSecretReplayed'
  BY DEF SecretInv, StoreInv, ReadyHoldsCurrentSecret, NoSecretReplayed
<1>3. LiveInv'
  BY DEF SecretInv, LiveInv, Live
<1>4. \A b \in Attempts : HostInv(b)'
  BY HostStays DEF SecretInv
<1>5. Calm /\ requests' \subseteq Attempts
  BY DEF Calm, SecretInv, SecretTypeOK
<1>6. \A r : Legit(r) => Legit(r)'
  BY <1>5, CalmLegit
<1>7. PendingInv'
  <2>1. ASSUME NEW o \in Operators, op'[o].pc = "cas" PROVE Legit(op[o].replacement)'
    <3>1. PICK r \in Record : r = op'[o].replacement
      OBVIOUS
    <3>2. Legit(r)'
      BY <1>6, <2>1, <3>1
    <3>. QED
      BY <3>1, <3>2
  <2>2. \A w \in writes' : Legit(w)'
    BY <1>6
  <2>. QED
    BY <2>1, <2>2 DEF PendingInv
<1>. QED
  BY <1>1, <1>2, <1>3, <1>4, <1>7 DEF SecretInv

\* An operation prepares a legitimate successor of the record it read.
LEMMA PrepareInv ==
    ASSUME SecretInv, NEW o \in Operators, NEW r \in Record, Prepare(o, r),
           RecoversSame(r) \/ RecoversRotated(r) \/ Revokes(r)
    PROVE  SecretInv'
<1>1. /\ op' = [op EXCEPT ![o] = [pc |-> "cas", replacement |-> r]]
      /\ UNCHANGED <<store, writes, host, provider, requests, reply, sends>>
  BY DEF Prepare
<1>2. /\ op' \in [Operators -> [pc : {"idle", "cas", "ended"}, replacement : Record]]
      /\ op'[o].replacement = r
      /\ \A q \in Operators \ {o} : op'[q] = op[q]
  BY <1>1 DEF SecretInv, SecretTypeOK
<1>3. r.version = store.version + 1 /\ store.version \in Nat
  BY MovesForward DEF Moves, SecretInv, SecretTypeOK, Record
<1>4. Legit(r)
  BY <1>3 DEF Legit, Successor
<1>5. \A q \in Operators : op'[q].pc = "cas" => Legit(op'[q].replacement)
  BY <1>2, <1>4 DEF SecretInv, PendingInv
<1>. QED
  BY <1>1, <1>2, <1>5, OperatorQuiet DEF SecretInv, SecretTypeOK, PendingInv

\* The three operations prepare records.
LEMMA OperationInv ==
    ASSUME SecretInv, NEW o \in Operators,
           \/ recover_ambiguous_not_applied(o)
           \/ recover_ambiguous_with_rotated_secret(o)
           \/ revoke(o)
    PROVE  SecretInv'
<1>1. PICK v \in Nat, g \in Nat, x \in Int :
         /\ v = store.version + 1 /\ g = store.generation + 1 /\ x = provider
         /\ NoSecret \in Int
  BY DEF SecretInv, SecretTypeOK, Record, NoSecret
<1>2. store \in Record
  BY DEF SecretInv, SecretTypeOK
<1>3. CASE recover_ambiguous_not_applied(o)
  <2>1. PICK r : r = [store EXCEPT !.version = v, !.state = "ready"]
    OBVIOUS
  <2>2. r \in Record
    BY <1>2, <2>1 DEF Record
  <2>3. Prepare(o, r) /\ RecoversSame(r)
    BY <1>1, <1>3, <2>1, Zenon DEF recover_ambiguous_not_applied, RecoversSame
  <2>. QED
    BY <2>2, <2>3, PrepareInv
<1>4. CASE recover_ambiguous_with_rotated_secret(o)
  <2>1. PICK r : r = [store EXCEPT !.version = v, !.state = "ready",
                                   !.secret = x, !.generation = g]
    OBVIOUS
  <2>2. r \in Record
    BY <1>2, <2>1 DEF Record
  <2>3. Prepare(o, r) /\ RecoversRotated(r)
    BY <1>1, <1>4, <2>1, Zenon DEF recover_ambiguous_with_rotated_secret, RecoversRotated
  <2>. QED
    BY <2>2, <2>3, PrepareInv
<1>5. CASE revoke(o)
  <2>1. PICK r : r = [store EXCEPT !.version = v, !.state = "revoked",
                                   !.secret = NoSecret, !.active = NoAttempt]
    OBVIOUS
  <2>2. r \in Record
    BY <1>1, <1>2, <2>1 DEF Record
  <2>3. Prepare(o, r) /\ Revokes(r)
    BY <1>1, <1>5, <2>1, Zenon DEF revoke, Revokes
  <2>. QED
    BY <2>2, <2>3, PrepareInv
<1>. QED
  BY <1>3, <1>4, <1>5

\* A legitimate write is applied while no attempt moves.
LEMMA AppliedInv ==
    ASSUME SecretInv, NEW r \in Record, Legit(r), Current(r), store' = r,
           writes' \subseteq writes,
           op' \in [Operators -> [pc : {"idle", "cas", "ended"}, replacement : Record]],
           \A o \in Operators : op'[o].pc = "cas" => op'[o] = op[o],
           UNCHANGED <<host, provider, requests, reply, sends>>
    PROVE  SecretInv'
<1>1. Replaces(r)
  BY DEF Replaces, Moves, Legit, Successor
<1>2. SecretTypeOK'
  BY DEF SecretInv, SecretTypeOK
<1>3. StoreInv' /\ PendingInv' /\ LiveInv'
  BY <1>1, ReplacedStore, ReplacedPending, ReplacedLive
<1>4. \A b \in Attempts : HostInv(b)'
  BY <1>1, ReplacedHost
<1>. QED
  BY <1>2, <1>3, <1>4 DEF SecretInv, NoSecretReplayed

\* OperatorCas: applied, refused, or left to be applied late.
LEMMA OperatorCasInv ==
    ASSUME SecretInv, NEW o \in Operators, OperatorCas(o)
    PROVE  SecretInv'
<1>1. PICK r \in Record : r = op[o].replacement /\ Legit(r)
  BY DEF OperatorCas, SecretInv, SecretTypeOK, PendingInv
<1>2. /\ op' \in [Operators -> [pc : {"idle", "cas", "ended"}, replacement : Record]]
      /\ op'[o].pc = "ended"
      /\ \A q \in Operators \ {o} : op'[q] = op[q]
  BY DEF OperatorCas, SecretInv, SecretTypeOK
<1>3. UNCHANGED <<host, provider, requests, reply, sends>>
  BY DEF OperatorCas
<1>4. CASE CasOk(r)
  BY <1>1, <1>2, <1>3, <1>4, AppliedInv DEF CasOk
<1>5. ASSUME CasConflict(r) \/ CasAmbiguous(r) PROVE SecretInv'
  <2>1. store' = store /\ \A w \in writes' : w \in writes \/ w = r
    BY <1>5 DEF CasConflict, CasAmbiguous
  <2>2. \A w \in writes' : w \in Record /\ Legit(w)
    BY <1>1, <2>1 DEF SecretInv, SecretTypeOK, PendingInv
  <2>3. \A q \in Operators : op'[q].pc = "cas" => Legit(op'[q].replacement)
    BY <1>2 DEF SecretInv, PendingInv
  <2>. QED
    BY <1>2, <1>3, <2>1, <2>2, <2>3, OperatorQuiet
<1>. QED
  BY <1>1, <1>4, <1>5 DEF OperatorCas

-----------------------------------------------------------------------------
(* The theorems *)

\* Every step preserves the invariant.
LEMMA SecretNextInv == SecretInv /\ [SecretNext]_secretVars => SecretInv'
<1>. SUFFICES ASSUME SecretInv, [SecretNext]_secretVars PROVE SecretInv'
  OBVIOUS
<1>1. ASSUME NEW a \in Attempts, HostStep(a) PROVE SecretInv'
  <2>1. CASE Crash(a)
    BY <2>1, EndsInv DEF Crash
  <2>. QED
    BY <1>1, <2>1, ReadForClaimInv, ClaimInv, ClaimReadbackInv, ExchangeInv, AnswerInv,
       CommitInv, CommitReadbackInv, BlockInv DEF HostStep
<1>2. ASSUME NEW a \in Attempts, ProviderStep(a) PROVE SecretInv'
  BY <1>2, RotateInv, SettledInv DEF ProviderStep
<1>3. ASSUME NEW o \in Operators, OperatorStep(o) PROVE SecretInv'
  BY <1>3, OperationInv, OperatorCasInv DEF OperatorStep
<1>4. ASSUME NEW w \in writes, DeliverWrite(w) PROVE SecretInv'
  <2>1. /\ w \in Record /\ Legit(w) /\ Current(w) /\ store' = w /\ writes' \subseteq writes
        /\ UNCHANGED <<host, op, provider, requests, reply, sends>>
    BY <1>4 DEF DeliverWrite, SecretInv, SecretTypeOK, PendingInv
  <2>2. op' \in [Operators -> [pc : {"idle", "cas", "ended"}, replacement : Record]]
    BY <2>1 DEF SecretInv, SecretTypeOK
  <2>. QED
    BY <2>1, <2>2, AppliedInv
<1>5. CASE UNCHANGED secretVars
  <2>1. UNCHANGED <<store, writes, host, op, provider, requests, reply, sends>>
    BY <1>5 DEF secretVars
  <2>. QED
    BY <2>1, OperatorQuiet DEF SecretInv, SecretTypeOK, PendingInv
<1>. QED
  BY <1>1, <1>2, <1>3, <1>4, <1>5 DEF SecretNext

\* The invariant holds in every reachable state.
THEOREM SecretInvariant == SecretSpec => []SecretInv
BY SecretInitInv, SecretNextInv, PTL DEF SecretSpec

\* A single-use refresh secret is sent once, by the one attempt that holds the
\* record, however claims are lost, repeated, recovered or delivered late.
THEOREM SecretsExchangedOnce == SecretSpec => []ExchangesOnce
<1>1. SecretInv => ExchangesOnce
  BY DEF SecretInv, ExchangesOnce, ExchangeIsExclusive, HostInv, HoldsRecord, OwnCopy
<1>. QED
  BY <1>1, SecretInvariant, PTL

\* A ready record holds the provider's secret, and access was granted only on
\* a rotation that reached the store.
THEOREM GrantsRestOnRotation == SecretSpec => []GrantsAreCurrent
<1>1. SecretInv => GrantsAreCurrent
  BY DEF SecretInv, StoreInv, GrantsAreCurrent, GrantedAfterCommit, HostInv
<1>. QED
  BY <1>1, SecretInvariant, PTL

\* A revoked record has no successor, so no prepared write fits it.
LEMMA RevokedHasNoSuccessor ==
    ASSUME SecretInv, store.state = "revoked"
    PROVE  /\ \A r : Legit(r) => ~Current(r)
           /\ \A a \in Attempts :
                 /\ host[a].pc = "claim" => ~Current(ClaimOf(a))
                 /\ host[a].pc = "block" => ~Current(BlockOf(a))
                 /\ host[a].pc \in {"commit", "commit_readback"} =>
                       ~Current(CommitOf(a)) /\ store # CommitOf(a)
<1>1. \A r, a : ~Claims(r, a) /\ ~Blocks(r, a) /\ ~Commits(r, a)
  BY DEF Claims, Blocks, Commits
<1>2. \A r : ~RecoversSame(r) /\ ~RecoversRotated(r) /\ ~Revokes(r)
  BY DEF RecoversSame, RecoversRotated, Revokes
<1>3. \A r : ~Successor(r)
  BY <1>1, <1>2 DEF Successor
<1>. QED
  BY <1>1, <1>3, ClaimLegit, BlockLegit, CommitLegit DEF Legit

\* A move of one attempt to anywhere but granted grants nothing.
LEMMA NothingGranted ==
    ASSUME SecretTypeOK, NEW a \in Attempts, NEW pc \in HostPcs \ {"granted"}, Goto(a, pc)
    PROVE  \A b \in Attempts : host'[b].pc = "granted" => host[b].pc = "granted"
BY GotoShape

\* Once revoked, no step of anyone replaces the record or grants access.
LEMMA RevokedNext == SecretInv /\ [SecretNext]_secretVars => [RevokedStep]_secretVars
<1>. SUFFICES ASSUME SecretInv, SecretNext, store.state = "revoked"
              PROVE  /\ store' = store
                     /\ \A a \in Attempts : host'[a].pc = "granted" => host[a].pc = "granted"
  BY DEF RevokedStep
<1>. DEFINE Kept == /\ store' = store
                    /\ \A b \in Attempts : host'[b].pc = "granted" => host[b].pc = "granted"
<1>0. /\ SecretTypeOK /\ host \in [Attempts -> Call]
      /\ {"ended", "ambiguous", "crashed", "claim_readback", "waiting", "commit_readback"}
           \subseteq HostPcs \ {"granted"}
  BY DEF SecretInv, SecretTypeOK, HostPcs, Past
<1>1. ASSUME NEW a \in Attempts, HostStep(a) PROVE Kept
  <2>1. CASE ReadForClaim(a)
    BY <1>0, <2>1 DEF ReadForClaim, Call
  <2>2. CASE Claim(a)
    <3>1. ~CasOk(ClaimOf(a)) /\ store' = store
      BY <2>2, RevokedHasNoSuccessor DEF Claim, CasOk, CasConflict, CasAmbiguous
    <3>2. Goto(a, "ended") \/ Goto(a, "claim_readback")
      BY <2>2, <3>1 DEF Claim
    <3>. QED
      BY <1>0, <3>1, <3>2, NothingGranted
  <2>3. CASE ClaimReadback(a)
    <3>1. store' = store /\ Goto(a, "ambiguous")
      BY <2>3 DEF ClaimReadback
    <3>. QED
      BY <1>0, <3>1, NothingGranted
  <2>4. CASE Exchange(a)
    <3>1. store' = store /\ Goto(a, "waiting")
      BY <2>4 DEF Exchange
    <3>. QED
      BY <1>0, <3>1, NothingGranted
  <2>5. CASE Answer(a)
    BY <1>0, <2>5 DEF Answer, Call
  <2>6. CASE Commit(a)
    <3>1. ~CasOk(CommitOf(a)) /\ store' = store
      BY <2>6, RevokedHasNoSuccessor DEF Commit, CasOk, CasConflict, CasAmbiguous
    <3>2. Goto(a, "ended") \/ Goto(a, "commit_readback")
      BY <2>6, <3>1 DEF Commit
    <3>. QED
      BY <1>0, <3>1, <3>2, NothingGranted
  <2>7. CASE CommitReadback(a)
    <3>1. store' = store /\ Goto(a, "ambiguous")
      BY <2>7, RevokedHasNoSuccessor DEF CommitReadback
    <3>. QED
      BY <1>0, <3>1, NothingGranted
  <2>8. CASE Block(a)
    <3>1. store' = store
      BY <2>8, RevokedHasNoSuccessor DEF Block, CasOk, CasConflict, CasAmbiguous
    <3>2. Goto(a, "ended") \/ Goto(a, "ambiguous")
      BY <2>8 DEF Block
    <3>. QED
      BY <1>0, <3>1, <3>2, NothingGranted
  <2>9. CASE Crash(a)
    <3>1. store' = store /\ Goto(a, "crashed")
      BY <2>9 DEF Crash
    <3>. QED
      BY <1>0, <3>1, NothingGranted
  <2>. QED
    BY <1>1, <2>1, <2>2, <2>3, <2>4, <2>5, <2>6, <2>7, <2>8, <2>9 DEF HostStep
<1>2. ASSUME NEW a \in Attempts, ProviderStep(a) PROVE Kept
  BY <1>2 DEF ProviderStep, Rotate, Reject, Lose
<1>3. ASSUME NEW o \in Operators, OperatorStep(o) PROVE Kept
  <2>1. CASE OperatorCas(o)
    <3>1. Legit(op[o].replacement)
      BY <2>1 DEF OperatorCas, SecretInv, PendingInv
    <3>. QED
      BY <2>1, <3>1, RevokedHasNoSuccessor DEF OperatorCas, CasOk, CasConflict, CasAmbiguous
  <2>. QED
    BY <1>3, <2>1 DEF OperatorStep, recover_ambiguous_not_applied,
       recover_ambiguous_with_rotated_secret, revoke, Prepare
<1>4. ASSUME NEW w \in writes, DeliverWrite(w) PROVE Kept
  BY <1>4, RevokedHasNoSuccessor DEF DeliverWrite, SecretInv, PendingInv
<1>. QED
  BY <1>1, <1>2, <1>3, <1>4 DEF SecretNext

\* Revocation is final: no late write, recovery or commit replaces a revoked
\* record, and no access is granted after it.
THEOREM RevocationIsFinal == SecretSpec => RevokedIsFinal
BY SecretInvariant, RevokedNext, PTL DEF SecretSpec, RevokedIsFinal

(***************************************************************************)
(* RefreshingCredentialProvider for any number of threads, any lifetimes   *)
(* and clocks that are set back at will.  CredentialInv is inductive.      *)
(***************************************************************************)

\* A call before, and after, it has made its one refresh.
Before == {"clock", "available", "decide", "refresh"}
Timed == {"available", "decide", "refresh", "recheck", "finish"}
WorkPcs == {"clock", "available", "decide", "refresh", "recheck", "finish"}
CallPcs == {"idle", "refused", "revoked", "blocked", "issued"} \cup WorkPcs

States == {"unconfigured", "refresh_required", "refreshing", "ready", "ready_rotated",
           "revoked", "blocked_auth"}
Anchor == [epoch : Int, mono : Int]
CallState == [pc : CallPcs, cached : Grant, now : Int, anchor : Anchor, result : Grant,
              refreshed : BOOLEAN,
              failure : {"none", "credential_source_revoked", "credential_refresh_failed"}]
Snapshot == [created : Int, issued : Int, expires : Int, source : {"available", "revoked"}]

\* The types of the provider's fields, the clocks and the calls.
CredentialTypeOK ==
    /\ state \in States
    /\ busy \in BOOLEAN
    /\ grant \in Grant
    /\ generation \in Nat
    /\ timeAnchor \in Anchor
    /\ wall \in Nat
    /\ mono \in Nat
    /\ source \in {"available", "revoked"}
    /\ request \in [Requests -> CallState]
    /\ snapshots \in Seq(Snapshot)
    /\ refreshes \in Nat

\* Every refresh is accounted for by a generation, by the call that has just
\* made it, or by a provider that is closed for good.
RefreshInv ==
    /\ RefreshNotRepeated
    /\ \A c \in Requests :
          /\ request[c].pc \in Before \cup {"idle"} => request[c].refreshed = FALSE
          /\ request[c].pc \in Before => refreshes = generation
          /\ request[c].pc = "recheck" \/ (request[c].pc = "finish" /\ request[c].failure = "none")
               => refreshes = generation + (IF request[c].refreshed THEN 1 ELSE 0)
    /\ Working = {} /\ state \notin {"revoked", "blocked_auth"} => refreshes = generation

\* The anchor is ahead of every snapshot, and so is the time of a call.
TimeInv ==
    /\ timeAnchor = NoAnchor => snapshots = <<>>
    /\ timeAnchor # NoAnchor => timeAnchor.mono >= 0
    /\ \A i \in DOMAIN snapshots : snapshots[i].created <= Floor(timeAnchor)
    /\ \A c \in Requests : request[c].pc \in Timed =>
          /\ request[c].anchor.mono >= 0
          /\ request[c].now <= Floor(request[c].anchor)
          /\ \A i \in DOMAIN snapshots : snapshots[i].created <= request[c].now
    /\ \A c \in Requests : request[c].pc = "finish" /\ request[c].failure = "none" =>
          LongEnough(request[c].result, request[c].now)

\* After a snapshot that came after the revocation at the source, nobody is
\* past the last check.
HeedInv ==
    /\ SourceRevocationHeeded
    /\ (\E i \in DOMAIN snapshots : snapshots[i].source = "revoked") =>
          /\ source = "revoked"
          /\ \A c \in Requests : ~(request[c].pc = "finish" /\ request[c].failure = "none")

\* A revoked provider holds no access material.
RevokedIsEmpty == state = "revoked" => grant = NoGrant

\* The inductive invariant.
CredentialInv ==
    /\ CredentialTypeOK
    /\ BusyMeansOwned
    /\ RefreshInv
    /\ TimeInv
    /\ SnapshotTimesSound
    /\ HeedInv
    /\ RevokedIsEmpty

-----------------------------------------------------------------------------

\* current_time is never behind the anchor, and re-anchors at what it returns.
LEMMA CurrentTimeSound ==
    ASSUME wall \in Nat, mono \in Nat, NEW anchor \in Anchor
    PROVE  /\ CurrentTime(anchor).now \in Int
           /\ CurrentTime(anchor).anchor \in Anchor
           /\ CurrentTime(anchor).now >= Floor(anchor)
           /\ CurrentTime(anchor).now = Floor(CurrentTime(anchor).anchor)
           /\ anchor.mono >= 0 => CurrentTime(anchor).anchor.mono >= 0
<1>1. Floor(anchor) \in Int
  BY DEF Floor, Anchor
<1>2. CASE wall > Floor(anchor)
  <2>1. CurrentTime(anchor) = [now |-> wall, anchor |-> [epoch |-> wall, mono |-> mono]]
    BY <1>2 DEF CurrentTime
  <2>. QED
    BY <1>1, <1>2, <2>1 DEF Floor, Anchor
<1>3. CASE ~(wall > Floor(anchor))
  <2>1. CurrentTime(anchor) = [now |-> Floor(anchor), anchor |-> anchor]
    BY <1>3 DEF CurrentTime
  <2>. QED
    BY <1>1, <2>1
<1>. QED
  BY <1>2, <1>3

\* The initial state.
LEMMA CredentialInitInv == CredentialInit => CredentialInv
<1>. SUFFICES ASSUME CredentialInit PROVE CredentialInv
  OBVIOUS
<1>1. NoGrant \in Grant /\ NoAnchor \in Anchor /\ "idle" \in CallPcs /\ "idle" \notin WorkPcs
  BY DEF NoGrant, Grant, NoAnchor, Anchor, CallPcs, WorkPcs
<1>2. \A c \in Requests : request[c].pc = "idle" /\ request[c].refreshed = FALSE
  BY DEF CredentialInit
<1>3. CredentialTypeOK
  <2>1. request \in [Requests -> CallState]
    <3>1. \A c \in Requests :
             [pc |-> "idle", cached |-> NoGrant, now |-> 0, anchor |-> NoAnchor,
              result |-> NoGrant, refreshed |-> FALSE, failure |-> "none"] \in CallState
      BY <1>1 DEF CallState
    <3>. QED
      BY <3>1 DEF CredentialInit
  <2>2. snapshots \in Seq(Snapshot)
    BY DEF CredentialInit
  <2>3. busy \in BOOLEAN
    BY Zenon DEF CredentialInit
  <2>4. generation \in Nat /\ wall \in Nat /\ mono \in Nat /\ refreshes \in Nat
    BY SMT DEF CredentialInit
  <2>5. state \in {"unconfigured", "refresh_required"} /\ source = "available"
    BY DEF CredentialInit
  <2>6. grant \in Grant /\ timeAnchor \in Anchor
    BY <1>1 DEF CredentialInit
  <2>. QED
    BY <2>1, <2>2, <2>3, <2>4, <2>5, <2>6 DEF CredentialTypeOK, States
<1>4. Working = {} /\ snapshots = <<>> /\ DOMAIN snapshots = {}
  BY <1>2 DEF Working, CredentialInit
<1>5. BusyMeansOwned
  BY <1>4 DEF CredentialInit, BusyMeansOwned
<1>6. RefreshInv
  BY <1>2 DEF CredentialInit, RefreshInv, RefreshNotRepeated, Before
<1>7. TimeInv
  BY <1>2, <1>4 DEF CredentialInit, TimeInv, Timed
<1>8. SnapshotTimesSound /\ HeedInv
  BY <1>4 DEF SnapshotTimesSound, HeedInv, SourceRevocationHeeded
<1>9. RevokedIsEmpty
  BY DEF CredentialInit, RevokedIsEmpty
<1>. QED
  BY <1>3, <1>5, <1>6, <1>7, <1>8, <1>9 DEF CredentialInv

-----------------------------------------------------------------------------
(* Steps of a call inside the issuance boundary *)

\* The boundary has one owner.
LEMMA OthersOutside ==
    ASSUME BusyMeansOwned, NEW c \in Requests, request[c].pc \in WorkPcs,
           NEW d \in Requests \ {c}
    PROVE  request[d].pc \notin WorkPcs
BY DEF BusyMeansOwned, Working, WorkPcs

\* The owner goes on, without giving the boundary up: what it must keep to.
LEMMA InCall ==
    ASSUME CredentialInv, NEW c \in Requests, request[c].pc \in WorkPcs,
           request' \in [Requests -> CallState],
           \A d \in Requests \ {c} : request'[d] = request[d],
           request'[c].pc \in Timed,
           state' \in States, grant' \in Grant, RevokedIsEmpty', refreshes' \in Nat,
           UNCHANGED <<busy, generation, timeAnchor, wall, mono, source, snapshots>>,
           refreshes' - generation \in {0, 1},
           request'[c].pc \in Before =>
               request'[c].refreshed = FALSE /\ refreshes' = generation,
           request'[c].pc = "recheck" \/ (request'[c].pc = "finish" /\ request'[c].failure = "none")
               => refreshes' = generation + (IF request'[c].refreshed THEN 1 ELSE 0),
           request'[c].anchor.mono >= 0,
           request'[c].now <= Floor(request'[c].anchor),
           \A i \in DOMAIN snapshots : snapshots[i].created <= request'[c].now,
           request'[c].pc = "finish" /\ request'[c].failure = "none" =>
               source = "available" /\ LongEnough(request'[c].result, request'[c].now)
    PROVE  CredentialInv'
<1>1. CredentialTypeOK'
  BY DEF CredentialInv, CredentialTypeOK
<1>2. \A d \in Requests \ {c} : /\ request'[d] = request[d]
                               /\ request[d].pc \notin WorkPcs
  BY OthersOutside DEF CredentialInv
<1>3. c \in Working /\ c \in Working' /\ \A d \in Working' : d = c
  BY <1>2 DEF Working, WorkPcs, Timed
<1>4. BusyMeansOwned'
  BY <1>3 DEF CredentialInv, BusyMeansOwned
<1>5. RefreshInv'
  <2>1. \A d \in Requests \ {c} :
           request'[d].pc \in Before \cup {"idle"} => request'[d].refreshed = FALSE
    BY <1>2 DEF CredentialInv, RefreshInv
  <2>2. \A d \in Requests \ {c} : request'[d].pc \notin Before \cup {"recheck", "finish"}
    BY <1>2 DEF Before, WorkPcs
  <2>3. request'[c].pc # "idle"
    BY DEF Timed
  <2>4. Working' # {}
    BY <1>3
  <2>. QED
    BY <2>1, <2>2, <2>3, <2>4 DEF RefreshInv, RefreshNotRepeated
<1>6. \A d \in Requests \ {c} : request'[d].pc \notin Timed /\ request'[d].pc # "finish"
  BY <1>2 DEF Timed, WorkPcs
<1>7. TimeInv'
  <2>1. /\ Floor(timeAnchor)' = Floor(timeAnchor)
        /\ Floor(request[c].anchor)' = Floor(request'[c].anchor)
    BY DEF Floor
  <2>. QED
    BY <1>6, <2>1 DEF CredentialInv, TimeInv, LongEnough
<1>8. SnapshotTimesSound'
  BY DEF CredentialInv, SnapshotTimesSound
<1>9. HeedInv'
  BY <1>6 DEF CredentialInv, HeedInv, SourceRevocationHeeded
<1>. QED
  BY <1>1, <1>4, <1>5, <1>7, <1>8, <1>9 DEF CredentialInv

\* The snapshots are a sequence of records with integer times.
LEMMA SnapshotTyped ==
    ASSUME CredentialTypeOK, NEW i \in DOMAIN snapshots
    PROVE  snapshots[i] \in Snapshot /\ snapshots[i].created \in Int
<1>1. snapshots \in Seq(Snapshot)
  BY DEF CredentialTypeOK
<1>2. snapshots[i] \in Snapshot
  BY <1>1
<1>. QED
  BY <1>2 DEF Snapshot

\* What is known of a call inside the boundary, once and for all its steps.
LEMMA CallFacts ==
    ASSUME CredentialInv, NEW c \in Requests
    PROVE  /\ CredentialTypeOK /\ request \in [Requests -> CallState]
           /\ request[c] \in CallState
           /\ wall \in Nat /\ mono \in Nat /\ generation \in Nat /\ refreshes \in Nat
           /\ refreshes - generation \in {0, 1}
           /\ RevokedIsEmpty
BY DEF CredentialInv, CredentialTypeOK, RefreshInv, RefreshNotRepeated

\* ReadClock: the first time a call knows is ahead of every snapshot.
LEMMA ReadClockInv ==
    ASSUME CredentialInv, NEW c \in Requests, ReadClock(c)
    PROVE  CredentialInv'
<1>. DEFINE start == IF timeAnchor = NoAnchor THEN [epoch |-> wall, mono |-> mono]
                                             ELSE timeAnchor
<1>1. PICK now \in Int, anchor \in Anchor :
        /\ now = CurrentTime(start).now /\ anchor = CurrentTime(start).anchor
        /\ now >= Floor(start) /\ now = Floor(anchor)
        /\ start.mono >= 0 => anchor.mono >= 0
  <2>1. start \in Anchor
    BY CallFacts DEF CredentialTypeOK, Anchor
  <2>. HIDE DEF start
  <2>. QED
    BY <2>1, CallFacts, CurrentTimeSound
<1>2. /\ request[c].pc = "clock"
      /\ request' = [request EXCEPT ![c].pc = "available", ![c].now = now, ![c].anchor = anchor]
      /\ UNCHANGED <<providerVars, clockVars, source, snapshots, refreshes>>
  BY <1>1, Zenon DEF ReadClock
<1>3. "available" \in CallPcs /\ "clock" \in WorkPcs /\ "clock" \in Before
      /\ "available" \in Before /\ "available" \in Timed
  BY DEF CallPcs, WorkPcs, Before, Timed
<1>4. /\ request' \in [Requests -> CallState]
      /\ request'[c].pc = "available" /\ request'[c].now = now /\ request'[c].anchor = anchor
      /\ request'[c].refreshed = request[c].refreshed
      /\ \A d \in Requests \ {c} : request'[d] = request[d]
  BY <1>2, <1>3, CallFacts DEF CallState
<1>5. start.mono >= 0 /\ \A i \in DOMAIN snapshots : snapshots[i].created <= now
  <2>1. CASE timeAnchor = NoAnchor
    <3>1. DOMAIN snapshots = {}
      BY <2>1 DEF CredentialInv, TimeInv
    <3>. QED
      BY <2>1, <3>1, CallFacts
  <2>2. CASE timeAnchor # NoAnchor
    <3>1. start = timeAnchor
      BY <2>2
    <3>2. \A i \in DOMAIN snapshots : snapshots[i].created \in Int
      BY CallFacts, SnapshotTyped
    <3>3. Floor(timeAnchor) \in Int
      BY CallFacts DEF CredentialTypeOK, Anchor, Floor
    <3>4. now >= Floor(timeAnchor) /\ start.mono >= 0
      BY <1>1, <2>2, <3>1 DEF CredentialInv, TimeInv
    <3>. QED
      BY <3>2, <3>3, <3>4 DEF CredentialInv, TimeInv
  <2>. QED
    BY <2>1, <2>2
<1>6. UNCHANGED <<state, busy, grant, generation, timeAnchor, wall, mono, source,
                  snapshots, refreshes>> /\ RevokedIsEmpty'
  BY <1>2, CallFacts DEF providerVars, clockVars, RevokedIsEmpty
<1>7. request[c].refreshed = FALSE /\ refreshes = generation
  BY <1>2, <1>3 DEF CredentialInv, RefreshInv
<1>8. state \in States /\ grant \in Grant
  BY CallFacts DEF CredentialTypeOK
<1>9. /\ request[c].pc \in WorkPcs /\ request'[c].pc \in Timed
      /\ request'[c].pc \in Before /\ request'[c].refreshed = FALSE
      /\ refreshes' = generation /\ refreshes' \in Nat /\ refreshes' - generation \in {0, 1}
      /\ request'[c].pc # "recheck" /\ request'[c].pc # "finish"
  BY <1>2, <1>3, <1>4, <1>6, <1>7, CallFacts
<1>10. /\ request'[c].anchor.mono >= 0 /\ request'[c].now <= Floor(request'[c].anchor)
       /\ \A i \in DOMAIN snapshots : snapshots[i].created <= request'[c].now
  BY <1>1, <1>4, <1>5
<1>. HIDE DEF start
<1>. QED
  BY <1>4, <1>6, <1>8, <1>9, <1>10, InCall

\* A step of the owner that leaves the provider's fields alone.
LEMMA InCallQuiet ==
    ASSUME CredentialInv, NEW c \in Requests,
           UNCHANGED <<providerVars, clockVars, source, snapshots>>
    PROVE  /\ UNCHANGED <<state, busy, grant, generation, timeAnchor, wall, mono, source,
                          snapshots>>
           /\ state' \in States /\ grant' \in Grant /\ RevokedIsEmpty'
BY CallFacts DEF providerVars, clockVars, RevokedIsEmpty, CredentialTypeOK

\* The time of a call is ahead of every snapshot and behind its anchor.
LEMMA CallTime ==
    ASSUME CredentialInv, NEW c \in Requests, request[c].pc \in Timed
    PROVE  /\ request[c].anchor.mono >= 0
           /\ request[c].now <= Floor(request[c].anchor)
           /\ \A i \in DOMAIN snapshots : snapshots[i].created <= request[c].now
BY DEF CredentialInv, TimeInv

\* So is the time after another reading of the clocks.
LEMMA LaterTime ==
    ASSUME CredentialInv, NEW c \in Requests, request[c].pc \in Timed
    PROVE  \E now \in Int, anchor \in Anchor :
             /\ anchor = CurrentTime(request[c].anchor).anchor
             /\ now = Later(request[c].now, CurrentTime(request[c].anchor).now)
             /\ anchor.mono >= 0 /\ now <= Floor(anchor)
             /\ \A i \in DOMAIN snapshots : snapshots[i].created <= now
<1>1. PICK old \in Anchor, was \in Int : old = request[c].anchor /\ was = request[c].now
  BY CallFacts DEF CallState
<1>2. PICK anchor \in Anchor, t \in Int :
        /\ anchor = CurrentTime(old).anchor /\ t = CurrentTime(old).now
        /\ t >= Floor(old) /\ t = Floor(anchor)
        /\ old.mono >= 0 => anchor.mono >= 0
  BY CallFacts, CurrentTimeSound
<1>3. Floor(old) \in Int
  BY CallFacts DEF Floor, Anchor
<1>4. /\ old.mono >= 0 /\ was <= Floor(old)
      /\ \A i \in DOMAIN snapshots : snapshots[i].created <= was
  BY <1>1, CallTime
<1>5. Later(was, t) = t
  BY <1>2, <1>3, <1>4 DEF Later
<1>6. \A i \in DOMAIN snapshots : snapshots[i].created <= t
  BY <1>2, <1>3, <1>4, CallFacts, SnapshotTyped
<1>. QED
  BY <1>1, <1>2, <1>4, <1>5, <1>6

\* SourceFails: the outcome of the refresh stays in doubt, once.
LEMMA SourceFailsInv ==
    ASSUME CredentialInv, NEW c \in Requests, SourceFails(c)
    PROVE  CredentialInv'
<1>1. PICK failure \in {"credential_source_revoked", "credential_refresh_failed"} :
        request' = [request EXCEPT ![c].pc = "finish", ![c].failure = failure]
  BY DEF SourceFails, FailWith
<1>2. /\ request[c].pc \in {"available", "refresh", "recheck"}
      /\ refreshes' = refreshes + (IF request[c].pc = "refresh" THEN 1 ELSE 0)
      /\ UNCHANGED <<providerVars, clockVars, source, snapshots>>
  BY DEF SourceFails
<1>3. /\ "finish" \in CallPcs /\ request[c].pc \in WorkPcs /\ request[c].pc \in Timed
      /\ "finish" \in Timed /\ "finish" \notin Before /\ "refresh" \in Before
  BY <1>2 DEF CallPcs, WorkPcs, Timed, Before
<1>4. /\ request' \in [Requests -> CallState]
      /\ request'[c].pc = "finish" /\ request'[c].failure = failure
      /\ request'[c].now = request[c].now /\ request'[c].anchor = request[c].anchor
      /\ \A d \in Requests \ {c} : request'[d] = request[d]
  BY <1>1, <1>3, CallFacts DEF CallState
<1>5. refreshes' \in Nat /\ refreshes' - generation \in {0, 1}
  <2>1. request[c].pc = "refresh" => refreshes = generation
    BY <1>3 DEF CredentialInv, RefreshInv
  <2>. QED
    BY <1>2, <2>1, CallFacts
<1>6. /\ request'[c].pc \in Timed /\ request'[c].pc \notin Before
      /\ request'[c].pc # "recheck" /\ request'[c].failure # "none"
  BY <1>3, <1>4
<1>7. /\ request'[c].anchor.mono >= 0 /\ request'[c].now <= Floor(request'[c].anchor)
      /\ \A i \in DOMAIN snapshots : snapshots[i].created <= request'[c].now
  BY <1>3, <1>4, CallTime
<1>. QED
  BY <1>2, <1>3, <1>4, <1>5, <1>6, <1>7, InCallQuiet, InCall

\* Available: the source says nothing against going on.
LEMMA AvailableInv ==
    ASSUME CredentialInv, NEW c \in Requests, Available(c)
    PROVE  CredentialInv'
<1>1. /\ request[c].pc = "available"
      /\ request' = [request EXCEPT ![c].pc = "decide"]
      /\ refreshes' = refreshes
      /\ UNCHANGED <<providerVars, clockVars, source, snapshots>>
  BY DEF Available
<1>2. /\ "decide" \in CallPcs /\ "available" \in WorkPcs /\ "available" \in Timed
      /\ "decide" \in Timed /\ "decide" \in Before /\ "available" \in Before
  BY DEF CallPcs, WorkPcs, Timed, Before
<1>3. /\ request' \in [Requests -> CallState]
      /\ request'[c].pc = "decide" /\ request'[c].refreshed = request[c].refreshed
      /\ request'[c].now = request[c].now /\ request'[c].anchor = request[c].anchor
      /\ \A d \in Requests \ {c} : request'[d] = request[d]
  BY <1>1, <1>2, CallFacts DEF CallState
<1>4. request[c].refreshed = FALSE /\ refreshes = generation
  BY <1>1, <1>2 DEF CredentialInv, RefreshInv
<1>5. /\ refreshes' \in Nat /\ refreshes' - generation \in {0, 1}
      /\ request'[c].pc # "recheck" /\ request'[c].pc # "finish"
      /\ request'[c].refreshed = FALSE /\ refreshes' = generation
      /\ request'[c].pc \in Timed /\ request[c].pc \in WorkPcs
  BY <1>1, <1>2, <1>3, <1>4, CallFacts
<1>6. /\ request'[c].anchor.mono >= 0 /\ request'[c].now <= Floor(request'[c].anchor)
      /\ \A i \in DOMAIN snapshots : snapshots[i].created <= request'[c].now
  BY <1>1, <1>2, <1>3, CallTime
<1>. QED
  BY <1>1, <1>3, <1>5, <1>6, InCallQuiet, InCall

\* Decide: a cached grant is taken up, or a refresh begun, before any refresh.
LEMMA DecideInv ==
    ASSUME CredentialInv, NEW c \in Requests, Decide(c)
    PROVE  CredentialInv'
<1>1. /\ request[c].pc = "decide" /\ "decide" \in WorkPcs /\ "decide" \in Timed
      /\ "decide" \in Before
      /\ {"recheck", "finish", "refresh"} \subseteq CallPcs \cap Timed
      /\ "recheck" \notin Before /\ "finish" \notin Before
  BY DEF Decide, WorkPcs, Timed, Before, CallPcs
<1>2. PICK now \in Int, anchor \in Anchor :
        /\ anchor = CurrentTime(request[c].anchor).anchor
        /\ now = Later(request[c].now, CurrentTime(request[c].anchor).now)
        /\ anchor.mono >= 0 /\ now <= Floor(anchor)
        /\ \A i \in DOMAIN snapshots : snapshots[i].created <= now
  BY <1>1, LaterTime
<1>3. PICK r \in CallState : r = request[c]
  BY CallFacts
<1>. DEFINE next == [r EXCEPT !.now = now, !.anchor = anchor]
<1>4. /\ UNCHANGED <<clockVars, source, snapshots, refreshes>>
      /\ \/ /\ request' = [request EXCEPT ![c] =
                  [next EXCEPT !.pc = "recheck", !.result = r.cached]]
            /\ UNCHANGED providerVars
         \/ /\ request' = [request EXCEPT ![c] =
                  [next EXCEPT !.pc = "finish", !.failure = "credential_source_revoked"]]
            /\ UNCHANGED providerVars
         \/ /\ state # "revoked" /\ state' = "refreshing" /\ grant' = NoGrant
            /\ request' = [request EXCEPT ![c] = [next EXCEPT !.pc = "refresh"]]
            /\ UNCHANGED <<busy, generation, timeAnchor>>
  BY <1>2, <1>3, Zenon DEF Decide
<1>5. PICK new \in CallState :
        /\ request' = [request EXCEPT ![c] = new]
        /\ new.pc \in {"recheck", "finish", "refresh"}
        /\ new.pc = "finish" => new.failure # "none"
        /\ new.now = now /\ new.anchor = anchor /\ new.refreshed = r.refreshed
  <2>1. next \in CallState /\ next.now = now /\ next.anchor = anchor
        /\ next.refreshed = r.refreshed
    BY DEF CallState
  <2>. HIDE DEF next
  <2>2. CASE request' = [request EXCEPT ![c] =
                  [next EXCEPT !.pc = "recheck", !.result = r.cached]]
    <3>1. PICK g \in Grant : g = r.cached
      BY DEF CallState
    <3>2. PICK new : new = [next EXCEPT !.pc = "recheck", !.result = g]
      OBVIOUS
    <3>3. /\ new \in CallState /\ new.pc = "recheck" /\ new.now = now
          /\ new.anchor = anchor /\ new.refreshed = r.refreshed
      BY <1>1, <2>1, <3>2 DEF CallState
    <3>. QED
      BY <2>2, <3>1, <3>2, <3>3
  <2>3. CASE request' = [request EXCEPT ![c] =
                  [next EXCEPT !.pc = "finish", !.failure = "credential_source_revoked"]]
    <3>1. PICK new : new = [next EXCEPT !.pc = "finish", !.failure = "credential_source_revoked"]
      OBVIOUS
    <3>2. /\ new \in CallState /\ new.pc = "finish" /\ new.now = now
          /\ new.failure = "credential_source_revoked"
          /\ new.anchor = anchor /\ new.refreshed = r.refreshed
      BY <1>1, <2>1, <3>1 DEF CallState
    <3>. QED
      BY <2>3, <3>1, <3>2
  <2>4. CASE request' = [request EXCEPT ![c] = [next EXCEPT !.pc = "refresh"]]
    <3>1. PICK new : new = [next EXCEPT !.pc = "refresh"]
      OBVIOUS
    <3>2. /\ new \in CallState /\ new.pc = "refresh" /\ new.now = now
          /\ new.anchor = anchor /\ new.refreshed = r.refreshed
      BY <1>1, <2>1, <3>1 DEF CallState
    <3>. QED
      BY <2>4, <3>1, <3>2
  <2>. QED
    BY <1>4, <2>2, <2>3, <2>4
<1>. HIDE DEF next
<1>6. /\ request' \in [Requests -> CallState] /\ request'[c] = new
      /\ \A d \in Requests \ {c} : request'[d] = request[d]
  BY <1>5, CallFacts
<1>7. r.refreshed = FALSE /\ refreshes = generation
  BY <1>1, <1>3 DEF CredentialInv, RefreshInv
<1>8. /\ refreshes' \in Nat /\ refreshes' - generation \in {0, 1} /\ refreshes' = generation
      /\ request'[c].pc \in Timed /\ request[c].pc \in WorkPcs
      /\ request'[c].refreshed = FALSE
      /\ ~(request'[c].pc = "finish" /\ request'[c].failure = "none")
      /\ refreshes' = generation + (IF request'[c].refreshed THEN 1 ELSE 0)
  BY <1>1, <1>4, <1>5, <1>6, <1>7, CallFacts
<1>9. /\ request'[c].anchor.mono >= 0 /\ request'[c].now <= Floor(request'[c].anchor)
      /\ \A i \in DOMAIN snapshots : snapshots[i].created <= request'[c].now
  BY <1>2, <1>5, <1>6
<1>10. /\ UNCHANGED <<busy, generation, timeAnchor, wall, mono, source, snapshots>>
       /\ state' \in States /\ grant' \in Grant /\ RevokedIsEmpty'
  <2>1. CASE UNCHANGED providerVars
    BY <1>4, <2>1, InCallQuiet
  <2>2. CASE state' = "refreshing" /\ grant' = NoGrant /\ UNCHANGED <<busy, generation, timeAnchor>>
    BY <1>4, <2>2 DEF clockVars, States, Grant, NoGrant, RevokedIsEmpty
  <2>. QED
    BY <1>4, <2>1, <2>2
<1>. QED
  BY <1>6, <1>8, <1>9, <1>10, InCall

\* Refresh: the call has made its refresh and says so.
LEMMA RefreshStepInv ==
    ASSUME CredentialInv, NEW c \in Requests, Refresh(c)
    PROVE  CredentialInv'
<1>1. /\ request[c].pc = "refresh" /\ "refresh" \in WorkPcs /\ "refresh" \in Timed
      /\ "refresh" \in Before /\ "recheck" \in CallPcs /\ "recheck" \in Timed
      /\ "recheck" \notin Before
  BY DEF Refresh, WorkPcs, Timed, Before, CallPcs
<1>2. PICK g \in Grant :
        request' = [request EXCEPT ![c].pc = "recheck", ![c].refreshed = TRUE, ![c].result = g]
  <2>1. PICK skew \in {0, 1}, ttl \in GrantTtls, ok \in BOOLEAN :
           request' = [request EXCEPT
               ![c].pc = "recheck", ![c].refreshed = TRUE,
               ![c].result = [issued |-> wall + skew, expires |-> wall + skew + ttl,
                              wellFormed |-> ok]]
    BY DEF Refresh
  <2>2. ttl \in Int /\ wall \in Int /\ skew \in Int
    BY ProviderAssumption, CallFacts
  <2>3. [issued |-> wall + skew, expires |-> wall + skew + ttl, wellFormed |-> ok] \in Grant
    BY <2>2 DEF Grant
  <2>. QED
    BY <2>1, <2>3
<1>3. /\ refreshes' = refreshes + 1
      /\ UNCHANGED <<providerVars, clockVars, source, snapshots>>
  BY DEF Refresh
<1>4. /\ request' \in [Requests -> CallState]
      /\ request'[c].pc = "recheck" /\ request'[c].refreshed = TRUE
      /\ request'[c].now = request[c].now /\ request'[c].anchor = request[c].anchor
      /\ \A d \in Requests \ {c} : request'[d] = request[d]
  BY <1>1, <1>2, CallFacts DEF CallState
<1>5. refreshes = generation
  BY <1>1 DEF CredentialInv, RefreshInv
<1>6. /\ refreshes' \in Nat /\ refreshes' - generation \in {0, 1}
      /\ request'[c].pc \in Timed /\ request[c].pc \in WorkPcs
      /\ request'[c].pc \notin Before /\ request'[c].pc # "finish"
      /\ refreshes' = generation + (IF request'[c].refreshed THEN 1 ELSE 0)
  BY <1>1, <1>3, <1>4, <1>5, CallFacts
<1>7. /\ request'[c].anchor.mono >= 0 /\ request'[c].now <= Floor(request'[c].anchor)
      /\ \A i \in DOMAIN snapshots : snapshots[i].created <= request'[c].now
  BY <1>1, <1>4, CallTime
<1>. QED
  BY <1>3, <1>4, <1>6, <1>7, InCallQuiet, InCall

\* Recheck: the source answers once more, and the grant fits the later time.
LEMMA RecheckInv ==
    ASSUME CredentialInv, NEW c \in Requests, Recheck(c)
    PROVE  CredentialInv'
<1>1. /\ request[c].pc = "recheck" /\ "recheck" \in WorkPcs /\ "recheck" \in Timed
      /\ "finish" \in CallPcs /\ "finish" \in Timed /\ "finish" \notin Before
  BY DEF Recheck, WorkPcs, Timed, Before, CallPcs
<1>2. PICK now \in Int, anchor \in Anchor :
        /\ anchor = CurrentTime(request[c].anchor).anchor
        /\ now = Later(request[c].now, CurrentTime(request[c].anchor).now)
        /\ anchor.mono >= 0 /\ now <= Floor(anchor)
        /\ \A i \in DOMAIN snapshots : snapshots[i].created <= now
  BY <1>1, LaterTime
<1>3. PICK failure \in {"none", "credential_refresh_failed"} :
        /\ request' = [request EXCEPT ![c].pc = "finish", ![c].now = now,
                                      ![c].anchor = anchor, ![c].failure = failure]
        /\ failure = "none" => LongEnough(request[c].result, now)
  <2>. DEFINE valid == request[c].result.wellFormed /\ LongEnough(request[c].result, now)
              failure == IF valid THEN "none" ELSE "credential_refresh_failed"
  <2>1. request' = [request EXCEPT ![c].pc = "finish", ![c].now = now,
                                   ![c].anchor = anchor, ![c].failure = failure]
    BY <1>2, Zenon DEF Recheck
  <2>2. failure \in {"none", "credential_refresh_failed"} /\ (failure = "none" => valid)
    OBVIOUS
  <2>3. valid => LongEnough(request[c].result, now)
    OBVIOUS
  <2>. HIDE DEF valid, failure
  <2>. QED
    BY <2>1, <2>2, <2>3
<1>4. /\ source = "available" /\ refreshes' = refreshes
      /\ UNCHANGED <<providerVars, clockVars, source, snapshots>>
  BY DEF Recheck, SourceAnswers
<1>5. /\ request' \in [Requests -> CallState]
      /\ request'[c].pc = "finish" /\ request'[c].refreshed = request[c].refreshed
      /\ request'[c].now = now /\ request'[c].anchor = anchor
      /\ request'[c].result = request[c].result /\ request'[c].failure = failure
      /\ \A d \in Requests \ {c} : request'[d] = request[d]
  <2>1. /\ request' = [request EXCEPT ![c].pc = "finish", ![c].now = now,
                                      ![c].anchor = anchor, ![c].failure = failure]
        /\ request \in [Requests -> CallState] /\ "finish" \in CallPcs
        /\ failure \in {"none", "credential_source_revoked", "credential_refresh_failed"}
    BY <1>1, <1>3, CallFacts
  <2>2. request'[c] = [request[c] EXCEPT !.pc = "finish", !.now = now, !.anchor = anchor,
                                         !.failure = failure]
    BY <2>1
  <2>3. \A d \in Requests \ {c} : request'[d] = request[d]
    BY <2>1
  <2>4. PICK r \in CallState : r = request[c]
    BY <2>1
  <2>5. PICK new : new = [r EXCEPT !.pc = "finish", !.now = now, !.anchor = anchor,
                                   !.failure = failure]
    OBVIOUS
  <2>6. /\ new \in CallState /\ new.pc = "finish" /\ new.refreshed = r.refreshed
        /\ new.now = now /\ new.anchor = anchor /\ new.result = r.result
        /\ new.failure = failure
    BY <2>1, <2>5 DEF CallState
  <2>7. request'[c] = new
    BY <2>2, <2>4, <2>5
  <2>8. request' = [request EXCEPT ![c] = new]
    BY <2>1, <2>3, <2>7
  <2>. QED
    BY <2>1, <2>3, <2>4, <2>6, <2>7, <2>8
<1>6. refreshes = generation + (IF request[c].refreshed THEN 1 ELSE 0)
  BY <1>1 DEF CredentialInv, RefreshInv
<1>7. /\ refreshes' \in Nat /\ refreshes' - generation \in {0, 1}
      /\ request'[c].pc \in Timed /\ request[c].pc \in WorkPcs
      /\ request'[c].pc \notin Before
      /\ refreshes' = generation + (IF request'[c].refreshed THEN 1 ELSE 0)
  BY <1>1, <1>4, <1>5, <1>6, CallFacts
<1>8. /\ request'[c].anchor.mono >= 0 /\ request'[c].now <= Floor(request'[c].anchor)
      /\ \A i \in DOMAIN snapshots : snapshots[i].created <= request'[c].now
      /\ request'[c].failure = "none" => LongEnough(request'[c].result, request'[c].now)
  BY <1>2, <1>3, <1>5
<1>. QED
  BY <1>4, <1>5, <1>7, <1>8, InCallQuiet, InCall

-----------------------------------------------------------------------------
(* Calls that come and go *)

\* Refused: the call leaves at once, and nothing else changes.
LEMMA RefusedInv ==
    ASSUME CredentialInv, NEW c \in Requests, Refused(c)
    PROVE  CredentialInv'
<1>1. /\ request[c].pc = "idle"
      /\ request' = [request EXCEPT ![c].pc = "refused"]
      /\ UNCHANGED <<state, busy, grant, generation, timeAnchor, wall, mono, source, snapshots,
                     refreshes>>
  BY DEF Refused, providerVars, clockVars
<1>2. /\ "refused" \in CallPcs /\ {"idle", "refused"} \cap WorkPcs = {}
      /\ "refused" \notin Before \cup Timed \cup {"idle"}
  BY DEF CallPcs, WorkPcs, Before, Timed
<1>3. /\ request' \in [Requests -> CallState]
      /\ request'[c].pc = "refused"
      /\ \A d \in Requests \ {c} : request'[d] = request[d]
  BY <1>1, <1>2, CallFacts DEF CallState
<1>4. CredentialTypeOK'
  BY <1>1, <1>3 DEF CredentialInv, CredentialTypeOK
<1>5. Working' = Working
  BY <1>1, <1>3 DEF Working
<1>6. BusyMeansOwned'
  BY <1>1, <1>5 DEF CredentialInv, BusyMeansOwned
<1>7. RefreshInv'
  BY <1>1, <1>2, <1>3, <1>5 DEF CredentialInv, RefreshInv, RefreshNotRepeated
<1>8. TimeInv'
  <2>1. \A d \in Requests : request'[d].pc \in Timed \/ request'[d].pc = "finish"
           => request'[d] = request[d]
    BY <1>2, <1>3
  <2>. QED
    BY <1>1, <2>1 DEF CredentialInv, TimeInv, LongEnough, Floor
<1>9. SnapshotTimesSound' /\ RevokedIsEmpty'
  BY <1>1 DEF CredentialInv, SnapshotTimesSound, RevokedIsEmpty
<1>10. HeedInv'
  BY <1>1, <1>3 DEF CredentialInv, HeedInv, SourceRevocationHeeded
<1>. QED
  BY <1>4, <1>6, <1>7, <1>8, <1>9, <1>10 DEF CredentialInv

\* Enter: the boundary is taken by a call that has refreshed nothing yet.
LEMMA EnterInv ==
    ASSUME CredentialInv, NEW c \in Requests, Enter(c)
    PROVE  CredentialInv'
<1>1. /\ request[c].pc = "idle"
      /\ busy = FALSE /\ busy' = TRUE /\ state \notin {"revoked", "blocked_auth"}
      /\ request' = [request EXCEPT ![c].pc = "clock", ![c].cached = grant]
      /\ UNCHANGED <<state, grant, generation, timeAnchor, wall, mono, source, snapshots,
                     refreshes>>
  <2>1. busy \in BOOLEAN /\ ~busy
    BY DEF CredentialInv, CredentialTypeOK, Enter, IssuanceAllowed
  <2>. QED
    BY <2>1 DEF Enter, IssuanceAllowed, clockVars
<1>2. /\ "clock" \in CallPcs /\ "clock" \in WorkPcs /\ "idle" \notin WorkPcs
      /\ "clock" \notin Timed /\ "clock" \in Before
  BY DEF CallPcs, WorkPcs, Before, Timed
<1>3. /\ request' \in [Requests -> CallState]
      /\ request'[c].pc = "clock" /\ request'[c].refreshed = request[c].refreshed
      /\ \A d \in Requests \ {c} : request'[d] = request[d]
  <2>1. PICK g \in Grant : g = grant
    BY CallFacts DEF CredentialTypeOK
  <2>2. request' = [request EXCEPT ![c].pc = "clock", ![c].cached = g]
    BY <1>1, <2>1
  <2>. QED
    BY <1>2, <2>2, CallFacts DEF CallState
<1>4. CredentialTypeOK'
  BY <1>1, <1>3 DEF CredentialInv, CredentialTypeOK
<1>5. Working = {}
  BY <1>1 DEF CredentialInv, BusyMeansOwned
<1>6. \A d \in Requests \ {c} : request'[d].pc \notin WorkPcs
  BY <1>3, <1>5 DEF Working, WorkPcs
<1>7. Working' = {c}
  BY <1>3, <1>6 DEF Working, WorkPcs
<1>8. BusyMeansOwned'
  BY <1>1, <1>7 DEF BusyMeansOwned
<1>9. RefreshInv'
  <2>1. refreshes = generation /\ request[c].refreshed = FALSE
    BY <1>1, <1>5 DEF CredentialInv, RefreshInv
  <2>2. \A d \in Requests \ {c} : request'[d].pc \notin Before \cup {"recheck", "finish"}
    BY <1>6 DEF Before, WorkPcs
  <2>3. \A d \in Requests \ {c} :
           request'[d].pc \in Before \cup {"idle"} => request'[d].refreshed = FALSE
    BY <1>3 DEF CredentialInv, RefreshInv
  <2>4. refreshes' = generation' /\ refreshes' - generation' \in {0, 1}
    BY <1>1, <2>1, CallFacts
  <2>. QED
    BY <1>3, <1>7, <2>1, <2>2, <2>3, <2>4 DEF RefreshInv, RefreshNotRepeated
<1>10. \A d \in Requests : request'[d].pc \notin Timed /\ request'[d].pc # "finish"
  BY <1>2, <1>3, <1>6 DEF Timed, WorkPcs
<1>11. TimeInv'
  BY <1>1, <1>10 DEF CredentialInv, TimeInv, Floor
<1>12. SnapshotTimesSound' /\ RevokedIsEmpty'
  BY <1>1 DEF CredentialInv, SnapshotTimesSound, RevokedIsEmpty
<1>13. HeedInv'
  BY <1>1, <1>10 DEF CredentialInv, HeedInv, SourceRevocationHeeded
<1>. QED
  BY <1>4, <1>8, <1>9, <1>11, <1>12, <1>13 DEF CredentialInv

\* What follows for the calls when the owner leaves the boundary.
LEMMA LeaveCalls ==
    ASSUME CredentialInv, NEW c \in Requests, request[c].pc = "finish",
           NEW out \in {"revoked", "blocked", "issued"},
           request' = [request EXCEPT ![c].pc = out],
           busy' = FALSE
    PROVE  /\ request' \in [Requests -> CallState]
           /\ \A d \in Requests : request'[d].pc \notin WorkPcs
           /\ \A d \in Requests : /\ request'[d].pc \notin Before
                                  /\ request'[d].pc \notin Timed
                                  /\ request'[d].pc \notin {"recheck", "finish"}
           /\ \A d \in Requests : request'[d].pc = "idle" => request'[d].refreshed = FALSE
           /\ Working' = {} /\ BusyMeansOwned'
<1>1. out \in CallPcs /\ out \notin WorkPcs /\ out # "idle" /\ "finish" \in WorkPcs
  BY DEF CallPcs, WorkPcs
<1>2. /\ request' \in [Requests -> CallState]
      /\ request'[c].pc = out
      /\ \A d \in Requests \ {c} : request'[d] = request[d]
  BY <1>1, CallFacts DEF CallState
<1>3. \A d \in Requests : request'[d].pc \notin WorkPcs
  BY <1>1, <1>2, OthersOutside DEF CredentialInv
<1>4. \A d \in Requests : /\ request'[d].pc \notin Before
                          /\ request'[d].pc \notin Timed
                          /\ request'[d].pc \notin {"recheck", "finish"}
  BY <1>3 DEF WorkPcs, Before, Timed
<1>5. \A d \in Requests : request'[d].pc = "idle" => request'[d].refreshed = FALSE
  BY <1>1, <1>2 DEF CredentialInv, RefreshInv
<1>6. Working' = {}
  BY <1>3 DEF Working, WorkPcs
<1>. QED
  BY <1>2, <1>3, <1>4, <1>5, <1>6 DEF BusyMeansOwned

\* A call that ends without a snapshot closes the provider.
LEMMA LeaveClosed ==
    ASSUME CredentialInv, NEW c \in Requests, request[c].pc = "finish",
           NEW out \in {"revoked", "blocked"},
           request' = [request EXCEPT ![c].pc = out],
           busy' = FALSE, state' \in {"revoked", "blocked_auth"}, grant' = NoGrant,
           UNCHANGED <<generation, timeAnchor, clockVars, source, snapshots, refreshes>>
    PROVE  CredentialInv'
<1>1. /\ request' \in [Requests -> CallState]
      /\ \A d \in Requests : /\ request'[d].pc \notin Before
                             /\ request'[d].pc \notin Timed
                             /\ request'[d].pc \notin {"recheck", "finish"}
      /\ \A d \in Requests : request'[d].pc = "idle" => request'[d].refreshed = FALSE
      /\ BusyMeansOwned'
  BY LeaveCalls
<1>2. UNCHANGED <<generation, timeAnchor, wall, mono, source, snapshots, refreshes>>
  BY DEF clockVars
<1>3. CredentialTypeOK'
  <2>1. state' \in States /\ grant' \in Grant
    BY DEF States, Grant, NoGrant
  <2>. QED
    BY <1>1, <1>2, <2>1 DEF CredentialInv, CredentialTypeOK
<1>4. RefreshInv'
  BY <1>1, <1>2 DEF CredentialInv, RefreshInv, RefreshNotRepeated
<1>5. TimeInv'
  BY <1>1, <1>2 DEF CredentialInv, TimeInv, Floor
<1>6. SnapshotTimesSound' /\ RevokedIsEmpty'
  BY <1>2 DEF CredentialInv, SnapshotTimesSound, RevokedIsEmpty
<1>7. HeedInv'
  BY <1>1, <1>2 DEF CredentialInv, HeedInv, SourceRevocationHeeded
<1>. QED
  BY <1>1, <1>3, <1>4, <1>5, <1>6, <1>7 DEF CredentialInv

\* Issue: the new snapshot is the latest, and the last one of a revoked source.
LEMMA IssueInv ==
    ASSUME CredentialInv, NEW c \in Requests, Issue(c)
    PROVE  CredentialInv'
<1>1. /\ request[c].pc = "finish" /\ request[c].failure = "none" /\ state # "revoked"
      /\ busy' = FALSE
      /\ grant' = request[c].result
      /\ timeAnchor' = request[c].anchor
      /\ generation' = generation + (IF request[c].refreshed THEN 1 ELSE 0)
      /\ state' \in {"ready", "ready_rotated"}
      /\ request' = [request EXCEPT ![c].pc = "issued"]
      /\ UNCHANGED <<wall, mono, source, refreshes>>
  BY DEF Issue, MayIssue, Revoked, clockVars
<1>2. PICK r \in CallState : r = request[c]
  BY CallFacts
<1>3. PICK new \in Snapshot :
        /\ new = [created |-> r.now, issued |-> r.result.issued,
                  expires |-> r.result.expires, source |-> source]
        /\ snapshots' = Append(snapshots, new)
  <2>1. [created |-> r.now, issued |-> r.result.issued,
         expires |-> r.result.expires, source |-> source] \in Snapshot
    <3>1. r.now \in Int /\ r.result \in Grant /\ source \in {"available", "revoked"}
      BY CallFacts DEF CallState, CredentialTypeOK
    <3>2. r.result.issued \in Int /\ r.result.expires \in Int
      BY <3>1 DEF Grant
    <3>. QED
      BY <3>1, <3>2 DEF Snapshot
  <2>2. snapshots' = Append(snapshots, [created |-> r.now, issued |-> r.result.issued,
                                        expires |-> r.result.expires, source |-> source])
    BY <1>2 DEF Issue
  <2>. QED
    BY <2>1, <2>2
<1>4. PICK n \in Nat : n = Len(snapshots) /\ DOMAIN snapshots = 1..n
  BY CallFacts DEF CredentialTypeOK
<1>5. /\ snapshots' \in Seq(Snapshot)
      /\ DOMAIN snapshots' = 1..(n + 1)
      /\ \A i \in 1..n : snapshots'[i] = snapshots[i]
      /\ snapshots'[n + 1] = new
  <2>1. snapshots \in Seq(Snapshot)
    BY CallFacts DEF CredentialTypeOK
  <2>. QED
    BY <1>3, <1>4, <2>1
<1>6. /\ request' \in [Requests -> CallState]
      /\ \A d \in Requests : /\ request'[d].pc \notin Before
                             /\ request'[d].pc \notin Timed
                             /\ request'[d].pc \notin {"recheck", "finish"}
      /\ \A d \in Requests : request'[d].pc = "idle" => request'[d].refreshed = FALSE
      /\ Working' = {} /\ BusyMeansOwned'
  BY <1>1, LeaveCalls
<1>7. /\ refreshes = generation' /\ generation' \in Nat
  BY <1>1, CallFacts DEF CredentialInv, RefreshInv
<1>8. CredentialTypeOK'
  <2>1. /\ grant' \in Grant /\ timeAnchor' \in Anchor /\ state' \in States
        /\ busy' \in BOOLEAN
    <3>1. r.result \in Grant /\ r.anchor \in Anchor
      BY DEF CallState
    <3>. QED
      BY <1>1, <1>2, <3>1 DEF States
  <2>. QED
    BY <1>1, <1>5, <1>6, <1>7, <2>1 DEF CredentialInv, CredentialTypeOK
<1>9. RefreshInv'
  <2>1. refreshes' = generation' /\ refreshes' - generation' \in {0, 1}
    BY <1>1, <1>7, CallFacts
  <2>. QED
    BY <1>6, <2>1 DEF RefreshInv, RefreshNotRepeated
<1>10. /\ r.anchor.mono >= 0 /\ r.now <= Floor(r.anchor) /\ LongEnough(r.result, r.now)
       /\ \A i \in 1..n : snapshots[i].created <= r.now
  BY <1>1, <1>2, <1>4 DEF CredentialInv, TimeInv, Timed
<1>11. TimeInv'
  <2>1. timeAnchor' # NoAnchor /\ timeAnchor'.mono >= 0
    <3>1. r.anchor # NoAnchor
      BY <1>10 DEF NoAnchor
    <3>. QED
      BY <1>1, <1>2, <1>10, <3>1
  <2>2. PICK f \in Int : f = Floor(r.anchor) /\ f = Floor(timeAnchor)'
    BY <1>1, <1>2, CallFacts DEF Floor, CallState, Anchor
  <2>3. \A i \in 1..(n + 1) : snapshots'[i].created <= f
    <3>. SUFFICES ASSUME NEW i \in 1..(n + 1) PROVE snapshots'[i].created <= f
      OBVIOUS
    <3>1. r.now \in Int /\ r.now <= f
      BY <1>10, <2>2 DEF CallState
    <3>2. CASE i = n + 1
      BY <1>3, <1>5, <3>1, <3>2
    <3>3. CASE i # n + 1
      <4>1. i \in 1..n
        BY <3>3
      <4>2. snapshots[i].created \in Int
        BY <1>4, <4>1, CallFacts, SnapshotTyped
      <4>. QED
        BY <1>5, <1>10, <3>1, <4>1, <4>2
    <3>. QED
      BY <3>2, <3>3
  <2>. QED
    BY <1>5, <1>6, <2>1, <2>2, <2>3 DEF TimeInv
<1>12. SnapshotTimesSound'
  <2>1. \A i \in 1..n : /\ \A j \in 1..(i - 1) : snapshots[j].created <= snapshots[i].created
                        /\ snapshots[i].issued <= snapshots[i].created
                        /\ snapshots[i].expires - snapshots[i].created >= MinimumTtl
    BY <1>4 DEF CredentialInv, SnapshotTimesSound
  <2>2. new.issued <= new.created /\ new.expires - new.created >= MinimumTtl
        /\ new.created = r.now
    BY <1>3, <1>10 DEF LongEnough
  <2>. SUFFICES ASSUME NEW i \in 1..(n + 1)
                PROVE  /\ \A j \in 1..(i - 1) : snapshots'[j].created <= snapshots'[i].created
                       /\ snapshots'[i].issued <= snapshots'[i].created
                       /\ snapshots'[i].expires - snapshots'[i].created >= MinimumTtl
    BY <1>5 DEF SnapshotTimesSound
  <2>3. CASE i = n + 1
    BY <1>5, <1>10, <2>2, <2>3
  <2>4. CASE i # n + 1
    <3>1. i \in 1..n /\ \A j \in 1..(i - 1) : j \in 1..n
      BY <2>4
    <3>. QED
      BY <1>5, <2>1, <3>1
  <2>. QED
    BY <2>3, <2>4
<1>13. HeedInv'
  <2>1. \A i \in 1..n : snapshots[i].source # "revoked"
    BY <1>1, <1>4 DEF CredentialInv, HeedInv
  <2>2. \A i \in 1..(n + 1) : snapshots'[i].source = "revoked" => i = n + 1 /\ source = "revoked"
    BY <1>3, <1>5, <2>1
  <2>. QED
    BY <1>1, <1>5, <1>6, <2>2 DEF HeedInv, SourceRevocationHeeded
<1>14. RevokedIsEmpty'
  BY <1>1 DEF RevokedIsEmpty
<1>. QED
  BY <1>6, <1>8, <1>9, <1>11, <1>12, <1>13, <1>14 DEF CredentialInv

-----------------------------------------------------------------------------
(* Revocation and the clocks *)

\* Revoke: the provider closes, whoever is inside.
LEMMA RevokeInv == ASSUME CredentialInv, Revoke PROVE CredentialInv'
<1>1. /\ state' = "revoked" /\ grant' = NoGrant
      /\ UNCHANGED <<busy, generation, timeAnchor, wall, mono, source, request, snapshots,
                     refreshes>>
  BY DEF Revoke, clockVars
<1>2. CredentialTypeOK'
  BY <1>1 DEF CredentialInv, CredentialTypeOK, States, Grant, NoGrant
<1>3. Working' = Working
  BY <1>1 DEF Working
<1>4. BusyMeansOwned' /\ RefreshInv'
  BY <1>1, <1>3 DEF CredentialInv, BusyMeansOwned, RefreshInv, RefreshNotRepeated
<1>5. TimeInv'
  BY <1>1 DEF CredentialInv, TimeInv, Floor, LongEnough
<1>6. SnapshotTimesSound' /\ HeedInv' /\ RevokedIsEmpty'
  BY <1>1 DEF CredentialInv, SnapshotTimesSound, HeedInv, SourceRevocationHeeded,
              RevokedIsEmpty
<1>. QED
  BY <1>2, <1>4, <1>5, <1>6 DEF CredentialInv

\* SourceRevoked: the snapshots so far are from before it.
LEMMA SourceRevokedInv == ASSUME CredentialInv, SourceRevoked PROVE CredentialInv'
<1>1. /\ source = "available" /\ source' = "revoked"
      /\ UNCHANGED <<state, busy, grant, generation, timeAnchor, wall, mono, request, snapshots,
                     refreshes>>
  BY DEF SourceRevoked, providerVars, clockVars
<1>2. CredentialTypeOK'
  BY <1>1 DEF CredentialInv, CredentialTypeOK
<1>3. Working' = Working
  BY <1>1 DEF Working
<1>4. BusyMeansOwned' /\ RefreshInv'
  BY <1>1, <1>3 DEF CredentialInv, BusyMeansOwned, RefreshInv, RefreshNotRepeated
<1>5. TimeInv'
  BY <1>1 DEF CredentialInv, TimeInv, Floor, LongEnough
<1>6. SnapshotTimesSound' /\ HeedInv' /\ RevokedIsEmpty'
  BY <1>1 DEF CredentialInv, SnapshotTimesSound, HeedInv, SourceRevocationHeeded,
              RevokedIsEmpty
<1>. QED
  BY <1>2, <1>4, <1>5, <1>6 DEF CredentialInv

\* Tick and ClockSetBack: an anchored time only grows, whatever the wall clock does.
LEMMA ClockInv ==
    ASSUME CredentialInv, wall' \in Nat, mono' \in Nat, mono' >= mono,
           UNCHANGED <<providerVars, source, request, snapshots, refreshes>>
    PROVE  CredentialInv'
<1>1. UNCHANGED <<state, busy, grant, generation, timeAnchor, source, request, snapshots,
                  refreshes>>
  BY DEF providerVars
<1>2. CredentialTypeOK'
  BY <1>1 DEF CredentialInv, CredentialTypeOK
<1>3. Working' = Working
  BY <1>1 DEF Working
<1>4. BusyMeansOwned' /\ RefreshInv'
  BY <1>1, <1>3 DEF CredentialInv, BusyMeansOwned, RefreshInv, RefreshNotRepeated
<1>5. mono \in Nat
  BY DEF CredentialInv, CredentialTypeOK
<1>6. TimeInv'
  <2>1. PICK f \in Int, g \in Int :
          f = Floor(timeAnchor) /\ g = Floor(timeAnchor)' /\ f <= g
    BY <1>1, <1>5 DEF CredentialInv, CredentialTypeOK, Floor, Anchor
  <2>2. \A i \in DOMAIN snapshots : snapshots'[i].created <= g
    <3>1. \A i \in DOMAIN snapshots : snapshots[i].created \in Int /\ snapshots[i].created <= f
      BY <2>1, SnapshotTyped DEF CredentialInv, TimeInv
    <3>. QED
      BY <1>1, <2>1, <3>1
  <2>3. \A c \in Requests : request[c].pc \in Timed => request'[c].now <= Floor(request[c].anchor)'
    <3>. SUFFICES ASSUME NEW c \in Requests, request[c].pc \in Timed
                  PROVE  request'[c].now <= Floor(request[c].anchor)'
      OBVIOUS
    <3>1. request[c].now \in Int /\ request[c].anchor \in Anchor
      BY CallFacts DEF CallState
    <3>2. request[c].now <= Floor(request[c].anchor)
      BY CallTime
    <3>. QED
      BY <1>1, <1>5, <3>1, <3>2 DEF Floor, Anchor
  <2>. QED
    BY <1>1, <2>1, <2>2, <2>3 DEF CredentialInv, TimeInv, LongEnough
<1>7. SnapshotTimesSound' /\ HeedInv' /\ RevokedIsEmpty'
  BY <1>1 DEF CredentialInv, SnapshotTimesSound, HeedInv, SourceRevocationHeeded,
              RevokedIsEmpty
<1>. QED
  BY <1>2, <1>4, <1>6, <1>7 DEF CredentialInv

-----------------------------------------------------------------------------
(* The theorems *)

\* Every step keeps the invariant.
LEMMA CredentialNextInv ==
    ASSUME CredentialInv, [CredentialNext]_credentialVars
    PROVE  CredentialInv'
<1>1. wall \in Nat /\ mono \in Nat
  BY DEF CredentialInv, CredentialTypeOK
<1>2. ASSUME NEW c \in Requests, SnapshotStep(c) PROVE CredentialInv'
  <2>1. CASE FinishRevoked(c)
    BY <2>1, LeaveClosed DEF FinishRevoked
  <2>2. CASE FinishFailed(c)
    BY <2>2, LeaveClosed DEF FinishFailed
  <2>. QED
    BY <1>2, <2>1, <2>2, RefusedInv, EnterInv, ReadClockInv, SourceFailsInv, AvailableInv,
       DecideInv, RefreshStepInv, RecheckInv, IssueInv DEF SnapshotStep
<1>3. CASE Tick
  BY <1>1, <1>3, ClockInv DEF Tick
<1>4. CASE ClockSetBack
  BY <1>1, <1>4, ClockInv DEF ClockSetBack
<1>5. CASE UNCHANGED credentialVars
  BY <1>1, <1>5, ClockInv DEF credentialVars, clockVars
<1>. QED
  BY <1>2, <1>3, <1>4, <1>5, RevokeInv, SourceRevokedInv DEF CredentialNext

\* The invariant holds throughout.
THEOREM CredentialInvariant == CredentialSpec => []CredentialInv
<1>1. CredentialInit => CredentialInv
  BY CredentialInitInv
<1>2. CredentialInv /\ [CredentialNext]_credentialVars => CredentialInv'
  BY CredentialNextInv
<1>. QED
  BY <1>1, <1>2, PTL DEF CredentialSpec

\* However many threads ask, one refreshes at a time, it frees the provider by
\* whichever path it leaves, and a refresh in doubt is never repeated.
THEOREM RefreshedOnce == CredentialSpec => []RefreshesOnce
<1>1. CredentialInv => RefreshesOnce
  BY DEF CredentialInv, RefreshInv, RefreshesOnce
<1>. QED
  BY <1>1, CredentialInvariant, PTL

\* Every snapshot is in date at its own time and no earlier than the ones before
\* it, and at most one is handed out after the source has been revoked.
THEOREM SnapshotsAreSound == CredentialSpec => []SnapshotsSound
<1>1. CredentialInv => SnapshotsSound
  BY DEF CredentialInv, HeedInv, SnapshotsSound
<1>. QED
  BY <1>1, CredentialInvariant, PTL

\* revoke() is final: no later step issues a snapshot, reopens the provider or
\* puts access material back, wherever the call under way had come to.
THEOREM RevocationWins == CredentialSpec => RevokeWins
<1>1. ASSUME CredentialInv, CredentialNext, state = "revoked"
      PROVE  state' = "revoked" /\ snapshots' = snapshots /\ grant' = NoGrant
  <2>1. grant = NoGrant
    BY <1>1 DEF CredentialInv, RevokedIsEmpty
  <2>2. ASSUME NEW c \in Requests, SnapshotStep(c)
        PROVE  state' = "revoked" /\ snapshots' = snapshots /\ grant' = NoGrant
    BY <1>1, <2>1, <2>2 DEF SnapshotStep, Refused, Enter, ReadClock, SourceFails, Available,
       Decide, Refresh, Recheck, FinishRevoked, FinishFailed, Issue, MayIssue, Revoked,
       IssuanceAllowed, providerVars
  <2>. QED
    BY <1>1, <2>1, <2>2 DEF CredentialNext, Revoke, SourceRevoked, Tick, ClockSetBack,
       providerVars
<1>2. CredentialInv /\ [CredentialNext]_credentialVars =>
        [state = "revoked" => state' = "revoked" /\ snapshots' = snapshots /\ grant' = NoGrant]_credentialVars
  BY <1>1
<1>. QED
  BY <1>2, CredentialInvariant, PTL DEF CredentialSpec, RevokeWins

(***************************************************************************)
(* Proofs about DurableCas for any calls and hosts: no update is lost, and *)
(* the backend implements the abstract compare-and-swap register.          *)
(***************************************************************************)

USE DEF NotCalled, Outcomes, Locking, Alive, Truthful

\* The initial state: no call has been made.
LEMMA DurableInitInv == DurableInit => DurableInv
<1> SUFFICES ASSUME DurableInit PROVE DurableInv
  OBVIOUS
<1>1. DurableTypeOK
  BY DEF DurableInit, DurableTypeOK
<1> QED
  BY <1>1 DEF DurableInit, DurableInv, RowLock, Behind, ChildMatchesSession,
     Answers, CallOrder, NoLostUpdate

\* The steps of the database session keep the invariant.
LEMMA ServerInv ==
    ASSUME DurableInv, NEW c \in Calls, ServerStep(c) PROVE DurableInv'
<1> USE DEF DurableInv, DurableTypeOK, RowLock, Behind, ChildMatchesSession, Answers,
        CallOrder, NoLostUpdate
<1>1. CASE CasExecute(c)
  <2>1. PICK s \in {"stale", "aborted", "held"} :
            /\ session' = [session EXCEPT ![c] = s]
            /\ s = "stale" => expected[c] # row.version
            /\ s = "held" => expected[c] = row.version /\ ~row.revoked
    BY <1>1 DEF CasExecute
  <2>2. session[c] = "running" /\ UNCHANGED <<row, child, message, parent, call, expected, outcome, quarantined>>
    BY <1>1 DEF CasExecute
  <2>3. DurableTypeOK'
    BY <2>1, <2>2
  <2>4. RowLock'
    BY <1>1, <2>1, <2>2 DEF CasExecute, LockFree
  <2>5. Behind'
    <3>1. expected[c] \in Int /\ row.version \in Int /\ expected[c] <= row.version
      OBVIOUS
    <3>2. session'[c] = s /\ \A d \in Calls \ {c} : session'[d] = session[d]
      BY <2>1
    <3>3. session'[c] = "stale" => expected[c] < row.version
      <4> HIDE DEF DurableInv
      <4>1. s = "stale" => expected[c] # row.version
        BY <2>1
      <4> QED
        BY <3>1, <3>2, <4>1
    <3>4. session'[c] # "committed"
      BY <3>2
    <3> QED
      BY <2>2, <3>1, <3>2, <3>3, <3>4
  <2>6. NoLostUpdate'
    BY <2>1, <2>2
  <2>7. ChildMatchesSession' /\ Answers' /\ CallOrder'
    BY <2>1, <2>2
  <2> QED
    BY <2>3, <2>4, <2>5, <2>6, <2>7
<1>2. CASE CasCommit(c)
  BY <1>2 DEF CasCommit
<1>3. CASE Abort(c)
  BY <1>3 DEF Abort
<1> QED
  BY <1>1, <1>2, <1>3 DEF ServerStep

\* The steps of the spawned process keep the invariant.
LEMMA ChildInv ==
    ASSUME DurableInv, NEW c \in Calls, ChildStep(c) PROVE DurableInv'
<1> USE DEF DurableInv, DurableTypeOK, RowLock, Behind, ChildMatchesSession, Answers,
        CallOrder, NoLostUpdate, Publish
<1>1. CASE ConnectFails(c)
  BY <1>1 DEF ConnectFails
<1>2. CASE Submit(c)
  BY <1>2 DEF Submit
<1>3. CASE Conflict(c)
  BY <1>3 DEF Conflict
<1>4. CASE SendCommit(c)
  BY <1>4 DEF SendCommit
<1>5. CASE Committed(c)
  BY <1>5 DEF Committed
<1>6. CASE Fails(c)
  <2>1. CASE UNCHANGED session
    BY <1>6, <2>1 DEF Fails
  <2>2. CASE session' = [session EXCEPT ![c] = IF @ = "held" THEN "aborted" ELSE @]
    <3>1. DurableTypeOK' /\ RowLock' /\ Behind' /\ NoLostUpdate'
      BY <1>6, <2>2 DEF Fails
    <3>2. ChildMatchesSession' /\ Answers' /\ CallOrder'
      BY <1>6, <2>2 DEF Fails
    <3> QED
      BY <3>1, <3>2
  <2> QED
    BY <1>6, <2>1, <2>2 DEF Fails
<1>7. CASE ChildDies(c)
  BY <1>7 DEF ChildDies
<1> QED
  BY <1>1, <1>2, <1>3, <1>4, <1>5, <1>6, <1>7 DEF ChildStep

\* The steps of the parent keep the invariant.
LEMMA ParentInv ==
    ASSUME DurableInv, NEW c \in Calls, ParentStep(c) PROVE DurableInv'
<1> USE DEF DurableInv, DurableTypeOK, RowLock, Behind, ChildMatchesSession, Answers,
        CallOrder, NoLostUpdate, Told, Reap
<1>1. CASE Read(c)
  BY <1>1 DEF Read
<1>2. CASE Refuse(c)
  BY <1>2 DEF Refuse
<1>3. CASE Start(c)
  BY <1>3 DEF Start
<1>4. CASE Response(c)
  <2>1. Reported(c) \in Outcomes /\ Truthful(c, Reported(c))
    BY <1>4 DEF Response, Reported
  <2>2. message' \in [Calls -> Outcomes \cup {"none"}]
    BY <1>4 DEF Response
  <2>3. \A d \in Calls : message'[d] \in {message[d], "none"}
    BY <1>4 DEF Response
  <2> QED
    BY <1>4, <2>1, <2>2, <2>3 DEF Response
<1>5. CASE Deadline(c)
  <2>1. quarantined' \in [Hosts -> BOOLEAN]
    BY <1>5, ZenonT(30) DEF Deadline
  <2>2. CASE Reap(c)
    BY <1>5, <2>1, <2>2 DEF Deadline
  <2>3. CASE child[c] # "off" /\ UNCHANGED <<child, message>>
    BY <1>5, <2>1, <2>3 DEF Deadline
  <2> QED
    BY <1>5, <2>2, <2>3 DEF Deadline
<1>6. CASE ParentDies(c)
  BY <1>6 DEF ParentDies
<1> QED
  BY <1>1, <1>2, <1>3, <1>4, <1>5, <1>6 DEF ParentStep

\* The inductive invariant of the backend: the row lock, the versions and the
\* answers fit together whatever the processes and the sessions do.
THEOREM DurableInvariant == DurableSpec => []DurableInv
<1>1. DurableInv /\ [DurableNext]_durableVars => DurableInv'
  <2> SUFFICES ASSUME DurableInv, [DurableNext]_durableVars PROVE DurableInv'
    OBVIOUS
  <2>1. CASE DurableNext
    BY <2>1, ServerInv, ChildInv, ParentInv DEF DurableNext
  <2>2. CASE UNCHANGED durableVars
    BY <2>2 DEF durableVars, DurableInv, DurableTypeOK, RowLock, Behind,
       ChildMatchesSession, Answers, CallOrder, NoLostUpdate
  <2> QED
    BY <2>1, <2>2
<1> QED
  BY <1>1, DurableInitInv, PTL DEF DurableSpec

\* No compare_and_swap of the backend overwrites another: two replacements that
\* were applied expected different versions.
THEOREM UpdatesAreNotLost == DurableSpec => []NoLostUpdate
<1>1. DurableInv => NoLostUpdate
  BY DEF DurableInv
<1> QED
  BY <1>1, DurableInvariant, PTL

\* A "conflict" is only ever reported to a caller whose version was replaced.
THEOREM ConflictsAreStale == DurableSpec => []ConflictIsStale
<1>1. DurableInv => ConflictIsStale
  BY DEF DurableInv, DurableTypeOK, Answers, Behind, ConflictIsStale
<1> QED
  BY <1>1, DurableInvariant, PTL

\* Once the row of a binding is committed as revoked, no racing, late or
\* ambiguous write changes it again.
THEOREM BackendRevocationIsFinal == DurableSpec => RevocationFinal
<1>1. DurableInv /\ [DurableNext]_durableVars
          => [row.revoked => UNCHANGED row]_durableVars
  <2> SUFFICES ASSUME DurableInv, DurableNext, row.revoked PROVE UNCHANGED row
    OBVIOUS
  <2>1. PICK c \in Calls : ServerStep(c) \/ ChildStep(c) \/ ParentStep(c)
    BY DEF DurableNext
  <2>2. ~CasCommit(c)
    BY DEF CasCommit, DurableInv, RowLock
  <2>3. CASE ServerStep(c)
    BY <2>2, <2>3 DEF ServerStep, CasExecute, Abort
  <2>4. CASE ChildStep(c)
    BY <2>4 DEF ChildStep, ConnectFails, Submit, Conflict, SendCommit, Committed, Fails,
       ChildDies
  <2>5. CASE ParentStep(c)
    BY <2>5 DEF ParentStep, Read, Refuse, Start, Response, Deadline, ParentDies
  <2> QED
    BY <2>1, <2>3, <2>4, <2>5
<1> QED
  BY <1>1, DurableInvariant, PTL DEF DurableSpec, RevocationFinal

\* The process-isolated PostgreSQL backend implements the abstract
\* compare-and-swap register, whatever its children, its parents and the
\* database sessions do and in whatever order.
THEOREM BackendImplementsCas == DurableSpec => ImplementsCas
<1> USE DEF Register!CasNext, Register!casVars
<1>1. DurableInit => Register!CasInit
  BY DEF DurableInit, Register!CasInit, Register!NotCalled
<1>2. ASSUME DurableInv, NEW c \in Calls, ServerStep(c)
      PROVE  [Register!CasNext]_(Register!casVars)
  <2>1. CASE CasCommit(c)
    <3>1. Register!Apply(c)
      <4>1. outcome[c] \in {"pending", "ambiguous"} /\ expected[c] = row.version
        BY <1>2, <2>1 DEF CasCommit, DurableInv, DurableTypeOK, RowLock, Answers
      <4>2. row'.version = row.version + 1
        BY <2>1, <4>1 DEF CasCommit
      <4>3. {d \in Calls : session'[d] = "committed"}
                = {d \in Calls : session[d] = "committed"} \cup {c}
        BY <1>2, <2>1 DEF CasCommit, DurableInv, DurableTypeOK
      <4> QED
        BY <1>2, <2>1, <4>1, <4>2, <4>3 DEF Register!Apply, CasCommit
    <3> QED
      BY <3>1
  <2>2. CASE CasExecute(c) \/ Abort(c)
    <3>1. session[c] # "committed" /\ session'[c] # "committed"
      BY <1>2, <2>2 DEF CasExecute, Abort, DurableInv, DurableTypeOK
    <3>2. \A d \in Calls : session'[d] = "committed" <=> session[d] = "committed"
      BY <1>2, <2>2, <3>1 DEF CasExecute, Abort, DurableInv, DurableTypeOK
    <3> QED
      BY <2>2, <3>2 DEF CasExecute, Abort
  <2> QED
    BY <1>2, <2>1, <2>2 DEF ServerStep
<1>3. ASSUME DurableInv, NEW c \in Calls, ChildStep(c)
      PROVE  [Register!CasNext]_(Register!casVars)
  <2>1. \A d \in Calls : session'[d] = "committed" <=> session[d] = "committed"
    <3> USE DEF DurableInv, DurableTypeOK
    <3>1. CASE UNCHANGED session
      BY <3>1
    <3>2. CASE Submit(c)
      BY <1>3, <3>2 DEF Submit, ChildMatchesSession
    <3>3. CASE SendCommit(c)
      BY <1>3, <3>3 DEF SendCommit
    <3>4. CASE Fails(c)
      BY <1>3, <3>4 DEF Fails
    <3> QED
      BY <1>3, <3>1, <3>2, <3>3, <3>4
         DEF ChildStep, ConnectFails, Conflict, Committed, ChildDies
  <2> QED
    BY <1>3, <2>1 DEF ChildStep, ConnectFails, Submit, Conflict, SendCommit, Committed,
       Fails, ChildDies
<1>4. ASSUME DurableInv, NEW c \in Calls, ParentStep(c)
      PROVE  [Register!CasNext]_(Register!casVars)
  <2> USE DEF DurableInv, DurableTypeOK
  <2>1. CASE Read(c)
    <3>1. Register!Invoke(c)
      BY <1>4, <2>1 DEF Read, CallOrder, Register!Invoke, Register!NotCalled
    <3> QED
      BY <3>1
  <2>2. ASSUME NEW o \in Outcomes, Told(c, o), parent[c] \in {"ready", "waiting"},
               UNCHANGED <<row, session, expected>>,
               o \in {"ok", "conflict", "unavailable"} => Truthful(c, o)
        PROVE  Register!Answer(c, o)
    BY <1>4, <2>2 DEF Told, CallOrder, Behind, Register!Answer, Register!NotCalled
  <2>3. CASE Refuse(c)
    <3>1. Register!Answer(c, "unavailable")
      BY <1>4, <2>2, <2>3 DEF Refuse, CallOrder, ChildMatchesSession
    <3> QED
      BY <3>1
  <2>4. CASE Response(c)
    <3>1. Reported(c) \in Outcomes /\ Truthful(c, Reported(c))
      BY <1>4, <2>4 DEF Response, Reported, Answers
    <3>2. Register!Answer(c, Reported(c))
      BY <2>2, <2>4, <3>1 DEF Response
    <3> QED
      BY <3>1, <3>2
  <2>5. CASE Deadline(c)
    <3>1. Register!Answer(c, "ambiguous")
      BY <2>2, <2>5 DEF Deadline
    <3> QED
      BY <3>1
  <2>6. CASE Start(c) \/ ParentDies(c)
    BY <2>6 DEF Start, ParentDies
  <2> QED
    BY <1>4, <2>1, <2>3, <2>4, <2>5, <2>6 DEF ParentStep
<1>5. DurableInv /\ [DurableNext]_durableVars => [Register!CasNext]_(Register!casVars)
  <2> SUFFICES ASSUME DurableInv, [DurableNext]_durableVars
               PROVE  [Register!CasNext]_(Register!casVars)
    OBVIOUS
  <2>1. CASE DurableNext
    BY <2>1, <1>2, <1>3, <1>4 DEF DurableNext
  <2>2. CASE UNCHANGED durableVars
    BY <2>2 DEF durableVars
  <2> QED
    BY <2>1, <2>2
<1> QED
  BY <1>1, <1>5, DurableInvariant, PTL DEF DurableSpec, ImplementsCas, Register!CasSpec
=============================================================================
