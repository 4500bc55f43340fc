------------------------- MODULE CredentialProvider -------------------------
(***************************************************************************)
(* RefreshingCredentialProvider: threads of one host ask one provider for  *)
(* short-lived access snapshots.  The provider keeps a cached grant under  *)
(* a lock, does its I/O with the credential source outside the lock, and   *)
(* can be revoked locally, or at the source, at any moment in between.     *)
(*                                                                         *)
(* Time is the wall clock, which may be set back or forward, and the       *)
(* monotonic clock, both in seconds.  A grant is its times and whether it  *)
(* is well formed (type, identity, capabilities and token as bound).       *)
(*                                                                         *)
(* Left out: the argument checks of snapshot, which fail before any state  *)
(* is touched, and an explicit now_epoch, which no caller in the program   *)
(* passes.  An interrupt is a failure that is raised under another name.   *)
(***************************************************************************)
EXTENDS Integers, Sequences

CONSTANTS
    Requests,           \* calls of snapshot
    MinimumTtl,         \* minimum_ttl_seconds
    GrantTtls,          \* lifetimes the source may grant
    MaxTime             \* bound on both clocks

ASSUME ProviderAssumption ==
    /\ MinimumTtl \in Nat
    /\ GrantTtls \subseteq Nat \ {0}
    /\ MaxTime \in Nat

VARIABLES
    state, busy, grant, generation, timeAnchor,     \* fields of the provider
    wall, mono,         \* the clocks
    source,             \* the credential source: revoked or not
    request,            \* the local state of each call
    snapshots,          \* the snapshots handed out, in order
    refreshes           \* history: calls of refresh_access

providerVars == <<state, busy, grant, generation, timeAnchor>>
clockVars == <<wall, mono>>
credentialVars ==
    <<providerVars, clockVars, source, request, snapshots, refreshes>>

NoGrant == [issued |-> -1, expires |-> -1, wellFormed |-> FALSE]
NoAnchor == [epoch |-> -1, mono |-> -1]

Grant == [issued : Int, expires : Int, wellFormed : BOOLEAN]

CredentialInit ==
    /\ state \in {"unconfigured", "refresh_required"}
    /\ busy = FALSE
    /\ grant = NoGrant
    /\ generation = 0
    /\ timeAnchor = NoAnchor
    /\ wall \in {0, 1}
    /\ mono = 0
    /\ source = "available"
    /\ request = [c \in Requests |->
           [pc |-> "idle", cached |-> NoGrant, now |-> 0, anchor |-> NoAnchor,
            result |-> NoGrant, refreshed |-> FALSE, failure |-> "none"]]
    /\ snapshots = <<>>
    /\ refreshes = 0

-----------------------------------------------------------------------------
(* current_time: never earlier than the anchor plus the time elapsed since *)

Floor(anchor) == anchor.epoch + (mono - anchor.mono)

\* Mutant: the wall clock is believed.
CurrentTimeWall(anchor) == [now |-> wall, anchor |-> [epoch |-> wall, mono |-> mono]]

CurrentTime(anchor) ==
    IF wall > Floor(anchor)
    THEN [now |-> wall, anchor |-> [epoch |-> wall, mono |-> mono]]
    ELSE [now |-> Floor(anchor), anchor |-> anchor]

Later(a, b) == IF a >= b THEN a ELSE b

LongEnough(g, now) ==
    /\ g.issued <= now
    /\ g.expires > now
    /\ g.expires - now >= MinimumTtl

-----------------------------------------------------------------------------
(* snapshot *)

\* Mutant: a second caller is let in while one is at work.
AllowedBusy == state \notin {"revoked", "unconfigured", "blocked_auth"}

IssuanceAllowed ==
    /\ state \notin {"revoked", "unconfigured", "blocked_auth"}
    /\ ~busy

Refused(c) ==
    /\ request[c].pc = "idle"
    /\ ~IssuanceAllowed
    /\ request' = [request EXCEPT ![c].pc = "refused"]
    /\ UNCHANGED <<providerVars, clockVars, source, snapshots, refreshes>>

Enter(c) ==
    /\ request[c].pc = "idle"
    /\ IssuanceAllowed
    /\ busy' = TRUE
    /\ request' = [request EXCEPT ![c].pc = "clock", ![c].cached = grant]
    /\ UNCHANGED <<state, grant, generation, timeAnchor>>
    /\ UNCHANGED <<clockVars, source, snapshots, refreshes>>

\* The first reading of the clocks anchors a provider that has none.
ReadClock(c) ==
    /\ request[c].pc = "clock"
    /\ LET t == CurrentTime(IF timeAnchor = NoAnchor
                            THEN [epoch |-> wall, mono |-> mono] ELSE timeAnchor)
       IN  request' = [request EXCEPT ![c].pc = "available", ![c].now = t.now,
                                      ![c].anchor = t.anchor]
    /\ UNCHANGED <<providerVars, clockVars, source, snapshots, refreshes>>

FailWith(c, failure) ==
    request' = [request EXCEPT ![c].pc = "finish", ![c].failure = failure]

SourceAnswers == source = "available"

\* assert_available and refresh_access raise CredentialRevokedError when the
\* source is revoked, and may fail in any other way at any time.
SourceFails(c) ==
    /\ request[c].pc \in {"available", "refresh", "recheck"}
    /\ \/ source = "revoked" /\ FailWith(c, "credential_source_revoked")
       \/ FailWith(c, "credential_refresh_failed")
    /\ refreshes' = refreshes + (IF request[c].pc = "refresh" THEN 1 ELSE 0)
    /\ UNCHANGED <<providerVars, clockVars, source, snapshots>>

Available(c) ==
    /\ request[c].pc = "available"
    /\ SourceAnswers
    /\ request' = [request EXCEPT ![c].pc = "decide"]
    /\ UNCHANGED <<providerVars, clockVars, source, snapshots, refreshes>>

\* The cached grant serves when it lives long enough; otherwise the grant is
\* dropped under the lock, unless revoke() came first.
Decide(c) ==
    /\ request[c].pc = "decide"
    /\ LET t == CurrentTime(request[c].anchor)
           now == Later(request[c].now, t.now)
           cached == request[c].cached
           refreshNeeded == \/ cached = NoGrant
                            \/ cached.expires <= now
                            \/ cached.expires - now < MinimumTtl
           next == [request[c] EXCEPT !.now = now, !.anchor = t.anchor]
       IN  \/ /\ ~refreshNeeded
              /\ request' = [request EXCEPT ![c] =
                     [next EXCEPT !.pc = "recheck", !.result = cached]]
              /\ UNCHANGED providerVars
           \/ /\ refreshNeeded
              /\ state = "revoked"
              /\ request' = [request EXCEPT ![c] =
                     [next EXCEPT !.pc = "finish", !.failure = "credential_source_revoked"]]
              /\ UNCHANGED providerVars
           \/ /\ refreshNeeded
              /\ state # "revoked"
              /\ state' = "refreshing"
              /\ grant' = NoGrant
              /\ request' = [request EXCEPT ![c] = [next EXCEPT !.pc = "refresh"]]
              /\ UNCHANGED <<busy, generation, timeAnchor>>
    /\ UNCHANGED <<clockVars, source, snapshots, refreshes>>

\* refresh_access answers; the source's clock may be a second ahead of the
\* host's, and the grant need not be what was asked for.
Refresh(c) ==
    /\ request[c].pc = "refresh"
    /\ SourceAnswers
    /\ \E skew \in {0, 1}, ttl \in GrantTtls, ok \in BOOLEAN :
           request' = [request EXCEPT
               ![c].pc = "recheck", ![c].refreshed = TRUE,
               ![c].result = [issued |-> wall + skew, expires |-> wall + skew + ttl,
                              wellFormed |-> ok]]
    /\ refreshes' = refreshes + 1
    /\ UNCHANGED <<providerVars, clockVars, source, snapshots>>

\* Source and time are checked again after the possibly slow refresh, and the
\* grant is validated against the later time.
Recheck(c) ==
    /\ request[c].pc = "recheck"
    /\ SourceAnswers
    /\ LET t == CurrentTime(request[c].anchor)
           now == Later(request[c].now, t.now)
           valid == request[c].result.wellFormed /\ LongEnough(request[c].result, now)
       IN  request' = [request EXCEPT ![c].pc = "finish", ![c].now = now,
               ![c].anchor = t.anchor,
               ![c].failure = IF valid THEN "none" ELSE "credential_refresh_failed"]
    /\ UNCHANGED <<providerVars, clockVars, source, snapshots, refreshes>>

-----------------------------------------------------------------------------
(* The last critical section of snapshot *)

Revoked(c) == state = "revoked" \/ request[c].failure = "credential_source_revoked"

FinishRevoked(c) ==
    /\ request[c].pc = "finish"
    /\ Revoked(c)
    /\ busy' = FALSE
    /\ state' = "revoked"
    /\ grant' = NoGrant
    /\ request' = [request EXCEPT ![c].pc = "revoked"]
    /\ UNCHANGED <<generation, timeAnchor, clockVars, source, snapshots, refreshes>>

FinishFailed(c) ==
    /\ request[c].pc = "finish"
    /\ ~Revoked(c)
    /\ request[c].failure # "none"
    /\ busy' = FALSE
    /\ state' = "blocked_auth"
    /\ grant' = NoGrant
    /\ request' = [request EXCEPT ![c].pc = "blocked"]
    /\ UNCHANGED <<generation, timeAnchor, clockVars, source, snapshots, refreshes>>

\* Mutant: the local revocation is not looked at again.
MayIssueBlind(c) == request[c].failure = "none"

MayIssue(c) == ~Revoked(c) /\ request[c].failure = "none"

Issue(c) ==
    /\ request[c].pc = "finish"
    /\ MayIssue(c)
    /\ busy' = FALSE
    /\ grant' = request[c].result
    /\ timeAnchor' = request[c].anchor
    /\ generation' = generation + (IF request[c].refreshed THEN 1 ELSE 0)
    /\ state' = IF generation' > 1 THEN "ready_rotated" ELSE "ready"
    /\ snapshots' = Append(snapshots,
           [created |-> request[c].now, issued |-> request[c].result.issued,
            expires |-> request[c].result.expires, source |-> source])
    /\ request' = [request EXCEPT ![c].pc = "issued"]
    /\ UNCHANGED <<clockVars, source, refreshes>>

-----------------------------------------------------------------------------
(* revoke, the source and the clocks *)

Revoke ==
    /\ state # "revoked"
    /\ state' = "revoked"
    /\ grant' = NoGrant
    /\ UNCHANGED <<busy, generation, timeAnchor>>
    /\ UNCHANGED <<clockVars, source, request, snapshots, refreshes>>

SourceRevoked ==
    /\ source = "available"
    /\ source' = "revoked"
    /\ UNCHANGED <<providerVars, clockVars, request, snapshots, refreshes>>

Tick ==
    /\ mono < MaxTime
    /\ wall < MaxTime
    /\ mono' = mono + 1
    /\ wall' = wall + 1
    /\ UNCHANGED <<providerVars, source, request, snapshots, refreshes>>

\* The wall clock is set back.
ClockSetBack ==
    /\ wall > 0
    /\ wall' = 0
    /\ UNCHANGED <<providerVars, mono, source, request, snapshots, refreshes>>

SnapshotStep(c) ==
    \/ Refused(c) \/ Enter(c) \/ ReadClock(c) \/ SourceFails(c) \/ Available(c)
    \/ Decide(c) \/ Refresh(c) \/ Recheck(c)
    \/ FinishRevoked(c) \/ FinishFailed(c) \/ Issue(c)

CredentialNext ==
    \/ \E c \in Requests : SnapshotStep(c)
    \/ Revoke \/ SourceRevoked \/ Tick \/ ClockSetBack

CredentialSpec == CredentialInit /\ [][CredentialNext]_credentialVars

-----------------------------------------------------------------------------
Working == {c \in Requests : request[c].pc \in {"clock", "available", "decide",
                                                "refresh", "recheck", "finish"}}

\* One caller at a time owns the issuance boundary, and it is free again
\* exactly when that caller has left, by whichever path.
BusyMeansOwned ==
    /\ busy <=> Working # {}
    /\ \A c, d \in Working : c = d

\* revoke() wins over a refresh under way: once it has returned nothing is
\* issued, the provider never opens again, and no caller that finishes late
\* puts access material back into it.
RevokeWins ==
    [][state = "revoked" => /\ state' = "revoked"
                            /\ snapshots' = snapshots
                            /\ grant' = NoGrant]_credentialVars

\* A snapshot is valid from before its own time and for the minimum after it,
\* also when its grant was cached or its refresh took long; and its time is no
\* earlier than that of any snapshot before it, although the wall clock goes back.
SnapshotTimesSound ==
    \A i \in DOMAIN snapshots :
        /\ \A j \in 1..(i - 1) : snapshots[j].created <= snapshots[i].created
        /\ snapshots[i].issued <= snapshots[i].created
        /\ snapshots[i].expires - snapshots[i].created >= MinimumTtl

\* A revocation at the source closes the provider after at most one more
\* snapshot, that of a caller which had already passed its last check.
SourceRevocationHeeded ==
    \A i, j \in DOMAIN snapshots :
        snapshots[i].source = "revoked" /\ snapshots[j].source = "revoked" => i = j

\* Every snapshot handed out is in date and in order, and none follows the
\* notice of a revocation at the source.
SnapshotsSound == SnapshotTimesSound /\ SourceRevocationHeeded

\* A refresh that failed, or whose outcome is unknown, is never repeated: at
\* most one refresh_access has no stored grant to show for it.
RefreshNotRepeated == refreshes - generation \in {0, 1}

\* One thread refreshes at a time and frees the provider on every path, and what
\* it leaves in doubt nobody tries again.
RefreshesOnce == BusyMeansOwned /\ RefreshNotRepeated
=============================================================================
