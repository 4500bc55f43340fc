------------------------------ MODULE Workbench ------------------------------
(***************************************************************************)
(* ml/synthetic_workbench.py over ml/synthetic_session.py, with the        *)
(* settlement and review rules of ml/model_history.py: a server that       *)
(* captures predictions, settles them and keeps the session in one file.   *)
(*                                                                         *)
(* Requests are serialised by the server's lock, so one operation at a     *)
(* time computes a payload and saves it: read back and compare, write a    *)
(* partial file, replace, fsync the directory, and only then apply it in   *)
(* memory and answer.  Any of these can fail, and the process or the       *)
(* machine can stop between any two; a replace that was not fsynced may be *)
(* undone by a crash of the machine.  A person can put back an earlier     *)
(* copy of the file.                                                       *)
(*                                                                         *)
(* A race is a series and a rider count; snapshot keys are never reused.   *)
(***************************************************************************)
EXTENDS Naturals, FiniteSets

CONSTANTS
    Counts,          \* rider counts offered
    Outcomes,        \* outcome and odds of an ordinary result
    HELD_STATUSES,   \* results that need a review
    MAX_SNAPSHOTS,   \* limit of a session
    Lead,            \* time from now to a new scheduled start
    MaxClock,        \* bound on the clock
    MaxKeys,         \* bound on snapshots ever captured
    MaxRestarts,     \* bound on starts of the server
    MaxRestores      \* bound on files put back by hand

ASSUME WorkbenchAssumption ==
    /\ {MAX_SNAPSHOTS, Lead, MaxClock, MaxKeys, MaxRestarts, MaxRestores} \subseteq Nat
    /\ Lead > 0 /\ Outcomes \cap HELD_STATUSES = {}

VARIABLES
    now,         \* the clock
    keys,        \* keys used so far
    up,          \* the server runs and holds session.lock
    mem,         \* the payload in memory
    failed,      \* SessionStore.failed
    expected,    \* SessionStore.expected
    saving,      \* step of the save in progress, "none" between requests
    next,        \* payload being saved
    file,        \* synthetic-session.json as a read sees it
    synced,      \* synthetic-session.json as a crash leaves it, at the oldest
    copies,      \* earlier contents a person may have kept
    acked,       \* histories and snapshots of the payloads answered with 200
    starts, restores

vars == <<now, keys, up, mem, failed, expected, saving, next, file, synced, copies, acked, starts, restores>>

Empty == [k \in {} |-> 0]

NoFile == [scheduled |-> 0, series |-> 0, snapshots |-> Empty, histories |-> Empty, current |-> 0]

Fresh == [scheduled |-> now + Lead, series |-> 0, snapshots |-> Empty, histories |-> Empty, current |-> 0]

Init ==
    /\ now = 0 /\ keys = 0 /\ up = FALSE /\ mem = NoFile /\ failed = FALSE /\ expected = NoFile
    /\ saving = "none" /\ next = NoFile /\ file = NoFile /\ synced = NoFile
    /\ copies = {} /\ acked = [snapshots |-> Empty, histories |-> Empty]
    /\ starts = 0 /\ restores = 0

With(f, k, v) == [x \in DOMAIN f \cup {k} |-> IF x = k THEN v ELSE f[x]]

(***************************************************************************)
(* model_history: settling and reviewing.  A history holds a copy of its   *)
(* snapshot, and a settlement that is an outcome or a held status.         *)
(***************************************************************************)
RaceKey(s) == <<s.series, s.count>>

ValidSnapshot(s) == s.captured < s.scheduled

settle_snapshot(s, result) == [snapshot |-> s, result |-> result]

ValidHistory(h) == ValidSnapshot(h.snapshot) /\ h.result \in Outcomes \cup HELD_STATUSES

Group(hs, race) == {k \in DOMAIN hs : RaceKey(hs[k].snapshot) = race}

Races(hs) == {RaceKey(hs[k].snapshot) : k \in DOMAIN hs}

Held(hs) == {race \in Races(hs) : \E k \in Group(hs, race) : hs[k].result \in HELD_STATUSES}

Conflicting(hs) == {race \in Races(hs) \ Held(hs) : Cardinality({hs[k].result : k \in Group(hs, race)}) > 1}

Latest(hs, race) ==
    {k \in Group(hs, race) : \A j \in Group(hs, race) : hs[j].snapshot.captured <= hs[k].snapshot.captured}

\* Two different snapshots of one race captured at the same time.
Tied(hs) ==
    {race \in Races(hs) \ (Held(hs) \cup Conflicting(hs)) :
       Cardinality({hs[k] : k \in Latest(hs, race)}) > 1}

Excluded(hs) == Held(hs) \cup Conflicting(hs) \cup Tied(hs)

\* Mutant: a held result does not outlive a later ordinary one.
evaluate_historiesLatestWins(hs) ==
    LET open == {race \in Races(hs) : \A k \in Latest(hs, race) : hs[k].result \notin HELD_STATUSES}
    IN  [evaluated |-> open, excluded |-> 0, duplicates |-> 0]

evaluate_histories(hs) ==
    LET evaluated == Races(hs) \ Excluded(hs)
        records(rs) == {k \in DOMAIN hs : RaceKey(hs[k].snapshot) \in rs}
    IN  [evaluated |-> evaluated,
         excluded |-> Cardinality(records(Excluded(hs))),
         duplicates |-> Cardinality(records(evaluated)) - Cardinality(evaluated)]

(***************************************************************************)
(* validate_session, the condition on what is saved and loaded.            *)
(***************************************************************************)
validate_session(p) ==
    /\ Cardinality(DOMAIN p.snapshots) <= MAX_SNAPSHOTS
    /\ DOMAIN p.histories \subseteq DOMAIN p.snapshots
    /\ IF DOMAIN p.snapshots = {} THEN p.current = 0 ELSE p.current \in DOMAIN p.snapshots
    /\ \A k \in DOMAIN p.snapshots :
         /\ ValidSnapshot(p.snapshots[k]) /\ p.snapshots[k].series <= p.series
         /\ p.snapshots[k].series = p.series => p.snapshots[k].scheduled = p.scheduled
         /\ k \in DOMAIN p.histories =>
              ValidHistory(p.histories[k]) /\ p.histories[k].snapshot = p.snapshots[k]

(***************************************************************************)
(* Requests.  Each computes the next payload; a refused one changes        *)
(* nothing.  predict reads the clock, works, and reads it again.           *)
(***************************************************************************)
Ready == up /\ saving = "none"

Request(payload) ==
    /\ Ready /\ ~failed /\ validate_session(payload)
    /\ saving' = "compare" /\ next' = payload
    /\ UNCHANGED <<up, mem, failed, expected, file, synced, copies, acked, starts, restores>>

\* Mutant: an expired start is replaced without a new series.
PlanSameSeries(p) == IF now >= p.scheduled THEN <<now + Lead, p.series>> ELSE <<p.scheduled, p.series>>

Plan(p) == IF now >= p.scheduled THEN <<now + Lead, p.series + 1>> ELSE <<p.scheduled, p.series>>

Captured(p, count, captured) ==
    [series |-> Plan(p)[2], count |-> count, captured |-> captured, scheduled |-> Plan(p)[1]]

PredictPayload(p, count, captured) ==
    [scheduled |-> Plan(p)[1], series |-> Plan(p)[2],
     snapshots |-> With(p.snapshots, keys + 1, Captured(p, count, captured)),
     histories |-> p.histories, current |-> keys + 1]

RecordPayload(p, k, result) ==
    [p EXCEPT !.histories = With(@, k, settle_snapshot(p.snapshots[k], result)), !.current = k]

CanPredict(count, captured) ==
    /\ up /\ keys < MaxKeys
    /\ Cardinality(DOMAIN mem.snapshots) < MAX_SNAPSHOTS
    /\ captured \in now..MaxClock /\ ValidSnapshot(Captured(mem, count, captured))

CanRecord(k) == up /\ k \in DOMAIN mem.snapshots \ DOMAIN mem.histories

predict(count, captured) ==
    /\ CanPredict(count, captured)
    /\ Request(PredictPayload(mem, count, captured))
    /\ keys' = keys + 1 /\ now' = captured

\* settle and hold.
Record(k, result) ==
    /\ CanRecord(k)
    /\ Request(RecordPayload(mem, k, result))
    /\ UNCHANGED <<now, keys>>

select(k) ==
    /\ up /\ k \in DOMAIN mem.snapshots
    /\ Request([mem EXCEPT !.current = k])
    /\ UNCHANGED <<now, keys>>

(***************************************************************************)
(* SessionStore.save and _commit.                                          *)
(***************************************************************************)
\* An OSError, or the file is not what was last read or written.
SaveFails ==
    /\ saving # "none"
    /\ failed' = TRUE /\ saving' = "none" /\ next' = NoFile
    /\ UNCHANGED <<now, keys, up, mem, expected, file, synced, copies, acked, starts, restores>>

\* Mutant: memory is updated and the answer given before the file is saved.
CompareEarly ==
    /\ saving = "compare" /\ file = expected
    /\ saving' = "write" /\ mem' = next
    /\ acked' = [snapshots |-> next.snapshots,
                 histories |-> next.histories]
    /\ UNCHANGED <<now, keys, up, failed, expected, next, file, synced, copies, starts, restores>>

Compare ==
    /\ saving = "compare" /\ file = expected
    /\ saving' = "write"
    /\ UNCHANGED <<now, keys, up, mem, failed, expected, next, file, synced, copies, acked, starts, restores>>

\* The partial file is complete and fsynced before it replaces the other.
Replace ==
    /\ saving = "write"
    /\ file' = next /\ saving' = "sync"
    /\ UNCHANGED <<now, keys, up, mem, failed, expected, next, synced, copies, acked, starts, restores>>

Merge(f, g) == [k \in DOMAIN f \cup DOMAIN g |-> IF k \in DOMAIN g THEN g[k] ELSE f[k]]

\* fsync of the directory, _apply, and the answer.
Commit ==
    /\ saving = "sync"
    /\ synced' = file /\ expected' = next /\ mem' = next /\ saving' = "none" /\ next' = NoFile
    /\ acked' = [snapshots |-> Merge(acked.snapshots, next.snapshots),
                 histories |-> Merge(acked.histories, next.histories)]
    /\ copies' = IF restores < MaxRestores THEN copies \cup {next} ELSE {}
    /\ UNCHANGED <<now, keys, up, failed, file, starts, restores>>

(***************************************************************************)
(* Start, stop, and the world outside.                                     *)
(***************************************************************************)
Start ==
    /\ ~up /\ starts < MaxRestarts
    /\ file # NoFile => validate_session(file)
    /\ up' = TRUE /\ failed' = FALSE /\ expected' = file
    /\ mem' = IF file = NoFile THEN Fresh ELSE file
    /\ starts' = starts + 1
    /\ UNCHANGED <<now, keys, saving, next, file, synced, copies, acked, restores>>

Down ==
    /\ up' = FALSE /\ saving' = "none" /\ failed' = FALSE
    /\ mem' = NoFile /\ expected' = NoFile /\ next' = NoFile
    /\ UNCHANGED <<now, keys, copies, acked, starts, restores>>

\* The process ends.
Stop == up /\ Down /\ UNCHANGED <<file, synced>>

\* The machine stops, which may undo a replace that was not synced, also when the
\* process that made it is gone.
MachineStop ==
    /\ up \/ file # synced
    /\ Down
    /\ file' \in {file, synced} /\ synced' = file'

\* Between requests a person puts an earlier copy back; what was answered
\* since is lost by that.
Restore ==
    /\ restores < MaxRestores /\ saving = "none"
    /\ \E c \in copies :
         /\ file' = c /\ synced' = c
         /\ acked' = [snapshots |-> c.snapshots, histories |-> c.histories]
    /\ restores' = restores + 1
    /\ copies' = IF restores' < MaxRestores THEN copies ELSE {}
    /\ UNCHANGED <<now, keys, up, mem, failed, expected, saving, next, starts>>

Tick ==
    /\ now < MaxClock /\ saving = "none"
    /\ now' = now + 1
    /\ UNCHANGED <<keys, up, mem, failed, expected, saving, next, file, synced, copies, acked, starts, restores>>

Next ==
    \/ \E count \in Counts, captured \in 0..MaxClock : predict(count, captured)
    \/ \E k \in 1..MaxKeys : select(k) \/ \E result \in Outcomes \cup HELD_STATUSES : Record(k, result)
    \/ SaveFails \/ Compare \/ Replace \/ Commit
    \/ Start \/ Stop \/ MachineStop \/ Restore \/ Tick

Spec == Init /\ [][Next]_vars

(***************************************************************************)
(* Properties.                                                             *)
(***************************************************************************)
Within(f, g) == \A k \in DOMAIN f : k \in DOMAIN g /\ g[k] = f[k]

\* Every prediction and settlement a request was answered 200 for is in the
\* file, unchanged, at whatever moment the process or the machine stops; no
\* later request settles the snapshot a second time.
AnsweredSurvives ==
    \A f \in {file, synced} :
      (acked.snapshots # Empty => f # NoFile) /\
      (f # NoFile => Within(acked.snapshots, f.snapshots) /\ Within(acked.histories, f.histories))

\* Over any sequence of predictions, expired starts, settlements, crashes and
\* restarts, validate_session refuses neither the next start nor a payload the
\* server itself builds: a session never locks itself.
SessionNeverLocksItself ==
    /\ file # NoFile => validate_session(file)
    /\ \A count \in Counts, captured \in 0..MaxClock :
         CanPredict(count, captured) => validate_session(PredictPayload(mem, count, captured))
    /\ \A k \in 1..MaxKeys, result \in Outcomes \cup HELD_STATUSES :
         CanRecord(k) => validate_session(RecordPayload(mem, k, result))

\* An unresolved exception stays one: while the server works from the file that
\* is there, a race held in the answered records is never evaluated, whatever is
\* settled, restarted or restored afterwards.  (After a file was put back under a
\* running server its memory is stale; its next save is refused.)
HeldNeverEvaluated ==
    up /\ expected \in {file, synced} =>
        evaluate_histories(mem.histories).evaluated \cap Held(acked.histories) = {}

\* The review accounts for every record once: evaluated, duplicate or excluded.
ReviewAccountsForAll ==
    up => LET r == evaluate_histories(mem.histories)
          IN  Cardinality(DOMAIN mem.histories) = Cardinality(r.evaluated) + r.excluded + r.duplicates

\* The review of the answered records leaves no exception out and no record over.
ReviewIsFaithful == HeldNeverEvaluated /\ ReviewAccountsForAll
=============================================================================
