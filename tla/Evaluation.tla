------------------------------ MODULE Evaluation ------------------------------
(***************************************************************************)
(* The offline learning pipeline: prediction snapshots are settled into    *)
(* history records (ml/settle_snapshot.py), a training set is built from   *)
(* them (ml/dataset.py, ml/build_training_dataset.py), they are split in   *)
(* time for the paired evaluation (ml/evaluation_protocol.py,              *)
(* ml/evaluate_offline.py), position models are trained into a directory   *)
(* (ml/train_position_models.py) and loaded from it                        *)
(* (ml/predict_position_models.py).                                        *)
(*                                                                         *)
(* Every algorithm groups the records by race, so records[r] holds those   *)
(* of race r in the order load_records meets them.  A record keeps its     *)
(* times, its outcome, and what decides its eligibility.  A fitted model   *)
(* is the records it has seen: what LightGBM computes is left out.         *)
(***************************************************************************)
EXTENDS Naturals, FiniteSets, Sequences, SequencesExt

CONSTANTS
    Races,
    ScheduledStart,   \* [Races -> Nat]
    CaptureTimes,     \* [Races -> SUBSET Nat], when a prediction of the race is saved
    SettleTimes,      \* [Races -> SUBSET Nat], when a result of the race is recorded
    Contested,        \* races with several snapshots, settlements or imports
    Outcomes,
    BASELINE, OtherEngine,
    MIN_RACES,        \* min_races of a training
    LastTime,         \* bound on the clock
    MaxRecords,       \* bound on the records of a contested race
    MaxTrainings      \* bound on the trainings into the one directory

ASSUME EvaluationAssumption ==
    /\ IsFiniteSet(Races) /\ Contested \subseteq Races
    /\ ScheduledStart \in [Races -> Nat \ {0}] /\ CaptureTimes \in [Races -> SUBSET Nat]
    /\ Outcomes # {} /\ BASELINE # OtherEngine
    /\ {LastTime, MaxRecords, MaxTrainings, MIN_RACES} \subseteq Nat

VARIABLES
    clock, snapshots, records,
    closed,          \* collection is over, what was collected is trained from
    trainings,       \* trainings started
    training,        \* the running one: files still to write, what it writes
    dir,             \* the model directory
    reader           \* load_models: contents read so far

collected == <<clock, snapshots, records, closed>>
artifact == <<trainings, training, dir, reader>>
vars == <<clock, snapshots, records, closed, trainings, training, dir, reader>>

Unscheduled == LastTime + 1                 \* a legacy record has no scheduled start

(***************************************************************************)
(* Settling.                                                               *)
(***************************************************************************)
build_history_record(r, captured, outcome) ==
    [captured |-> captured, scheduled |-> ScheduledStart[r], result |-> clock,
     outcome |-> outcome, engine |-> BASELINE, prospective |-> TRUE]

ValidSnapshot(r, captured) == captured < ScheduledStart[r]

CanSettle(r, captured) ==
    /\ ValidSnapshot(r, captured)
    /\ captured < clock
    /\ clock >= ScheduledStart[r]

(***************************************************************************)
(* ml/dataset.py: what a training may use.                                 *)
(***************************************************************************)
schedule_order(rec) ==
    rec.scheduled # Unscheduled => rec.captured < rec.scheduled /\ rec.scheduled <= rec.result

supervised_eligibility(rec) == rec.prospective /\ schedule_order(rec)

Later(held, rec) ==
    IF supervised_eligibility(rec) /\ (held # <<>> => rec.captured > held[1].captured)
    THEN <<rec>> ELSE held

select_latest_eligible_per_race(r) == FoldLeft(Later, <<>>, records[r])

TrainingRaces == {r \in Races : select_latest_eligible_per_race(r) # <<>>}

build_rows(inputs) ==
    {[race |-> r, rec |-> select_latest_eligible_per_race(r)[1]] : r \in inputs \cap TrainingRaces}

(***************************************************************************)
(* ml/evaluation_protocol.py: what the paired evaluation may use.          *)
(***************************************************************************)
Candidate(rec) ==
    /\ supervised_eligibility(rec)
    /\ rec.captured < rec.result
    /\ rec.engine = BASELINE

Candidates(r) == {rec \in ToSet(records[r]) : Candidate(rec)}

Tied(group) == {rec \in group : \A other \in group : other.captured <= rec.captured}

(* Mutant: only the results of the latest snapshots are compared. *)
ConflictingOutcomesOfLatest(group) == Cardinality({rec.outcome : rec \in Tied(group)}) # 1

ConflictingOutcomes(group) == Cardinality({rec.outcome : rec \in group}) # 1

ConflictingLatest(group) == Cardinality(Tied(group)) # 1

Selectable(r) ==
    LET group == Candidates(r)
    IN  group # {} /\ ~ConflictingOutcomes(group) /\ ~ConflictingLatest(group)

prepare_records ==
    {[race |-> r, rec |-> CHOOSE rec \in Tied(Candidates(r)) : TRUE] : r \in {x \in Races : Selectable(x)}}

AtLeast(m, n) == IF n < m THEN m ELSE n

(* sorted(times)[n] is the time that n others precede. *)
InOrder(times, n) == CHOOSE t \in times : Cardinality({u \in times : u < t}) = n

Boundary(times, floor, tenths) ==
    InOrder(times, AtLeast(floor, (Cardinality(times) * tenths) \div 10))

split_recordsUnpurged(items) ==
    LET times == {i.rec.captured : i \in items}
        valid_start == Boundary(times, 2, 6)
        test_start == Boundary(times, 3, 8)
    IN  IF Cardinality(times) < 5 THEN [train |-> {}, valid |-> {}, test |-> {}]
        ELSE [train |-> {i \in items : i.rec.captured < valid_start},
              valid |-> {i \in items : valid_start <= i.rec.captured /\ i.rec.captured < test_start},
              test |-> {i \in items : i.rec.captured >= test_start}]

split_records(items) ==
    LET times == {i.rec.captured : i \in items}
        valid_start == Boundary(times, 2, 6)
        test_start == Boundary(times, 3, 8)
    IN  IF Cardinality(times) < 5 THEN [train |-> {}, valid |-> {}, test |-> {}]
        ELSE [train |-> {i \in items : i.rec.captured < valid_start /\ i.rec.result < valid_start},
              valid |-> {i \in items : /\ valid_start <= i.rec.captured
                                       /\ i.rec.captured < test_start
                                       /\ i.rec.result < test_start},
              test |-> {i \in items : i.rec.captured >= test_start}]

readiness(split) == Cardinality(split.train) >= 2 /\ split.valid # {} /\ split.test # {}

TrainOne(train, valid) == [fitted |-> train, stopped |-> valid]

(* The evaluation's models and the races it scores them on. *)
evaluate_records ==
    LET split == split_records(prepare_records)
    IN  IF readiness(split)
        THEN [model |-> TrainOne(split.train, split.valid), scored |-> split.test]
        ELSE [model |-> TrainOne({}, {}), scored |-> {}]

(***************************************************************************)
(* Collecting.  A settlement writes a new file, wherever it falls in the   *)
(* reading order, or over an earlier file of the same race.                *)
(***************************************************************************)
Idle == [left |-> <<>>, gen |-> 0, blocked |-> FALSE]
NotReading == [at |-> 0, got |-> <<>>]

ModelFiles == <<"first", "second", "third">>
DirFiles == {"first", "second", "third", "schema", "metrics"}
Missing == [gen |-> 0, whole |-> FALSE, blocked |-> FALSE]

Snapshot(r) == {s \in snapshots : s.race = r}

Placed(r, rec) ==
    {InsertAt(records[r], i, rec) : i \in 1..(Len(records[r]) + 1)}
        \cup {ReplaceAt(records[r], i, rec) : i \in 1..Len(records[r])}

Room(r) == Len(records[r]) < (IF r \in Contested THEN MaxRecords ELSE 1)

TimePasses ==
    /\ clock < LastTime
    /\ clock' = clock + 1
    /\ UNCHANGED <<snapshots, records, closed, artifact>>

Capture(r) ==
    /\ ~closed /\ clock \in CaptureTimes[r] /\ (r \notin Contested => Snapshot(r) = {})
    /\ snapshots' = snapshots \cup {[race |-> r, captured |-> clock]}
    /\ UNCHANGED <<clock, records, closed, artifact>>

Settle(s, outcome) ==
    LET r == s.race IN
    /\ CanSettle(r, s.captured)
    /\ clock \in SettleTimes[r] /\ Room(r)
    /\ \E placed \in Placed(r, build_history_record(r, s.captured, outcome)) :
           records' = [records EXCEPT ![r] = placed]
    /\ UNCHANGED <<clock, snapshots, closed, artifact>>

(* A record of an earlier format, of another engine or of a backtest. *)
Imported(r, outcome) ==
    {[captured |-> c, scheduled |-> Unscheduled, result |-> clock, outcome |-> outcome,
      engine |-> BASELINE, prospective |-> TRUE] : c \in CaptureTimes[r]}
    \cup {[captured |-> c, scheduled |-> ScheduledStart[r], result |-> clock, outcome |-> outcome,
           engine |-> OtherEngine, prospective |-> TRUE] : c \in CaptureTimes[r]}
    \cup {[captured |-> c, scheduled |-> ScheduledStart[r], result |-> clock, outcome |-> outcome,
           engine |-> BASELINE, prospective |-> FALSE] : c \in CaptureTimes[r]}

Foreign(rec) == rec.scheduled = Unscheduled \/ rec.engine = OtherEngine \/ ~rec.prospective

(* One import for each contested race, at its start: a bound. *)
Import(r, outcome) ==
    /\ ~closed /\ clock = ScheduledStart[r] /\ Room(r) /\ \A rec \in ToSet(records[r]) : ~Foreign(rec)
    /\ \E rec \in Imported(r, outcome), i \in 1..(Len(records[r]) + 1) :
           records' = [records EXCEPT ![r] = InsertAt(@, i, rec)]
    /\ UNCHANGED <<clock, snapshots, closed, artifact>>

(***************************************************************************)
(* Training from the history files of the chosen races: three models, then *)
(* their schema, and the metrics last; too few races write only blocked    *)
(* metrics.  A file is opened for writing (empty) and then written.  gen   *)
(* is the training whose models, schema or metrics a file holds.           *)
(***************************************************************************)
WriteOrderMetricsFirst == <<"metrics", "schema">> \o ModelFiles

WriteOrder == ModelFiles \o <<"schema", "metrics">>

Train(inputs) ==
    /\ closed /\ trainings < MaxTrainings /\ training = Idle /\ build_rows(inputs) # {}
    /\ trainings' = trainings + 1
    /\ training' = IF Cardinality(build_rows(inputs)) < MIN_RACES
                   THEN [left |-> <<"metrics">>, gen |-> trainings', blocked |-> TRUE]
                   ELSE [left |-> WriteOrder, gen |-> trainings', blocked |-> FALSE]
    /\ UNCHANGED <<collected, dir, reader>>

Opened == [gen |-> training.gen, whole |-> FALSE, blocked |-> training.blocked]
Filled == [gen |-> training.gen, whole |-> TRUE, blocked |-> training.blocked]

OpenFile ==
    /\ training # Idle /\ dir[Head(training.left)] # Opened
    /\ dir' = [dir EXCEPT ![Head(training.left)] = Opened]
    /\ UNCHANGED <<collected, trainings, training, reader>>

WriteFile ==
    /\ training # Idle /\ dir[Head(training.left)] = Opened
    /\ dir' = [dir EXCEPT ![Head(training.left)] = Filled]
    /\ training' = IF Tail(training.left) = <<>> THEN Idle
                   ELSE [training EXCEPT !.left = Tail(@)]
    /\ UNCHANGED <<collected, trainings, reader>>

Interrupt ==
    /\ training # Idle
    /\ training' = Idle
    /\ UNCHANGED <<collected, trainings, dir, reader>>

(***************************************************************************)
(* Loading: schema and metrics first, then each model, then every file     *)
(* once more for the digest.  A missing file, partial JSON or blocked      *)
(* metrics refuse; nothing says that a model cut short is refused.         *)
(***************************************************************************)
ReadOrder == <<"schema", "metrics">> \o ModelFiles

Reads == ReadOrder \o ReadOrder

Acceptable(f, content) ==
    IF f \in ToSet(ModelFiles) THEN content # Missing ELSE content.whole /\ ~content.blocked

BeginLoad ==
    /\ trainings > 0 /\ reader = NotReading
    /\ reader' = [at |-> 1, got |-> <<>>]
    /\ UNCHANGED <<collected, trainings, training, dir>>

ReadFile ==
    LET content == dir[Reads[reader.at]] IN
    /\ reader.at \in 1..Len(Reads)
    /\ reader' = IF Acceptable(Reads[reader.at], content)
                 THEN [at |-> reader.at + 1, got |-> Append(reader.got, content.gen)]
                 ELSE NotReading
    /\ UNCHANGED <<collected, trainings, training, dir>>

Loaded == reader.at = Len(Reads) + 1

Release ==
    /\ Loaded
    /\ reader' = NotReading
    /\ UNCHANGED <<collected, trainings, training, dir>>

(***************************************************************************)
(* A collection starts empty; trainings start from a collection that is    *)
(* over, one record for each race, so that the two are explored side by    *)
(* side and not multiplied.                                                *)
(***************************************************************************)
Official == CHOOSE o \in Outcomes : TRUE

Recorded(r) ==
    <<[captured |-> ScheduledStart[r] - 1, scheduled |-> ScheduledStart[r], result |-> ScheduledStart[r],
       outcome |-> Official, engine |-> BASELINE, prospective |-> TRUE]>>

Init ==
    /\ snapshots = {} /\ trainings = 0 /\ training = Idle /\ reader = NotReading
    /\ dir = [f \in DirFiles |-> Missing]
    /\ closed \in BOOLEAN
    /\ clock = IF closed THEN LastTime ELSE 0
    /\ records = [r \in Races |-> IF closed THEN Recorded(r) ELSE <<>>]

Next ==
    \/ TimePasses
    \/ \E r \in Races : Capture(r)
    \/ \E s \in snapshots : \E o \in IF s.race \in Contested THEN Outcomes ELSE {Official} : Settle(s, o)
    \/ \E r \in Contested, o \in Outcomes : Import(r, o)
    \/ \E inputs \in {Races, Contested} : Train(inputs)
    \/ OpenFile \/ WriteFile \/ Interrupt
    \/ BeginLoad \/ ReadFile \/ Release

Spec == Init /\ [][Next]_vars

(***************************************************************************)
(* Properties.                                                             *)
(***************************************************************************)
(* split_records: a race is scored only with models that were fitted and   *)
(* stopped on results known before its prediction was made, and the models *)
(* are stopped only on races predicted after every fitted result.          *)
NoLookAhead ==
    LET e == evaluate_records IN
    /\ \A i \in e.scored, seen \in e.model.fitted \cup e.model.stopped : seen.rec.result < i.rec.captured
    /\ \A i \in e.model.stopped, seen \in e.model.fitted : seen.rec.result < i.rec.captured

(* prepare_records and select_latest_eligible_per_race, two computations   *)
(* apart: where every record a training may use is also one the evaluation *)
(* may use, both take the same record of a race the evaluation selects, in *)
(* whatever order the files are read.                                      *)
SelectionsAgree ==
    \A i \in prepare_records :
        (\A rec \in ToSet(records[i.race]) : supervised_eligibility(rec) => Candidate(rec))
        => select_latest_eligible_per_race(i.race) = <<i.rec>>

(* What is evaluated is what would be trained on, and learned only from    *)
(* what was known before.                                                  *)
EvaluationIsHonest == NoLookAhead /\ SelectionsAgree

(* conflicting_outcomes: once a race has two different results on file,    *)
(* adding records never makes it count again, however late their snapshots *)
(* were taken.                                                             *)
DisputeNotOutvoted ==
    [][\A r \in Races :
          /\ \E a, b \in Candidates(r) : a.outcome # b.outcome
          /\ Len(records'[r]) > Len(records[r])
          => \A i \in prepare_records' : i.race # r]_vars

(* load_models after train: what is loaded from a directory trained into   *)
(* once is the whole artifact of a training that finished, also while the  *)
(* training writes and when it was interrupted.                            *)
LoadedWhole ==
    Loaded /\ trainings = 1 =>
        /\ \A i \in 1..Len(reader.got) : reader.got[i] = 1
        /\ \A f \in DirFiles : dir[f] = [gen |-> 1, whole |-> TRUE, blocked |-> FALSE]
===============================================================================
