------------------------------ MODULE RaceIntake ------------------------------
(***************************************************************************)
(* One historical race, as the offline intakes see it: pages and tables    *)
(* saved at different times while the listed start moves, riders withdraw, *)
(* the race is run and its payouts are shown, at first perhaps wrongly.    *)
(* Three intakes turn them into review records:                            *)
(*   official  ml/historical_official_detail, _json and _records           *)
(*   list      ml/historical_official_results                              *)
(*   table     ml/historical_payouts, _entrants, _details and _records     *)
(* and ml/historical_training.prepare, over ml/historical_audit, puts an   *)
(* operator's confirmed and reviewed record in a training partition.       *)
(*                                                                         *)
(* A page's text is what it says; receipts match their bytes, rosters and  *)
(* names agree.  A digest is the record itself.  Each intake names the     *)
(* race in its own way, so a race_id is the intake the record is from.     *)
(***************************************************************************)
EXTENDS Naturals, FiniteSets, Sequences, SequencesExt

CONSTANTS
    Cars,
    ListedStart,        \* scheduled start as first listed
    Boundaries,         \* pairs <<validation_start, test_start>> tried
    Attested,           \* feature, start and result times an operator may fill in
    MaxTime             \* bound on the clock, and when the archive is worked on

ASSUME IntakeAssumption ==
    /\ IsFiniteSet(Cars) /\ Cardinality(Cars) \in 3..9
    /\ {ListedStart, MaxTime} \subseteq Nat
    /\ \A b \in Boundaries : b[1] < b[2]
    /\ Attested \subseteq (0..MaxTime) \X (0..MaxTime) \X (0..MaxTime)

VARIABLES
    now, starts,        \* the clock, the start as first listed and as listed now
    out,                \* cars withdrawn so far
    finish,             \* the result, NoFinish before the race is over
    shown,              \* trifecta outcomes paid according to the page
    cancelled,
    pre, head, res,     \* pages saved: before the race, header and result
    list, tables,       \* payout list saved, tables exported
    rows, reviews       \* records given to prepare, records reviewed

world == <<now, starts, out, finish, shown, cancelled>>
saved == <<pre, head, res, list, tables>>
file == <<rows, reviews>>
intakeVars == <<now, starts, out, finish, shown, cancelled, pre, head, res, list, tables, rows, reviews>>

None == <<>>
NoTime == MaxTime + 1
NoFinish == [c \in {} |-> 0]

Earliest(times) == CHOOSE t \in times : \A u \in times : t <= u
Latest(times) == CHOOSE t \in times : \A u \in times : t >= u

(***************************************************************************)
(* Finish orders.  result[c] has the rank of a finisher, 0 otherwise, and  *)
(* a state.                                                                *)
(***************************************************************************)
Ranked(result) == {c \in DOMAIN result : result[c].rank > 0}

Group(result, n) == {c \in DOMAIN result : result[c].rank = n}

(* sorted(groups.items()): the i-th is of the rank that i - 1 others precede. *)
GroupsInOrder(result) ==
    LET ranks == {result[c].rank : c \in Ranked(result)}
    IN  [i \in 1..Cardinality(ranks) |->
            Group(result, CHOOSE n \in ranks : Cardinality({m \in ranks : m < n}) = i - 1)]

Arrangements(S, k) == {s \in [1..k -> S] : \A i \in 1..k : \A j \in 1..(i - 1) : s[i] # s[j]}

AtMost(m, n) == IF n > m THEN m ELSE n

(* Ranks are as in a competition: two firsts are followed by a third. *)
CompetitionRanks(result) ==
    \A c \in Ranked(result) :
        result[c].rank = 1 + Cardinality({d \in Ranked(result) : result[d].rank < result[c].rank})

ExtendPrefixes(width, prefixes, group) ==
    LET used == Len(CHOOSE p \in prefixes : TRUE)
    IN  IF used = width THEN prefixes
        ELSE {p \o s : p \in prefixes, s \in Arrangements(group, AtMost(Cardinality(group), width - used))}

(* {} stands for the ValueError. *)
tied_rank_outcomes(result, width) ==
    IF ~CompetitionRanks(result) \/ Cardinality(Ranked(result)) < width THEN {}
    ELSE FoldLeft(LAMBDA ps, g : ExtendPrefixes(width, ps, g), {<<>>}, GroupsInOrder(result))

(* historical_payouts: the product of each group's permutations. *)
TakenBefore(groups, i) == Cardinality(UNION {groups[j] : j \in 1..(i - 1)})

(* Mutant: every tied group fills the whole width. *)
GroupChoicesWide(groups, width, i) == Arrangements(groups[i], AtMost(Cardinality(groups[i]), width))

GroupChoices(groups, width, i) ==
    Arrangements(groups[i], AtMost(Cardinality(groups[i]), width - TakenBefore(groups, i)))

outcomes(groups, width) ==
    LET needed == {i \in 1..Len(groups) : TakenBefore(groups, i) < width}
        n == Cardinality(needed)
        parts == {p \in [1..n -> UNION {GroupChoices(groups, width, i) : i \in needed}] :
                      \A i \in 1..n : p[i] \in GroupChoices(groups, width, i)}
    IN  IF TakenBefore(groups, Len(groups) + 1) < width THEN {} ELSE {FlattenSeq(p) : p \in parts}

Exactas(trifectas) == {SubSeq(t, 1, 2) : t \in trifectas}

(* "Refunded" in place of the payouts. *)
Refund == {<<>>}

Ordered(paid) == paid # {} /\ paid # Refund

(***************************************************************************)
(* official: one observation from the pages saved before and after, and    *)
(* their join.                                                             *)
(***************************************************************************)
PreIssues(p) == p.cancelled

ValidPre(p) == p # None /\ p.observed < Earliest({p.starts[1], p.starts[2]}) /\ ~PreIssues(p)

Withdrawn(result) == {c \in DOMAIN result : result[c].state = "dns"}

Classified(result) == \A c \in DOMAIN result : result[c].state # "dsq_unclear"

Repeated(result) == \E c, d \in Ranked(result) : c # d /\ result[c].rank = result[d].rank

(* The page's payouts are those of its finish order. *)
PayoutsAgree(r) ==
    /\ Ordered(r.exacta) /\ Ordered(r.trifecta)
    /\ r.exacta = Exactas(r.trifecta)
    /\ \A t \in r.trifecta : \A i \in 1..3 : t[i] \notin Withdrawn(r.result)
    /\ IF Repeated(r.result)
       THEN r.exacta = tied_rank_outcomes(r.result, 2) /\ r.trifecta = tied_rank_outcomes(r.result, 3)
       ELSE \E t \in r.trifecta : r.trifecta = {t} /\ \A i \in 1..3 : r.result[t[i]].rank = i

ingest_json_result(h, r) ==
    /\ h # None /\ r # None
    /\ r.result # NoFinish /\ r.trifecta # {}
    /\ Earliest({h.observed, r.observed}) >= Latest({h.starts[1], h.starts[2]})

ResultIssues(h, r) == h.cancelled \/ ~Classified(r.result) \/ ~PayoutsAgree(r)

(* Mutant: a withdrawal after the first page goes unnoticed. *)
JoinLateWithdrawal(p, h, r) ==
    LET listed == {p.starts[1], p.starts[2], h.starts[1], h.starts[2]}
        observed == Latest({h.observed, r.observed})
        active == Cars \ p.noted
    IN  IF /\ ValidPre(p) /\ ingest_json_result(h, r) /\ ~ResultIssues(h, r)
           /\ p.observed < Earliest(listed) /\ observed >= Latest(listed)
           /\ Cardinality(active) >= 3
           /\ ~Repeated(r.result)
        THEN {[source |-> "official", riders |-> active, feature |-> p.observed, start |-> Earliest(listed),
               result |-> observed, outcomes |-> r.trifecta, dead_heat |-> "no", styled |-> TRUE,
               confirmed |-> FALSE]}
        ELSE {}

join(p, h, r) ==
    LET listed == {p.starts[1], p.starts[2], h.starts[1], h.starts[2]}
        observed == Latest({h.observed, r.observed})
        active == Cars \ p.noted
    IN  IF /\ ValidPre(p) /\ ingest_json_result(h, r) /\ ~ResultIssues(h, r)
           /\ p.observed < Earliest(listed) /\ observed >= Latest(listed)
           /\ p.noted = Withdrawn(r.result)
           /\ Cardinality(active) >= 3
           /\ ~Repeated(r.result)
        THEN {[source |-> "official", riders |-> active, feature |-> p.observed, start |-> Earliest(listed),
               result |-> observed, outcomes |-> r.trifecta, dead_heat |-> "no", styled |-> TRUE,
               confirmed |-> FALSE]}
        ELSE {}

(***************************************************************************)
(* list: ordered payouts joined to what was printed before the race; no    *)
(* finish order, no style, dead heats unknown.                             *)
(***************************************************************************)
parse_result_list(l) == l # None /\ Ordered(l.exacta) /\ Ordered(l.trifecta) /\ l.exacta = Exactas(l.trifecta)

reconcile(p, l) ==
    IF p # None /\ parse_result_list(l) /\ p.observed < p.starts[1] /\ p.starts[1] <= l.observed
    THEN {[source |-> "list", riders |-> Cars, feature |-> p.observed, start |-> p.starts[1],
           result |-> l.observed, outcomes |-> l.trifecta, dead_heat |-> "unknown", styled |-> FALSE,
           confirmed |-> FALSE]}
    ELSE {}

(***************************************************************************)
(* table: exported results and payoffs collected and normalised, the card   *)
(* joined to them; no times.                                               *)
(***************************************************************************)
settlement(t, width, paid) ==
    LET expected == outcomes(GroupsInOrder(t.result), width)
    IN  paid = (IF expected = {} THEN Refund ELSE expected)

normalize(t) ==
    /\ t.held
    /\ CompetitionRanks(t.result)
    /\ settlement(t, 3, t.trifecta) /\ settlement(t, 2, t.exacta)

enrich(t) == t.card = Withdrawn(t.result)

convert(t) ==
    IF normalize(t) /\ enrich(t)
    THEN {[source |-> "table", riders |-> Cars, feature |-> NoTime, start |-> NoTime, result |-> NoTime,
           outcomes |-> t.trifecta \ Refund, dead_heat |-> IF Cardinality(t.trifecta) > 1 THEN "yes" ELSE "no", styled |-> TRUE,
           confirmed |-> FALSE]}
    ELSE {}

(* Two exports of one race: payoff rows with different outcomes add up, rows *)
(* with the same key and different contents are held back.                   *)
collect(exports) ==
    {[held |-> e.held, card |-> e.card, result |-> e.result,
      trifecta |-> UNION {x.trifecta : x \in exports}, exacta |-> UNION {x.exacta : x \in exports}] : e \in exports}

review_records(exports) ==
    UNION {convert(t) : t \in {u \in collect(exports) : collect(exports) = {u}}}

Converted == join(pre, head, res) \cup reconcile(pre, list) \cup review_records(tables)

(***************************************************************************)
(* The operator confirms what was converted.  A table's record has no      *)
(* times before somebody fills them in, rightly or not.                    *)
(***************************************************************************)
Confirmed(rec) == [rec EXCEPT !.confirmed = TRUE]

Timed(rec, t) == [rec EXCEPT !.feature = t[1], !.start = t[2], !.result = t[3]]

Supplied ==
    LET made == Converted
        tabled == {a \in made : a.source = "table"}
    IN  made \cup {Confirmed(a) : a \in made}
             \cup {Timed(Confirmed(a), t) : a \in tabled, t \in Attested}

(***************************************************************************)
(* prepare, over audit: the partition of each race_id, "none" if excluded. *)
(***************************************************************************)
OfRace(given, id) == {i \in 1..Len(given) : given[i].source = id}

Original(given, id) == given[Earliest(OfRace(given, id))]

(* Mutant: the first record wins. *)
ConflictingNever(given, id) == FALSE

Conflicting(given, id) == \E i \in OfRace(given, id) : given[i] # Original(given, id)

Audited(rec) ==
    /\ rec.confirmed
    /\ Cardinality(rec.outcomes) = 1
    /\ \A o \in rec.outcomes : \A i \in 1..3 : o[i] \in rec.riders

Reviewed(rec, reviewed) ==
    /\ rec \in reviewed
    /\ rec.dead_heat = "no"
    /\ NoTime \notin {rec.feature, rec.start, rec.result}
    /\ rec.feature < rec.start /\ rec.start <= rec.result
    /\ rec.styled

Partition(rec, b) ==
    IF rec.feature < b[1] THEN (IF rec.result < b[1] THEN "train" ELSE "none")
    ELSE IF rec.feature < b[2] THEN (IF rec.result < b[2] THEN "validation" ELSE "none")
    ELSE "test"

prepare(given, reviewed, b) ==
    [id \in {given[i].source : i \in 1..Len(given)} |->
        LET rec == Original(given, id)
        IN  IF Conflicting(given, id) \/ ~Audited(rec) \/ ~Reviewed(rec, reviewed) THEN "none"
            ELSE Partition(rec, b)]

(***************************************************************************)
(* The race and its pages.                                                 *)
(***************************************************************************)
Over == finish # NoFinish \/ cancelled

Tick ==
    /\ now < MaxTime
    /\ now' = now + 1
    /\ UNCHANGED <<starts, out, finish, shown, cancelled, saved, file>>

(* The start is listed anew, once, for some later time. *)
Reschedule ==
    /\ ~Over /\ starts[1] = starts[2] /\ now < starts[2]
    /\ \E t \in {ListedStart - 1, ListedStart + 1} : t > now /\ starts' = <<starts[1], t>>
    /\ UNCHANGED <<now, out, finish, shown, cancelled, saved, file>>

Withdraw(c) ==
    /\ ~Over /\ out = {} /\ now <= starts[2]
    /\ out' = {c}
    /\ UNCHANGED <<now, starts, finish, shown, cancelled, saved, file>>

Cancel ==
    /\ ~Over
    /\ cancelled' = TRUE
    /\ UNCHANGED <<now, starts, out, finish, shown, saved, file>>

Results ==
    LET Entry == {[rank |-> n, state |-> "finished"] : n \in 1..Cardinality(Cars)}
                     \cup {[rank |-> 0, state |-> s] : s \in {"dnf", "dsq_unclear"}}
        Withdrawal == [rank |-> 0, state |-> "dns"]
    IN  {[c \in Cars |-> IF c \in out THEN Withdrawal ELSE f[c]] : f \in
            {g \in [Cars \ out -> Entry] : CompetitionRanks(g) /\ Cardinality(Ranked(g)) + 1 >= Cardinality(Cars \ out)}}

Finish ==
    /\ ~Over /\ now >= starts[2]
    /\ finish' \in Results
    /\ UNCHANGED <<now, starts, out, shown, cancelled, saved, file>>

(* What is paid: every beginning of the orders the finish allows, or a refund. *)
Payable(result, width) ==
    IF Cardinality(Ranked(result)) < width THEN Refund
    ELSE {s \in Arrangements(Ranked(result), width) :
             \A i \in 1..width, c \in Ranked(result) :
                 result[c].rank < result[s[i]].rank => \E j \in 1..(i - 1) : s[j] = c}

(* Bounds: what is saved or shown after the records were assembled is not     *)
(* followed; a header is saved before its result page (nothing in it changes  *)
(* after the finish); and tables are exported twice only when no page is.     *)
Collecting == rows = <<>>

Exports == IF pre = None /\ head = None THEN 2 ELSE 1

(* The page shows the payouts, or at first one of them, or one misread backwards. *)
Publish ==
    /\ Collecting /\ finish # NoFinish
    /\ LET paid == Payable(finish, 3) IN
       \/ shown # paid /\ shown' = paid
       \/ shown = {} /\ \E t \in paid : shown' \in {{t}, {Reverse(t)}}
    /\ UNCHANGED <<now, starts, out, finish, cancelled, saved, file>>

ShownExactas == IF shown = Refund THEN Payable(finish, 2) ELSE Exactas(shown)

SavePre ==
    /\ Collecting /\ pre = None /\ finish = NoFinish
    /\ pre' = [observed |-> now, starts |-> starts, noted |-> out, cancelled |-> cancelled]
    /\ UNCHANGED <<world, head, res, list, tables, file>>

SaveHeader ==
    /\ Collecting /\ head = None /\ now >= ListedStart - 1
    /\ head' = [observed |-> now, starts |-> starts, cancelled |-> cancelled]
    /\ UNCHANGED <<world, pre, res, list, tables, file>>

SaveResultPage ==
    /\ Collecting /\ res = None /\ head # None /\ finish # NoFinish
    /\ res' = [observed |-> now, result |-> finish, trifecta |-> shown, exacta |-> ShownExactas]
    /\ UNCHANGED <<world, pre, head, list, tables, file>>

SaveList ==
    /\ Collecting /\ list = None /\ tables = {} /\ finish # NoFinish /\ now = MaxTime
    /\ list' = [observed |-> now, trifecta |-> shown, exacta |-> ShownExactas]
    /\ UNCHANGED <<world, pre, head, res, tables, file>>

(* The card may have been exported before a withdrawal. *)
ExportTables ==
    /\ Collecting /\ list = None /\ Cardinality(tables) < Exports /\ Over /\ now = MaxTime
    /\ \E card \in {{}, out} :
           tables' = tables \cup {[held |-> ~cancelled, card |-> card, result |-> finish,
                                   trifecta |-> shown, exacta |-> ShownExactas]}
    /\ UNCHANGED <<world, pre, head, res, list, file>>

(* Bound: a file has one record, or two different confirmed ones, of one      *)
(* race_id or of two.                                                        *)
Assemble ==
    /\ rows = <<>> /\ now = MaxTime
    /\ \E a, b \in Supplied :
           \/ a = b /\ rows' = <<a>>
           \/ a # b /\ a.confirmed /\ b.confirmed /\ rows' = <<a, b>>
    /\ UNCHANGED <<world, saved, reviews>>

(* Bound: reviews are written at once, of the first record of each race_id;  *)
(* prepare raises on a second one.                                           *)
Review ==
    /\ rows # <<>> /\ \A i \in 1..Len(rows) : rows[i].confirmed
    /\ reviews' = {Original(rows, rows[i].source) : i \in 1..Len(rows)}
    /\ UNCHANGED <<world, saved, rows>>

IntakeInit ==
    /\ now = 0 /\ starts = <<ListedStart, ListedStart>> /\ out = {} /\ finish = NoFinish
    /\ shown = {} /\ cancelled = FALSE
    /\ pre = None /\ head = None /\ res = None /\ list = None /\ tables = {}
    /\ rows = <<>> /\ reviews = {}

IntakeNext ==
    \/ Tick \/ Reschedule \/ (\E c \in Cars : Withdraw(c)) \/ Cancel
    \/ Finish \/ Publish
    \/ SavePre \/ SaveHeader \/ SaveResultPage \/ SaveList \/ ExportTables
    \/ Assemble \/ Review

IntakeSpec == IntakeInit /\ [][IntakeNext]_intakeVars

(***************************************************************************)
(* Properties.                                                             *)
(***************************************************************************)
(* tied_rank_outcomes and outcomes, two expansions of tied ranks: each     *)
(* gives exactly the beginnings of the orders the ranks allow.             *)
TiedOutcomesExact ==
    [][finish' # finish /\ Cardinality(Ranked(finish')) >= 3 =>
        /\ tied_rank_outcomes(finish', 3) = Payable(finish', 3)
        /\ outcomes(GroupsInOrder(finish'), 3) = Payable(finish', 3)
        /\ tied_rank_outcomes(finish', 2) = Payable(finish', 2)
        /\ outcomes(GroupsInOrder(finish'), 2) = Payable(finish', 2)]_intakeVars

(* prepare: whatever was saved when, and whatever the operator confirmed   *)
(* and filled in, every record of a race_id in a partition has the one     *)
(* order the race was won in, all riders that started, and a label known   *)
(* before the next partition begins.  From the official pages it also has  *)
(* no others, features from before the start as it was last listed and     *)
(* a label from after it; a table's times are only in order.               *)
PartitionedIsTrue ==
    \A b \in Boundaries, i \in 1..Len(rows) :
        LET rec == rows[i]
            part == prepare(rows, reviews, b)[rec.source]
        IN  part # "none" =>
            /\ finish # NoFinish /\ rec.outcomes = Payable(finish, 3)
            /\ Cars \ Withdrawn(finish) \subseteq rec.riders
            /\ rec.feature < rec.start /\ rec.start <= rec.result
            /\ part = "train" => rec.result < b[1]
            /\ part = "validation" => rec.result < b[2]
            /\ rec.source = "official" =>
                  /\ rec.riders = Cars \ Withdrawn(finish)
                  /\ rec.feature < starts[2] /\ starts[2] <= rec.result

===============================================================================
