-------------------------- MODULE ResultComparison --------------------------
(***************************************************************************)
(* How the evaluation harness decides whether the rows a query delivered  *)
(* answer the question.  The actual query and the trusted baseline run in *)
(* one REPEATABLE READ transaction; either may have been cut by a safety  *)
(* LIMIT, so each may be run once more with a wider one, under a row, a   *)
(* payload and a time budget; then the two answers, however incomplete,   *)
(* are judged correct, incorrect or unestablished, and the judgment is    *)
(* stored with a summary of its evidence that every reader revalidates    *)
(* (backend/app/evaluation/{runner,evidence,scoring,baseline}.py).        *)
(*                                                                         *)
(* A row is <<rank, id>>: the rank is what the question may order by.  A  *)
(* query is its population at each version of the data, whether it orders *)
(* by the rank, its LIMIT and whether its shape can be compared (no       *)
(* OFFSET, nested LIMIT or volatile function).                            *)
(***************************************************************************)
EXTENDS Integers, Sequences, FiniteSets, SequencesExt

CONSTANTS
    DefaultLimit,      \* rows added as LIMIT to a query that has none
    MaxLimit,          \* the largest LIMIT a query keeps, at least DefaultLimit
    EvidenceRowLimit,  \* rows retained of an auxiliary execution, at least MaxLimit
    PayloadLimit,      \* rows the three compared row sets may hold together
    Questions,             \* [kind, limit, ordered]: what the question asks for
    Worlds,            \* [right, written]: populations at versions 0 and 1
    Plans,             \* [answer, limit, ordered, supported]: actual queries
    NoLimit            \* no LIMIT clause; 0

VARIABLES
    pc,         \* the next step of the case
    version,    \* version of the data other transactions see
    snap,       \* version this transaction reads, fixed by its first statement
    case,       \* the question
    world,      \* what the tables hold
    plan,       \* the query the planner produced
    delivered,  \* rows the production execution returned
    baseline,   \* rows the baseline returned
    actual,     \* evidence side of the actual query
    expected,   \* evidence side of the baseline
    usable,     \* transaction_usable
    late,       \* the total acquisition time is spent
    record      \* the persisted judgment

casevars == <<pc, version, snap, case, world, plan, delivered, baseline, actual,
              expected, usable, late, record>>

\* What is asked of the constants: no limit is wider than the next one, a
\* question has a limit unless it asks for a population, a top-N question ranks,
\* and a world has a sequence of rows for both queries at both versions.
EvidenceSetting ==
    /\ NoLimit = 0 /\ DefaultLimit \in Nat \ {0}
    /\ MaxLimit \in Nat /\ EvidenceRowLimit \in Nat /\ PayloadLimit \in Nat
    /\ DefaultLimit <= MaxLimit /\ MaxLimit <= EvidenceRowLimit
    /\ \A q \in Questions :
          /\ q.kind \in {"population", "limit", "top_n"} /\ q.ordered \in BOOLEAN
          /\ q.limit \in Nat /\ (q.limit = NoLimit) = (q.kind = "population")
          /\ q.kind = "top_n" => q.ordered
    /\ \A q \in Plans : /\ q.answer \in {"right", "other"} /\ q.limit \in Nat
                        /\ q.ordered \in BOOLEAN /\ q.supported \in BOOLEAN
    /\ \A w \in Worlds : \A a \in {"right", "other"}, v \in 1..2 :
          w[a][v] \in Seq(Int \X Int)

-----------------------------------------------------------------------------
(* Rows *)

Rank(row) == row[1]
Count(rows, row) == Cardinality({i \in DOMAIN rows : rows[i] = row})

\* _unordered_rows_equal: duplicate-sensitive multisets.
_unordered_rows_equal(a, b) ==
    \A row \in ToSet(a) \cup ToSet(b) : Count(a, row) = Count(b, row)

_rows_are_subset(sample, rows) ==
    \A row \in ToSet(sample) : Count(sample, row) <= Count(rows, row)

\* _rank_precedes over neighbours.
InRankOrder(rows) ==
    \A i \in 1..(Len(rows) - 1) : Rank(rows[i]) <= Rank(rows[i + 1])

\* Of the rows that do not rank at the cutoff, two row sets hold the same.
EqualOffCutoff(a, b, cutoff) ==
    \A row \in ToSet(a) \cup ToSet(b) :
        Rank(row) # cutoff => Count(a, row) = Count(b, row)

\* Those sent that do not rank at the cutoff are all that rank above it.
EqualAboveCutoff(rows, sent, cutoff) ==
    \A row \in ToSet(rows) \cup ToSet(sent) :
        Rank(row) # cutoff =>
            Count(sent, row) = IF Rank(row) < cutoff THEN Count(rows, row) ELSE 0

\* What one execution of a query over pop may return under LIMIT n: any n
\* rows in any order, or, when ordered, a prefix up to ties of equal rank.
Executions(pop, ordered, n) ==
    LET m == IF n < Len(pop) THEN n ELSE Len(pop)
        choices == {f \in [1..m -> DOMAIN pop] :
                        \A i, j \in 1..m : i # j => f[i] # f[j]}
        rows(f) == [i \in 1..m |-> pop[f[i]]]
        kept(f) == {f[i] : i \in 1..m}
    IN  {rows(f) : f \in {g \in choices :
            ordered => /\ InRankOrder(rows(g))
                       /\ m > 0 => \A j \in DOMAIN pop \ kept(g) :
                                       Rank(pop[j]) >= Rank(rows(g)[m])}}

-----------------------------------------------------------------------------
(* Queries and their limits *)

Baseline == [answer |-> "right", limit |-> case.limit,
             ordered |-> case.ordered, supported |-> TRUE]

Population(q, v) == world[q.answer][v + 1]

\* Every row the query's own text asks for, whatever the limits of the run.
Answers(q, v) ==
    Executions(Population(q, v), q.ordered,
               IF q.limit = NoLimit THEN Len(Population(q, v)) ELSE q.limit)

limit_source(q) ==
    IF q.limit = NoLimit THEN "safety_added"
    ELSE IF q.limit > MaxLimit THEN "safety_clamped" ELSE "input"

effective_limit(q) ==
    IF q.limit = NoLimit THEN DefaultLimit
    ELSE IF q.limit > MaxLimit THEN MaxLimit ELSE q.limit

\* The LIMIT of the auxiliary statement: one row more than is retained.
widened_limit(q) ==
    IF q.limit = NoLimit \/ q.limit > EvidenceRowLimit
    THEN EvidenceRowLimit + 1 ELSE q.limit

\* build_auxiliary_validation: only a safety limit is widened.
build_auxiliary_validation(q) == limit_source(q) # "input" /\ q.supported

_execution_exhausted(n, limit, truncated) == ~truncated /\ n < limit

_executed_answer_is_complete(q, limit, truncated, exhausted) ==
    /\ ~truncated
    /\ \/ exhausted /\ (limit_source(q) = "input" => q.supported)
       \/ case.limit # NoLimit /\ q.limit = case.limit /\ limit = case.limit

-----------------------------------------------------------------------------
(* Evidence *)

\* observed_evidence_side: what the production execution itself proves.
observed_evidence_side(rows, q) ==
    LET exhausted == _execution_exhausted(Len(rows), effective_limit(q), FALSE)
        whole == _executed_answer_is_complete(q, effective_limit(q), FALSE,
                                              exhausted)
    IN  [rows |-> rows,
         complete |-> whole /\ q.supported,
         eligible |-> q.supported,
         exhausted |-> exhausted /\ q.supported,
         reason |-> IF whole /\ q.supported THEN "none"
                    ELSE IF ~q.supported THEN "unsupported_query_shape"
                    ELSE "nonsemantic_bound_reached",
         delivery |-> IF whole THEN "complete"
                      ELSE IF limit_source(q) # "input" THEN "safety_limited"
                      ELSE "unknown",
         observed |-> 1, auxiliary |-> 0, slow |-> FALSE]

\* A side for which nothing was executed, or whose execution failed.
NoSide(reason, n) ==
    [rows |-> <<>>, complete |-> FALSE, eligible |-> FALSE,
     exhausted |-> FALSE, reason |-> reason, delivery |-> "unknown",
     observed |-> n, auxiliary |-> 0, slow |-> FALSE]

\* What one auxiliary statement may come back with: execute_validated_sql
\* with a row limit, a payload budget and a deadline on the shared snapshot.
AuxiliaryRuns(q, budget) ==
    LET full == Executions(Population(q, snap), q.ordered, widened_limit(q))
        room == IF budget < EvidenceRowLimit THEN budget ELSE EvidenceRowLimit
        kept(s) == IF Len(s) <= room THEN Len(s) ELSE room
        run(ok, rows, truncated, payload, timeout, slow) ==
            [ok |-> ok, rows |-> rows, truncated |-> truncated,
             payload |-> payload, timeout |-> timeout, slow |-> slow]
    IN  {run(FALSE, <<>>, FALSE, FALSE, t, FALSE) : t \in BOOLEAN}
        \cup {run(TRUE, SubSeq(s, 1, kept(s)),
                  Len(s) > room /\ room = EvidenceRowLimit,
                  Len(s) > room /\ room < EvidenceRowLimit, FALSE, slow) :
                    s \in full, slow \in BOOLEAN}
        \cup UNION {{run(TRUE, SubSeq(s, 1, k), FALSE, FALSE, TRUE, FALSE) :
                        k \in 0..kept(s)} : s \in full}

\* Mutation: A slow statement keeps the reason its rows gave it.
auxiliary_side_keeping_reason(q, r, observed) ==
    LET whole == /\ r.ok /\ ~r.payload /\ ~r.timeout
                 /\ _executed_answer_is_complete(q, widened_limit(q), r.truncated,
                        _execution_exhausted(Len(r.rows), widened_limit(q),
                                             r.truncated))
    IN  [rows |-> r.rows, complete |-> whole, eligible |-> q.supported,
         exhausted |-> whole, delivery |-> "unknown",
         reason |-> IF whole THEN "none" ELSE "evidence_row_budget_exceeded",
         observed |-> observed.observed, auxiliary |-> 1, slow |-> r.slow]

\* auxiliary_evidence_side, with acquire's verdict on a statement that took
\* longer than its budget.
auxiliary_evidence_side(q, r, observed) ==
    LET exhausted == /\ _execution_exhausted(Len(r.rows), widened_limit(q),
                                             r.truncated)
                     /\ ~r.payload /\ ~r.timeout /\ q.supported
        whole == /\ _executed_answer_is_complete(q, widened_limit(q),
                                                 r.truncated, exhausted)
                 /\ ~r.payload /\ ~r.timeout /\ q.supported
        complete == r.ok /\ whole /\ ~r.slow
    IN  [rows |-> r.rows,
         complete |-> complete,
         eligible |-> q.supported,
         exhausted |-> r.ok /\ exhausted /\ ~r.slow,
         reason |-> IF r.slow THEN "evidence_timeout"
                    ELSE IF ~r.ok THEN (IF r.timeout THEN "evidence_timeout"
                                        ELSE "completeness_evidence_missing")
                    ELSE IF complete THEN "none"
                    ELSE IF r.timeout THEN "evidence_timeout"
                    ELSE IF r.payload THEN "evidence_payload_exceeded"
                    ELSE IF r.truncated THEN "evidence_row_budget_exceeded"
                    ELSE "nonsemantic_bound_reached",
         delivery |-> IF complete THEN "complete" ELSE "unknown",
         observed |-> observed.observed, auxiliary |-> 1, slow |-> r.slow]

\* comparison_payload_size, in rows.
comparison_payload_size(a, b, c) == Len(a) + Len(b) + Len(c)

\* acquire: the evidence for one side, or why there is none.
acquire(side, q, budget) ==
    IF side.complete THEN {[side |-> side, ok |-> TRUE]}
    ELSE IF late \/ ~usable \/ budget <= 0 \/ ~build_auxiliary_validation(q)
    THEN {[side |-> [side EXCEPT !.reason =
                IF late THEN "evidence_timeout"
                ELSE IF budget <= 0 THEN "evidence_payload_exceeded"
                ELSE IF ~usable THEN "evidence_timeout"
                ELSE "unsupported_query_shape"], ok |-> TRUE]}
    ELSE {[side |-> auxiliary_evidence_side(q, r, side), ok |-> r.ok] :
                r \in AuxiliaryRuns(q, budget)}

ActualDelivery == observed_evidence_side(delivered, plan).delivery

Evidence(e, a, compatible) ==
    [expected |-> e, actual |-> a, delivery |-> ActualDelivery,
     limit |-> IF ActualDelivery = "safety_limited"
               THEN effective_limit(plan) ELSE NoLimit,
     compatible |-> compatible]

-----------------------------------------------------------------------------
(* Judgment *)

\* What the column provenance of the two queries establishes: whether each
\* has one, and whether their columns are the same.
Provenances == [expected : BOOLEAN, actual : BOOLEAN, same : BOOLEAN]
_has_complete_provenance(p) == p.expected /\ p.actual

\* _row_shapes differ: the rows have other columns, or one side has no row.
ShapesDiffer(p, a, b) ==
    IF a = <<>> \/ b = <<>> THEN a # b ELSE ~p.same

\* How far two row sets of different queries can be compared at all.
Comparable(p, a, b) ==
    IF _has_complete_provenance(p) THEN (IF p.same THEN "yes" ELSE "differ")
    ELSE IF ShapesDiffer(p, a, b) THEN "unproved" ELSE "yes"

_compare_normalized_rows(exp, act) ==
    IF ~case.ordered THEN _unordered_rows_equal(exp, act)
    ELSE /\ InRankOrder(act)
         /\ _unordered_rows_equal(exp, act)
         /\ \A i \in DOMAIN exp : Rank(exp[i]) = Rank(act[i])

_compare_rows(p, exp, act) ==
    /\ Len(exp) = Len(act)
    /\ Comparable(p, exp, act) # "differ"
    /\ _compare_normalized_rows(exp, act)

_delivery_cardinality_is_valid(n, d, delivery, limit) ==
    \/ delivery = "complete" /\ d = n
    \/ delivery = "safety_limited" /\ d = IF limit < n THEN limit ELSE n

_delivery_is_valid(rows, sent, delivery, limit) ==
    /\ _delivery_cardinality_is_valid(Len(rows), Len(sent), delivery, limit)
    /\ _rows_are_subset(sent, rows)
    /\ case.ordered =>
          /\ InRankOrder(sent)
          /\ IF sent = <<>> THEN rows = <<>>
             ELSE EqualAboveCutoff(rows, sent, Rank(sent[Len(sent)]))

\* "yes", "no" or "unproved".
Three(c, holds) == IF c = "differ" THEN "no" ELSE IF c = "unproved" THEN c
                   ELSE IF holds THEN "yes" ELSE "no"

\* Two executions of the same query: only its own provenance is needed.
_actual_delivery_is_valid(p, ev) ==
    Three(IF ~p.actual /\ ShapesDiffer([p EXCEPT !.same = TRUE],
                                       ev.actual.rows, delivered)
          THEN "unproved" ELSE "yes",
          _delivery_is_valid(ev.actual.rows, delivered, ev.delivery, ev.limit))

_sample_is_valid_delivery(p, ev) ==
    Three(Comparable(p, ev.expected.rows, delivered),
          _delivery_is_valid(ev.expected.rows, delivered, ev.delivery, ev.limit))

_sample_is_compatible_subset(p, rows, sample) ==
    Three(Comparable(p, rows, sample), _rows_are_subset(sample, rows))

_unordered_limit_selection_unproved(ev) ==
    /\ case.kind = "limit"
    /\ ~ev.expected.exhausted \/ ~ev.actual.exhausted

_only_cutoff_tie_membership_differs(p, exp, act) ==
    /\ case.kind = "top_n" /\ case.ordered
    /\ Len(exp) = case.limit /\ Len(act) = case.limit
    /\ Comparable(p, exp, act) # "differ"
    /\ InRankOrder(exp) /\ InRankOrder(act)
    /\ LET cutoff == Rank(exp[Len(exp)])
       IN  /\ cutoff = Rank(act[Len(act)])
           /\ EqualOffCutoff(exp, act, cutoff)

Correct == [state |-> "correct", reason |-> "none"]
Incorrect == [state |-> "incorrect", reason |-> "none"]
_unestablished(reason) == [state |-> "unestablished", reason |-> reason]

Fits(a, b, c) == comparison_payload_size(a, b, c) <= PayloadLimit

\* The witnesses of a defect that need no complete pair of answers.
Witness(p, ev) ==
    LET e == ev.expected
        a == ev.actual
        known == IF a.complete THEN Len(a.rows)
                 ELSE IF e.complete /\ a.eligible THEN Len(e.rows) ELSE -1
    IN  \/ e.complete /\ a.complete /\ Len(e.rows) # Len(a.rows)
        \/ e.complete /\ a.eligible /\ Len(a.rows) > Len(e.rows)
        \/ a.complete /\ e.eligible /\ Len(e.rows) > Len(a.rows)
        \/ /\ known # -1 /\ ev.delivery # "unknown"
           /\ ~_delivery_cardinality_is_valid(known, Len(delivered),
                                              ev.delivery, ev.limit)
        \/ /\ e.complete /\ ~a.complete /\ a.eligible
           /\ ev.delivery # "unknown" /\ Fits(e.rows, delivered, <<>>)
           /\ _sample_is_valid_delivery(p, ev) = "no"
        \/ /\ a.complete /\ Fits(a.rows, delivered, <<>>)
           /\ _actual_delivery_is_valid(p, ev) = "no"

\* Both answers are whole.
CompareWhole(p, ev) ==
    LET exp == ev.expected.rows
        act == ev.actual.rows
    IN  IF _unordered_limit_selection_unproved(ev)
        THEN _unestablished("bounded_selection_unestablished")
        ELSE IF Comparable(p, exp, act) = "unproved"
        THEN _unestablished("comparison_proof_unavailable")
        ELSE IF ~_compare_rows(p, exp, act)
        THEN IF _only_cutoff_tie_membership_differs(p, exp, act)
             THEN _unestablished("ranking_tie_unestablished") ELSE Incorrect
        ELSE IF ev.delivery = "unknown"
        THEN _unestablished("completeness_evidence_missing")
        ELSE LET valid == _actual_delivery_is_valid(p, ev)
             IN  IF valid = "unproved"
                 THEN _unestablished("comparison_proof_unavailable")
                 ELSE IF valid = "no" THEN Incorrect ELSE Correct

\* One answer is whole and the other a sample, or neither is whole.
CompareSample(p, ev) ==
    LET e == ev.expected
        a == ev.actual
        open == _unestablished(IF e.reason # "none" THEN e.reason
                               ELSE IF a.reason # "none" THEN a.reason
                               ELSE "completeness_evidence_missing")
        sent == _sample_is_valid_delivery(p, ev)
        own == _actual_delivery_is_valid(p, ev)
        unproved == _unestablished("comparison_proof_unavailable")
    IN  IF e.complete
        THEN IF ev.delivery # "unknown" /\ sent = "no" THEN Incorrect
             ELSE IF ev.delivery # "unknown" /\ sent = "unproved" THEN unproved
             ELSE IF /\ a.rows # delivered
                     /\ _sample_is_compatible_subset(p, e.rows, a.rows) = "no"
             THEN Incorrect ELSE open
        ELSE IF a.complete
        THEN IF own = "no" THEN Incorrect
             ELSE IF own = "unproved" THEN unproved
             ELSE IF _sample_is_compatible_subset(p, a.rows, e.rows) = "no"
             THEN Incorrect ELSE open
        ELSE open

_compare_with_evidence(p, ev) ==
    LET e == ev.expected
        a == ev.actual
        third == IF a.auxiliary = 1 THEN delivered ELSE <<>>
    IN  IF ~ev.compatible
        THEN _unestablished("comparison_context_unestablished")
        ELSE IF Witness(p, ev) THEN Incorrect
        ELSE IF ~Fits(e.rows, a.rows, third)
        THEN _unestablished("evidence_payload_exceeded")
        ELSE IF ~e.eligible \/ ~a.eligible
        THEN _unestablished(IF ~e.eligible THEN e.reason ELSE a.reason)
        ELSE IF e.complete /\ a.complete THEN CompareWhole(p, ev)
        ELSE CompareSample(p, ev)

\* The contract part of score_evaluation_case: the planner's semantic plan
\* may refute a judgment, and a free question is correct only if it agrees.
Contracted(j, contract) ==
    IF contract = "failed" /\ j.state # "incorrect" THEN Incorrect
    ELSE IF contract = "unknown" /\ j.state = "correct"
    THEN _unestablished("comparison_proof_unavailable") ELSE j

\* The columns, and, for the properties alone, what the comparison said by
\* itself, whether the columns of the answers may be the same, and whether the
\* judgment raised.
Stored(j, delivery, tables, ev, judged, columns, raised) ==
    [state |-> j.state, reason |-> j.reason, delivery |-> delivery,
     passed |-> j.state = "correct" /\ tables, evidence |-> ev,
     judged |-> judged, columns |-> columns, raised |-> raised]

-----------------------------------------------------------------------------
(* The reader's revalidation of a stored judgment *)

_safe_side_summary(s) ==
    /\ s.complete => s.eligible /\ s.observed + s.auxiliary >= 1
    /\ s.complete = (s.reason = "none")
    /\ Len(s.rows) <= EvidenceRowLimit
    /\ s.rows # <<>> => s.observed + s.auxiliary >= 1
    /\ s.slow => ~s.complete /\ s.reason = "evidence_timeout"

_limitation_is_supported(ev, reason) ==
    LET open == {s.reason : s \in {t \in {ev.expected, ev.actual} : ~t.complete}}
    IN  CASE reason \in {"evidence_execution_failed", "evidence_timeout",
                         "evidence_row_budget_exceeded",
                         "evidence_validation_failed",
                         "nonsemantic_bound_reached",
                         "unsupported_query_shape"} -> reason \in open
          [] reason = "evidence_payload_exceeded" -> TRUE
          [] reason \in {"bounded_selection_unestablished",
                         "ranking_tie_unestablished"} -> open = {}
          [] reason = "completeness_evidence_missing" ->
                 open # {} \/ ev.delivery = "unknown"
          [] reason = "comparison_proof_unavailable" ->
                 ev.compatible /\ ev.expected.eligible /\ ev.actual.eligible
          [] reason = "comparison_context_unestablished" -> ~ev.compatible

evidence_summary_supports_judgment(ev, state, delivery, reason) ==
    /\ _safe_side_summary(ev.expected) /\ _safe_side_summary(ev.actual)
    /\ ev.delivery = delivery
    /\ (delivery = "safety_limited") = (ev.limit # NoLimit)
    /\ CASE state = "correct" ->
              /\ ev.compatible /\ ev.expected.complete /\ ev.actual.complete
              /\ delivery \in {"complete", "safety_limited"}
         [] state = "unestablished" -> _limitation_is_supported(ev, reason)
         [] state = "incorrect" -> TRUE

validate_persisted_comparison_contract(r) ==
    /\ (r.state = "unestablished") = (r.reason # "none")
    /\ r.state # "correct" => ~r.passed
    /\ r.state = "correct" => r.delivery \in {"complete", "safety_limited"}
    /\ evidence_summary_supports_judgment(r.evidence, r.state, r.delivery,
                                          r.reason)

-----------------------------------------------------------------------------
(* The steps of one case *)

NoSideYet == NoSide("none", 0)
NoRecord == [state |-> "none"]

CaseInit ==
    /\ pc = "actual" /\ version = 0 /\ snap = 0
    /\ case \in Questions /\ world \in Worlds /\ plan \in Plans
    /\ delivered = <<>> /\ baseline = <<>>
    /\ actual = NoSideYet /\ expected = NoSideYet
    /\ usable = TRUE /\ late = FALSE /\ record = NoRecord

\* Another transaction commits a change to the tables.
Write ==
    /\ version = 0 /\ pc # "done"
    /\ version' = 1
    /\ UNCHANGED <<pc, snap, case, world, plan, delivered, baseline, actual,
                   expected, usable, late, record>>

\* query_runtime_transaction opens with the actual query's first statement;
\* the snapshot it takes serves every later statement of the case.
RunActual ==
    /\ pc = "actual"
    /\ snap' = version
    /\ \E rows \in Executions(Population(plan, version), plan.ordered,
                              effective_limit(plan)) :
          /\ delivered' = rows
          /\ actual' = observed_evidence_side(rows, plan)
    /\ pc' = "baseline"
    /\ UNCHANGED <<version, case, world, plan, baseline, expected, usable, late,
                   record>>

\* Mutation: Read committed: the baseline sees what has been written since.
RunBaselineLive ==
    /\ pc = "baseline"
    /\ \E rows \in Executions(Population(Baseline, version), Baseline.ordered,
                              effective_limit(Baseline)) :
          /\ baseline' = rows
          /\ expected' = observed_evidence_side(rows, Baseline)
    /\ pc' = IF actual.complete /\ expected'.complete
             THEN "judge" ELSE "aux_actual"
    /\ UNCHANGED <<version, snap, case, world, plan, delivered, actual, usable,
                   late, record>>

\* execute_evaluation_baseline on the same connection.
RunBaseline ==
    /\ pc = "baseline"
    /\ \E rows \in Executions(Population(Baseline, snap), Baseline.ordered,
                              effective_limit(Baseline)) :
          /\ baseline' = rows
          /\ expected' = observed_evidence_side(rows, Baseline)
    /\ pc' = IF actual.complete /\ expected'.complete
             THEN "judge" ELSE "aux_actual"
    /\ UNCHANGED <<version, snap, case, world, plan, delivered, actual, usable,
                   late, record>>

\* Judge and persist: score_evaluation_case, then _persist_result.
JudgeWith(ev) ==
    \E p \in Provenances, contract \in {"passed", "failed", "unknown"},
       tables \in BOOLEAN :
        /\ record' = Stored(Contracted(_compare_with_evidence(p, ev), contract),
                            ev.delivery, tables, ev,
                            _compare_with_evidence(p, ev).state,
                            ~_has_complete_provenance(p) \/ p.same, FALSE)
        /\ pc' = "done"

Kept == UNCHANGED <<version, snap, case, world, plan, delivered, baseline, usable,
                    late>>

\* The baseline is refused or fails: _baseline_limitation_evidence.
BaselineFails ==
    /\ pc = "baseline"
    /\ \E why \in {<<"evidence_validation_failed", 0>>, <<"evidence_timeout", 1>>,
                   <<"comparison_context_unestablished", 1>>,
                   <<"evidence_execution_failed", 1>>} :
          /\ expected' = NoSide(why[1], why[2])
          /\ JudgeWith(Evidence(NoSide(why[1], why[2]), actual,
                                why[1] # "comparison_context_unestablished"))
    /\ UNCHANGED actual /\ Kept

\* Any other failure of the baseline, of the evidence or of the context's
\* teardown: _comparison_context_evidence, with the baseline if it ran.
ContextFails ==
    /\ pc \in {"baseline", "aux_actual", "aux_expected"}
    /\ expected' = IF pc = "baseline"
                   THEN NoSide("comparison_context_unestablished", 0)
                   ELSE observed_evidence_side(baseline, Baseline)
    /\ actual' = observed_evidence_side(delivered, plan)
    /\ JudgeWith(Evidence(expected', actual', FALSE))
    /\ Kept

\* The time budget runs out between the two acquisitions.
Delay ==
    /\ pc \in {"aux_actual", "aux_expected"} /\ ~late
    /\ late' = TRUE
    /\ UNCHANGED <<pc, version, snap, case, world, plan, delivered, baseline,
                   actual, expected, usable, record>>

AcquireActual ==
    /\ pc = "aux_actual"
    /\ LET base == comparison_payload_size(
                       IF expected.complete THEN expected.rows ELSE <<>>, <<>>,
                       IF actual.complete THEN <<>> ELSE delivered)
       IN  \E r \in acquire(actual, plan, PayloadLimit - base) :
             /\ actual' = r.side
             /\ usable' = r.ok
    /\ pc' = "aux_expected"
    /\ UNCHANGED <<version, snap, case, world, plan, delivered, baseline, expected,
                   late, record>>

AcquireExpected ==
    /\ pc = "aux_expected"
    /\ LET base == comparison_payload_size(<<>>, actual.rows,
                       IF actual.auxiliary = 1 THEN delivered ELSE <<>>)
       IN  \E r \in acquire(expected, Baseline, PayloadLimit - base) :
             /\ expected' = r.side
             /\ usable' = (usable /\ r.ok)
    /\ pc' = "judge"
    /\ UNCHANGED <<version, snap, case, world, plan, delivered, baseline, actual,
                   late, record>>

JudgeCase ==
    /\ pc = "judge"
    /\ JudgeWith(Evidence(expected, actual, TRUE))
    /\ UNCHANGED <<actual, expected>> /\ Kept

\* The judgment itself raises: _post_execution_failure_score takes the
\* delivery the executor reported and stores context evidence.
JudgmentFails ==
    /\ pc = "judge"
    /\ actual' = observed_evidence_side(delivered, plan)
    /\ expected' = NoSide("comparison_context_unestablished", 0)
    /\ LET reported == IF /\ limit_source(plan) # "input"
                          /\ Len(delivered) >= effective_limit(plan)
                       THEN "safety_limited" ELSE "complete"
           ev == Evidence(expected', actual', FALSE)
       IN  record' = Stored(_unestablished("comparison_context_unestablished"),
                            reported, TRUE, ev, "unestablished", TRUE, TRUE)
    /\ pc' = "done" /\ Kept

\* The case is over.
Done == pc = "done" /\ UNCHANGED casevars

CaseNext ==
    \/ Write \/ RunActual \/ RunBaseline \/ BaselineFails \/ ContextFails
    \/ Delay \/ AcquireActual \/ AcquireExpected \/ JudgeCase \/ JudgmentFails
    \/ Done

CaseSpec == CaseInit /\ [][CaseNext]_casevars


-----------------------------------------------------------------------------
(* What a judgment means *)

Judged(state) == record.state # "none" /\ record.judged = state

\* Two whole answers, one of each query, that the question's reader could not
\* tell apart.
Agree(e, a) == _compare_normalized_rows(e, a) /\ Len(e) = Len(a)

\* The query may answer whatever the baseline may answer and, when the question
\* ranks and the query does not, never owes it to luck.
Innocent ==
    LET mine == Answers(plan, snap)
        its == Answers(Baseline, snap)
    IN  /\ \A e \in its : \E a \in mine : Agree(e, a)
        /\ case.ordered /\ ~plan.ordered => \A a \in mine : \E e \in its : Agree(e, a)

\* A judgment is a proof, never drawn from the rows that happened to be
\* delivered (scoring.py _compare_with_evidence).  "Correct": at the moment of the
\* snapshot some pair of whole answers of the two queries agrees, and when the
\* question asks for a whole population the two populations are the same
\* multiset.  "Incorrect": no timeout, budget, failed statement, tie or partial
\* sample makes a query that may answer a population or top-N question as the
\* baseline may wrong (bounded-result-evidence.md: "Different visible partial
\* subsets do not prove different populations").  It is silent about a query that is
\* right for one way only of breaking a tie at the baseline's cutoff: that is not
\* Innocent, and when its whole population cannot be shown it may be judged incorrect
\* on partial evidence (scoring.py:715), although differing membership of an
\* unresolved tie stays `unestablished` (bounded-result-evidence.md:118).
JudgmentIsProof ==
    /\ Judged("correct") =>
          /\ plan.supported /\ record.columns
          /\ \E e \in Answers(Baseline, snap), a \in Answers(plan, snap) : Agree(e, a)
          /\ case.kind = "population" =>
                _unordered_rows_equal(Population(Baseline, snap), Population(plan, snap))
    /\ Judged("incorrect") /\ record.columns /\ case.kind # "limit" =>
          ~Innocent \/ ~plan.supported

\* Every judgment the runner stores, except one that raised, is one its own readers
\* accept: a rejected row silently leaves the case out of every metric and fails
\* the readiness gate as malformed
\* (evidence.py validate_persisted_comparison_contract).
StoredIsReadable ==
    (record.state # "none" /\ ~record.raised)
        => validate_persisted_comparison_contract(record)
=============================================================================
