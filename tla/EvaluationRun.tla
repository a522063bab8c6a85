---------------------------- MODULE EvaluationRun ----------------------------
(***************************************************************************)
(* An evaluation run and the people who read it while it is going on.     *)
(* The runner selects cases, creates a RUNNING row, and for each case     *)
(* executes the production query, gathers evidence, judges, and commits   *)
(* one result row; then it writes the summary and the final status.  Each *)
(* of these is a transaction of its own: any may fail, and the process    *)
(* may stop between any two (backend/app/evaluation/{runner,selection,    *)
(* read_service}.py).  What a judgment says is ResultComparison's matter; *)
(* here it is any of the verdicts the evidence allows.                    *)
(***************************************************************************)
EXTENDS Integers, Sequences, FiniteSets

CONSTANTS
    Runs,       \* invocations of the runner
    Readers,    \* requests of the evaluation API
    CaseOrder,  \* the data set, in its order; a case is
                \* [id, expects, template, security, actor]
    Canary,     \* identifiers of the frozen canary suite, in order
    Services,   \* the answers of QueryEngineService.run to try
    Filters,    \* the command-line selections to try
    Sight,      \* [Readers -> set of actors whose cases the reader sees]
    MaxFaults   \* database and process failures in one behaviour

VARIABLES
    db,         \* [Runs -> [status, rows, summary, selected]]: what is committed
    ended,      \* finished runs in the order of completed_at
    loc,        \* [Runs -> local variables of EvaluationRunner.run]
    rd,         \* [Readers -> local variables of EvaluationReadService]
    actors,     \* the seeded evaluation actors are intact
    faults

vars == <<db, ended, loc, rd, actors, faults>>

None == "none"
Cases == {CaseOrder[i] : i \in DOMAIN CaseOrder}
Ids == {c.id : c \in Cases}
CaseOf(id) == CHOOSE c \in Cases : c.id = id

\* What is asked of the constants: no two cases of the data set have one
\* identifier, and the canary suite names each of its cases once.
Setting ==
    /\ CaseOrder \in Seq(Cases) /\ Canary \in Seq(Ids)
    /\ \A i, j \in DOMAIN CaseOrder : CaseOrder[i].id = CaseOrder[j].id => i = j
    /\ \A i, j \in DOMAIN Canary : Canary[i] = Canary[j] => i = j

-----------------------------------------------------------------------------
(* Selection *)

_matches(c, filter) ==
    CASE filter = "all" -> TRUE
      [] filter = "security" -> c.security
      [] OTHER -> c.id = filter

\* A suite is its cases in the order they are run in: the canary suite keeps
\* its own.
Order(suite) ==
    IF suite = "canary" THEN Canary ELSE [i \in DOMAIN CaseOrder |-> CaseOrder[i].id]

\* The positions selected; the canary suite takes no filter, and a selection of
\* nothing is refused.
select_evaluation_suite(suite, filter) ==
    IF suite = "canary"
    THEN IF filter = "all" THEN DOMAIN Canary ELSE {}
    ELSE {i \in DOMAIN CaseOrder : _matches(CaseOrder[i], filter)}

-----------------------------------------------------------------------------
(* What the query engine answered *)

\* The parts of a QueryEngineServiceResult the classification looks at.
ServiceResult(s) ==
    [succeeded |-> s = "succeeded",
     provider |-> s \in {"provider_failure", "provider_fatal"},
     fatal |-> s = "provider_fatal",
     unsafe |-> s = "unsafe_request",
     clarification |-> s = "clarification",
     blocked |-> s = "unsafe_sql",
     conformance |-> s = "conformance_failed",
     render |-> s = "render_failed",
     invalid |-> s = "validation_failed",
     executed |-> s \in {"succeeded", "execution_failed"}]

Execution(outcome, invoked, attempted, stage, fatal) ==
    [outcome |-> outcome, succeeded |-> outcome = "success",
     invoked |-> invoked, attempted |-> attempted, stage |-> stage,
     fatal |-> fatal]

_denied_execution == Execution("denied", FALSE, FALSE, None, FALSE)
_internal_failure == Execution("internal_error", FALSE, FALSE, "setup", FALSE)
_provider_identity_failure ==
    Execution("internal_error", TRUE, FALSE, "plan_generation", TRUE)

_classify_query_result(s) ==
    LET r == ServiceResult(s) IN
    IF r.provider
    THEN Execution("internal_error", TRUE, FALSE, "plan_generation", r.fatal)
    ELSE IF r.succeeded THEN Execution("success", TRUE, TRUE, None, FALSE)
    ELSE IF r.unsafe \/ r.blocked
    THEN Execution("unsafe_blocked", TRUE, FALSE, "sql_safety", FALSE)
    ELSE IF r.clarification
    THEN Execution("clarification", TRUE, FALSE, "grounding", FALSE)
    ELSE IF r.conformance
    THEN Execution("execution_failed", TRUE, FALSE, "semantic_conformance", FALSE)
    ELSE Execution("execution_failed", TRUE, r.executed,
                   IF r.render THEN "sql_rendering"
                   ELSE IF r.executed THEN "execution"
                   ELSE IF r.invalid THEN "sql_safety" ELSE "plan_generation",
                   FALSE)

-----------------------------------------------------------------------------
(* Scores and summaries *)

ExpectsResult(c) == c.expects = "success"

\* The comparison states score_evaluation_case can reach with this evidence.
Verdicts(c, x, evidence) ==
    IF ~ExpectsResult(c) THEN {"not_applicable"}
    ELSE IF ~x.succeeded THEN {"not_reached"}
    ELSE IF evidence = "pair" THEN {"correct", "incorrect", "unestablished"}
    ELSE {"incorrect", "unestablished"}

\* _post_execution_failure_score.
FailureVerdict(c, x) ==
    IF ~ExpectsResult(c) THEN "not_applicable"
    ELSE IF x.succeeded THEN "unestablished" ELSE "not_reached"

\* The components of the score: outcome, execution state, tables, result.
Passed(c, x, tables, state) ==
    /\ x.outcome = c.expects /\ x.succeeded = ExpectsResult(c) /\ tables
    /\ ExpectsResult(c) => state = "correct"

\* _build_summary and _summary_for_persistence over the completed cases.
_build_summary(done) ==
    [completed |-> Len(done),
     passed |-> Cardinality({i \in DOMAIN done : done[i].passed}),
     unestablished |-> Cardinality({i \in DOMAIN done : done[i].state = "unestablished"}),
     attempted |-> Cardinality({i \in DOMAIN done : done[i].x.attempted}),
     executed |-> Cardinality({i \in DOMAIN done : done[i].x.attempted /\ done[i].x.succeeded})]

NoSummary == [completed |-> -1]

-----------------------------------------------------------------------------
(* The runner *)

Idle == [pc |-> "idle", suite |-> <<>>, todo |-> {}, done |-> <<>>, fatal |-> None,
         x |-> _internal_failure, evidence |-> None, seen |-> {}]

Init ==
    /\ db = [r \in Runs |-> [status |-> "absent", rows |-> <<>>,
                             summary |-> NoSummary, selected |-> {}]]
    /\ ended = <<>>
    /\ loc = [r \in Runs |-> Idle]
    /\ rd = [k \in Readers |-> [pc |-> "idle"]]
    /\ actors = TRUE /\ faults = 0

At(r, step) == loc[r].pc = step
First(todo) == CHOOSE i \in todo : \A j \in todo : i <= j
Case(r) == CaseOf(loc[r].suite[First(loc[r].todo)])
Become(r, l) == loc' = [loc EXCEPT ![r] = l]
Store(r, d) == db' = [db EXCEPT ![r] = d]
Go(r, step) == Become(r, [loc[r] EXCEPT !.pc = step])
Fault == faults < MaxFaults /\ faults' = faults + 1
NoFault == UNCHANGED faults

\* Selection, identity and resource checks, then the RUNNING row.
Start(r, suite, filter) ==
    /\ At(r, "idle")
    /\ LET chosen == select_evaluation_suite(suite, filter)
       IN  IF chosen = {} \/ ~actors
           THEN Go(r, "end") /\ UNCHANGED db
           ELSE /\ Become(r, [loc[r] EXCEPT !.pc = "acquire", !.suite = Order(suite),
                                            !.todo = chosen])
                /\ Store(r, [db[r] EXCEPT !.status = "running",
                                          !.selected = {Order(suite)[i] : i \in chosen}])
    /\ UNCHANGED <<ended, rd, actors>> /\ NoFault

\* _create_run cannot be committed.
StartFails(r) ==
    /\ At(r, "idle") /\ Go(r, "end") /\ Fault
    /\ UNCHANGED <<db, ended, rd, actors>>

\* Nothing was observed: the case fails, and the run with it unless the
\* failure is of no known kind.
NotObserved(r, fatal) ==
    Become(r, [loc[r] EXCEPT !.pc = "judge", !.x = _internal_failure,
                             !.evidence = None, !.fatal = fatal])

\* resolve_evaluation_identity refuses the case's actor.
AcquireNoActor(r) ==
    /\ At(r, "acquire") /\ ~actors
    /\ NotObserved(r, "evaluation_actor_invalid")
    /\ UNCHANGED <<db, ended, rd, actors>> /\ NoFault

\* Any exception before the query engine returned.
AcquireRaises(r) ==
    /\ At(r, "acquire") /\ Fault
    /\ NotObserved(r, None)
    /\ UNCHANGED <<db, ended, rd, actors>>

\* authorize_query_request or _denied_case_resources: the engine is not asked.
AcquireDenied(r) ==
    /\ At(r, "acquire") /\ actors
    /\ Become(r, [loc[r] EXCEPT !.pc = "gather", !.x = _denied_execution])
    /\ UNCHANGED <<db, ended, rd, actors>> /\ NoFault

\* The engine answers; a free question answered by another provider than the
\* run's is a failure of the provider.
Acquire(r, s, mine) ==
    /\ At(r, "acquire") /\ actors
    /\ Case(r).template => mine
    /\ Become(r, [loc[r] EXCEPT
            !.pc = "gather",
            !.x = IF mine THEN _classify_query_result(s) ELSE _provider_identity_failure,
            !.seen = loc[r].seen \cup (IF mine THEN {<<Case(r).id, s>>} ELSE {})])
    /\ UNCHANGED <<db, ended, rd, actors>> /\ NoFault

\* QueryRunPersistenceError: the observation stands, its QueryRun is lost.
AcquireUnstored(r) ==
    /\ At(r, "acquire") /\ actors /\ Fault
    /\ Become(r, [loc[r] EXCEPT
            !.pc = "judge", !.x = _classify_query_result("succeeded"),
            !.evidence = "context", !.fatal = "query_run_persistence_failed",
            !.seen = loc[r].seen \cup {<<Case(r).id, "succeeded">>}])
    /\ UNCHANGED <<db, ended, rd, actors>>

\* Baseline and evidence, for an executed query whose case expects a result.
\* A baseline or evidence that cannot be had leaves context evidence.
Gather(r) ==
    /\ At(r, "gather")
    /\ \E e \in IF ExpectsResult(Case(r)) /\ loc[r].x.succeeded
                THEN {"pair", "context"} ELSE {None} :
          Become(r, [loc[r] EXCEPT
                !.pc = "judge", !.evidence = e,
                !.fatal = IF loc[r].x.fatal THEN "provider_unavailable" ELSE loc[r].fatal])
    /\ UNCHANGED <<db, ended, rd, actors>> /\ NoFault

\* Mutation: closing the context fails the case as if nothing had been seen.
GatherForgets(r) ==
    /\ At(r, "gather") /\ Fault
    /\ NotObserved(r, None)
    /\ UNCHANGED <<db, ended, rd, actors>>

\* The transaction or session cannot be closed after the observation.
GatherFails(r) ==
    /\ At(r, "gather") /\ Fault
    /\ Become(r, [loc[r] EXCEPT
            !.pc = "judge",
            !.evidence = IF loc[r].x.attempted THEN "context" ELSE None,
            !.fatal = "evaluation_execution_context_failed"])
    /\ UNCHANGED <<db, ended, rd, actors>>

Complete(r, state, tables, evidence) ==
    Become(r, [loc[r] EXCEPT
        !.pc = "persist",
        !.done = Append(loc[r].done,
                    [id |-> Case(r).id, x |-> loc[r].x, state |-> state,
                     passed |-> Passed(Case(r), loc[r].x, tables, state),
                     evidence |-> evidence])])

Judge(r) ==
    /\ At(r, "judge")
    /\ \E state \in Verdicts(Case(r), loc[r].x, loc[r].evidence), t \in BOOLEAN :
          Complete(r, state, t, loc[r].evidence)
    /\ UNCHANGED <<db, ended, rd, actors>> /\ NoFault

\* The scoring itself raises.
JudgeRaises(r) ==
    /\ At(r, "judge") /\ Fault
    /\ Complete(r, FailureVerdict(Case(r), loc[r].x), FALSE,
                IF loc[r].x.succeeded THEN "context" ELSE loc[r].evidence)
    /\ UNCHANGED <<db, ended, rd, actors>>

\* _persist_result commits one row; a fatal case is the last.
Persist(r) ==
    /\ At(r, "persist")
    /\ LET left == loc[r].todo \ {First(loc[r].todo)}
       IN  Become(r, [loc[r] EXCEPT
                !.todo = left,
                !.pc = IF loc[r].fatal # None \/ left = {} THEN "finalize" ELSE "acquire"])
    /\ Store(r, [db[r] EXCEPT
            !.rows = Append(db[r].rows, loc[r].done[Len(loc[r].done)])])
    /\ UNCHANGED <<ended, rd, actors>> /\ NoFault

\* _best_effort_fail_run, then the error is raised to the caller: the run
\* fails without a summary, or stays RUNNING if that too cannot be written.
PersistFails(r, reached) ==
    /\ At(r, "persist") /\ Fault
    /\ IF reached
       THEN /\ Store(r, [db[r] EXCEPT !.status = "failed"])
            /\ ended' = Append(ended, r)
       ELSE UNCHANGED <<db, ended>>
    /\ Go(r, "end")
    /\ UNCHANGED <<rd, actors>>

\* Mutation: a run that got through its last case has succeeded, although
\* that case was fatal.
FinalizeByProgress(r) ==
    /\ At(r, "finalize")
    /\ Store(r, [db[r] EXCEPT
            !.status = IF loc[r].todo = {} THEN "succeeded" ELSE "failed",
            !.summary = _build_summary(loc[r].done)])
    /\ ended' = Append(ended, r)
    /\ Go(r, "end")
    /\ UNCHANGED <<rd, actors>> /\ NoFault

Finalize(r) ==
    /\ At(r, "finalize")
    /\ Store(r, [db[r] EXCEPT
            !.status = IF loc[r].fatal = None THEN "succeeded" ELSE "failed",
            !.summary = _build_summary(loc[r].done)])
    /\ ended' = Append(ended, r)
    /\ Go(r, "end")
    /\ UNCHANGED <<rd, actors>> /\ NoFault

\* The final status cannot be written, or the process stops: RUNNING stays.
Stop(r) ==
    /\ loc[r].pc \notin {"idle", "end"} /\ Fault
    /\ Go(r, "end")
    /\ UNCHANGED <<db, ended, rd, actors>>

\* An administrator changes a seeded evaluation actor.
ActorChanges ==
    /\ actors /\ Fault
    /\ actors' = FALSE
    /\ UNCHANGED <<db, ended, loc, rd>>

-----------------------------------------------------------------------------
(* The reader: the run row and its results are two statements *)

Visible(k) == {c.id : c \in {d \in Cases : d.actor \in Sight[k]}}

\* validate_persisted_comparison_contract on the columns kept here: evidence
\* belongs to a judgment, and only to one.
_parse_result(row) ==
    (row.state \in {"not_reached", "not_applicable"}) = (row.evidence = None)

\* The rows of a run that a reader may see, by position
Shown(k, rows) == {i \in DOMAIN rows : rows[i].id \in Visible(k)}

\* Newest succeeded run with a visible result, or none.
Latest(k) ==
    LET good == {i \in DOMAIN ended :
                    /\ db[ended[i]].status = "succeeded"
                    /\ Visible(k) # Ids => Shown(k, db[ended[i]].rows) # {}}
    IN  {ended[i] : i \in {i \in good : \A j \in good : j <= i}}

\* _load_snapshot: the run asked for, or the latest.
ReadRun(k) ==
    /\ rd[k].pc = "idle" /\ actors
    /\ \E r \in {q \in Runs : db[q].status # "absent"} \cup Latest(k) :
          rd' = [rd EXCEPT ![k] = [pc |-> "run", run |-> r, status |-> db[r].status]]
    /\ UNCHANGED <<db, ended, loc, actors>> /\ NoFault

\* What the response counts: the visible rows, and those that could be read.
_metric_summary(run, status, rows, shown) ==
    LET read == {i \in shown : _parse_result(rows[i])}
    IN  [pc |-> "view", run |-> run, status |-> status,
         selected |-> Cardinality(shown), completed |-> Cardinality(read),
         passed |-> Cardinality({i \in read : rows[i].passed}),
         unestablished |-> Cardinality({i \in read : rows[i].state = "unestablished"}),
         executed |-> Cardinality({i \in read : rows[i].x.attempted /\ rows[i].x.succeeded})]

\* _build_snapshot: rows of other actors' cases are not the reader's; a run
\* of which a scoped reader sees nothing is not found.
ReadRows(k) ==
    /\ rd[k].pc = "run"
    /\ LET rows  == db[rd[k].run].rows
           shown == Shown(k, rows)
       IN  rd' = [rd EXCEPT ![k] =
             IF Visible(k) # Ids /\ shown = {} THEN [pc |-> "idle"]
             ELSE _metric_summary(rd[k].run, rd[k].status, rows, shown)]
    /\ UNCHANGED <<db, ended, loc, actors>> /\ NoFault

_availability(k) ==
    IF /\ rd[k].status = "succeeded"
       /\ rd[k].completed = Cardinality(Visible(k))
       /\ rd[k].selected = rd[k].completed
    THEN "measured"
    ELSE IF rd[k].completed + rd[k].selected > 0 THEN "partially_measured"
    ELSE "unavailable"

\* The response is sent; the reader may ask again.
Respond(k) ==
    /\ rd[k].pc = "view"
    /\ rd' = [rd EXCEPT ![k] = [pc |-> "idle"]]
    /\ UNCHANGED <<db, ended, loc, actors>> /\ NoFault

Next ==
    \/ \E r \in Runs :
        \/ \E f \in Filters, s \in {"full", "canary"} : Start(r, s, f)
        \/ \E s \in Services, mine \in BOOLEAN : Acquire(r, s, mine)
        \/ \E reached \in BOOLEAN : PersistFails(r, reached)
        \/ StartFails(r) \/ AcquireNoActor(r) \/ AcquireRaises(r)
        \/ AcquireDenied(r) \/ AcquireUnstored(r) \/ Gather(r) \/ GatherFails(r)
        \/ Judge(r) \/ JudgeRaises(r) \/ Persist(r) \/ Finalize(r) \/ Stop(r)
    \/ \E k \in Readers : ReadRun(k) \/ ReadRows(k) \/ Respond(k)
    \/ ActorChanges

Spec == Init /\ [][Next]_vars

-----------------------------------------------------------------------------
(* Properties *)

RowIds(r) == {db[r].rows[i].id : i \in DOMAIN db[r].rows}
Sees(r, id, s) == <<id, s>> \in loc[r].seen

\* What the query engine answered is what the result row says, whatever
\* failed after it: storing the QueryRun, closing the transaction, the
\* baseline, the evidence or the judgment ("QueryRun persistence, execution
\* context teardown, baseline or auxiliary failure cannot overwrite the
\* successful production observation").
ObservationSurvives ==
    \A r \in Runs : \A i \in DOMAIN db[r].rows : \A s \in Services \cup {"succeeded"} :
        Sees(r, db[r].rows[i].id, s) =>
            /\ db[r].rows[i].x = _classify_query_result(s)
            /\ db[r].rows[i].x.attempted = (s \in {"succeeded", "execution_failed"})

\* A run that says SUCCEEDED has exactly one row for every selected case and no
\* case that was fatal, and a summary, of a failed run too, is the summary of
\* exactly the rows that were committed.  A reader who is shown such a run is shown
\* all of it, although the run may have finished between the reader's two
\* statements; "measured" means every case the reader may see was judged and
\* read, and a reader who sees everything then reports the runner's own totals.
FinishedRunIsWhole ==
    /\ \A r \in Runs :
          LET rows == db[r].rows IN
          /\ db[r].status = "succeeded" =>
                /\ RowIds(r) = db[r].selected /\ Len(rows) = Cardinality(db[r].selected)
                /\ \A i \in DOMAIN rows : ~rows[i].x.fatal
          /\ db[r].summary # NoSummary =>
                /\ db[r].summary.completed = Len(rows)
                /\ db[r].summary.passed = Cardinality({i \in DOMAIN rows : rows[i].passed})
                /\ db[r].summary.executed =
                      Cardinality({i \in DOMAIN rows : rows[i].x.outcome = "success"})
    /\ \A k \in Readers : rd[k].pc = "view" =>
          LET r == rd[k].run IN
          /\ rd[k].status = "succeeded" =>
                rd[k].selected = Cardinality(db[r].selected \cap Visible(k))
          /\ _availability(k) = "measured" =>
                /\ Visible(k) \subseteq RowIds(r)
                /\ rd[k].completed = Cardinality(Visible(k))
                /\ Visible(k) = Ids =>
                      /\ rd[k].passed = db[r].summary.passed
                      /\ rd[k].unestablished = db[r].summary.unestablished
                      /\ rd[k].executed = db[r].summary.executed
=============================================================================
