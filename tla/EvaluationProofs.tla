-------------------------- MODULE EvaluationProofs --------------------------
(***************************************************************************)
(* Machine-checked proofs about the evaluation harness: first a run, for   *)
(* every data set, number of runs and readers, answer of the query engine  *)
(* and number of faults (EvaluationRun); then the judgment of one case,    *)
(* for every question, plan, content of the tables and limits              *)
(* (ResultComparison); then the release verdict, for every data set,       *)
(* thresholds and history of runs and candidates (EvaluationReadiness).    *)
(***************************************************************************)
EXTENDS EvaluationRun, ResultComparison, EvaluationReadiness,
        FiniteSetTheorems, FunctionTheorems, WellFoundedInduction, SequenceTheorems,
        TLAPS

-----------------------------------------------------------------------------
(* Runs: the constants                                                     *)

\* The suites are numbered, without repetition, and name cases.
LEMMA SuitesAreNumbered ==
    ASSUME Setting
    PROVE  /\ \E n \in Nat : DOMAIN CaseOrder = 1 .. n
           /\ \E n \in Nat : DOMAIN Canary = 1 .. n
           /\ \A i \in DOMAIN Canary : Canary[i] \in Ids
<1>1. Len(CaseOrder) \in Nat /\ DOMAIN CaseOrder = 1 .. Len(CaseOrder)
  BY DEF Setting
<1>2. Len(Canary) \in Nat /\ DOMAIN Canary = 1 .. Len(Canary)
  BY DEF Setting
<1>3. \A i \in DOMAIN Canary : Canary[i] \in Ids
  BY <1>2 DEF Setting
<1> QED
  BY <1>1, <1>2, <1>3

\* A set of naturals with an element has a least one.
LEMMA LeastNatural ==
    ASSUME NEW T, T \subseteq Nat, T # {}
    PROVE  \E x \in T : \A y \in T : x <= y
<1>1. PICK x \in T : \A y \in T : ~ (<<y, x>> \in OpToRel(<, Nat))
  BY NatLessThanWellFounded, WFMin
<1>2. \A y \in T : ~ (y < x)
  BY <1>1 DEF OpToRel
<1> QED
  BY <1>2

-----------------------------------------------------------------------------
(* The inductive invariant.  Its parts are about the locals l of a run,    *)
(* its row d in the database, and a reader's locals q.                     *)

Locals  == {"pc", "suite", "todo", "done", "fatal", "x", "evidence", "seen"}
Columns == {"status", "rows", "summary", "selected"}

IsSeq(q) == \E S : q \in Seq(S)

\* What an execution says of itself fits together.
GoodExecution(x) ==
    /\ x.attempted \in BOOLEAN /\ x.succeeded \in BOOLEAN
    /\ x.succeeded <=> x.outcome = "success"
    /\ x.succeeded => x.attempted

\* A suite names each case once.
GoodSuite(suite) ==
    /\ \E n \in Nat : DOMAIN suite = 1 .. n
    /\ \A i, j \in DOMAIN suite : suite[i] = suite[j] => i = j
    /\ \A i \in DOMAIN suite : suite[i] \in Ids

IdsOf(rows) == {rows[i].id : i \in DOMAIN rows}
Left(l)     == {l.suite[i] : i \in l.todo}
Now(l)      == l.suite[First(l.todo)]

Running(l) == l.pc \notin {"idle", "end"}
AtCase(l)  == l.pc \in {"acquire", "gather", "judge", "persist"}
Observed(l) == l.pc \in {"gather", "judge", "persist"}

\* The committed rows are about different cases, each of them of the selection
\* and no longer to do.
Progress(l, d) ==
    /\ GoodSuite(l.suite) /\ l.todo \subseteq DOMAIN l.suite
    /\ \A i, j \in DOMAIN d.rows : d.rows[i].id = d.rows[j].id => i = j
    /\ IdsOf(d.rows) \cap Left(l) = {}
    /\ IdsOf(d.rows) \subseteq Ids
    /\ Running(l) => IdsOf(d.rows) \cup Left(l) = d.selected
    /\ AtCase(l) => l.todo # {}

\* What is done is what is committed, and at most the current case.
Committed(l, d) ==
    /\ IsSeq(d.rows) /\ IsSeq(l.done)
    /\ l.pc \in {"idle", "acquire", "gather", "judge", "finalize"} => l.done = d.rows
    /\ l.pc = "persist" =>
          \E row : /\ l.done = Append(d.rows, row) /\ row.id = Now(l) /\ row.x = l.x

\* A fatal case ends the run.
Fatal(l, d) ==
    /\ l.pc \in {"idle", "acquire", "gather"} => l.fatal = None
    /\ l.pc \in {"judge", "persist"} /\ l.x.fatal => l.fatal # None
    /\ Running(l) /\ l.fatal = None => \A i \in DOMAIN d.rows : ~ d.rows[i].x.fatal
    /\ l.pc = "finalize" /\ l.fatal = None => l.todo = {}
    /\ GoodExecution(l.x)
    /\ \A i \in DOMAIN d.rows : GoodExecution(d.rows[i].x)

\* The engine's answers are about committed cases or the current one, and are
\* what the rows, and the current execution, say.
ObservationOf(l, d) ==
    /\ Running(l) => \A o \in l.seen : \/ o[1] \in IdsOf(d.rows)
                                       \/ Observed(l) /\ o[1] = Now(l)
    /\ \A i \in DOMAIN d.rows : \A s :
          <<d.rows[i].id, s>> \in l.seen => d.rows[i].x = _classify_query_result(s)
    /\ Observed(l) => \A s : <<Now(l), s>> \in l.seen => l.x = _classify_query_result(s)

\* A run that succeeded is all there.
Whole(d) ==
    /\ IdsOf(d.rows) = d.selected
    /\ \A i \in DOMAIN d.rows : ~ d.rows[i].x.fatal
    /\ d.summary = _build_summary(d.rows)

\* The status and the summary are the last to be written.
Finished(l, d) ==
    /\ l.pc = "idle" => d.rows = <<>> /\ l.seen = {} /\ d.status = "absent"
    /\ l.pc # "end" => d.status \in {"absent", "running"} /\ d.summary = NoSummary
    /\ d.status = "succeeded" => Whole(d)
    /\ d.summary # NoSummary => d.summary = _build_summary(d.rows)

RunInv(l, d) ==
    /\ DOMAIN l = Locals /\ DOMAIN d = Columns
    /\ Progress(l, d) /\ Committed(l, d) /\ Fatal(l, d) /\ ObservationOf(l, d)
    /\ Finished(l, d)

\* A reader of a run that has succeeded has, after its second statement, what
\* the rows say.
ReaderInv(k, q, dbase) ==
    /\ q.pc \in {"run", "view"} => q.run \in Runs
    /\ q.pc \in {"run", "view"} /\ q.status = "succeeded" => dbase[q.run].status = "succeeded"
    /\ q.pc = "view" /\ q.status = "succeeded" =>
          LET rows == dbase[q.run].rows
          IN  q = _metric_summary(q.run, q.status, rows, Shown(k, rows))

EvaluationInv ==
    /\ DOMAIN db = Runs /\ DOMAIN loc = Runs /\ DOMAIN rd = Readers
    /\ \A r \in Runs : RunInv(loc[r], db[r])
    /\ \A k \in Readers : ReaderInv(k, rd[k], db)
    /\ IsSeq(ended) /\ \A i \in DOMAIN ended : ended[i] \in Runs

-----------------------------------------------------------------------------
(* Suites and sequences                                                    *)

\* One sequence is another one and an element.
Longer(more, q, e) ==
    /\ IsSeq(more) /\ Len(more) = Len(q) + 1 /\ Len(q) + 1 \in DOMAIN more
    /\ more[Len(q) + 1] = e /\ more[Len(more)] = e
    /\ DOMAIN q \subseteq DOMAIN more /\ \A i \in DOMAIN q : more[i] = q[i]
    /\ DOMAIN more = DOMAIN q \cup {Len(q) + 1} /\ Len(q) + 1 \notin DOMAIN q

\* Appending to a sequence keeps what is in it.
LEMMA Appended ==
    ASSUME NEW q, IsSeq(q), NEW e PROVE Longer(Append(q, e), q, e)
<1> DEFINE more == Append(q, e)
<1> HIDE DEF more
<1>1. PICK S : q \in Seq(S)
  BY DEF IsSeq
<1>2. PICK T : T = S \cup {e}
  OBVIOUS
<1>3. q \in Seq(T) /\ e \in T
  BY <1>1, <1>2
<1>4. more \in Seq(T) /\ Len(more) = Len(q) + 1 /\ Len(q) \in Nat
  BY <1>3 DEF more
<1>5. DOMAIN q = 1 .. Len(q) /\ DOMAIN more = 1 .. (Len(q) + 1)
  BY <1>3, <1>4
<1>6. more[Len(q) + 1] = e /\ \A i \in DOMAIN q : more[i] = q[i]
  BY <1>3, <1>5 DEF more
<1>7. Longer(more, q, e)
  BY <1>4, <1>5, <1>6 DEF IsSeq, Longer
<1> QED
  BY <1>7 DEF more

\* CaseOf names a case by its identifier.
LEMMA NamedCase ==
    ASSUME NEW id \in Ids PROVE CaseOf(id) \in Cases /\ CaseOf(id).id = id
BY DEF Ids, CaseOf

\* The two suites name each case once.
LEMMA OrderIsGood ==
    ASSUME Setting, NEW suite PROVE GoodSuite(Order(suite))
<1>1. CASE suite = "canary"
  BY <1>1, SuitesAreNumbered DEF Setting, GoodSuite, Order
<1>2. CASE suite # "canary"
  <2>1. PICK q : q = [i \in DOMAIN CaseOrder |-> CaseOrder[i].id]
    OBVIOUS
  <2>2. DOMAIN q = DOMAIN CaseOrder /\ \A i \in DOMAIN q : q[i] = CaseOrder[i].id
    BY <2>1
  <2>3. \A i \in DOMAIN q : q[i] \in Ids
    BY <2>2 DEF Ids, Cases
  <2>4. \A i, j \in DOMAIN q : q[i] = q[j] => i = j
    BY <2>2 DEF Setting
  <2>5. GoodSuite(q)
    BY <2>2, <2>3, <2>4, SuitesAreNumbered DEF GoodSuite
  <2> QED
    BY <1>2, <2>1, <2>5 DEF Order
<1> QED
  BY <1>1, <1>2

\* What is selected of a suite is part of it.
LEMMA SelectionIsOfSuite ==
    ASSUME NEW suite, NEW filter
    PROVE  select_evaluation_suite(suite, filter) \subseteq DOMAIN Order(suite)
<1>1. CASE suite = "canary"
  BY <1>1 DEF select_evaluation_suite, Order
<1>2. CASE suite # "canary"
  <2>1. DOMAIN Order(suite) = DOMAIN CaseOrder
    BY <1>2 DEF Order
  <2>2. select_evaluation_suite(suite, filter)
            = {i \in DOMAIN CaseOrder : _matches(CaseOrder[i], filter)}
    BY <1>2, Zenon DEF select_evaluation_suite
  <2> QED
    BY <2>1, <2>2
<1> QED
  BY <1>1, <1>2

\* The case of a run is the first one that is left.
AtHand(l, left) ==
    /\ First(l.todo) \in l.todo /\ First(l.todo) \in DOMAIN l.suite
    /\ Now(l) \in Ids /\ CaseOf(Now(l)).id = Now(l)
    /\ Left(l) = left \cup {Now(l)} /\ Now(l) \notin left

\* The first case that is left is at hand, and the others are left after it.
LEMMA FirstIsAtHand ==
    ASSUME NEW l, GoodSuite(l.suite), l.todo \subseteq DOMAIN l.suite, l.todo # {},
           NEW left, left = {l.suite[i] : i \in l.todo \ {First(l.todo)}}
    PROVE  AtHand(l, left)
<1>1. l.todo \subseteq Nat
  BY DEF GoodSuite
<1>2. \E i \in l.todo : \A j \in l.todo : i <= j
  BY <1>1, LeastNatural
<1>3. First(l.todo) \in l.todo /\ First(l.todo) \in DOMAIN l.suite
  BY <1>2 DEF First
<1>4. Now(l) \in Ids
  BY <1>3 DEF Now, GoodSuite
<1>5. PICK m : m = First(l.todo)
  OBVIOUS
<1>6. m \in l.todo /\ Now(l) = l.suite[m] /\ left = {l.suite[i] : i \in l.todo \ {m}}
  BY <1>3, <1>5 DEF Now
<1>7. Left(l) = left \cup {Now(l)}
  BY <1>6 DEF Left
<1>8. Now(l) \notin left
  BY <1>6 DEF GoodSuite
<1> QED
  BY <1>3, <1>4, <1>7, <1>8, NamedCase DEF AtHand

\* A record of the ten kinds of answer has the field an answer says.
LEMMA ServiceFields ==
    ASSUME NEW s, NEW r, r = ServiceResult(s)
    PROVE  /\ r.provider = (s \in {"provider_failure", "provider_fatal"})
           /\ r.fatal = (s = "provider_fatal")
           /\ r.succeeded = (s = "succeeded")
           /\ r.unsafe = (s = "unsafe_request") /\ r.blocked = (s = "unsafe_sql")
           /\ r.clarification = (s = "clarification")
           /\ r.conformance = (s = "conformance_failed")
           /\ r.executed = (s \in {"succeeded", "execution_failed"})
BY DEF ServiceResult

\* Every answer of the engine is classified, and was attempted when it was
\* executed.
LEMMA ClassifiedWell ==
    ASSUME NEW s
    PROVE  /\ GoodExecution(_classify_query_result(s))
           /\ _classify_query_result(s).attempted = (s \in {"succeeded", "execution_failed"})
           /\ s = "succeeded" => ~ _classify_query_result(s).fatal
<1>1. PICK x : x = _classify_query_result(s)
  OBVIOUS
<1>2. PICK r : r = ServiceResult(s)
  OBVIOUS
<1>3. PICK stage : stage = IF r.render THEN "sql_rendering"
                           ELSE IF r.executed THEN "execution"
                           ELSE IF r.invalid THEN "sql_safety" ELSE "plan_generation"
  OBVIOUS
<1>4. x = IF r.provider THEN Execution("internal_error", TRUE, FALSE, "plan_generation", r.fatal)
          ELSE IF r.succeeded THEN Execution("success", TRUE, TRUE, None, FALSE)
          ELSE IF r.unsafe \/ r.blocked
          THEN Execution("unsafe_blocked", TRUE, FALSE, "sql_safety", FALSE)
          ELSE IF r.clarification
          THEN Execution("clarification", TRUE, FALSE, "grounding", FALSE)
          ELSE IF r.conformance
          THEN Execution("execution_failed", TRUE, FALSE, "semantic_conformance", FALSE)
          ELSE Execution("execution_failed", TRUE, r.executed, stage, FALSE)
  BY <1>1, <1>2, <1>3, Zenon DEF _classify_query_result
<1>5. /\ r.provider = (s \in {"provider_failure", "provider_fatal"})
      /\ r.succeeded = (s = "succeeded")
      /\ r.executed = (s \in {"succeeded", "execution_failed"})
  BY <1>2, ServiceFields
<1>6. CASE s \in {"provider_failure", "provider_fatal"}
  <2>1. x = Execution("internal_error", TRUE, FALSE, "plan_generation", r.fatal)
    BY <1>4, <1>5, <1>6
  <2>2. x.outcome = "internal_error" /\ x.attempted = FALSE /\ x.succeeded = FALSE
    BY <2>1 DEF Execution
  <2>3. GoodExecution(x)
    BY <2>2 DEF GoodExecution
  <2>4. (s \in {"succeeded", "execution_failed"}) = FALSE
    BY <1>6
  <2> QED
    BY <1>1, <1>6, <2>2, <2>3, <2>4
<1>7. CASE s = "succeeded"
  <2>1. x = Execution("success", TRUE, TRUE, None, FALSE)
    BY <1>4, <1>5, <1>7
  <2>2. x.outcome = "success" /\ x.attempted = TRUE /\ x.succeeded = TRUE /\ x.fatal = FALSE
    BY <2>1 DEF Execution
  <2> QED
    BY <1>1, <1>7, <2>2 DEF GoodExecution
<1>8. CASE s \notin {"provider_failure", "provider_fatal", "succeeded"}
  <2>1. x = IF r.unsafe \/ r.blocked
            THEN Execution("unsafe_blocked", TRUE, FALSE, "sql_safety", FALSE)
            ELSE IF r.clarification
            THEN Execution("clarification", TRUE, FALSE, "grounding", FALSE)
            ELSE IF r.conformance
            THEN Execution("execution_failed", TRUE, FALSE, "semantic_conformance", FALSE)
            ELSE Execution("execution_failed", TRUE, r.executed, stage, FALSE)
    BY <1>4, <1>5, <1>8
  <2>2. /\ r.unsafe = (s = "unsafe_request") /\ r.blocked = (s = "unsafe_sql")
        /\ r.clarification = (s = "clarification")
        /\ r.conformance = (s = "conformance_failed")
    BY <1>2, ServiceFields
  <2>3. x.attempted = (s = "execution_failed") /\ x.outcome # "success" /\ x.succeeded = FALSE
    <3>1. CASE s \in {"unsafe_request", "unsafe_sql"}
      <4>1. x = Execution("unsafe_blocked", TRUE, FALSE, "sql_safety", FALSE)
        BY <2>1, <2>2, <3>1
      <4> QED
        BY <3>1, <4>1 DEF Execution
    <3>2. CASE s = "clarification"
      <4>1. x = Execution("clarification", TRUE, FALSE, "grounding", FALSE)
        BY <2>1, <2>2, <3>2
      <4> QED
        BY <3>2, <4>1 DEF Execution
    <3>3. CASE s = "conformance_failed"
      <4>1. x = Execution("execution_failed", TRUE, FALSE, "semantic_conformance", FALSE)
        BY <2>1, <2>2, <3>3
      <4> QED
        BY <3>3, <4>1 DEF Execution
    <3>4. CASE s \notin {"unsafe_request", "unsafe_sql", "clarification", "conformance_failed"}
      <4>1. x = Execution("execution_failed", TRUE, r.executed, stage, FALSE)
        BY <2>1, <2>2, <3>4
      <4>2. x.attempted = r.executed /\ x.outcome = "execution_failed" /\ x.succeeded = FALSE
        BY <4>1 DEF Execution
      <4> QED
        BY <1>5, <1>8, <4>2
    <3> QED
      BY <3>1, <3>2, <3>3, <3>4
  <2>4. x.attempted \in BOOLEAN
    BY <2>3
  <2>5. GoodExecution(x)
    BY <2>3, <2>4 DEF GoodExecution
  <2>6. (s = "execution_failed") = (s \in {"succeeded", "execution_failed"})
    BY <1>8
  <2> QED
    BY <1>1, <1>8, <2>3, <2>5, <2>6
<1> QED
  BY <1>6, <1>7, <1>8

\* The executions that are no answer of the engine
LEMMA OtherExecutions ==
    /\ GoodExecution(_internal_failure) /\ ~ _internal_failure.fatal
    /\ GoodExecution(_denied_execution) /\ GoodExecution(_provider_identity_failure)
BY DEF GoodExecution, _internal_failure, _denied_execution, _provider_identity_failure, Execution

-----------------------------------------------------------------------------
(* The steps of a run                                                      *)

\* A reader keeps what the rows of a succeeded run say: those stay.
LEMMA ReaderKept ==
    ASSUME NEW k, NEW q, NEW dbase, ReaderInv(k, q, dbase), NEW more,
           \A r \in Runs : dbase[r].status = "succeeded" => more[r] = dbase[r]
    PROVE  ReaderInv(k, q, more)
BY DEF ReaderInv

\* One run's step
LEMMA OneRun ==
    ASSUME EvaluationInv, NEW r \in Runs, NEW l, NEW d, Become(r, l),
           \/ Store(r, d) /\ db[r].status # "succeeded"
           \/ UNCHANGED db /\ d = db[r],
           RunInv(l, d), UNCHANGED rd, UNCHANGED ended \/ ended' = Append(ended, r)
    PROVE  EvaluationInv'
<1>1. DOMAIN loc' = Runs /\ \A q \in Runs : loc'[q] = IF q = r THEN l ELSE loc[q]
  BY DEF EvaluationInv, Become
<1>2. DOMAIN db' = Runs /\ \A q \in Runs : db'[q] = IF q = r THEN d ELSE db[q]
  BY DEF EvaluationInv, Store
<1>3. \A q \in Runs : RunInv(loc'[q], db'[q])
  BY <1>1, <1>2 DEF EvaluationInv
<1>4. \A q \in Runs : db[q].status = "succeeded" => db'[q] = db[q]
  BY <1>2 DEF Store
<1>5. \A k \in Readers : ReaderInv(k, rd'[k], db')
  <2> SUFFICES ASSUME NEW k \in Readers PROVE ReaderInv(k, rd[k], db')
    OBVIOUS
  <2>1. ReaderInv(k, rd[k], db)
    BY DEF EvaluationInv
  <2> QED
    BY <1>4, <2>1, ReaderKept
<1>6. IsSeq(ended') /\ \A i \in DOMAIN ended' : ended'[i] \in Runs
  <2>1. CASE UNCHANGED ended
    BY <2>1 DEF EvaluationInv
  <2>2. CASE ended' = Append(ended, r)
    <3>1. Longer(ended', ended, r)
      BY <2>2, Appended DEF EvaluationInv
    <3> QED
      BY <3>1 DEF Longer, EvaluationInv
  <2> QED
    BY <2>1, <2>2
<1>7. DOMAIN rd' = Readers
  BY DEF EvaluationInv
<1> QED
  BY <1>1, <1>2, <1>3, <1>5, <1>6, <1>7 DEF EvaluationInv

\* The parts of a run, and that it is not done
LEMMA RunOf ==
    ASSUME EvaluationInv, NEW r \in Runs, NEW l, l = loc[r], NEW d, d = db[r]
    PROVE  RunInv(l, d) /\ DOMAIN l = Locals /\ DOMAIN d = Columns
           /\ (l.pc # "end" => d.status # "succeeded")
BY DEF EvaluationInv, RunInv, Finished

\* A run that ends without writing its row
LEMMA EndsKeeps ==
    ASSUME NEW l, NEW d, RunInv(l, d), NEW m, m = [l EXCEPT !.pc = "end"]
    PROVE  RunInv(m, d)
<1>1. DOMAIN m = Locals /\ m.pc = "end" /\ m.suite = l.suite /\ m.todo = l.todo
      /\ m.done = l.done /\ m.fatal = l.fatal /\ m.x = l.x /\ m.seen = l.seen
  BY DEF RunInv, Locals
<1>2. Progress(m, d)
  BY <1>1 DEF RunInv, Progress, Left, Running, AtCase
<1>3. Committed(m, d) /\ Fatal(m, d) /\ ObservationOf(m, d) /\ Finished(m, d)
  BY <1>1 DEF RunInv, Committed, Fatal, ObservationOf, Finished, Running, Observed
<1> QED
  BY <1>1, <1>2, <1>3 DEF RunInv

\* Before the engine is asked about a case it has answered nothing about it.
LEMMA NothingSeen ==
    ASSUME NEW l, NEW d, RunInv(l, d), l.pc = "acquire", NEW s
    PROVE  <<Now(l), s>> \notin l.seen
<1>1. PICK left : left = {l.suite[i] : i \in l.todo \ {First(l.todo)}}
  OBVIOUS
<1>2. AtHand(l, left)
  BY <1>1, FirstIsAtHand DEF RunInv, Progress, AtCase
<1>3. Now(l) \notin IdsOf(d.rows)
  BY <1>2 DEF AtHand, RunInv, Progress
<1>4. \A o \in l.seen : o[1] \in IdsOf(d.rows)
  BY DEF RunInv, ObservationOf, Running, Observed
<1> QED
  BY <1>3, <1>4

\* Within a case, what the engine says of it is what the execution says.
GoesOn(l, m) ==
    /\ DOMAIN m = Locals /\ m.suite = l.suite /\ m.todo = l.todo /\ m.done = l.done
    /\ \/ m.pc = "gather" /\ m.fatal = None
       \/ m.pc = "judge" /\ (m.x.fatal => m.fatal # None)
    /\ GoodExecution(m.x)
    /\ \A o \in m.seen : o \in l.seen \/ o[1] = Now(l)
    /\ \A s : <<Now(l), s>> \in m.seen => m.x = _classify_query_result(s)

\* A run goes on with its case.
LEMMA CaseKeeps ==
    ASSUME NEW l, NEW d, RunInv(l, d), l.pc \in {"acquire", "gather"}, NEW m, GoesOn(l, m)
    PROVE  RunInv(m, d)
<1> USE DEF GoesOn
<1>1. PICK left : left = {l.suite[i] : i \in l.todo \ {First(l.todo)}}
  OBVIOUS
<1>2. AtHand(l, left)
  BY <1>1, FirstIsAtHand DEF RunInv, Progress, AtCase
<1>3. Now(l) \notin IdsOf(d.rows)
  BY <1>2 DEF AtHand, RunInv, Progress
<1>4. Left(m) = Left(l) /\ Now(m) = Now(l)
  BY DEF Left, Now
<1>5. Progress(m, d)
  BY <1>4 DEF RunInv, Progress, Running, AtCase
<1>6. Committed(m, d)
  BY DEF RunInv, Committed
<1>7. Fatal(m, d)
  BY DEF RunInv, Fatal, Running
<1>8. ObservationOf(m, d)
  <2>1. \A o \in m.seen : o[1] \in IdsOf(d.rows) \/ o[1] = Now(l)
    BY DEF RunInv, ObservationOf, Running, Observed
  <2>2. ASSUME NEW i \in DOMAIN d.rows, NEW s, <<d.rows[i].id, s>> \in m.seen
        PROVE  d.rows[i].x = _classify_query_result(s)
    <3>1. d.rows[i].id # Now(l)
      BY <1>3 DEF IdsOf
    <3>2. <<d.rows[i].id, s>> \in l.seen
      BY <2>2, <3>1
    <3> QED
      BY <3>2 DEF RunInv, ObservationOf
  <2> QED
    BY <1>4, <2>1, <2>2 DEF ObservationOf, Observed
<1>9. Finished(m, d)
  BY DEF RunInv, Finished
<1> QED
  BY <1>5, <1>6, <1>7, <1>8, <1>9 DEF RunInv

\* The case a run is about is the one at hand.
LEMMA CaseAtHand ==
    ASSUME EvaluationInv, NEW r \in Runs, AtCase(loc[r])
    PROVE  Case(r).id = Now(loc[r])
<1>1. PICK l : l = loc[r]
  OBVIOUS
<1>2. RunInv(l, db[r]) /\ AtCase(l)
  BY <1>1, RunOf
<1>3. PICK left : left = {l.suite[i] : i \in l.todo \ {First(l.todo)}}
  OBVIOUS
<1>4. AtHand(l, left)
  BY <1>2, <1>3, FirstIsAtHand DEF RunInv, Progress
<1>5. Case(r) = CaseOf(Now(l))
  BY <1>1 DEF Case, Now
<1> QED
  BY <1>1, <1>4, <1>5 DEF AtHand

\* A run that ends and leaves its row alone
LEMMA GoEndKeeps ==
    ASSUME EvaluationInv, NEW r \in Runs, Go(r, "end"), UNCHANGED <<db, ended, rd>>
    PROVE  EvaluationInv'
<1>1. PICK l : l = loc[r]
  OBVIOUS
<1>2. PICK m : m = [l EXCEPT !.pc = "end"]
  OBVIOUS
<1>3. RunInv(m, db[r])
  BY <1>1, <1>2, RunOf, EndsKeeps
<1>4. Become(r, m)
  BY <1>1, <1>2 DEF Go
<1> QED
  BY <1>3, <1>4, OneRun

\* A run starts with nothing done, and all it has selected to do.
LEMMA StartKeeps ==
    ASSUME Setting, EvaluationInv, NEW r \in Runs, NEW suite, NEW filter, Start(r, suite, filter)
    PROVE  EvaluationInv'
<1>1. PICK l : l = loc[r]
  OBVIOUS
<1>2. PICK d : d = db[r]
  OBVIOUS
<1>3. PICK chosen : chosen = select_evaluation_suite(suite, filter)
  OBVIOUS
<1>4. PICK order : order = Order(suite)
  OBVIOUS
<1>5. RunInv(l, d) /\ DOMAIN l = Locals /\ DOMAIN d = Columns
  BY <1>1, <1>2, RunOf
<1>6. l.pc = "idle" /\ UNCHANGED <<ended, rd>>
  BY <1>1 DEF Start, At
<1>7. CASE chosen = {} \/ ~ actors
  BY <1>3, <1>7, GoEndKeeps DEF Start
<1>8. CASE ~ (chosen = {} \/ ~ actors)
  <2>1. PICK m : m = [l EXCEPT !.pc = "acquire", !.suite = order, !.todo = chosen]
    OBVIOUS
  <2>2. PICK e : e = [d EXCEPT !.status = "running", !.selected = {order[i] : i \in chosen}]
    OBVIOUS
  <2>3. Become(r, m) /\ Store(r, e)
    BY <1>1, <1>2, <1>3, <1>4, <1>8, <2>1, <2>2 DEF Start
  <2>4. DOMAIN m = Locals /\ m.pc = "acquire" /\ m.suite = order /\ m.todo = chosen
        /\ m.done = l.done /\ m.fatal = l.fatal /\ m.x = l.x /\ m.seen = l.seen
    BY <1>5, <2>1 DEF Locals
  <2>5. DOMAIN e = Columns /\ e.status = "running" /\ e.rows = d.rows /\ e.summary = d.summary
        /\ e.selected = {order[i] : i \in chosen}
    BY <1>5, <2>2 DEF Columns
  <2>6. d.rows = <<>> /\ l.seen = {} /\ d.summary = NoSummary /\ l.done = <<>>
        /\ l.fatal = None /\ GoodExecution(l.x)
    BY <1>5, <1>6 DEF RunInv, Finished, Committed, Fatal
  <2>7. GoodSuite(order)
    BY <1>4, OrderIsGood
  <2>8. chosen \subseteq DOMAIN order
    BY <1>3, <1>4, SelectionIsOfSuite
  <2>9. IdsOf(e.rows) = {} /\ DOMAIN e.rows = {} /\ IsSeq(e.rows) /\ IsSeq(m.done)
    BY <1>5, <2>4, <2>5, <2>6 DEF IdsOf, RunInv, Committed
  <2>10. Left(m) = e.selected
    BY <2>4, <2>5 DEF Left
  <2>11. Progress(m, e)
    BY <1>8, <2>4, <2>7, <2>8, <2>9, <2>10 DEF Progress, AtCase
  <2>12. Committed(m, e)
    BY <2>4, <2>5, <2>6, <2>9 DEF Committed
  <2>13. Fatal(m, e)
    BY <2>4, <2>5, <2>6, <2>9 DEF Fatal
  <2>14. ObservationOf(m, e)
    BY <2>4, <2>6, <2>9 DEF ObservationOf
  <2>15. Finished(m, e)
    BY <2>4, <2>5, <2>6 DEF Finished
  <2>16. RunInv(m, e)
    BY <2>4, <2>5, <2>11, <2>12, <2>13, <2>14, <2>15 DEF RunInv
  <2>17. d.status # "succeeded"
    BY <1>5, <1>6 DEF RunInv, Finished
  <2> QED
    BY <1>2, <1>6, <2>3, <2>16, <2>17, OneRun
<1> QED
  BY <1>7, <1>8

\* A case whose execution was not observed
LEMMA NotObservedKeeps ==
    ASSUME EvaluationInv, NEW r \in Runs, NEW fatal, At(r, "acquire"), NotObserved(r, fatal),
           UNCHANGED <<db, ended, rd>>
    PROVE  EvaluationInv'
<1>1. PICK l : l = loc[r]
  OBVIOUS
<1>2. RunInv(l, db[r]) /\ DOMAIN l = Locals /\ l.pc = "acquire"
  BY <1>1, RunOf DEF At
<1>3. PICK x : x = _internal_failure
  OBVIOUS
<1>4. GoodExecution(x) /\ ~ x.fatal
  BY <1>3, OtherExecutions
<1>5. PICK m : m = [l EXCEPT !.pc = "judge", !.x = x, !.evidence = None, !.fatal = fatal]
  OBVIOUS
<1>6. Become(r, m)
  BY <1>1, <1>3, <1>5 DEF NotObserved
<1>7. DOMAIN m = Locals /\ m.pc = "judge" /\ m.suite = l.suite /\ m.todo = l.todo
      /\ m.done = l.done /\ m.fatal = fatal /\ m.x = x /\ m.seen = l.seen
  BY <1>2, <1>5 DEF Locals
<1>8. \A s : <<Now(l), s>> \notin m.seen
  BY <1>2, <1>7, NothingSeen
<1>9. GoesOn(l, m)
  BY <1>4, <1>7, <1>8 DEF GoesOn
<1>10. RunInv(m, db[r])
  BY <1>2, <1>9, CaseKeeps
<1> QED
  BY <1>6, <1>10, OneRun

\* A case whose actor is denied
LEMMA DeniedKeeps ==
    ASSUME EvaluationInv, NEW r \in Runs, AcquireDenied(r) PROVE EvaluationInv'
<1>1. PICK l : l = loc[r]
  OBVIOUS
<1>2. RunInv(l, db[r]) /\ DOMAIN l = Locals /\ l.pc = "acquire"
  BY <1>1, RunOf DEF AcquireDenied, At
<1>3. PICK x : x = _denied_execution
  OBVIOUS
<1>4. PICK m : m = [l EXCEPT !.pc = "gather", !.x = x]
  OBVIOUS
<1>5. Become(r, m) /\ UNCHANGED <<db, ended, rd>>
  BY <1>1, <1>3, <1>4 DEF AcquireDenied
<1>6. DOMAIN m = Locals /\ m.pc = "gather" /\ m.suite = l.suite /\ m.todo = l.todo
      /\ m.done = l.done /\ m.fatal = l.fatal /\ m.x = x /\ m.seen = l.seen
  BY <1>2, <1>4 DEF Locals
<1>7. \A s : <<Now(l), s>> \notin m.seen
  BY <1>2, <1>6, NothingSeen
<1>8. m.fatal = None /\ GoodExecution(m.x)
  BY <1>2, <1>3, <1>6, OtherExecutions DEF RunInv, Fatal
<1>9. GoesOn(l, m)
  BY <1>6, <1>7, <1>8 DEF GoesOn
<1>10. RunInv(m, db[r])
  BY <1>2, <1>9, CaseKeeps
<1> QED
  BY <1>5, <1>10, OneRun

\* A case the engine has answered
LEMMA AcquireKeeps ==
    ASSUME EvaluationInv, NEW r \in Runs, NEW s, NEW mine \in BOOLEAN, Acquire(r, s, mine)
    PROVE  EvaluationInv'
<1>1. PICK l : l = loc[r]
  OBVIOUS
<1>2. RunInv(l, db[r]) /\ DOMAIN l = Locals /\ l.pc = "acquire"
  BY <1>1, RunOf DEF Acquire, At
<1>3. Case(r).id = Now(l)
  BY <1>1, <1>2, CaseAtHand DEF AtCase
<1>4. PICK x : x = IF mine THEN _classify_query_result(s) ELSE _provider_identity_failure
  OBVIOUS
<1>5. GoodExecution(x)
  BY <1>4, ClassifiedWell, OtherExecutions
<1>6. PICK seen : seen = l.seen \cup (IF mine THEN {<<Now(l), s>>} ELSE {})
  OBVIOUS
<1>7. PICK m : m = [l EXCEPT !.pc = "gather", !.x = x, !.seen = seen]
  OBVIOUS
<1>8. Become(r, m) /\ UNCHANGED <<db, ended, rd>>
  BY <1>1, <1>3, <1>4, <1>6, <1>7 DEF Acquire
<1>9. DOMAIN m = Locals /\ m.pc = "gather" /\ m.suite = l.suite /\ m.todo = l.todo
      /\ m.done = l.done /\ m.fatal = l.fatal /\ m.x = x /\ m.seen = seen
  BY <1>2, <1>7 DEF Locals
<1>10. \A t : <<Now(l), t>> \in seen => x = _classify_query_result(t)
  <2> SUFFICES ASSUME NEW t, <<Now(l), t>> \in seen PROVE x = _classify_query_result(t)
    OBVIOUS
  <2>1. <<Now(l), t>> \notin l.seen
    BY <1>2, NothingSeen
  <2>2. mine /\ t = s
    BY <1>6, <2>1
  <2> QED
    BY <1>4, <2>2
<1>11. \A o \in seen : o \in l.seen \/ o[1] = Now(l)
  BY <1>6
<1>12. m.fatal = None
  BY <1>2, <1>9 DEF RunInv, Fatal
<1>13. GoesOn(l, m)
  BY <1>5, <1>9, <1>10, <1>11, <1>12 DEF GoesOn
<1>14. RunInv(m, db[r])
  BY <1>2, <1>13, CaseKeeps
<1> QED
  BY <1>8, <1>14, OneRun

\* A case the engine has answered, but whose answer could not be stored
LEMMA AcquireUnstoredKeeps ==
    ASSUME EvaluationInv, NEW r \in Runs, AcquireUnstored(r) PROVE EvaluationInv'
<1>1. PICK l : l = loc[r]
  OBVIOUS
<1>2. RunInv(l, db[r]) /\ DOMAIN l = Locals /\ l.pc = "acquire"
  BY <1>1, RunOf DEF AcquireUnstored, At
<1>3. Case(r).id = Now(l)
  BY <1>1, <1>2, CaseAtHand DEF AtCase
<1>4. PICK x : x = _classify_query_result("succeeded")
  OBVIOUS
<1>5. GoodExecution(x)
  BY <1>4, ClassifiedWell
<1>6. PICK seen : seen = l.seen \cup {<<Now(l), "succeeded">>}
  OBVIOUS
<1>7. PICK m : m = [l EXCEPT !.pc = "judge", !.x = x, !.evidence = "context",
                             !.fatal = "query_run_persistence_failed", !.seen = seen]
  OBVIOUS
<1>8. Become(r, m) /\ UNCHANGED <<db, ended, rd>>
  BY <1>1, <1>3, <1>4, <1>6, <1>7 DEF AcquireUnstored
<1>9. DOMAIN m = Locals /\ m.pc = "judge" /\ m.suite = l.suite /\ m.todo = l.todo
      /\ m.done = l.done /\ m.fatal = "query_run_persistence_failed" /\ m.x = x
      /\ m.seen = seen
  BY <1>2, <1>7 DEF Locals
<1>10. \A t : <<Now(l), t>> \in seen => x = _classify_query_result(t)
  BY <1>2, <1>4, <1>6, NothingSeen
<1>11. \A o \in seen : o \in l.seen \/ o[1] = Now(l)
  BY <1>6
<1>12. m.fatal # None
  BY <1>9 DEF None
<1>13. GoesOn(l, m)
  BY <1>5, <1>9, <1>10, <1>11, <1>12 DEF GoesOn
<1>14. RunInv(m, db[r])
  BY <1>2, <1>13, CaseKeeps
<1> QED
  BY <1>8, <1>14, OneRun

\* A case whose execution stands goes on to be judged, whatever evidence and
\* whatever failure of the run came with it.
LEMMA GatheredKeeps ==
    ASSUME EvaluationInv, NEW r \in Runs, NEW l, l = loc[r], l.pc = "gather",
           NEW e, NEW fatal, l.x.fatal => fatal # None,
           NEW m, m = [l EXCEPT !.pc = "judge", !.evidence = e, !.fatal = fatal],
           Become(r, m), UNCHANGED <<db, ended, rd>>
    PROVE  EvaluationInv'
<1>1. RunInv(l, db[r]) /\ DOMAIN l = Locals
  BY RunOf
<1>2. DOMAIN m = Locals /\ m.pc = "judge" /\ m.suite = l.suite /\ m.todo = l.todo
      /\ m.done = l.done /\ m.fatal = fatal /\ m.x = l.x /\ m.seen = l.seen
  BY <1>1 DEF Locals
<1>3. GoodExecution(m.x) /\ (m.x.fatal => m.fatal # None)
  BY <1>1, <1>2 DEF RunInv, Fatal
<1>4. \A s : <<Now(l), s>> \in m.seen => m.x = _classify_query_result(s)
  BY <1>1, <1>2 DEF RunInv, ObservationOf, Observed
<1>5. GoesOn(l, m)
  BY <1>2, <1>3, <1>4 DEF GoesOn
<1>6. RunInv(m, db[r])
  BY <1>1, <1>5, CaseKeeps
<1> QED
  BY <1>6, OneRun

\* A provider found unavailable ends the run after the case.
LEMMA GatherKeeps ==
    ASSUME EvaluationInv, NEW r \in Runs, Gather(r) PROVE EvaluationInv'
<1>1. PICK l : l = loc[r]
  OBVIOUS
<1>2. PICK fatal : fatal = IF l.x.fatal THEN "provider_unavailable" ELSE l.fatal
  OBVIOUS
<1>3. PICK e : Become(r, [l EXCEPT !.pc = "judge", !.evidence = e, !.fatal = fatal])
  BY <1>1, <1>2 DEF Gather
<1>4. PICK m : m = [l EXCEPT !.pc = "judge", !.evidence = e, !.fatal = fatal]
  OBVIOUS
<1>5. l.pc = "gather" /\ UNCHANGED <<db, ended, rd>> /\ (l.x.fatal => fatal # None)
  BY <1>1, <1>2 DEF Gather, At, None
<1> QED
  BY <1>1, <1>3, <1>5, <1>4, GatheredKeeps

\* A context that cannot be closed does so too.
LEMMA GatherFailsKeeps ==
    ASSUME EvaluationInv, NEW r \in Runs, GatherFails(r) PROVE EvaluationInv'
<1>1. PICK l : l = loc[r]
  OBVIOUS
<1>2. PICK e : e = IF l.x.attempted THEN "context" ELSE None
  OBVIOUS
<1>3. PICK fatal : fatal = "evaluation_execution_context_failed"
  OBVIOUS
<1>4. PICK m : m = [l EXCEPT !.pc = "judge", !.evidence = e, !.fatal = fatal]
  OBVIOUS
<1>5. Become(r, m)
  BY <1>1, <1>2, <1>3, <1>4 DEF GatherFails
<1>6. l.pc = "gather" /\ UNCHANGED <<db, ended, rd>> /\ fatal # None
  BY <1>1, <1>3 DEF GatherFails, At, None
<1> QED
  BY <1>1, <1>5, <1>6, <1>4, GatheredKeeps

\* A judged case is one more that is done, and not yet committed.
LEMMA CompleteKeeps ==
    ASSUME EvaluationInv, NEW r \in Runs, At(r, "judge"), NEW state, NEW tables, NEW evidence,
           Complete(r, state, tables, evidence), UNCHANGED <<db, ended, rd>>
    PROVE  EvaluationInv'
<1>1. PICK l : l = loc[r]
  OBVIOUS
<1>2. PICK d : d = db[r]
  OBVIOUS
<1>3. RunInv(l, d) /\ DOMAIN l = Locals /\ l.pc = "judge"
  BY <1>1, <1>2, RunOf DEF At
<1>4. Case(r).id = Now(l)
  BY <1>1, <1>3, CaseAtHand DEF AtCase
<1>5. PICK row : row = [id |-> Case(r).id, x |-> loc[r].x, state |-> state,
                        passed |-> Passed(Case(r), loc[r].x, tables, state),
                        evidence |-> evidence]
  OBVIOUS
<1>6. row.id = Now(l) /\ row.x = l.x
  BY <1>1, <1>4, <1>5
<1>7. PICK done : done = Append(l.done, row)
  OBVIOUS
<1>8. PICK m : m = [l EXCEPT !.pc = "persist", !.done = done]
  OBVIOUS
<1>9. Become(r, m)
  BY <1>1, <1>5, <1>7, <1>8 DEF Complete
<1>10. DOMAIN m = Locals /\ m.pc = "persist" /\ m.suite = l.suite /\ m.todo = l.todo
       /\ m.done = done /\ m.fatal = l.fatal /\ m.x = l.x /\ m.seen = l.seen
  BY <1>3, <1>8 DEF Locals
<1>11. Left(m) = Left(l) /\ Now(m) = Now(l)
  BY <1>10 DEF Left, Now
<1>12. Progress(m, d)
  BY <1>3, <1>10, <1>11 DEF RunInv, Progress, Running, AtCase
<1>13. Committed(m, d)
  <2>1. IsSeq(l.done) /\ IsSeq(d.rows) /\ l.done = d.rows
    BY <1>3 DEF RunInv, Committed
  <2>2. IsSeq(done)
    BY <1>7, <2>1, Appended DEF Longer
  <2> QED
    BY <1>6, <1>7, <1>10, <1>11, <2>1, <2>2 DEF Committed
<1>14. Fatal(m, d) /\ ObservationOf(m, d)
  BY <1>3, <1>10, <1>11 DEF RunInv, Fatal, ObservationOf, Running, Observed
<1>15. Finished(m, d)
  BY <1>3, <1>10 DEF RunInv, Finished
<1>16. RunInv(m, d)
  BY <1>3, <1>10, <1>12, <1>13, <1>14, <1>15 DEF RunInv
<1> QED
  BY <1>2, <1>9, <1>16, OneRun

\* The row of a case is committed, and the case is no longer to do.
LEMMA PersistKeeps ==
    ASSUME EvaluationInv, NEW r \in Runs, Persist(r) PROVE EvaluationInv'
<1>1. PICK l : l = loc[r]
  OBVIOUS
<1>2. PICK d : d = db[r]
  OBVIOUS
<1>3. RunInv(l, d) /\ DOMAIN l = Locals /\ DOMAIN d = Columns /\ l.pc = "persist"
      /\ d.status # "succeeded"
  BY <1>1, <1>2, RunOf DEF Persist, At
<1>4. PICK row : l.done = Append(d.rows, row) /\ row.id = Now(l) /\ row.x = l.x
  BY <1>3 DEF RunInv, Committed
<1>5. PICK rows : rows = Append(d.rows, row)
  OBVIOUS
<1>6. Longer(rows, d.rows, row)
  BY <1>3, <1>5, Appended DEF RunInv, Committed
<1>7. PICK todo : todo = l.todo \ {First(l.todo)}
  OBVIOUS
<1>8. PICK left : left = {l.suite[i] : i \in l.todo \ {First(l.todo)}}
  OBVIOUS
<1>9. AtHand(l, left)
  BY <1>3, <1>8, FirstIsAtHand DEF RunInv, Progress, AtCase
<1>10. PICK next : next = IF l.fatal # None \/ todo = {} THEN "finalize" ELSE "acquire"
  OBVIOUS
<1>11. PICK m : m = [l EXCEPT !.todo = todo, !.pc = next]
  OBVIOUS
<1>12. PICK e : e = [d EXCEPT !.rows = rows]
  OBVIOUS
<1>13. Become(r, m)
  BY <1>1, <1>7, <1>10, <1>11 DEF Persist
<1>14. Store(r, e) /\ UNCHANGED <<ended, rd>>
  <2>1. l.done[Len(l.done)] = row
    BY <1>4, <1>5, <1>6 DEF Longer
  <2> QED
    BY <1>1, <1>2, <1>5, <1>12, <2>1 DEF Persist
<1>15. DOMAIN m = Locals /\ m.pc = next /\ m.suite = l.suite /\ m.todo = todo
       /\ m.done = rows /\ m.fatal = l.fatal /\ m.x = l.x /\ m.seen = l.seen
  BY <1>3, <1>4, <1>5, <1>11 DEF Locals
<1>16. DOMAIN e = Columns /\ e.status = d.status /\ e.rows = rows /\ e.summary = d.summary
       /\ e.selected = d.selected
  BY <1>3, <1>12 DEF Columns
<1>17. next \in {"finalize", "acquire"}
  BY <1>10
<1>18. IdsOf(rows) = IdsOf(d.rows) \cup {Now(l)}
  BY <1>4, <1>6 DEF Longer, IdsOf
<1>19. Left(m) = left
  BY <1>7, <1>8, <1>15 DEF Left
<1>20. Now(l) \notin IdsOf(d.rows)
  BY <1>3, <1>9 DEF AtHand, RunInv, Progress
<1>21. Progress(m, e)
  <2>1. \A i, j \in DOMAIN rows : rows[i].id = rows[j].id => i = j
    <3>1. \A i, j \in DOMAIN d.rows : d.rows[i].id = d.rows[j].id => i = j
      BY <1>3 DEF RunInv, Progress
    <3>2. \A i \in DOMAIN d.rows : d.rows[i].id # Now(l)
      BY <1>20 DEF IdsOf
    <3> QED
      BY <1>4, <1>6, <3>1, <3>2 DEF Longer
  <2>2. IdsOf(rows) \cap left = {}
    BY <1>3, <1>9, <1>18 DEF AtHand, RunInv, Progress
  <2>3. IdsOf(rows) \subseteq Ids
    BY <1>3, <1>9, <1>18 DEF AtHand, RunInv, Progress
  <2>4. IdsOf(rows) \cup left = d.selected
    BY <1>3, <1>9, <1>18 DEF AtHand, RunInv, Progress, Running
  <2>5. GoodSuite(m.suite) /\ todo \subseteq DOMAIN m.suite
    BY <1>3, <1>7, <1>15 DEF RunInv, Progress
  <2>6. AtCase(m) => todo # {}
    BY <1>10, <1>15 DEF AtCase
  <2> QED
    BY <1>15, <1>16, <1>19, <2>1, <2>2, <2>3, <2>4, <2>5, <2>6 DEF Progress
<1>22. Committed(m, e)
  BY <1>6, <1>15, <1>16, <1>17 DEF Committed, Longer
<1>23. Fatal(m, e)
  <2>1. l.fatal = None => \A i \in DOMAIN rows : ~ rows[i].x.fatal
    <3> SUFFICES ASSUME l.fatal = None, NEW i \in DOMAIN rows PROVE ~ rows[i].x.fatal
      OBVIOUS
    <3>1. CASE i \in DOMAIN d.rows
      BY <1>3, <1>6, <3>1 DEF Longer, RunInv, Fatal, Running
    <3>2. CASE i = Len(d.rows) + 1
      BY <1>3, <1>4, <1>6, <3>2 DEF Longer, RunInv, Fatal
    <3> QED
      BY <1>6, <3>1, <3>2 DEF Longer
  <2>2. \A i \in DOMAIN rows : GoodExecution(rows[i].x)
    BY <1>3, <1>4, <1>6 DEF Longer, RunInv, Fatal
  <2>3. GoodExecution(m.x)
    BY <1>3, <1>15 DEF RunInv, Fatal
  <2> QED
    BY <1>10, <1>15, <1>16, <1>17, <2>1, <2>2, <2>3 DEF Fatal
<1>24. ObservationOf(m, e)
  <2>1. \A o \in m.seen : o[1] \in IdsOf(rows)
    BY <1>3, <1>15, <1>18 DEF RunInv, ObservationOf, Running, Observed
  <2>2. ASSUME NEW i \in DOMAIN rows, NEW s, <<rows[i].id, s>> \in m.seen
        PROVE  rows[i].x = _classify_query_result(s)
    <3>1. CASE i \in DOMAIN d.rows
      BY <1>3, <1>6, <1>15, <2>2, <3>1 DEF Longer, RunInv, ObservationOf
    <3>2. CASE i = Len(d.rows) + 1
      BY <1>3, <1>4, <1>6, <1>15, <2>2, <3>2 DEF Longer, RunInv, ObservationOf, Observed
    <3> QED
      BY <1>6, <3>1, <3>2 DEF Longer
  <2> QED
    BY <1>15, <1>16, <1>17, <2>1, <2>2 DEF ObservationOf, Observed
<1>25. Finished(m, e)
  BY <1>3, <1>15, <1>16, <1>17 DEF RunInv, Finished
<1>26. RunInv(m, e)
  BY <1>15, <1>16, <1>21, <1>22, <1>23, <1>24, <1>25 DEF RunInv
<1> QED
  BY <1>2, <1>3, <1>13, <1>14, <1>26, OneRun

\* A run whose row cannot be committed fails without a summary.
LEMMA PersistFailsKeeps ==
    ASSUME EvaluationInv, NEW r \in Runs, NEW reached, PersistFails(r, reached)
    PROVE  EvaluationInv'
<1>1. PICK l : l = loc[r]
  OBVIOUS
<1>2. PICK d : d = db[r]
  OBVIOUS
<1>3. RunInv(l, d) /\ DOMAIN l = Locals /\ DOMAIN d = Columns /\ l.pc = "persist"
      /\ d.status # "succeeded"
  BY <1>1, <1>2, RunOf DEF PersistFails, At
<1>4. CASE ~ reached
  BY <1>4, GoEndKeeps DEF PersistFails
<1>5. CASE reached
  <2>1. PICK e : e = [d EXCEPT !.status = "failed"]
    OBVIOUS
  <2>2. DOMAIN e = Columns /\ e.status = "failed" /\ e.rows = d.rows
        /\ e.summary = d.summary /\ e.selected = d.selected
    BY <1>3, <2>1 DEF Columns
  <2>3. PICK m : m = [l EXCEPT !.pc = "end"]
    OBVIOUS
  <2>4. RunInv(m, d)
    BY <1>3, <2>3, EndsKeeps
  <2>5. m.pc = "end"
    BY <1>3, <2>3 DEF Locals
  <2>6. Progress(m, e)
    BY <2>2, <2>4 DEF RunInv, Progress
  <2>7. Committed(m, e) /\ Fatal(m, e) /\ ObservationOf(m, e)
    BY <2>2, <2>4, <2>5 DEF RunInv, Committed, Fatal, ObservationOf
  <2>8. Finished(m, e)
    BY <2>2, <2>4, <2>5 DEF RunInv, Finished
  <2>9. RunInv(m, e)
    BY <2>2, <2>4, <2>6, <2>7, <2>8 DEF RunInv
  <2>10. Become(r, m)
    BY <1>1, <2>3 DEF PersistFails, Go
  <2>11. Store(r, e) /\ ended' = Append(ended, r) /\ UNCHANGED rd
    BY <1>2, <1>5, <2>1 DEF PersistFails
  <2> QED
    BY <1>2, <1>3, <2>9, <2>10, <2>11, OneRun
<1> QED
  BY <1>4, <1>5

\* The final status is that of the rows, all of which are committed.
LEMMA FinalizeKeeps ==
    ASSUME EvaluationInv, NEW r \in Runs, Finalize(r) PROVE EvaluationInv'
<1>1. PICK l : l = loc[r]
  OBVIOUS
<1>2. PICK d : d = db[r]
  OBVIOUS
<1>3. RunInv(l, d) /\ DOMAIN l = Locals /\ DOMAIN d = Columns /\ l.pc = "finalize"
      /\ d.status # "succeeded"
  BY <1>1, <1>2, RunOf DEF Finalize, At
<1>4. PICK summary : summary = _build_summary(d.rows)
  OBVIOUS
<1>5. l.done = d.rows
  BY <1>3 DEF RunInv, Committed
<1>6. PICK e : e = [d EXCEPT !.status = IF l.fatal = None THEN "succeeded" ELSE "failed",
                             !.summary = summary]
  OBVIOUS
<1>7. DOMAIN e = Columns /\ e.rows = d.rows /\ e.summary = summary /\ e.selected = d.selected
      /\ e.status = IF l.fatal = None THEN "succeeded" ELSE "failed"
  BY <1>3, <1>6 DEF Columns
<1>8. PICK m : m = [l EXCEPT !.pc = "end"]
  OBVIOUS
<1>9. RunInv(m, d)
  BY <1>3, <1>8, EndsKeeps
<1>10. m.pc = "end"
  BY <1>3, <1>8 DEF Locals
<1>11. Progress(m, e)
  BY <1>7, <1>9 DEF RunInv, Progress
<1>12. Committed(m, e) /\ Fatal(m, e) /\ ObservationOf(m, e)
  BY <1>7, <1>9, <1>10 DEF RunInv, Committed, Fatal, ObservationOf
<1>13. ASSUME l.fatal = None PROVE Whole(e)
  <2>1. l.todo = {} /\ \A i \in DOMAIN d.rows : ~ d.rows[i].x.fatal
    BY <1>3, <1>13 DEF RunInv, Fatal, Running
  <2>2. Left(l) = {}
    BY <2>1 DEF Left
  <2>3. IdsOf(d.rows) = d.selected
    BY <1>3, <2>2 DEF RunInv, Progress, Running
  <2> QED
    BY <1>4, <1>7, <2>1, <2>3 DEF Whole
<1>14. Finished(m, e)
  BY <1>4, <1>7, <1>10, <1>13 DEF Finished
<1>15. RunInv(m, e)
  BY <1>7, <1>9, <1>11, <1>12, <1>14 DEF RunInv
<1>16. Become(r, m)
  BY <1>1, <1>8 DEF Finalize, Go
<1>17. Store(r, e)
  BY <1>1, <1>2, <1>4, <1>5, <1>6 DEF Finalize
<1>18. ended' = Append(ended, r) /\ UNCHANGED rd
  BY DEF Finalize
<1> QED
  BY <1>2, <1>3, <1>15, <1>16, <1>17, <1>18, OneRun

-----------------------------------------------------------------------------
(* The steps of a reader                                                   *)

\* One reader's step
LEMMA OneReader ==
    ASSUME EvaluationInv, NEW k \in Readers, NEW q, rd' = [rd EXCEPT ![k] = q],
           ReaderInv(k, q, db), UNCHANGED <<db, ended, loc>>
    PROVE  EvaluationInv'
<1>1. DOMAIN rd' = Readers /\ \A j \in Readers : rd'[j] = IF j = k THEN q ELSE rd[j]
  BY DEF EvaluationInv
<1>2. \A j \in Readers : ReaderInv(j, rd'[j], db)
  BY <1>1 DEF EvaluationInv
<1> QED
  BY <1>1, <1>2 DEF EvaluationInv

\* The latest run of a reader is one that ended.
LEMMA LatestIsRun ==
    ASSUME EvaluationInv, NEW k PROVE Latest(k) \subseteq Runs
BY DEF EvaluationInv, Latest

\* A reader reads the status, then the rows, of a run.
LEMMA ReadRunKeeps ==
    ASSUME EvaluationInv, NEW k \in Readers, ReadRun(k) PROVE EvaluationInv'
<1>1. PICK r \in Runs : rd' = [rd EXCEPT ![k] = [pc |-> "run", run |-> r, status |-> db[r].status]]
  BY LatestIsRun DEF ReadRun
<1>2. PICK q : q = [pc |-> "run", run |-> r, status |-> db[r].status]
  OBVIOUS
<1>3. q.pc = "run" /\ q.run = r /\ q.status = db[r].status
  BY <1>2
<1>4. ReaderInv(k, q, db)
  BY <1>3 DEF ReaderInv
<1>5. UNCHANGED <<db, ended, loc>>
  BY DEF ReadRun
<1> QED
  BY <1>1, <1>2, <1>4, <1>5, OneReader

\* What a reader is shown is of the run it asked for.
LEMMA ViewFields ==
    ASSUME NEW run, NEW status, NEW rows, NEW shown,
           NEW q, q = _metric_summary(run, status, rows, shown)
    PROVE  q.pc = "view" /\ q.run = run /\ q.status = status
BY DEF _metric_summary

\* The rows of a run that had succeeded are the ones it succeeded with.
LEMMA ReadRowsKeeps ==
    ASSUME EvaluationInv, NEW k \in Readers, ReadRows(k) PROVE EvaluationInv'
<1>1. PICK q : q = rd[k]
  OBVIOUS
<1>2. q.pc = "run" /\ UNCHANGED <<db, ended, loc>>
  BY <1>1 DEF ReadRows
<1>3. q.run \in Runs /\ (q.status = "succeeded" => db[q.run].status = "succeeded")
  BY <1>1, <1>2 DEF EvaluationInv, ReaderInv
<1>4. PICK rows : rows = db[q.run].rows
  OBVIOUS
<1>5. PICK p : p = IF Visible(k) # Ids /\ Shown(k, rows) = {} THEN [pc |-> "idle"]
                   ELSE _metric_summary(q.run, q.status, rows, Shown(k, rows))
  OBVIOUS
<1>6. rd' = [rd EXCEPT ![k] = p]
  BY <1>1, <1>4, <1>5 DEF ReadRows
<1>7. ReaderInv(k, p, db)
  <2>1. CASE p = [pc |-> "idle"]
    BY <2>1 DEF ReaderInv
  <2>2. CASE p = _metric_summary(q.run, q.status, rows, Shown(k, rows))
    <3>1. p.pc = "view" /\ p.run = q.run /\ p.status = q.status
      BY <2>2, ViewFields
    <3> QED
      BY <1>3, <1>4, <2>2, <3>1 DEF ReaderInv
  <2> QED
    BY <1>5, <2>1, <2>2
<1> QED
  BY <1>2, <1>6, <1>7, OneReader

\* A reader may ask again.
LEMMA RespondKeeps ==
    ASSUME EvaluationInv, NEW k \in Readers, Respond(k) PROVE EvaluationInv'
<1>1. PICK q : q = [pc |-> "idle"]
  OBVIOUS
<1>2. ReaderInv(k, q, db)
  BY <1>1 DEF ReaderInv
<1> QED
  BY <1>1, <1>2, OneReader DEF Respond

-----------------------------------------------------------------------------
(* The invariant holds                                                     *)

\* No run has begun.
LEMMA EvaluationInvInit ==
    Setting /\ Init => EvaluationInv
<1> SUFFICES ASSUME Setting, Init PROVE EvaluationInv
  OBVIOUS
<1>1. DOMAIN db = Runs /\ DOMAIN loc = Runs /\ DOMAIN rd = Readers
  BY DEF Init
<1>2. ASSUME NEW r \in Runs PROVE RunInv(loc[r], db[r])
  <2>1. PICK l : l = loc[r]
    OBVIOUS
  <2>2. PICK d : d = db[r]
    OBVIOUS
  <2>3. DOMAIN l = Locals /\ l.pc = "idle" /\ l.suite = <<>> /\ l.todo = {} /\ l.done = <<>>
        /\ l.fatal = None /\ l.x = _internal_failure /\ l.seen = {}
    BY <1>2, <2>1 DEF Init, Idle, Locals
  <2>4. DOMAIN d = Columns /\ d.status = "absent" /\ d.rows = <<>> /\ d.summary = NoSummary
        /\ d.selected = {}
    BY <1>2, <2>2 DEF Init, Columns
  <2>5. IsSeq(<<>>) /\ DOMAIN <<>> = 1 .. 0 /\ 0 \in Nat
    BY DEF IsSeq
  <2>6. Progress(l, d)
    BY <2>3, <2>4, <2>5 DEF Progress, GoodSuite, IdsOf, Left, Running, AtCase
  <2>7. Committed(l, d)
    BY <2>3, <2>4, <2>5 DEF Committed
  <2>8. Fatal(l, d)
    BY <2>3, <2>4, <2>5, OtherExecutions DEF Fatal, Running
  <2>9. ObservationOf(l, d)
    BY <2>3, <2>4, <2>5 DEF ObservationOf, Running, Observed
  <2>10. Finished(l, d)
    BY <2>3, <2>4 DEF Finished
  <2> QED
    BY <2>1, <2>2, <2>3, <2>4, <2>6, <2>7, <2>8, <2>9, <2>10 DEF RunInv
<1>3. ASSUME NEW k \in Readers PROVE ReaderInv(k, rd[k], db)
  BY <1>3 DEF Init, ReaderInv
<1>4. IsSeq(ended) /\ \A i \in DOMAIN ended : ended[i] \in Runs
  BY DEF Init, IsSeq
<1> QED
  BY <1>1, <1>2, <1>3, <1>4 DEF EvaluationInv

\* Each step of a run keeps the invariant.
LEMMA RunStepKeeps ==
    ASSUME Setting, EvaluationInv, NEW r \in Runs,
           \/ \E f \in Filters, s \in {"full", "canary"} : Start(r, s, f)
           \/ \E s \in Services, mine \in BOOLEAN : Acquire(r, s, mine)
           \/ \E reached \in BOOLEAN : PersistFails(r, reached)
           \/ StartFails(r) \/ AcquireNoActor(r) \/ AcquireRaises(r)
           \/ AcquireDenied(r) \/ AcquireUnstored(r) \/ Gather(r) \/ GatherFails(r)
           \/ Judge(r) \/ JudgeRaises(r) \/ Persist(r) \/ Finalize(r) \/ Stop(r)
    PROVE  EvaluationInv'
<1>1. CASE \E f \in Filters, s \in {"full", "canary"} : Start(r, s, f)
  BY <1>1, StartKeeps
<1>2. CASE \E s \in Services, mine \in BOOLEAN : Acquire(r, s, mine)
  BY <1>2, AcquireKeeps
<1>3. CASE \E reached \in BOOLEAN : PersistFails(r, reached)
  BY <1>3, PersistFailsKeeps
<1>4. CASE StartFails(r)
  BY <1>4, GoEndKeeps DEF StartFails
<1>5. CASE AcquireNoActor(r)
  BY <1>5, NotObservedKeeps DEF AcquireNoActor
<1>6. CASE AcquireRaises(r)
  BY <1>6, NotObservedKeeps DEF AcquireRaises
<1>7. CASE AcquireDenied(r)
  BY <1>7, DeniedKeeps
<1>8. CASE AcquireUnstored(r)
  BY <1>8, AcquireUnstoredKeeps
<1>9. CASE Gather(r)
  BY <1>9, GatherKeeps
<1>10. CASE GatherFails(r)
  BY <1>10, GatherFailsKeeps
<1>11. CASE Judge(r)
  BY <1>11, CompleteKeeps DEF Judge
<1>12. CASE JudgeRaises(r)
  BY <1>12, CompleteKeeps DEF JudgeRaises
<1>13. CASE Persist(r)
  BY <1>13, PersistKeeps
<1>14. CASE Finalize(r)
  BY <1>14, FinalizeKeeps
<1>15. CASE Stop(r)
  BY <1>15, GoEndKeeps DEF Stop
<1> QED
  BY <1>1, <1>2, <1>3, <1>4, <1>5, <1>6, <1>7, <1>8, <1>9, <1>10, <1>11, <1>12, <1>13, <1>14, <1>15

\* So does every step.
LEMMA EvaluationInvNext ==
    Setting /\ EvaluationInv /\ [Next]_vars => EvaluationInv'
<1> SUFFICES ASSUME Setting, EvaluationInv, [Next]_vars PROVE EvaluationInv'
  OBVIOUS
<1>1. CASE UNCHANGED vars
  BY <1>1 DEF vars, EvaluationInv
<1>2. CASE ActorChanges
  BY <1>2 DEF ActorChanges, EvaluationInv
<1>3. ASSUME NEW k \in Readers, ReadRun(k) \/ ReadRows(k) \/ Respond(k) PROVE EvaluationInv'
  BY <1>3, ReadRunKeeps, ReadRowsKeeps, RespondKeeps
<1> QED
  BY <1>1, <1>2, <1>3, RunStepKeeps DEF Next

\* The invariant of evaluation runs and their readers, for every data set, every
\* number of runs and readers and every answer of the query engine: the rows of a
\* run are about different cases of its selection, and what is in the database of
\* a run that succeeded never changes.
THEOREM EvaluationInvHolds ==
    ASSUME Setting PROVE Spec => []EvaluationInv
<1>1. Init => EvaluationInv
  BY EvaluationInvInit
<1>2. EvaluationInv /\ [Next]_vars => EvaluationInv'
  BY EvaluationInvNext
<1> QED
  BY <1>1, <1>2, PTL DEF Spec

\* What the engine answered is what the result row says, whatever fails after it
\* (runner.py: acquire and judge are apart; the observation is taken first).
THEOREM ObservationHolds ==
    ASSUME Setting PROVE Spec => []ObservationSurvives
<1>1. EvaluationInv => ObservationSurvives
  <2> SUFFICES ASSUME EvaluationInv, NEW r \in Runs, NEW i \in DOMAIN db[r].rows, NEW s,
                      Sees(r, db[r].rows[i].id, s)
               PROVE  /\ db[r].rows[i].x = _classify_query_result(s)
                      /\ db[r].rows[i].x.attempted = (s \in {"succeeded", "execution_failed"})
    BY DEF ObservationSurvives
  <2>1. ObservationOf(loc[r], db[r])
    BY DEF EvaluationInv, RunInv
  <2>2. db[r].rows[i].x = _classify_query_result(s)
    BY <2>1 DEF ObservationOf, Sees
  <2> QED
    BY <2>2, ClassifiedWell
<1> QED
  BY <1>1, EvaluationInvHolds, PTL

-----------------------------------------------------------------------------
(* What a finished run and its readers say                                 *)

\* A data set is finite.
LEMMA FiniteIds ==
    ASSUME Setting PROVE IsFiniteSet(Ids)
<1> DEFINE g == [i \in DOMAIN CaseOrder |-> CaseOrder[i].id]
<1>1. IsFiniteSet(DOMAIN CaseOrder)
  <2>1. PICK n \in Nat : DOMAIN CaseOrder = 1 .. n
    BY SuitesAreNumbered
  <2>2. IsFiniteSet(1 .. n)
    BY FS_Interval
  <2> QED
    BY <2>1, <2>2
<1>2. g \in Surjection(DOMAIN CaseOrder, Ids)
  BY DEF Surjection, Ids, Cases
<1> HIDE DEF g
<1> QED
  BY <1>1, <1>2, FS_Surjection

\* There are as many cases in some rows as there are rows.
LEMMA AsManyCases ==
    ASSUME NEW rows, \A i, j \in DOMAIN rows : rows[i].id = rows[j].id => i = j,
           NEW S, S \subseteq DOMAIN rows, IsFiniteSet(S),
           NEW T, T = {rows[i].id : i \in S}
    PROVE  IsFiniteSet(T) /\ Cardinality(T) = Cardinality(S)
<1> DEFINE g == [i \in S |-> rows[i].id]
<1>1. g \in Bijection(S, T)
  BY DEF Bijection, Injection, Surjection, IsInjective
<1> HIDE DEF g
<1>2. ExistsBijection(S, T)
  BY <1>1 DEF ExistsBijection
<1> QED
  BY <1>2, FS_Bijection

\* A sequence of rows is finite.
LEMMA RowsFinite ==
    ASSUME NEW rows, IsSeq(rows)
    PROVE  IsFiniteSet(DOMAIN rows) /\ Cardinality(DOMAIN rows) = Len(rows)
<1>1. PICK S : rows \in Seq(S)
  BY DEF IsSeq
<1>2. PICK n : n = Len(rows)
  OBVIOUS
<1>3. n \in Nat /\ DOMAIN rows = 1 .. n
  BY <1>1, <1>2
<1>4. IsFiniteSet(1 .. n) /\ Cardinality(1 .. n) = IF 1 > n THEN 0 ELSE n - 1 + 1
  BY <1>3, FS_Interval
<1> QED
  BY <1>2, <1>3, <1>4

\* What a summary counts, of the rows at some positions
PassedAt(rows, S) == {i \in S : rows[i].passed}
UnestablishedAt(rows, S) == {i \in S : rows[i].state = "unestablished"}
ExecutedAt(rows, S) == {i \in S : rows[i].x.attempted /\ rows[i].x.succeeded}

\* A summary counts the rows it is of.
LEMMA SummaryCounts ==
    ASSUME NEW rows, NEW summary, summary = _build_summary(rows)
    PROVE  /\ summary.completed = Len(rows)
           /\ summary.passed = Cardinality(PassedAt(rows, DOMAIN rows))
           /\ summary.unestablished = Cardinality(UnestablishedAt(rows, DOMAIN rows))
           /\ summary.executed = Cardinality(ExecutedAt(rows, DOMAIN rows))
BY DEF _build_summary, PassedAt, UnestablishedAt, ExecutedAt

\* The rows of those shown that could be read
ReadAt(rows, S) == {i \in S : _parse_result(rows[i])}

\* A view counts the rows that are shown, and those that could be read.
LEMMA ViewCounts ==
    ASSUME NEW run, NEW status, NEW rows, NEW shown,
           NEW q, q = _metric_summary(run, status, rows, shown)
    PROVE  /\ q.selected = Cardinality(shown)
           /\ q.completed = Cardinality(ReadAt(rows, shown))
           /\ q.passed = Cardinality(PassedAt(rows, ReadAt(rows, shown)))
           /\ q.unestablished = Cardinality(UnestablishedAt(rows, ReadAt(rows, shown)))
           /\ q.executed = Cardinality(ExecutedAt(rows, ReadAt(rows, shown)))
BY DEF _metric_summary, ReadAt, PassedAt, UnestablishedAt, ExecutedAt

\* The two halves of FinishedRunIsWhole
RunWhole(r) ==
    LET rows == db[r].rows IN
    /\ db[r].status = "succeeded" =>
          /\ RowIds(r) = db[r].selected /\ Len(rows) = Cardinality(db[r].selected)
          /\ \A i \in DOMAIN rows : ~rows[i].x.fatal
    /\ db[r].summary # NoSummary =>
          /\ db[r].summary.completed = Len(rows)
          /\ db[r].summary.passed = Cardinality({i \in DOMAIN rows : rows[i].passed})
          /\ db[r].summary.executed =
                Cardinality({i \in DOMAIN rows : rows[i].x.outcome = "success"})

ViewWhole(k) ==
    LET r == rd[k].run IN
    /\ rd[k].status = "succeeded" =>
          rd[k].selected = Cardinality(db[r].selected \cap Visible(k))
    /\ _availability(k) = "measured" =>
          /\ Visible(k) \subseteq RowIds(r)
          /\ rd[k].completed = Cardinality(Visible(k))
          /\ Visible(k) = Ids =>
                /\ rd[k].passed = db[r].summary.passed
                /\ rd[k].unestablished = db[r].summary.unestablished
                /\ rd[k].executed = db[r].summary.executed

\* The rows of a run that succeeded are its cases, and its summary is of the rows.
LEMMA RunsAreWhole ==
    ASSUME EvaluationInv, NEW r \in Runs PROVE RunWhole(r)
<1>1. PICK rows : rows = db[r].rows
  OBVIOUS
<1>2. PICK d : d = db[r] /\ RunInv(loc[r], d)
  BY DEF EvaluationInv
<1>3. IsSeq(rows) /\ \A i, j \in DOMAIN rows : rows[i].id = rows[j].id => i = j
  BY <1>1, <1>2 DEF RunInv, Committed, Progress
<1>4. RowIds(r) = IdsOf(rows)
  BY <1>1 DEF RowIds, IdsOf
<1>5. Cardinality(IdsOf(rows)) = Len(rows)
  BY <1>3, RowsFinite, AsManyCases DEF IdsOf
<1>6. db[r].status = "succeeded" => Whole(d)
  BY <1>2 DEF RunInv, Finished
<1>7. ASSUME d.summary # NoSummary
      PROVE  /\ d.summary.completed = Len(rows)
             /\ d.summary.passed = Cardinality({i \in DOMAIN rows : rows[i].passed})
             /\ d.summary.executed =
                   Cardinality({i \in DOMAIN rows : rows[i].x.outcome = "success"})
  <2>1. d.summary = _build_summary(rows)
    BY <1>1, <1>2, <1>7 DEF RunInv, Finished
  <2>2. \A i \in DOMAIN rows : GoodExecution(rows[i].x)
    BY <1>1, <1>2 DEF RunInv, Fatal
  <2>3. {i \in DOMAIN rows : rows[i].x.attempted /\ rows[i].x.succeeded}
            = {i \in DOMAIN rows : rows[i].x.outcome = "success"}
    BY <2>2 DEF GoodExecution
  <2>4. /\ d.summary.completed = Len(rows)
        /\ d.summary.passed = Cardinality(PassedAt(rows, DOMAIN rows))
        /\ d.summary.executed = Cardinality(ExecutedAt(rows, DOMAIN rows))
    BY <2>1, SummaryCounts
  <2> QED
    BY <2>3, <2>4 DEF PassedAt, ExecutedAt
<1> QED
  BY <1>1, <1>2, <1>4, <1>5, <1>6, <1>7 DEF Whole, RunWhole

\* A reader of a run that succeeded is shown all that is the reader's, and
\* reports the runner's totals when it could read, and see, everything.
LEMMA ViewsAreWhole ==
    ASSUME Setting, EvaluationInv, NEW k \in Readers, rd[k].pc = "view",
           rd[k].status = "succeeded", NEW r, r = rd[k].run
    PROVE  /\ rd[k].selected = Cardinality(db[r].selected \cap Visible(k))
           /\ rd[k].completed = Cardinality(Visible(k)) /\ rd[k].selected = rd[k].completed =>
                 /\ Visible(k) \subseteq RowIds(r)
                 /\ Visible(k) = Ids =>
                       /\ rd[k].passed = db[r].summary.passed
                       /\ rd[k].unestablished = db[r].summary.unestablished
                       /\ rd[k].executed = db[r].summary.executed
<1>1. PICK q : q = rd[k] /\ ReaderInv(k, q, db)
  BY DEF EvaluationInv
<1>2. r \in Runs /\ db[r].status = "succeeded"
  BY <1>1 DEF ReaderInv
<1>3. PICK d : d = db[r] /\ RunInv(loc[r], d)
  BY <1>2 DEF EvaluationInv
<1>4. PICK rows : rows = d.rows
  OBVIOUS
<1>5. PICK shown : shown = Shown(k, rows)
  OBVIOUS
<1>6. PICK read : read = ReadAt(rows, shown)
  OBVIOUS
<1>7. PICK run, status : q = _metric_summary(run, status, rows, shown)
  BY <1>1, <1>3, <1>4, <1>5 DEF ReaderInv
<1>8. q.selected = Cardinality(shown) /\ q.completed = Cardinality(read)
  BY <1>6, <1>7, ViewCounts
<1>9. IsSeq(rows) /\ \A i, j \in DOMAIN rows : rows[i].id = rows[j].id => i = j
  BY <1>3, <1>4 DEF RunInv, Committed, Progress
<1>10. Whole(d) /\ IdsOf(rows) \subseteq Ids
  BY <1>2, <1>3, <1>4 DEF RunInv, Finished, Progress
<1>11. shown \subseteq DOMAIN rows /\ read \subseteq shown
  BY <1>5, <1>6 DEF Shown, ReadAt
<1>12. IsFiniteSet(shown)
  BY <1>9, <1>11, RowsFinite, FS_Subset
<1>13. PICK theirs : theirs = {rows[i].id : i \in shown}
  OBVIOUS
<1>14. theirs = d.selected \cap Visible(k)
  BY <1>4, <1>5, <1>10, <1>13 DEF Shown, Whole, IdsOf
<1>15. IsFiniteSet(theirs) /\ Cardinality(theirs) = Cardinality(shown)
  BY <1>9, <1>11, <1>12, <1>13, AsManyCases
<1>16. ASSUME q.completed = Cardinality(Visible(k)), q.selected = q.completed
       PROVE  Visible(k) \subseteq RowIds(r)
  <2>1. IsFiniteSet(Visible(k))
    <3>1. Visible(k) \subseteq Ids
      BY DEF Visible, Ids
    <3> QED
      BY <3>1, FiniteIds, FS_Subset
  <2>2. theirs \subseteq Visible(k) /\ Cardinality(Visible(k)) = Cardinality(theirs)
    BY <1>8, <1>14, <1>15, <1>16
  <2>3. theirs = Visible(k)
    BY <2>1, <2>2, FS_Subset
  <2>4. RowIds(r) = IdsOf(rows)
    BY <1>3, <1>4 DEF RowIds, IdsOf
  <2> QED
    BY <1>11, <1>13, <2>3, <2>4 DEF IdsOf
<1>17. ASSUME q.selected = q.completed, Visible(k) = Ids
       PROVE  /\ q.passed = d.summary.passed /\ q.unestablished = d.summary.unestablished
              /\ q.executed = d.summary.executed
  <2>1. shown = DOMAIN rows
    BY <1>5, <1>10, <1>17 DEF Shown, IdsOf
  <2>2. read = shown
    BY <1>8, <1>11, <1>12, <1>17, FS_Subset
  <2>3. d.summary = _build_summary(rows)
    BY <1>4, <1>10 DEF Whole
  <2>4. /\ q.passed = Cardinality(PassedAt(rows, DOMAIN rows))
        /\ q.unestablished = Cardinality(UnestablishedAt(rows, DOMAIN rows))
        /\ q.executed = Cardinality(ExecutedAt(rows, DOMAIN rows))
    BY <1>6, <1>7, <2>1, <2>2, ViewCounts
  <2> QED
    BY <2>3, <2>4, SummaryCounts
<1> QED
  BY <1>1, <1>3, <1>8, <1>14, <1>15, <1>16, <1>17

\* A run that says SUCCEEDED has one row for every case it selected, none of them
\* fatal; a summary is of exactly the committed rows; a reader of such a run is
\* shown all of it that is the reader's, although it may have finished between
\* the reader's two statements, and one that sees everything reports the runner's
\* own totals (runner.py: run, read_service.py: _build_snapshot).
THEOREM FinishedRunsWhole ==
    ASSUME Setting PROVE Spec => []FinishedRunIsWhole
<1>1. EvaluationInv => FinishedRunIsWhole
  <2> SUFFICES ASSUME EvaluationInv PROVE FinishedRunIsWhole
    OBVIOUS
  <2>1. ASSUME NEW k \in Readers, _availability(k) = "measured"
        PROVE  /\ rd[k].status = "succeeded" /\ rd[k].completed = Cardinality(Visible(k))
               /\ rd[k].selected = rd[k].completed
    BY <2>1 DEF _availability
  <2>2. ASSUME NEW k \in Readers, rd[k].pc = "view", NEW r, r = rd[k].run
        PROVE  /\ rd[k].status = "succeeded" =>
                     rd[k].selected = Cardinality(db[r].selected \cap Visible(k))
               /\ _availability(k) = "measured" =>
                     /\ Visible(k) \subseteq RowIds(r)
                     /\ rd[k].completed = Cardinality(Visible(k))
                     /\ Visible(k) = Ids =>
                           /\ rd[k].passed = db[r].summary.passed
                           /\ rd[k].unestablished = db[r].summary.unestablished
                           /\ rd[k].executed = db[r].summary.executed
    BY <2>1, <2>2, ViewsAreWhole
  <2>3. \A r \in Runs : RunWhole(r)
    BY RunsAreWhole
  <2>4. \A k \in Readers : rd[k].pc = "view" => ViewWhole(k)
    BY <2>2 DEF ViewWhole
  <2> QED
    BY <2>3, <2>4, Zenon DEF FinishedRunIsWhole, RunWhole, ViewWhole
<1> QED
  BY <1>1, EvaluationInvHolds, PTL

-----------------------------------------------------------------------------
(* Judgment: rows and their number                                         *)

Rows == Seq(Int \X Int)

\* An execution returns rows of the population, no more of them than its LIMIT.
LEMMA ExecutionsAreBounded ==
    ASSUME NEW pop \in Rows, NEW ordered, NEW n \in Nat,
           NEW rows \in Executions(pop, ordered, n)
    PROVE  rows \in Rows /\ Len(rows) <= n
<1>1. Len(pop) \in Nat /\ DOMAIN pop = 1 .. Len(pop)
  BY DEF Rows
<1> DEFINE m == IF n < Len(pop) THEN n ELSE Len(pop)
<1>2. m \in Nat /\ m <= n
  BY <1>1
<1>3. PICK f \in [1 .. m -> DOMAIN pop] : rows = [i \in 1 .. m |-> pop[f[i]]]
  BY DEF Executions
<1> HIDE DEF m
<1>4. ASSUME NEW i \in 1 .. m PROVE pop[f[i]] \in Int \X Int
  BY <1>1, <1>3 DEF Rows
<1>5. rows \in [1 .. m -> Int \X Int]
  BY <1>3, <1>4
<1> QED
  BY <1>2, <1>5 DEF Rows

\* What a query's tables hold is a sequence of rows.
LEMMA PopulationsAreRows ==
    ASSUME EvidenceSetting, world \in Worlds, NEW q, q.answer \in {"right", "other"},
           NEW v \in {0, 1}
    PROVE  Population(q, v) \in Rows
<1>1. v + 1 \in 1 .. 2
  OBVIOUS
<1> QED
  BY <1>1 DEF EvidenceSetting, Population, Rows

\* The LIMITs of the production and of the auxiliary execution.
LEMMA LimitsAreNumbers ==
    ASSUME EvidenceSetting, NEW q, q.limit \in Nat
    PROVE  /\ effective_limit(q) \in Nat \ {0} /\ effective_limit(q) <= EvidenceRowLimit
           /\ widened_limit(q) \in Nat
BY DEF EvidenceSetting, effective_limit, widened_limit

-----------------------------------------------------------------------------
(* Sides of the evidence                                                   *)

\* Why a side of a comparison that was made may be incomplete.
Limitations == {"evidence_execution_failed", "evidence_timeout",
                "evidence_row_budget_exceeded", "evidence_validation_failed",
                "nonsemantic_bound_reached", "unsupported_query_shape",
                "evidence_payload_exceeded", "completeness_evidence_missing"}

SideFields == {"rows", "complete", "eligible", "exhausted", "reason", "delivery",
               "observed", "auxiliary", "slow"}

IsSide(s) ==
    /\ DOMAIN s = SideFields
    /\ s.rows \in Rows /\ Len(s.rows) <= EvidenceRowLimit
    /\ s.complete \in BOOLEAN /\ s.eligible \in BOOLEAN
    /\ s.observed \in Nat /\ s.auxiliary \in Nat
    /\ s.complete => s.eligible
    /\ s.complete \/ s.rows # <<>> => s.observed + s.auxiliary >= 1
    /\ s.complete <=> s.reason = "none"
    /\ s.slow => s.reason = "evidence_timeout"

\* A side of a comparison that was made.
Settled(s) == IsSide(s) /\ s.reason \in Limitations \cup {"none"}

LEMMA SidesAreSafe ==
    ASSUME NEW s, IsSide(s)
    PROVE  _safe_side_summary(s)
BY DEF IsSide, _safe_side_summary

LEMMA NoSidesAreSides ==
    ASSUME EvidenceSetting, NEW reason, reason # "none", NEW n \in Nat
    PROVE  IsSide(NoSide(reason, n))
<1>1. <<>> \in Rows /\ Len(<<>>) = 0 /\ EvidenceRowLimit \in Nat
  BY DEF Rows, EvidenceSetting
<1> QED
  BY <1>1 DEF IsSide, NoSide, SideFields

\* What the production execution proves.
LEMMA ObservedIsSettled ==
    ASSUME NEW rows \in Rows, Len(rows) <= EvidenceRowLimit, NEW q, q.supported \in BOOLEAN
    PROVE  Settled(observed_evidence_side(rows, q))
<1> DEFINE s == observed_evidence_side(rows, q)
<1>1. PICK whole \in BOOLEAN :
        whole = _executed_answer_is_complete(q, effective_limit(q), FALSE,
                    _execution_exhausted(Len(rows), effective_limit(q), FALSE))
  BY DEF _executed_answer_is_complete
<1>2. /\ DOMAIN s = SideFields
      /\ s.rows = rows /\ s.complete = (whole /\ q.supported) /\ s.eligible = q.supported
      /\ s.observed = 1 /\ s.auxiliary = 0 /\ s.slow = FALSE
      /\ s.reason = IF whole /\ q.supported THEN "none"
                    ELSE IF ~q.supported THEN "unsupported_query_shape"
                    ELSE "nonsemantic_bound_reached"
  BY <1>1 DEF observed_evidence_side, SideFields
<1> HIDE DEF s
<1>3. Settled(s)
  BY <1>2 DEF Settled, IsSide, Limitations, SideFields
<1> QED
  BY <1>3 DEF s

\* What an auxiliary statement comes back with is rows within the budget; a
\* statement that failed returns none.
LEMMA AuxiliaryRunsAreBounded ==
    ASSUME EvidenceSetting, world \in Worlds, snap \in {0, 1},
           NEW q, q.answer \in {"right", "other"}, q.limit \in Nat,
           NEW budget \in Int, budget > 0, NEW r \in AuxiliaryRuns(q, budget)
    PROVE  r.rows \in Rows /\ Len(r.rows) <= EvidenceRowLimit
<1> DEFINE full == Executions(Population(q, snap), q.ordered, widened_limit(q))
           room == IF budget < EvidenceRowLimit THEN budget ELSE EvidenceRowLimit
           kept(s) == IF Len(s) <= room THEN Len(s) ELSE room
<1>1. \A s \in full : s \in Rows
  BY PopulationsAreRows, LimitsAreNumbers, ExecutionsAreBounded
<1>2. room \in Nat /\ room <= EvidenceRowLimit
  BY DEF EvidenceSetting
<1>3. r.rows = <<>> \/ \E s \in full : \E k \in 0 .. kept(s) : r.rows = SubSeq(s, 1, k)
  <2>1. \/ \E t \in BOOLEAN : r.rows = <<>>
        \/ \E s \in full : r.rows = SubSeq(s, 1, kept(s))
        \/ \E s \in full : \E k \in 0 .. kept(s) : r.rows = SubSeq(s, 1, k)
    <3> DEFINE run(ok, rows, truncated, payload, timeout, slow) ==
                  [ok |-> ok, rows |-> rows, truncated |-> truncated,
                   payload |-> payload, timeout |-> timeout, slow |-> slow]
                  failed == {run(FALSE, <<>>, FALSE, FALSE, t, FALSE) : t \in BOOLEAN}
                  returned == {run(TRUE, SubSeq(s, 1, kept(s)),
                                Len(s) > room /\ room = EvidenceRowLimit,
                                Len(s) > room /\ room < EvidenceRowLimit, FALSE, slow) :
                                  s \in full, slow \in BOOLEAN}
                  cut(s) == {run(TRUE, SubSeq(s, 1, k), FALSE, FALSE, TRUE, FALSE) :
                                  k \in 0 .. kept(s)}
    <3>1. r \in failed \cup returned \cup UNION {cut(s) : s \in full}
      BY DEF AuxiliaryRuns
    <3> HIDE DEF full, room, kept
    <3>2. CASE r \in failed
      BY <3>2
    <3>3. CASE r \in returned
      BY <3>3
    <3>4. ASSUME NEW s \in full, r \in cut(s)
          PROVE  \E k \in 0 .. kept(s) : r.rows = SubSeq(s, 1, k)
      BY <3>4
    <3> HIDE DEF failed, returned, cut
    <3>5. CASE r \in UNION {cut(s) : s \in full}
      <4>1. PICK s \in full : r \in cut(s)
        BY <3>5
      <4> QED
        BY <3>4, <4>1
    <3> QED
      BY <3>1, <3>2, <3>3, <3>5
  <2> HIDE DEF full, room
  <2>2. \A s \in full : kept(s) \in 0 .. kept(s)
    BY <1>1, <1>2 DEF Rows
  <2> QED
    BY <2>1, <2>2
<1> HIDE DEF full, room
<1>4. ASSUME NEW s \in full, NEW k \in 0 .. kept(s)
      PROVE  SubSeq(s, 1, k) \in Rows /\ Len(SubSeq(s, 1, k)) <= EvidenceRowLimit
  <2>1. s \in Rows /\ Len(s) \in Nat /\ k \in 0 .. Len(s) /\ k <= EvidenceRowLimit
    BY <1>1, <1>2 DEF Rows, EvidenceSetting
  <2>2. \A i \in 1 .. k : s[i] \in Int \X Int
    BY <2>1 DEF Rows
  <2>3. SubSeq(s, 1, k) \in Seq(Int \X Int)
        /\ Len(SubSeq(s, 1, k)) = IF 1 <= k THEN k - 1 + 1 ELSE 0
    BY <2>1, <2>2, SubSeqProperties
  <2> QED
    BY <2>1, <2>3 DEF Rows
<1>5. <<>> \in Rows /\ Len(<<>>) <= EvidenceRowLimit
  BY DEF Rows, EvidenceSetting
<1> QED
  BY <1>3, <1>4, <1>5

\* What it proves, under the verdict on a statement that took too long.
LEMMA AuxiliaryIsSettled ==
    ASSUME NEW q, q.supported \in BOOLEAN, NEW r, NEW side,
           r.rows \in Rows, Len(r.rows) <= EvidenceRowLimit, side.observed \in Nat
    PROVE  Settled(auxiliary_evidence_side(q, r, side))
<1> DEFINE s == auxiliary_evidence_side(q, r, side)
           exhausted == /\ _execution_exhausted(Len(r.rows), widened_limit(q), r.truncated)
                        /\ ~r.payload /\ ~r.timeout /\ q.supported
           whole == /\ _executed_answer_is_complete(q, widened_limit(q),
                                                    r.truncated, exhausted)
                    /\ ~r.payload /\ ~r.timeout /\ q.supported
<1>1. PICK complete \in BOOLEAN : complete = (r.ok /\ whole /\ ~r.slow)
  OBVIOUS
<1>2. /\ DOMAIN s = SideFields
      /\ s.rows = r.rows /\ s.complete = complete /\ s.eligible = q.supported
      /\ s.observed = side.observed /\ s.auxiliary = 1 /\ s.slow = r.slow
      /\ s.reason = IF r.slow THEN "evidence_timeout"
                    ELSE IF ~r.ok THEN (IF r.timeout THEN "evidence_timeout"
                                        ELSE "completeness_evidence_missing")
                    ELSE IF complete THEN "none"
                    ELSE IF r.timeout THEN "evidence_timeout"
                    ELSE IF r.payload THEN "evidence_payload_exceeded"
                    ELSE IF r.truncated THEN "evidence_row_budget_exceeded"
                    ELSE "nonsemantic_bound_reached"
  BY <1>1 DEF auxiliary_evidence_side, SideFields
<1>3. complete => q.supported /\ r.ok /\ ~r.slow
  BY <1>1
<1> HIDE DEF s, exhausted, whole
<1>4. Settled(s)
  BY <1>2, <1>3 DEF Settled, IsSide, Limitations, SideFields
<1> QED
  BY <1>4 DEF s

\* The evidence acquired for a side.
LEMMA AcquiredIsSettled ==
    ASSUME EvidenceSetting, world \in Worlds, snap \in {0, 1},
           NEW q, q.answer \in {"right", "other"}, q.limit \in Nat, q.supported \in BOOLEAN,
           NEW side, Settled(side), ~side.slow, NEW budget, budget \in Int,
           NEW r, r \in acquire(side, q, budget)
    PROVE  Settled(r.side)
<1>1. CASE side.complete
  BY <1>1 DEF acquire
<1>2. CASE ~side.complete /\ (late \/ ~usable \/ budget <= 0 \/ ~build_auxiliary_validation(q))
  <2>1. PICK why \in {"evidence_timeout", "evidence_payload_exceeded",
                      "unsupported_query_shape"} :
          r.side = [side EXCEPT !.reason = why]
    <3> DEFINE why == IF late THEN "evidence_timeout"
                      ELSE IF budget <= 0 THEN "evidence_payload_exceeded"
                      ELSE IF ~usable THEN "evidence_timeout"
                      ELSE "unsupported_query_shape"
    <3>1. r.side = [side EXCEPT !.reason = why]
      <4>1. acquire(side, q, budget) = {[side |-> [side EXCEPT !.reason = why], ok |-> TRUE]}
        BY <1>2, Zenon DEF acquire
      <4> HIDE DEF why
      <4> QED
        BY <4>1
    <3> QED
      BY <3>1
  <2> DEFINE s == r.side
  <2>2. /\ DOMAIN s = SideFields
        /\ s.rows = side.rows /\ s.complete = side.complete /\ s.eligible = side.eligible
        /\ s.observed = side.observed /\ s.auxiliary = side.auxiliary
        /\ s.slow = side.slow /\ s.reason = why
    BY <2>1 DEF Settled, IsSide, SideFields
  <2> HIDE DEF s
  <2>4. Settled(s)
    BY <1>2, <2>2 DEF Settled, IsSide, Limitations
  <2> QED
    BY <2>4 DEF s
<1>3. CASE ~side.complete /\ ~late /\ usable /\ budget > 0 /\ build_auxiliary_validation(q)
  <2>1. PICK a \in AuxiliaryRuns(q, budget) : r.side = auxiliary_evidence_side(q, a, side)
    BY <1>3 DEF acquire
  <2>2. side.observed \in Nat
    BY DEF Settled, IsSide
  <2> QED
    BY <1>3, <2>1, <2>2, AuxiliaryRunsAreBounded, AuxiliaryIsSettled
<1> QED
  BY <1>1, <1>2, <1>3

-----------------------------------------------------------------------------
(* What a judgment rests on                                                *)

IsEvidence(ev) ==
    /\ IsSide(ev.expected) /\ IsSide(ev.actual) /\ ev.compatible \in BOOLEAN
    /\ ev.compatible => Settled(ev.expected) /\ Settled(ev.actual)
    /\ ev.delivery \in {"complete", "safety_limited", "unknown"}
    /\ ev.delivery = "safety_limited" <=> ev.limit # NoLimit

\* The limitations a reader accepts.
LEMMA SupportedLimitations ==
    ASSUME NEW ev, IsEvidence(ev), NEW e, e = ev.expected, NEW a, a = ev.actual
    PROVE  /\ ~ev.compatible =>
                 _limitation_is_supported(ev, "comparison_context_unestablished")
           /\ _limitation_is_supported(ev, "evidence_payload_exceeded")
           /\ e.complete /\ a.complete =>
                 /\ _limitation_is_supported(ev, "bounded_selection_unestablished")
                 /\ _limitation_is_supported(ev, "ranking_tie_unestablished")
           /\ ~e.complete \/ ~a.complete \/ ev.delivery = "unknown" =>
                 _limitation_is_supported(ev, "completeness_evidence_missing")
           /\ ev.compatible /\ e.eligible /\ a.eligible =>
                 _limitation_is_supported(ev, "comparison_proof_unavailable")
<1> DEFINE open == {s.reason : s \in {t \in {ev.expected, ev.actual} : ~t.complete}}
<1>1. e.complete /\ a.complete => open = {}
  OBVIOUS
<1>2. ~e.complete \/ ~a.complete => open # {}
  <2>1. ~e.complete => e.reason \in open
    OBVIOUS
  <2>2. ~a.complete => a.reason \in open
    OBVIOUS
  <2> QED
    BY <2>1, <2>2
<1> HIDE DEF open
<1>3. \A reason : _limitation_is_supported(ev, reason) <=>
        CASE reason \in {"evidence_execution_failed", "evidence_timeout",
                         "evidence_row_budget_exceeded",
                         "evidence_validation_failed",
                         "nonsemantic_bound_reached",
                         "unsupported_query_shape"} -> reason \in open
          [] reason = "evidence_payload_exceeded" -> TRUE
          [] reason \in {"bounded_selection_unestablished",
                         "ranking_tie_unestablished"} -> open = {}
          [] reason = "completeness_evidence_missing" ->
                 open # {} \/ ev.delivery = "unknown"
          [] reason = "comparison_proof_unavailable" ->
                 ev.compatible /\ ev.expected.eligible /\ ev.actual.eligible
          [] reason = "comparison_context_unestablished" -> ~ev.compatible
  BY DEF _limitation_is_supported, open
<1> QED
  BY <1>1, <1>2, <1>3

\* So is the reason of a side that is incomplete.
LEMMA SideLimitationSupported ==
    ASSUME NEW ev, IsEvidence(ev), ev.compatible, NEW s \in {ev.expected, ev.actual},
           ~s.complete
    PROVE  s.reason # "none" /\ _limitation_is_supported(ev, s.reason)
<1>1. s.reason \in Limitations /\ s.reason # "none"
  BY DEF IsEvidence, Settled, IsSide
<1>2. ~ev.expected.complete \/ ~ev.actual.complete
  OBVIOUS
<1>3. CASE s.reason \in {"evidence_payload_exceeded", "completeness_evidence_missing"}
  BY <1>1, <1>2, <1>3, SupportedLimitations
<1>4. CASE s.reason \notin {"evidence_payload_exceeded", "completeness_evidence_missing"}
  BY <1>1, <1>4 DEF _limitation_is_supported, Limitations
<1> QED
  BY <1>1, <1>3, <1>4

\* A verdict that the evidence shows.
Grounded(j, ev) ==
    \/ /\ j = Correct /\ ev.compatible /\ ev.expected.complete /\ ev.actual.complete
       /\ ev.delivery \in {"complete", "safety_limited"}
    \/ j = Incorrect
    \/ \E reason : /\ j = _unestablished(reason) /\ reason # "none"
                   /\ _limitation_is_supported(ev, reason)

LEMMA UnestablishedIsGrounded ==
    ASSUME NEW ev, NEW reason, reason # "none", _limitation_is_supported(ev, reason)
    PROVE  Grounded(_unestablished(reason), ev)
BY DEF Grounded

LEMMA IncorrectIsGrounded == ASSUME NEW ev PROVE Grounded(Incorrect, ev)
BY DEF Grounded

LEMMA CompareWholeIsGrounded ==
    ASSUME NEW p, NEW ev, IsEvidence(ev), ev.compatible,
           ev.expected.complete, ev.actual.complete
    PROVE  Grounded(CompareWhole(p, ev), ev)
<1>1. ev.expected.eligible /\ ev.actual.eligible
  BY DEF IsEvidence, IsSide
<1>2. /\ Grounded(_unestablished("bounded_selection_unestablished"), ev)
      /\ Grounded(_unestablished("comparison_proof_unavailable"), ev)
      /\ Grounded(_unestablished("ranking_tie_unestablished"), ev)
  BY <1>1, SupportedLimitations, UnestablishedIsGrounded
<1>3. ev.delivery = "unknown" =>
        Grounded(_unestablished("completeness_evidence_missing"), ev)
  BY SupportedLimitations, UnestablishedIsGrounded
<1>4. ev.delivery # "unknown" => Grounded(Correct, ev)
  BY DEF Grounded, IsEvidence
<1> QED
  BY <1>2, <1>3, <1>4, IncorrectIsGrounded, Zenon DEF CompareWhole

LEMMA CompareSampleIsGrounded ==
    ASSUME NEW p, NEW ev, IsEvidence(ev), ev.compatible,
           ev.expected.eligible, ev.actual.eligible,
           ~(ev.expected.complete /\ ev.actual.complete)
    PROVE  Grounded(CompareSample(p, ev), ev)
<1> DEFINE e == ev.expected
           a == ev.actual
           why == IF e.reason # "none" THEN e.reason
                  ELSE IF a.reason # "none" THEN a.reason
                  ELSE "completeness_evidence_missing"
<1>1. why # "none" /\ _limitation_is_supported(ev, why)
  <2>1. /\ e.complete <=> e.reason = "none"
        /\ a.complete <=> a.reason = "none"
    BY DEF IsEvidence, IsSide
  <2> QED
    BY <2>1, SideLimitationSupported
<1>2. Grounded(_unestablished(why), ev)
  BY <1>1, UnestablishedIsGrounded
<1>3. Grounded(_unestablished("comparison_proof_unavailable"), ev)
  BY SupportedLimitations, UnestablishedIsGrounded
<1> QED
  BY <1>2, <1>3, IncorrectIsGrounded, Zenon DEF CompareSample

LEMMA ComparisonIsGrounded ==
    ASSUME NEW p, NEW ev, IsEvidence(ev)
    PROVE  Grounded(_compare_with_evidence(p, ev), ev)
<1> DEFINE e == ev.expected
           a == ev.actual
<1>1. ~ev.compatible => Grounded(_unestablished("comparison_context_unestablished"), ev)
  BY SupportedLimitations, UnestablishedIsGrounded
<1>2. Grounded(_unestablished("evidence_payload_exceeded"), ev)
  BY SupportedLimitations, UnestablishedIsGrounded
<1>3. ASSUME ev.compatible, ~e.eligible \/ ~a.eligible
      PROVE  Grounded(_unestablished(IF ~e.eligible THEN e.reason ELSE a.reason), ev)
  <2>1. (~e.eligible => ~e.complete) /\ (~a.eligible => ~a.complete)
    BY DEF IsEvidence, IsSide
  <2>2. ~e.eligible => Grounded(_unestablished(e.reason), ev)
    BY <1>3, <2>1, SideLimitationSupported, UnestablishedIsGrounded
  <2>3. ~a.eligible => Grounded(_unestablished(a.reason), ev)
    BY <1>3, <2>1, SideLimitationSupported, UnestablishedIsGrounded
  <2> QED
    BY <1>3, <2>2, <2>3
<1>4. ev.compatible /\ e.complete /\ a.complete => Grounded(CompareWhole(p, ev), ev)
  BY CompareWholeIsGrounded
<1>5. ev.compatible /\ e.eligible /\ a.eligible /\ ~(e.complete /\ a.complete)
        => Grounded(CompareSample(p, ev), ev)
  BY CompareSampleIsGrounded
<1> QED
  BY <1>1, <1>2, <1>3, <1>4, <1>5, IncorrectIsGrounded, Zenon DEF _compare_with_evidence

LEMMA ContractKeepsGrounds ==
    ASSUME NEW ev, IsEvidence(ev), NEW j, Grounded(j, ev), NEW contract
    PROVE  Grounded(Contracted(j, contract), ev)
<1>1. j.state = "correct" => Grounded(_unestablished("comparison_proof_unavailable"), ev)
  <2>1. ASSUME j.state = "correct"
        PROVE  ev.compatible /\ ev.expected.eligible /\ ev.actual.eligible
    BY <2>1 DEF Grounded, Correct, Incorrect, _unestablished, IsEvidence, IsSide
  <2> QED
    BY <2>1, SupportedLimitations, UnestablishedIsGrounded
<1> QED
  BY <1>1, IncorrectIsGrounded, Zenon DEF Contracted

\* What is stored of a grounded judgment is what its readers accept.
LEMMA GroundedIsReadable ==
    ASSUME NEW ev, IsEvidence(ev), NEW j, Grounded(j, ev), NEW tables \in BOOLEAN,
           NEW judged, NEW columns, NEW raised
    PROVE  validate_persisted_comparison_contract(
               Stored(j, ev.delivery, tables, ev, judged, columns, raised))
<1> DEFINE r == Stored(j, ev.delivery, tables, ev, judged, columns, raised)
<1>1. /\ r.state = j.state /\ r.reason = j.reason /\ r.delivery = ev.delivery
      /\ r.evidence = ev /\ (r.passed => j.state = "correct")
  BY DEF Stored
<1>2. _safe_side_summary(ev.expected) /\ _safe_side_summary(ev.actual)
  BY SidesAreSafe DEF IsEvidence
<1>3. (ev.delivery = "safety_limited") = (ev.limit # NoLimit)
  BY DEF IsEvidence
<1> HIDE DEF r
<1>4. ASSUME j = Correct, ev.compatible, ev.expected.complete, ev.actual.complete,
             ev.delivery \in {"complete", "safety_limited"}
      PROVE  validate_persisted_comparison_contract(r)
  <2>1. j.state = "correct" /\ j.reason = "none"
    BY <1>4 DEF Correct
  <2>2. evidence_summary_supports_judgment(ev, "correct", ev.delivery, "none")
    BY <1>2, <1>3, <1>4 DEF evidence_summary_supports_judgment
  <2> QED
    BY <1>1, <1>4, <2>1, <2>2 DEF validate_persisted_comparison_contract
<1>5. ASSUME j = Incorrect PROVE validate_persisted_comparison_contract(r)
  <2>1. j.state = "incorrect" /\ j.reason = "none"
    BY <1>5 DEF Incorrect
  <2>2. evidence_summary_supports_judgment(ev, "incorrect", ev.delivery, "none")
    BY <1>2, <1>3 DEF evidence_summary_supports_judgment
  <2> QED
    BY <1>1, <2>1, <2>2 DEF validate_persisted_comparison_contract
<1>6. ASSUME NEW reason, j = _unestablished(reason), reason # "none",
             _limitation_is_supported(ev, reason)
      PROVE  validate_persisted_comparison_contract(r)
  <2>1. j.state = "unestablished" /\ j.reason = reason
    BY <1>6 DEF _unestablished
  <2>2. evidence_summary_supports_judgment(ev, "unestablished", ev.delivery, reason)
    BY <1>2, <1>3, <1>6 DEF evidence_summary_supports_judgment
  <2> QED
    BY <1>1, <1>6, <2>1, <2>2 DEF validate_persisted_comparison_contract
<1>7. validate_persisted_comparison_contract(r)
  BY <1>4, <1>5, <1>6 DEF Grounded
<1> QED
  BY <1>7 DEF r

-----------------------------------------------------------------------------
(* The inductive invariant of a case                                       *)

Bounded(rows) == rows \in Rows /\ Len(rows) <= EvidenceRowLimit

\* The query has run; so has the baseline; the evidence of a side is still the
\* production's.
ActualRan   == pc \in {"baseline", "aux_actual", "aux_expected", "judge"}
BaselineRan == pc \in {"aux_actual", "aux_expected", "judge"}

CaseInv ==
    /\ case \in Questions /\ world \in Worlds /\ plan \in Plans
    /\ version \in {0, 1} /\ snap \in {0, 1}
    /\ Bounded(delivered) /\ Bounded(baseline)
    /\ ActualRan => Settled(actual)
    /\ pc \in {"baseline", "aux_actual"} => actual.slow = FALSE
    /\ BaselineRan => Settled(expected)
    /\ pc \in {"aux_actual", "aux_expected"} => expected.slow = FALSE
    /\ StoredIsReadable

LEMMA QueriesAreWellFormed ==
    ASSUME EvidenceSetting, case \in Questions, plan \in Plans, NEW q \in {plan, Baseline}
    PROVE  q.answer \in {"right", "other"} /\ q.limit \in Nat /\ q.supported \in BOOLEAN
<1>1. /\ Baseline.answer = "right" /\ Baseline.limit = case.limit
      /\ Baseline.supported = TRUE
  BY DEF Baseline
<1>2. plan.answer \in {"right", "other"} /\ plan.limit \in Nat /\ plan.supported \in BOOLEAN
  BY DEF EvidenceSetting
<1>3. case.limit \in Nat
  BY DEF EvidenceSetting
<1> QED
  BY <1>1, <1>2, <1>3

LEMMA EvidenceIsEvidence ==
    ASSUME EvidenceSetting, CaseInv, NEW e, IsSide(e), NEW a, IsSide(a), NEW c \in BOOLEAN,
           c => Settled(e) /\ Settled(a), NEW ev,
           ev = [expected |-> e, actual |-> a, delivery |-> ActualDelivery,
                 limit |-> IF ActualDelivery = "safety_limited"
                           THEN effective_limit(plan) ELSE NoLimit,
                 compatible |-> c]
    PROVE  IsEvidence(ev)
<1>1. ActualDelivery \in {"complete", "safety_limited", "unknown"}
  BY DEF ActualDelivery, observed_evidence_side
<1>2. effective_limit(plan) # NoLimit
  BY QueriesAreWellFormed, LimitsAreNumbers DEF CaseInv, EvidenceSetting
<1> QED
  BY <1>1, <1>2 DEF IsEvidence

\* A judgment of evidence is stored readable.
LEMMA JudgedReadable ==
    ASSUME NEW ev, IsEvidence(ev), JudgeWith(ev)
    PROVE  StoredIsReadable' /\ pc' = "done"
<1>1. PICK p \in Provenances, contract \in {"passed", "failed", "unknown"},
           tables \in BOOLEAN :
        /\ record' = Stored(Contracted(_compare_with_evidence(p, ev), contract),
                            ev.delivery, tables, ev,
                            _compare_with_evidence(p, ev).state,
                            ~_has_complete_provenance(p) \/ p.same, FALSE)
        /\ pc' = "done"
  BY Zenon DEF JudgeWith
<1>2. Grounded(Contracted(_compare_with_evidence(p, ev), contract), ev)
  BY ComparisonIsGrounded, ContractKeepsGrounds
<1>3. validate_persisted_comparison_contract(record')
  BY <1>1, <1>2, GroundedIsReadable
<1> QED
  BY <1>1, <1>3 DEF StoredIsReadable, validate_persisted_comparison_contract,
     evidence_summary_supports_judgment, _limitation_is_supported, _safe_side_summary

\* The steps of a case.
LEMMA CaseInitEstablishes == ASSUME EvidenceSetting, CaseInit PROVE CaseInv
<1>1. Bounded(<<>>)
  BY DEF Bounded, Rows, EvidenceSetting
<1> QED
  BY <1>1 DEF CaseInit, CaseInv, ActualRan, BaselineRan, StoredIsReadable, NoRecord

LEMMA ExecutedIsBounded ==
    ASSUME EvidenceSetting, CaseInv, NEW q \in {plan, Baseline}, NEW v \in {0, 1},
           NEW rows \in Executions(Population(q, v), q.ordered, effective_limit(q))
    PROVE  Bounded(rows) /\ Settled(observed_evidence_side(rows, q))
           /\ observed_evidence_side(rows, q).slow = FALSE
<1>1. q.answer \in {"right", "other"} /\ q.limit \in Nat /\ q.supported \in BOOLEAN
  BY QueriesAreWellFormed DEF CaseInv
<1>2. Population(q, v) \in Rows
  BY <1>1, PopulationsAreRows DEF CaseInv
<1>3. rows \in Rows /\ Len(rows) <= effective_limit(q)
  BY <1>1, <1>2, LimitsAreNumbers, ExecutionsAreBounded
<1>4. rows \in Rows /\ Len(rows) <= EvidenceRowLimit
  <2>1. Len(rows) \in Nat /\ effective_limit(q) \in Nat /\ EvidenceRowLimit \in Nat
    BY <1>1, <1>3, LimitsAreNumbers DEF Rows, EvidenceSetting
  <2> QED
    BY <1>1, <1>3, <2>1, LimitsAreNumbers
<1>5. Settled(observed_evidence_side(rows, q))
  BY <1>1, <1>4, ObservedIsSettled
<1>6. observed_evidence_side(rows, q).slow = FALSE
  BY DEF observed_evidence_side
<1> QED
  BY <1>4, <1>5, <1>6 DEF Bounded

LEMMA WriteKeeps == ASSUME CaseInv, Write PROVE CaseInv'
BY DEF Write, CaseInv, ActualRan, BaselineRan, StoredIsReadable

LEMMA RunActualKeeps == ASSUME EvidenceSetting, CaseInv, RunActual PROVE CaseInv'
<1>1. PICK rows \in Executions(Population(plan, version), plan.ordered, effective_limit(plan)) :
        delivered' = rows /\ actual' = observed_evidence_side(rows, plan)
  BY DEF RunActual
<1>2. Bounded(delivered') /\ Settled(actual') /\ actual'.slow = FALSE
  BY <1>1, ExecutedIsBounded DEF CaseInv
<1> QED
  BY <1>2 DEF RunActual, CaseInv, ActualRan, BaselineRan, StoredIsReadable

LEMMA RunBaselineKeeps == ASSUME EvidenceSetting, CaseInv, RunBaseline PROVE CaseInv'
<1>1. PICK rows \in Executions(Population(Baseline, snap), Baseline.ordered,
                               effective_limit(Baseline)) :
        baseline' = rows /\ expected' = observed_evidence_side(rows, Baseline)
  BY DEF RunBaseline
<1>2. Bounded(baseline') /\ Settled(expected') /\ expected'.slow = FALSE
  BY <1>1, ExecutedIsBounded DEF CaseInv
<1> QED
  BY <1>2 DEF RunBaseline, CaseInv, ActualRan, BaselineRan, StoredIsReadable

LEMMA DelayKeeps == ASSUME CaseInv, Delay PROVE CaseInv'
BY DEF Delay, CaseInv, ActualRan, BaselineRan, StoredIsReadable

\* A judgment that is stored readable ends the case.
LEMMA EndedKeeps ==
    ASSUME CaseInv, StoredIsReadable', pc' = "done",
           UNCHANGED <<case, world, plan, version, snap, delivered, baseline>>
    PROVE  CaseInv'
BY DEF CaseInv, ActualRan, BaselineRan

LEMMA BaselineFailsKeeps == ASSUME EvidenceSetting, CaseInv, BaselineFails PROVE CaseInv'
<1>1. PICK why \in {<<"evidence_validation_failed", 0>>, <<"evidence_timeout", 1>>,
                    <<"comparison_context_unestablished", 1>>,
                    <<"evidence_execution_failed", 1>>} :
        /\ expected' = NoSide(why[1], why[2])
        /\ JudgeWith(Evidence(NoSide(why[1], why[2]), actual,
                              why[1] # "comparison_context_unestablished"))
  BY Zenon DEF BaselineFails
<1> DEFINE e == NoSide(why[1], why[2])
           c == why[1] # "comparison_context_unestablished"
           ev == Evidence(e, actual, c)
<1>2. /\ why[1] # "none" /\ why[2] \in Nat
      /\ why[1] \in Limitations \cup {"comparison_context_unestablished"}
  BY <1>1 DEF Limitations
<1>3. IsSide(e) /\ (c => Settled(e)) /\ c \in BOOLEAN
  <2>1. IsSide(e)
    BY <1>2, NoSidesAreSides
  <2>2. e.reason = why[1]
    BY DEF NoSide
  <2> QED
    BY <1>2, <2>1, <2>2 DEF Settled
<1>4. Settled(actual)
  BY DEF BaselineFails, CaseInv, ActualRan
<1> HIDE DEF e, c
<1>5. ev = [expected |-> e, actual |-> actual, delivery |-> ActualDelivery,
            limit |-> IF ActualDelivery = "safety_limited"
                      THEN effective_limit(plan) ELSE NoLimit,
            compatible |-> c]
  BY DEF Evidence
<1>6. IsEvidence(ev)
  BY <1>3, <1>4, <1>5, EvidenceIsEvidence DEF Settled
<1>7. JudgeWith(ev)
  BY <1>1 DEF e, c
<1> HIDE DEF ev
<1>8. StoredIsReadable' /\ pc' = "done"
  BY <1>6, <1>7, JudgedReadable
<1> QED
  BY <1>8, EndedKeeps DEF BaselineFails, Kept

LEMMA ContextFailsKeeps == ASSUME EvidenceSetting, CaseInv, ContextFails PROVE CaseInv'
<1> DEFINE ev == Evidence(expected', actual', FALSE)
<1>1. PICK e, a : e = expected' /\ a = actual'
  OBVIOUS
<1>2. Settled(a)
  BY <1>1, QueriesAreWellFormed, ObservedIsSettled DEF ContextFails, CaseInv, Bounded
<1>3. IsSide(e)
  <2>1. CASE pc = "baseline"
    BY <1>1, <2>1, NoSidesAreSides DEF ContextFails
  <2>2. CASE pc # "baseline"
    <3>1. e = observed_evidence_side(baseline, Baseline)
      BY <1>1, <2>2 DEF ContextFails
    <3> QED
      BY <3>1, QueriesAreWellFormed, ObservedIsSettled DEF CaseInv, Bounded, Settled
  <2> QED
    BY <2>1, <2>2
<1>4. ev = [expected |-> e, actual |-> a, delivery |-> ActualDelivery,
            limit |-> IF ActualDelivery = "safety_limited"
                      THEN effective_limit(plan) ELSE NoLimit,
            compatible |-> FALSE]
  BY <1>1 DEF Evidence
<1>5. IsEvidence(ev)
  BY <1>2, <1>3, <1>4, EvidenceIsEvidence DEF Settled
<1>6. JudgeWith(ev)
  BY Zenon DEF ContextFails
<1> HIDE DEF ev
<1>7. StoredIsReadable' /\ pc' = "done"
  BY <1>5, <1>6, JudgedReadable
<1> QED
  BY <1>7, EndedKeeps DEF ContextFails, Kept

LEMMA JudgeCaseKeeps == ASSUME EvidenceSetting, CaseInv, JudgeCase PROVE CaseInv'
<1> DEFINE ev == Evidence(expected, actual, TRUE)
<1>1. Settled(expected) /\ Settled(actual)
  BY DEF JudgeCase, CaseInv, ActualRan, BaselineRan
<1>2. IsEvidence(ev)
  BY <1>1, EvidenceIsEvidence DEF Settled, Evidence
<1>3. JudgeWith(ev)
  BY DEF JudgeCase
<1> HIDE DEF ev
<1>4. StoredIsReadable' /\ pc' = "done"
  BY <1>2, <1>3, JudgedReadable
<1> QED
  BY <1>4, EndedKeeps DEF JudgeCase, Kept

LEMMA JudgmentFailsKeeps == ASSUME EvidenceSetting, CaseInv, JudgmentFails PROVE CaseInv'
<1>1. record'.raised /\ pc' = "done"
  BY DEF JudgmentFails, Stored
<1>2. StoredIsReadable'
  BY <1>1 DEF StoredIsReadable
<1> QED
  BY <1>1, <1>2, EndedKeeps DEF JudgmentFails, Kept

LEMMA AcquireActualKeeps == ASSUME EvidenceSetting, CaseInv, AcquireActual PROVE CaseInv'
<1> DEFINE base == comparison_payload_size(
                       IF expected.complete THEN expected.rows ELSE <<>>, <<>>,
                       IF actual.complete THEN <<>> ELSE delivered)
<1>1. Settled(actual) /\ actual.slow = FALSE /\ Settled(expected) /\ expected.slow = FALSE
  BY DEF AcquireActual, CaseInv, ActualRan, BaselineRan
<1>2. PayloadLimit - base \in Int
  <2>1. expected.rows \in Rows /\ delivered \in Rows /\ <<>> \in Rows
    BY <1>1 DEF Settled, IsSide, CaseInv, Bounded, Rows
  <2>2. \A s \in Rows : Len(s) \in Nat
    BY DEF Rows
  <2>3. \A a, b, d \in Rows : comparison_payload_size(a, b, d) \in Int
    BY <2>2 DEF comparison_payload_size
  <2>4. base \in Int
    BY Zenon, <2>1, <2>3
  <2> QED
    BY <2>4 DEF EvidenceSetting
<1>3. PICK r \in acquire(actual, plan, PayloadLimit - base) : actual' = r.side
  BY Zenon DEF AcquireActual
<1> HIDE DEF base
<1>4. Settled(actual')
  <2> DEFINE room == PayloadLimit - base
  <2>1. room \in Int /\ r \in acquire(actual, plan, room)
    BY <1>2
  <2> HIDE DEF room
  <2>2. world \in Worlds /\ snap \in {0, 1} /\ case \in Questions /\ plan \in Plans
    BY DEF CaseInv
  <2>3. /\ plan.answer \in {"right", "other"} /\ plan.limit \in Nat
        /\ plan.supported \in BOOLEAN
    BY <2>2, QueriesAreWellFormed
  <2>4. PICK q, s, b : q = plan /\ s = actual /\ b = room
    OBVIOUS
  <2>5. /\ q.answer \in {"right", "other"} /\ q.limit \in Nat /\ q.supported \in BOOLEAN
        /\ Settled(s) /\ ~s.slow /\ b \in Int /\ r \in acquire(s, q, b)
    BY <1>1, <2>1, <2>3, <2>4
  <2>6. Settled(r.side)
    BY <2>2, <2>5, AcquiredIsSettled
  <2> QED
    BY <1>3, <2>6
<1> QED
  BY <1>1, <1>4 DEF AcquireActual, CaseInv, ActualRan, BaselineRan, StoredIsReadable

LEMMA AcquireExpectedKeeps == ASSUME EvidenceSetting, CaseInv, AcquireExpected PROVE CaseInv'
<1> DEFINE base == comparison_payload_size(<<>>, actual.rows,
                       IF actual.auxiliary = 1 THEN delivered ELSE <<>>)
<1>1. Settled(actual) /\ Settled(expected) /\ expected.slow = FALSE
  BY DEF AcquireExpected, CaseInv, ActualRan, BaselineRan
<1>2. PayloadLimit - base \in Int
  <2>1. actual.rows \in Rows /\ delivered \in Rows /\ <<>> \in Rows
    BY <1>1 DEF Settled, IsSide, CaseInv, Bounded, Rows
  <2>2. \A s \in Rows : Len(s) \in Nat
    BY DEF Rows
  <2>3. \A a, b, d \in Rows : comparison_payload_size(a, b, d) \in Int
    BY <2>2 DEF comparison_payload_size
  <2>4. base \in Int
    BY Zenon, <2>1, <2>3
  <2> QED
    BY <2>4 DEF EvidenceSetting
<1>3. PICK r \in acquire(expected, Baseline, PayloadLimit - base) : expected' = r.side
  BY Zenon DEF AcquireExpected
<1> HIDE DEF base
<1>4. Settled(expected')
  <2> DEFINE room == PayloadLimit - base
  <2>1. room \in Int /\ r \in acquire(expected, Baseline, room)
    BY <1>2
  <2> HIDE DEF room
  <2>2. world \in Worlds /\ snap \in {0, 1} /\ case \in Questions /\ plan \in Plans
    BY DEF CaseInv
  <2>3. /\ Baseline.answer \in {"right", "other"} /\ Baseline.limit \in Nat
        /\ Baseline.supported \in BOOLEAN
    BY <2>2, QueriesAreWellFormed
  <2>4. PICK q, s, b : q = Baseline /\ s = expected /\ b = room
    OBVIOUS
  <2>5. /\ q.answer \in {"right", "other"} /\ q.limit \in Nat /\ q.supported \in BOOLEAN
        /\ Settled(s) /\ ~s.slow /\ b \in Int /\ r \in acquire(s, q, b)
    BY <1>1, <2>1, <2>3, <2>4
  <2>6. Settled(r.side)
    BY <2>2, <2>5, AcquiredIsSettled
  <2> QED
    BY <1>3, <2>6
<1> QED
  BY <1>1, <1>4 DEF AcquireExpected, CaseInv, ActualRan, BaselineRan, StoredIsReadable

LEMMA CaseStepsKeep == ASSUME EvidenceSetting, CaseInv, [CaseNext]_casevars PROVE CaseInv'
<1>1. CASE UNCHANGED casevars
  BY <1>1 DEF casevars, CaseInv, ActualRan, BaselineRan, StoredIsReadable
<1>2. CASE CaseNext
  BY <1>1, <1>2, WriteKeeps, RunActualKeeps, RunBaselineKeeps, BaselineFailsKeeps,
     ContextFailsKeeps, DelayKeeps, AcquireActualKeeps, AcquireExpectedKeeps,
     JudgeCaseKeeps, JudgmentFailsKeeps DEF CaseNext, Done
<1> QED
  BY <1>1, <1>2

\* A judgment that did not raise is stored so that its own readers accept it: a
\* verdict of "correct" has two complete sides, an open one names a limitation that
\* its evidence shows (scoring.py: _compare_with_evidence, evidence.py:
\* validate_persisted_comparison_contract).
THEOREM JudgmentsAreReadable ==
    ASSUME EvidenceSetting PROVE CaseSpec => []StoredIsReadable
<1>1. CaseInit => CaseInv
  BY CaseInitEstablishes
<1>2. CaseInv /\ [CaseNext]_casevars => CaseInv'
  BY CaseStepsKeep
<1>3. CaseInv => StoredIsReadable
  BY DEF CaseInv
<1> QED
  BY <1>1, <1>2, <1>3, PTL DEF CaseSpec

-----------------------------------------------------------------------------
(* Executions, row by row                                                  *)

\* How many rows a LIMIT lets through.
Size(pop, n) == IF n < Len(pop) THEN n ELSE Len(pop)

\* f picks the rows s of the population, each place at most once.
Picks(f, s, pop, m) ==
    /\ m \in 0 .. Len(pop) /\ f \in [1 .. m -> 1 .. Len(pop)]
    /\ \A i, j \in 1 .. m : f[i] = f[j] => i = j
    /\ s = [i \in 1 .. m |-> pop[f[i]]]

\* In the order of the ranks, and none before its turn.
InTurn(f, s, pop, m) ==
    /\ InRankOrder(s)
    /\ \A j \in 1 .. Len(pop) :
          (\E i \in 1 .. m : f[i] = j) \/ m = 0 \/ Rank(s[m]) <= Rank(pop[j])

LEMMA RowsAre ==
    ASSUME NEW s \in Rows
    PROVE  /\ Len(s) \in Nat /\ DOMAIN s = 1 .. Len(s)
           /\ \A i \in 1 .. Len(s) : s[i] \in Int \X Int /\ Rank(s[i]) \in Int
BY DEF Rows, Rank

LEMMA SizeIs ==
    ASSUME NEW pop \in Rows, NEW n \in Nat
    PROVE  Size(pop, n) \in 0 .. Len(pop) /\ Size(pop, n) <= n
BY RowsAre DEF Size

LEMMA PicksAreRows ==
    ASSUME NEW pop \in Rows, NEW m, NEW f, NEW s, Picks(f, s, pop, m)
    PROVE  /\ s \in Rows /\ Len(s) = m /\ m \in Nat /\ m <= Len(pop)
           /\ \A i \in 1 .. m : f[i] \in 1 .. Len(pop) /\ s[i] = pop[f[i]]
<1>1. m \in Nat /\ m <= Len(pop)
  BY RowsAre DEF Picks
<1>2. \A i \in 1 .. m : f[i] \in 1 .. Len(pop) /\ s[i] = pop[f[i]]
  BY DEF Picks
<1>3. s \in [1 .. m -> Int \X Int]
  BY <1>2, RowsAre DEF Picks
<1> QED
  BY <1>1, <1>2, <1>3 DEF Rows

LEMMA ExecutionPicks ==
    ASSUME NEW pop \in Rows, NEW ordered \in BOOLEAN, NEW n \in Nat,
           NEW s \in Executions(pop, ordered, n)
    PROVE  \E f : /\ Picks(f, s, pop, Size(pop, n))
                  /\ ordered => InTurn(f, s, pop, Size(pop, n))
<1> DEFINE m == Size(pop, n)
<1>1. m \in 0 .. Len(pop) /\ DOMAIN pop = 1 .. Len(pop)
  BY SizeIs, RowsAre
<1>2. PICK f \in [1 .. m -> DOMAIN pop] :
        /\ \A i, j \in 1 .. m : i # j => f[i] # f[j]
        /\ s = [i \in 1 .. m |-> pop[f[i]]]
        /\ ordered =>
              /\ InRankOrder([i \in 1 .. m |-> pop[f[i]]])
              /\ m > 0 => \A j \in DOMAIN pop \ {f[i] : i \in 1 .. m} :
                             Rank(pop[j]) >= Rank([i \in 1 .. m |-> pop[f[i]]][m])
  BY DEF Executions, Size
<1> HIDE DEF m
<1>3. ASSUME ordered, NEW j \in 1 .. Len(pop), ~ \E i \in 1 .. m : f[i] = j, m # 0
      PROVE  Rank(s[m]) <= Rank(pop[j])
  <2>1. j \in DOMAIN pop \ {f[i] : i \in 1 .. m} /\ m > 0
    BY <1>1, <1>3
  <2>2. Rank(pop[j]) >= Rank(s[m])
    BY <1>2, <1>3, <2>1
  <2>3. m \in 1 .. m /\ f[m] \in 1 .. Len(pop) /\ s[m] = pop[f[m]]
    BY <1>1, <1>2, <2>1
  <2> QED
    BY <2>2, <2>3, RowsAre
<1>4. Picks(f, s, pop, m) /\ (ordered => InTurn(f, s, pop, m))
  BY <1>1, <1>2, <1>3 DEF Picks, InTurn
<1> QED
  BY <1>4 DEF m

LEMMA PicksAreExecutions ==
    ASSUME NEW pop \in Rows, NEW ordered \in BOOLEAN, NEW n \in Nat, NEW f, NEW s,
           Picks(f, s, pop, Size(pop, n)), ordered => InTurn(f, s, pop, Size(pop, n))
    PROVE  s \in Executions(pop, ordered, n)
<1> DEFINE m == Size(pop, n)
<1>1. m \in 0 .. Len(pop) /\ DOMAIN pop = 1 .. Len(pop)
  BY SizeIs, RowsAre
<1>2. f \in [1 .. m -> DOMAIN pop] /\ (\A i, j \in 1 .. m : i # j => f[i] # f[j])
      /\ s = [i \in 1 .. m |-> pop[f[i]]] /\ (ordered => InRankOrder(s))
  BY <1>1 DEF Picks, InTurn
<1> HIDE DEF m
<1>3. ASSUME ordered, m > 0, NEW j \in DOMAIN pop \ {f[i] : i \in 1 .. m}
      PROVE  Rank(pop[j]) >= Rank(s[m])
  <2>1. Rank(s[m]) <= Rank(pop[j])
    BY <1>1, <1>3 DEF InTurn, m
  <2>2. m \in 1 .. m /\ f[m] \in 1 .. Len(pop) /\ s[m] = pop[f[m]]
    BY <1>1, <1>2, <1>3
  <2> QED
    BY <1>1, <2>1, <2>2, RowsAre
<1> QED
  BY <1>2, <1>3 DEF Executions, Size, m

\* Where a row stands.
Places(s, row) == {i \in 1 .. Len(s) : s[i] = row}

LEMMA CountsArePlaces ==
    ASSUME NEW s \in Rows, NEW row
    PROVE  /\ IsFiniteSet(Places(s, row)) /\ Count(s, row) = Cardinality(Places(s, row))
           /\ Count(s, row) \in Nat
           /\ (\A i \in 1 .. Len(s) : s[i] # row) => Count(s, row) = 0
<1>1. DOMAIN s = 1 .. Len(s) /\ Len(s) \in Nat
  BY RowsAre
<1>2. IsFiniteSet(1 .. Len(s)) /\ Places(s, row) \in SUBSET (1 .. Len(s))
  BY <1>1, FS_Interval DEF Places
<1>3. IsFiniteSet(Places(s, row))
  BY <1>2, FS_Subset
<1>4. Count(s, row) = Cardinality(Places(s, row))
  BY <1>1 DEF Count, Places
<1>5. ASSUME \A i \in 1 .. Len(s) : s[i] # row
      PROVE  Count(s, row) = 0
  <2>1. Places(s, row) = {}
    BY <1>5 DEF Places
  <2> QED
    BY <1>4, <2>1, FS_EmptySet
<1> QED
  BY <1>3, <1>4, <1>5, FS_CardinalityType

\* The same rows as often; no row more often.
SameRows(a, b) == \A row \in Int \X Int : Count(a, row) = Count(b, row)
NoMoreRows(a, b) == \A row \in Int \X Int : Count(a, row) <= Count(b, row)

LEMMA RowSetsAre ==
    ASSUME NEW s \in Rows
    PROVE  /\ ToSet(s) \subseteq Int \X Int
           /\ \A row : row \notin ToSet(s) => Count(s, row) = 0
<1>1. ToSet(s) = {s[i] : i \in 1 .. Len(s)}
  BY RowsAre DEF ToSet
<1>2. ToSet(s) \subseteq Int \X Int
  BY <1>1, RowsAre
<1>3. ASSUME NEW row, row \notin ToSet(s) PROVE Count(s, row) = 0
  <2>1. \A i \in 1 .. Len(s) : s[i] # row
    BY <1>1, <1>3
  <2> QED
    BY <2>1, CountsArePlaces
<1> QED
  BY <1>2, <1>3

LEMMA RowsEqual ==
    ASSUME NEW a \in Rows, NEW b \in Rows
    PROVE  _unordered_rows_equal(a, b) <=> SameRows(a, b)
<1>1. ASSUME _unordered_rows_equal(a, b), NEW row \in Int \X Int
      PROVE  Count(a, row) = Count(b, row)
  <2>1. CASE row \in ToSet(a) \cup ToSet(b)
    BY <1>1, <2>1 DEF _unordered_rows_equal
  <2>2. CASE row \notin ToSet(a) \cup ToSet(b)
    BY <2>2, RowSetsAre
  <2> QED
    BY <2>1, <2>2
<1>2. ASSUME SameRows(a, b), NEW row \in ToSet(a) \cup ToSet(b)
      PROVE  Count(a, row) = Count(b, row)
  BY <1>2, RowSetsAre DEF SameRows
<1> QED
  BY <1>1, <1>2 DEF SameRows, _unordered_rows_equal

LEMMA RowsAreSubset ==
    ASSUME NEW a \in Rows, NEW b \in Rows, NoMoreRows(a, b)
    PROVE  _rows_are_subset(a, b)
BY RowSetsAre DEF NoMoreRows, _rows_are_subset

\* Every place of the row is picked.
PicksAll(f, m, pop, row) ==
    \A j \in 1 .. Len(pop) : pop[j] = row => \E i \in 1 .. m : f[i] = j

\* An execution returns no row more often than the population holds it, and all
\* of those whose every place is picked.
LEMMA PickedCounts ==
    ASSUME NEW pop \in Rows, NEW m, NEW f, NEW s, Picks(f, s, pop, m),
           NEW row
    PROVE  /\ Count(s, row) <= Count(pop, row)
           /\ PicksAll(f, m, pop, row) => Count(s, row) = Count(pop, row)
<1>1. /\ s \in Rows /\ Len(s) = m /\ m \in Nat
      /\ \A i \in 1 .. m : f[i] \in 1 .. Len(pop) /\ s[i] = pop[f[i]]
  BY PicksAreRows
<1>2. \A i, j \in 1 .. m : f[i] = f[j] => i = j
  BY DEF Picks
<1> DEFINE S == Places(s, row)
           T == Places(pop, row)
           g == [i \in S |-> f[i]]
<1>3. g \in [S -> T]
  BY <1>1 DEF Places
<1>4. \A i, j \in S : g[i] = g[j] => i = j
  BY <1>1, <1>2 DEF Places
<1>5. IsFiniteSet(S) /\ IsFiniteSet(T) /\ Count(s, row) = Cardinality(S)
      /\ Count(pop, row) = Cardinality(T)
  BY <1>1, CountsArePlaces
<1>6. ASSUME PicksAll(f, m, pop, row)
      PROVE  \A j \in T : \E i \in S : g[i] = j
  <2> TAKE j \in T
  <2>1. j \in 1 .. Len(pop) /\ pop[j] = row
    BY DEF Places
  <2>2. PICK i \in 1 .. m : f[i] = j
    BY <1>6, <2>1 DEF PicksAll
  <2>3. i \in S
    BY <1>1, <2>1, <2>2 DEF Places
  <2> QED
    BY <2>2, <2>3
<1> HIDE DEF S, T, g
<1>7. g \in Injection(S, T)
  BY <1>3, <1>4, Fun_IsInj
<1>8. Cardinality(S) <= Cardinality(T)
      /\ (g \in Surjection(S, T) => Cardinality(S) = Cardinality(T))
  BY <1>5, <1>7, FS_Injection
<1>9. (\A j \in T : \E i \in S : g[i] = j) => g \in Surjection(S, T)
  BY <1>3, Fun_IsSurj
<1> QED
  BY <1>5, <1>6, <1>8, <1>9

\* An execution that returns as many rows as there are returns them all.
LEMMA AllPicked ==
    ASSUME NEW pop \in Rows, NEW f, NEW s, Picks(f, s, pop, Len(pop))
    PROVE  SameRows(s, pop)
<1> DEFINE N == 1 .. Len(pop)
<1>1. f \in [N -> N] /\ \A i, j \in N : f[i] = f[j] => i = j
  BY DEF Picks
<1>2. IsFiniteSet(N)
  <2>1. 1 \in Int /\ Len(pop) \in Int
    BY RowsAre
  <2> QED
    BY <2>1, FS_Interval
<1> HIDE DEF N
<1>3. f \in Injection(N, N)
  BY <1>1, Fun_IsInj
<1>4. f \in Surjection(N, N)
  BY <1>2, <1>3, FS_Injection
<1>5. \A j \in N : \E i \in N : f[i] = j
  BY <1>4, Fun_SurjectionProperties
<1>6. ASSUME NEW row PROVE Count(s, row) = Count(pop, row)
  <2>1. PicksAll(f, Len(pop), pop, row)
    BY <1>5 DEF N, PicksAll
  <2> QED
    BY <2>1, PickedCounts
<1> QED
  BY <1>6 DEF SameRows

\* The first rows of an execution.
LEMMA PrefixRows ==
    ASSUME NEW s \in Rows, NEW k \in 0 .. Len(s)
    PROVE  /\ SubSeq(s, 1, k) \in Rows /\ Len(SubSeq(s, 1, k)) = k
           /\ NoMoreRows(SubSeq(s, 1, k), s)
           /\ k = Len(s) => SubSeq(s, 1, k) = s
<1> DEFINE t == SubSeq(s, 1, k)
<1>1. Len(s) \in Nat /\ k \in Nat /\ \A i \in 1 .. k : s[i] \in Int \X Int
  BY RowsAre
<1>2. t \in Seq(Int \X Int) /\ Len(t) = (IF 1 <= k THEN k - 1 + 1 ELSE 0)
      /\ \A i \in 1 .. k : t[i] = s[i]
  BY <1>1, SubSeqProperties DEF Rows
<1> HIDE DEF t
<1>3. t \in Rows /\ Len(t) = k
  BY <1>1, <1>2 DEF Rows
<1>4. ASSUME NEW row PROVE Count(t, row) <= Count(s, row)
  <2>1. Places(t, row) \in SUBSET Places(s, row)
    BY <1>1, <1>2, <1>3 DEF Places
  <2> QED
    BY <1>3, <2>1, CountsArePlaces, FS_Subset
<1>5. ASSUME k = Len(s) PROVE t = s
  <2>1. t \in Seq(Int \X Int) /\ s \in Seq(Int \X Int) /\ Len(t) = Len(s)
        /\ \A i \in 1 .. Len(t) : t[i] = s[i]
    BY <1>2, <1>3, <1>5 DEF Rows
  <2> QED
    BY <2>1, SeqEqual
<1> QED
  BY <1>3, <1>4, <1>5 DEF t, NoMoreRows

-----------------------------------------------------------------------------
(* Ranks                                                                   *)

LEMMA SortedThroughout ==
    ASSUME NEW s \in Rows, InRankOrder(s)
    PROVE  \A i, j \in 1 .. Len(s) : i <= j => Rank(s[i]) <= Rank(s[j])
<1> DEFINE n == Len(s)
           Falls(i, d) == i + d <= n /\ Rank(s[i + d]) < Rank(s[i])
           T == {d \in Nat : \E i \in 1 .. n : Falls(i, d)}
<1>1. n \in Nat /\ \A i \in 1 .. n : Rank(s[i]) \in Int
  BY RowsAre
<1>2. \A i \in 1 .. (n - 1) : Rank(s[i]) <= Rank(s[i + 1])
  BY DEF InRankOrder
<1> HIDE DEF n
<1>3. ASSUME T # {} PROVE FALSE
  <2>1. PICK d \in T : \A y \in T : d <= y
    <3>1. T \subseteq Nat
      OBVIOUS
    <3> HIDE DEF T
    <3> QED
      BY <1>3, <3>1, LeastNatural
  <2>2. PICK i \in 1 .. n : Falls(i, d)
    BY <2>1
  <2>3. d \in Nat /\ d # 0
    BY <1>1, <2>1, <2>2
  <2>4. d - 1 \in Nat /\ d - 1 \notin T
    <3>1. d - 1 \in Nat /\ ~ (d <= d - 1)
      BY <2>3
    <3> HIDE DEF T
    <3> QED
      BY <2>1, <3>1
  <2>5. PICK k : k = i + (d - 1)
    OBVIOUS
  <2>6. k \in 1 .. (n - 1) /\ k \in 1 .. n /\ k + 1 = i + d /\ k + 1 \in 1 .. n /\ k <= n
    BY <1>1, <2>2, <2>3, <2>5
  <2>7. ~ Falls(i, d - 1)
    BY <2>4
  <2>8. ~ (Rank(s[k]) < Rank(s[i]))
    BY <2>5, <2>6, <2>7
  <2>9. Rank(s[k + 1]) < Rank(s[i]) /\ Rank(s[k]) <= Rank(s[k + 1])
    BY <1>2, <2>2, <2>6
  <2> QED
    BY <1>1, <2>6, <2>8, <2>9
<1>4. ASSUME NEW i \in 1 .. n, NEW j \in 1 .. n, i <= j
      PROVE  Rank(s[i]) <= Rank(s[j])
  <2>1. PICK d : d = j - i
    OBVIOUS
  <2>2. d \in Nat /\ i + d = j /\ i + d <= n
    BY <1>1, <1>4, <2>1
  <2>3. ~ Falls(i, d)
    BY <1>3, <2>2
  <2>4. ~ (Rank(s[j]) < Rank(s[i]))
    BY <2>2, <2>3
  <2> QED
    BY <1>1, <2>4
<1> QED
  BY <1>4 DEF n

\* The rows d are in order, all that the population holds above the last, none
\* below it.
Tops(d, pop) ==
    /\ InRankOrder(d)
    /\ d # <<>> => \A row \in Int \X Int :
          /\ Rank(row) < Rank(d[Len(d)]) => Count(d, row) = Count(pop, row)
          /\ Rank(row) > Rank(d[Len(d)]) => Count(d, row) = 0

LEMMA NoneBelowLast ==
    ASSUME NEW d \in Rows, InRankOrder(d), d # <<>>, NEW row \in Int \X Int,
           Rank(row) > Rank(d[Len(d)])
    PROVE  Count(d, row) = 0
<1>1. Len(d) \in 1 .. Len(d) /\ \A i \in 1 .. Len(d) : i <= Len(d)
  BY RowsAre, EmptySeq DEF Rows
<1>2. \A i \in 1 .. Len(d) : Rank(d[i]) <= Rank(d[Len(d)])
  BY <1>1, SortedThroughout
<1>3. Rank(row) \in Int
  BY DEF Rank
<1>4. \A i \in 1 .. Len(d) : d[i] # row
  BY <1>1, <1>2, <1>3, RowsAre
<1> QED
  BY <1>4, CountsArePlaces

LEMMA OwnTops ==
    ASSUME NEW d \in Rows, InRankOrder(d)
    PROVE  Tops(d, d)
BY NoneBelowLast DEF Tops

LEMMA PickedTops ==
    ASSUME NEW pop \in Rows, NEW m, NEW f, NEW d, Picks(f, d, pop, m),
           InTurn(f, d, pop, m)
    PROVE  Tops(d, pop)
<1>1. /\ d \in Rows /\ Len(d) = m /\ m \in Nat
      /\ \A i \in 1 .. m : f[i] \in 1 .. Len(pop) /\ d[i] = pop[f[i]]
  BY PicksAreRows
<1>2. InRankOrder(d)
  BY DEF InTurn
<1>3. ASSUME d # <<>>, NEW row \in Int \X Int, Rank(row) < Rank(d[Len(d)])
      PROVE  Count(d, row) = Count(pop, row)
  <2>1. m # 0 /\ m \in 1 .. m
    BY <1>1, <1>3, EmptySeq DEF Rows
  <2>2. Rank(row) \in Int /\ Rank(d[m]) \in Int
    BY <1>1, <2>1, RowsAre DEF Rank
  <2>3. ASSUME NEW j \in 1 .. Len(pop), pop[j] = row
        PROVE  \E i \in 1 .. m : f[i] = j
    BY <1>1, <1>3, <2>1, <2>2, <2>3 DEF InTurn
  <2>4. PicksAll(f, m, pop, row)
    BY <2>3 DEF PicksAll
  <2> QED
    BY <2>4, PickedCounts
<1> QED
  BY <1>1, <1>2, <1>3, NoneBelowLast DEF Tops

\* A population of one rank has no order to respect.
OneRank(pop) == \A i, j \in 1 .. Len(pop) : Rank(pop[i]) = Rank(pop[j])

LEMMA OneRankTops ==
    ASSUME NEW pop \in Rows, OneRank(pop), NEW m, NEW f, NEW d, Picks(f, d, pop, m)
    PROVE  Tops(d, pop)
<1>1. /\ d \in Rows /\ Len(d) = m /\ m \in Nat
      /\ \A i \in 1 .. m : f[i] \in 1 .. Len(pop) /\ d[i] = pop[f[i]]
  BY PicksAreRows
<1>2. \A i, j \in 1 .. Len(d) : Rank(d[i]) = Rank(d[j])
  BY <1>1 DEF OneRank
<1>3. InRankOrder(d)
  <2>1. \A i \in 1 .. (Len(d) - 1) : i \in 1 .. Len(d) /\ i + 1 \in 1 .. Len(d)
    BY <1>1
  <2>2. \A i \in 1 .. Len(d) : Rank(d[i]) \in Int
    BY <1>1, RowsAre
  <2> QED
    BY <1>2, <2>1, <2>2 DEF InRankOrder
<1>4. ASSUME d # <<>>, NEW row \in Int \X Int, Rank(row) < Rank(d[Len(d)])
      PROVE  Count(d, row) = Count(pop, row)
  <2>1. m # 0 /\ m \in 1 .. m
    BY <1>1, <1>4, EmptySeq DEF Rows
  <2>2. \A j \in 1 .. Len(pop) : Rank(pop[j]) = Rank(d[m])
    BY <1>1, <2>1 DEF OneRank
  <2>3. Rank(row) \in Int /\ Rank(d[m]) \in Int
    BY <1>1, <2>1, RowsAre DEF Rank
  <2>4. (\A j \in 1 .. Len(pop) : pop[j] # row) /\ (\A i \in 1 .. Len(d) : d[i] # row)
    BY <1>1, <1>2, <1>4, <2>1, <2>2, <2>3
  <2> QED
    BY <1>1, <2>4, CountsArePlaces
<1> QED
  BY <1>1, <1>3, <1>4, NoneBelowLast DEF Tops

\* If the rows of a population are in order however they are arranged, they have
\* one rank.
LEMMA AlwaysSorted ==
    ASSUME NEW pop \in Rows, NEW ordered \in BOOLEAN, ~ordered,
           \A s \in Executions(pop, ordered, Len(pop)) : InRankOrder(s)
    PROVE  OneRank(pop)
<1>1. Len(pop) \in Nat /\ Size(pop, Len(pop)) = Len(pop)
  BY RowsAre DEF Size
<1> SUFFICES ASSUME NEW i \in 1 .. Len(pop), NEW j \in 1 .. Len(pop)
             PROVE  Rank(pop[i]) <= Rank(pop[j])
  BY RowsAre DEF OneRank
<1> DEFINE L == Len(pop)
           f == [k \in 1 .. L |-> IF i <= j THEN k
                                  ELSE IF k = i THEN j ELSE IF k = j THEN i ELSE k]
           s == [k \in 1 .. L |-> pop[f[k]]]
<1>2. /\ f \in [1 .. L -> 1 .. L] /\ \A k, l \in 1 .. L : f[k] = f[l] => k = l
      /\ i <= j => f[i] = i /\ f[j] = j
      /\ j < i => f[i] = j /\ f[j] = i
  BY <1>1
<1> HIDE DEF f
<1>3. Picks(f, s, pop, L)
  BY <1>1, <1>2 DEF Picks
<1>4. s \in Executions(pop, ordered, L) /\ s \in Rows /\ Len(s) = L
  BY <1>1, <1>3, PicksAreExecutions, PicksAreRows
<1>5. InRankOrder(s)
  BY <1>4
<1>6. s[i] = pop[f[i]] /\ s[j] = pop[f[j]]
  OBVIOUS
<1> HIDE DEF s
<1>7. CASE i <= j
  BY <1>2, <1>4, <1>5, <1>6, <1>7, SortedThroughout
<1>8. CASE j < i
  BY <1>1, <1>2, <1>4, <1>5, <1>6, <1>8, SortedThroughout
<1> QED
  BY <1>1, <1>7, <1>8

\* Two ordered executions of a query agree on the rank of every place.
LEMMA SameRanks ==
    ASSUME NEW pop \in Rows,
           NEW m, NEW f, NEW s, Picks(f, s, pop, m), InTurn(f, s, pop, m),
           NEW g, NEW t, Picks(g, t, pop, m), InTurn(g, t, pop, m), NEW i \in 1 .. m
    PROVE  ~ (Rank(s[i]) < Rank(t[i]))
<1>1. /\ s \in Rows /\ Len(s) = m /\ m \in Nat /\ t \in Rows /\ Len(t) = m
      /\ \A k \in 1 .. m : f[k] \in 1 .. Len(pop) /\ s[k] = pop[f[k]]
      /\ \A k \in 1 .. m : g[k] \in 1 .. Len(pop) /\ t[k] = pop[g[k]]
  BY PicksAreRows
<1>2. InRankOrder(s) /\ InRankOrder(t) /\ \A k, l \in 1 .. m : f[k] = f[l] => k = l
  BY DEF Picks, InTurn
<1> SUFFICES ASSUME Rank(s[i]) < Rank(t[i]) PROVE FALSE
  OBVIOUS
<1>3. m \in 1 .. m /\ m # 0 /\ i \in Nat /\ i <= m
  BY <1>1
<1>4. (\A k \in 1 .. m : Rank(s[k]) \in Int) /\ (\A k \in 1 .. m : Rank(t[k]) \in Int)
  <2>1. \A k \in 1 .. Len(s) : Rank(s[k]) \in Int
    BY <1>1, RowsAre
  <2>2. \A k \in 1 .. Len(t) : Rank(t[k]) \in Int
    BY <1>1, RowsAre
  <2> QED
    BY <1>1, <2>1, <2>2
<1>5. \A k, l \in 1 .. m : k <= l => Rank(s[k]) <= Rank(s[l])
  BY <1>1, <1>2, SortedThroughout
<1>6. \A k, l \in 1 .. m : k <= l => Rank(t[k]) <= Rank(t[l])
  BY <1>1, <1>2, SortedThroughout
\* The first i rows of s stand among the first i - 1 of t.
<1>7. ASSUME NEW k \in 1 .. i
      PROVE  \E l \in 1 .. (i - 1) : g[l] = f[k]
  <2>1. k \in 1 .. m /\ k <= i
    BY <1>1
  <2>2. Rank(s[k]) < Rank(t[i]) /\ Rank(t[i]) <= Rank(t[m])
    <3>1. Rank(s[k]) <= Rank(s[i])
      BY <1>5, <2>1
    <3>2. Rank(t[i]) <= Rank(t[m])
      BY <1>3, <1>6
    <3> QED
      BY <1>4, <2>1, <3>1, <3>2
  <2>3. ~ (Rank(t[m]) <= Rank(pop[f[k]])) /\ f[k] \in 1 .. Len(pop)
    <3>1. Rank(s[k]) \in Int /\ Rank(t[i]) \in Int /\ Rank(t[m]) \in Int /\ pop[f[k]] = s[k]
          /\ f[k] \in 1 .. Len(pop)
      BY <1>1, <1>3, <1>4, <2>1
    <3> QED
      BY <2>2, <3>1
  <2>4. PICK l \in 1 .. m : g[l] = f[k]
    BY <1>3, <2>3 DEF InTurn
  <2>5. Rank(t[l]) < Rank(t[i])
    <3>1. t[l] = s[k]
      BY <1>1, <2>1, <2>4
    <3> QED
      BY <2>2, <3>1
  <2>6. l < i
    <3>1. Rank(t[l]) \in Int /\ Rank(t[i]) \in Int
      BY <1>4
    <3>2. ~ (i <= l)
      BY <1>6, <2>5, <3>1
    <3> QED
      BY <1>1, <3>2
  <2>7. l \in 1 .. (i - 1)
    BY <1>1, <2>6
  <2> QED
    BY <2>4, <2>7
<1> DEFINE h == [k \in 1 .. i |-> CHOOSE l \in 1 .. (i - 1) : g[l] = f[k]]
<1>8. \A k \in 1 .. i : h[k] \in 1 .. (i - 1) /\ g[h[k]] = f[k]
  BY <1>7
<1>9. h \in [1 .. i -> 1 .. (i - 1)]
  BY <1>8
<1> HIDE DEF h
<1>10. i \in Nat /\ IsFiniteSet(1 .. i) /\ IsFiniteSet(1 .. (i - 1))
      /\ Cardinality(1 .. i) = i /\ Cardinality(1 .. (i - 1)) = i - 1
  <2>1. i \in Int /\ i - 1 \in Int /\ 1 \in Int /\ i >= 1
    BY <1>1
  <2> QED
    BY <2>1, FS_Interval
<1>11. PICK k, l \in 1 .. i : k # l /\ h[k] = h[l]
  <2>1. Cardinality(1 .. (i - 1)) < Cardinality(1 .. i)
    BY <1>10
  <2> QED
    BY <1>9, <1>10, <2>1, FS_PigeonHole
<1>12. k \in 1 .. m /\ l \in 1 .. m /\ f[k] = f[l]
  BY <1>1, <1>8, <1>11
<1> QED
  BY <1>2, <1>11, <1>12

-----------------------------------------------------------------------------
(* Every query has an answer                                               *)

LEMMA FirstOfSome ==
    ASSUME NEW pop \in Rows, NEW S \in SUBSET (1 .. Len(pop)), S # {}
    PROVE  \E j \in S : \A i \in S : Rank(pop[j]) <= Rank(pop[i])
<1> DEFINE Some(k) == \E i \in S : i <= k
           Least(j, k) == j <= k /\ \A i \in S : i <= k => Rank(pop[j]) <= Rank(pop[i])
           T == {k \in Nat : Some(k) /\ ~ \E j \in S : Least(j, k)}
<1>1. \A i \in S : i \in Nat /\ i >= 1 /\ i <= Len(pop) /\ Rank(pop[i]) \in Int
  BY RowsAre
<1>2. Len(pop) \in Nat
  BY RowsAre
<1>3. ASSUME T # {} PROVE FALSE
  <2>1. PICK k \in T : \A y \in T : k <= y
    <3>1. T \subseteq Nat
      OBVIOUS
    <3> HIDE DEF T
    <3> QED
      BY <1>3, <3>1, LeastNatural
  <2>2. k \in Nat /\ Some(k) /\ (\A j \in S : ~Least(j, k)) /\ k >= 1
    BY <1>1, <2>1
  <2>3. k - 1 \in Nat /\ k - 1 \notin T
    <3>1. k - 1 \in Nat /\ ~ (k <= k - 1)
      BY <2>2
    <3> HIDE DEF T
    <3> QED
      BY <2>1, <3>1
  <2>4. \A i \in S : (i <= k => i = k \/ i <= k - 1) /\ (i <= k - 1 => i <= k)
    <3> TAKE i \in S
    <3>1. i \in Nat /\ k \in Nat
      BY <1>1, <2>2
    <3> QED
      BY <3>1
  <2>5. CASE ~Some(k - 1)
    <3>1. PICK i \in S : i <= k
      BY <2>2
    <3>2. i = k
      BY <2>4, <2>5, <3>1
    <3>3. \A l \in S : l <= k => l = k
      BY <2>4, <2>5
    <3>4. Least(k, k)
      BY <1>1, <2>2, <3>2, <3>3
    <3> QED
      BY <2>2, <3>2, <3>4
  <2>6. CASE \E j \in S : Least(j, k - 1)
    <3>1. PICK j \in S : Least(j, k - 1)
      BY <2>6
    <3>2. Rank(pop[j]) \in Int /\ j <= k
      BY <1>1, <2>4, <3>1
    <3>3. CASE k \in S /\ Rank(pop[k]) < Rank(pop[j])
      <4>1. Rank(pop[k]) \in Int
        BY <1>1, <3>3
      <4>2. ASSUME NEW i \in S, i <= k PROVE Rank(pop[k]) <= Rank(pop[i])
        <5>1. Rank(pop[i]) \in Int
          BY <1>1
        <5>2. i = k \/ Rank(pop[j]) <= Rank(pop[i])
          BY <2>4, <3>1, <4>2
        <5>3. CASE i = k
          BY <4>1, <5>3
        <5>4. CASE Rank(pop[j]) <= Rank(pop[i])
          BY <3>2, <3>3, <4>1, <5>1, <5>4
        <5> QED
          BY <5>2, <5>3, <5>4
      <4>3. Least(k, k)
        BY <2>2, <4>2
      <4> QED
        BY <2>2, <3>3, <4>3
    <3>4. CASE k \notin S \/ ~ (Rank(pop[k]) < Rank(pop[j]))
      <4>1. ASSUME NEW i \in S, i <= k PROVE Rank(pop[j]) <= Rank(pop[i])
        <5>1. Rank(pop[i]) \in Int
          BY <1>1
        <5>2. i = k \/ Rank(pop[j]) <= Rank(pop[i])
          BY <2>4, <3>1, <4>1
        <5> QED
          BY <3>2, <3>4, <5>1, <5>2
      <4>2. Least(j, k)
        BY <3>2, <4>1
      <4> QED
        BY <2>2, <4>2
    <3> QED
      BY <3>3, <3>4
  <2> QED
    BY <2>3, <2>5, <2>6
<1>4. Some(Len(pop))
  BY <1>1
<1>5. \E j \in S : Least(j, Len(pop))
  BY <1>2, <1>3, <1>4
<1> QED
  BY <1>1, <1>5

\* An ordered execution can be continued.
LEMMA OneMorePick ==
    ASSUME NEW pop \in Rows, NEW m \in Nat, m < Len(pop), NEW f, NEW s,
           Picks(f, s, pop, m), InTurn(f, s, pop, m)
    PROVE  \E g, t : Picks(g, t, pop, m + 1) /\ InTurn(g, t, pop, m + 1)
<1> DEFINE L == Len(pop)
           S == {j \in 1 .. L : ~ \E i \in 1 .. m : f[i] = j}
<1>1. L \in Nat /\ m + 1 \in 0 .. L /\ m + 1 \in Nat
  BY RowsAre
<1>2. /\ s \in Rows /\ Len(s) = m
      /\ \A i \in 1 .. m : f[i] \in 1 .. L /\ s[i] = pop[f[i]]
  BY PicksAreRows
<1>3. \A i, j \in 1 .. m : f[i] = f[j] => i = j
  BY DEF Picks
<1>4. S # {}
  <2> SUFFICES ASSUME \A j \in 1 .. L : \E i \in 1 .. m : f[i] = j PROVE FALSE
    OBVIOUS
  <2> DEFINE D == 1 .. m
             R == 1 .. L
  <2>1. IsFiniteSet(D) /\ Cardinality(D) = m /\ Cardinality(R) = L
    <3>1. 1 \in Int /\ m \in Int /\ L \in Int /\ m >= 0 /\ L >= 1
      BY <1>1
    <3> HIDE DEF L
    <3>2. IsFiniteSet(1 .. m) /\ Cardinality(1 .. m) = IF 1 > m THEN 0 ELSE m - 1 + 1
      BY <3>1, FS_Interval
    <3>3. Cardinality(1 .. L) = IF 1 > L THEN 0 ELSE L - 1 + 1
      BY <3>1, FS_Interval
    <3> QED
      BY <3>1, <3>2, <3>3
  <2>2. f \in [D -> R] /\ \A j \in R : \E i \in D : f[i] = j
    BY DEF Picks
  <2> HIDE DEF D, R
  <2>3. f \in Surjection(D, R)
    BY <2>2, Fun_IsSurj
  <2>4. Cardinality(R) <= Cardinality(D)
    BY <2>1, <2>3, FS_Surjection
  <2> QED
    BY <1>1, <2>1, <2>4
<1>5. PICK j \in S : \A i \in S : Rank(pop[j]) <= Rank(pop[i])
  <2>1. S \in SUBSET (1 .. Len(pop))
    OBVIOUS
  <2> HIDE DEF S
  <2> QED
    BY <1>4, <2>1, FirstOfSome
<1>6. j \in 1 .. L /\ \A i \in 1 .. m : f[i] # j
  OBVIOUS
<1> DEFINE g == [i \in 1 .. (m + 1) |-> IF i = m + 1 THEN j ELSE f[i]]
           t == [i \in 1 .. (m + 1) |-> pop[g[i]]]
<1>7. /\ \A i \in 1 .. m : i \in 1 .. (m + 1) /\ i # m + 1
      /\ \A i \in 1 .. (m + 1) : i = m + 1 \/ i \in 1 .. m
      /\ m + 1 \in 1 .. (m + 1)
  BY <1>1
<1>8. g \in [1 .. (m + 1) -> 1 .. L] /\ g[m + 1] = j /\ \A i \in 1 .. m : g[i] = f[i]
  BY <1>2, <1>6, <1>7
<1>9. \A i, k \in 1 .. (m + 1) : g[i] = g[k] => i = k
  BY <1>3, <1>6, <1>7, <1>8
<1>10. t[m + 1] = pop[j] /\ \A i \in 1 .. m : t[i] = s[i]
  BY <1>2, <1>7, <1>8
<1>11. Picks(g, t, pop, m + 1)
  BY <1>1, <1>8, <1>9 DEF Picks
<1>12. Len(t) = m + 1
  BY <1>1, <1>11, PicksAreRows
<1> HIDE DEF g, t
<1>13. InRankOrder(t)
  <2> SUFFICES ASSUME NEW i \in 1 .. (Len(t) - 1) PROVE Rank(t[i]) <= Rank(t[i + 1])
    BY DEF InRankOrder
  <2>1. i \in 1 .. m /\ (i = m \/ i \in 1 .. (m - 1))
    BY <1>12
  <2>2. CASE i = m
    <3>1. m # 0 /\ t[i] = s[m] /\ t[i + 1] = pop[j]
      BY <1>10, <2>1, <2>2
    <3>2. Rank(s[m]) <= Rank(pop[j])
      BY <1>6, <3>1 DEF InTurn
    <3> QED
      BY <3>1, <3>2
  <2>3. CASE i \in 1 .. (m - 1)
    <3>1. i + 1 \in 1 .. m /\ i \in 1 .. (Len(s) - 1)
      BY <1>2, <2>3
    <3>2. Rank(s[i]) <= Rank(s[i + 1])
      BY <3>1 DEF InTurn, InRankOrder
    <3> QED
      BY <1>10, <2>1, <3>1, <3>2
  <2> QED
    BY <2>1, <2>2, <2>3
<1>14. ASSUME NEW k \in 1 .. L, ~ \E i \in 1 .. (m + 1) : g[i] = k
       PROVE  Rank(t[m + 1]) <= Rank(pop[k])
  <2>1. k \in S
    BY <1>7, <1>8, <1>14
  <2> QED
    BY <1>5, <1>10, <2>1
<1>15. InTurn(g, t, pop, m + 1)
  BY <1>13, <1>14 DEF InTurn
<1> QED
  BY <1>11, <1>15

LEMMA ExecutionsExist ==
    ASSUME NEW pop \in Rows, NEW ordered \in BOOLEAN, NEW n \in Nat
    PROVE  Executions(pop, ordered, n) # {}
<1> DEFINE Has(m) == \E f, s : Picks(f, s, pop, m) /\ InTurn(f, s, pop, m)
           T == {m \in 0 .. Len(pop) : ~Has(m)}
<1>1. Len(pop) \in Nat
  BY RowsAre
<1>2. Has(0)
  <2> DEFINE f == [i \in 1 .. 0 |-> 1]
             s == [i \in 1 .. 0 |-> pop[f[i]]]
  <2>1. Picks(f, s, pop, 0)
    BY <1>1 DEF Picks
  <2>2. Len(s) = 0
    BY <2>1, PicksAreRows
  <2>3. InTurn(f, s, pop, 0)
    BY <2>2 DEF InTurn, InRankOrder
  <2> QED
    BY <2>1, <2>3
<1>3. ASSUME NEW m \in Nat, m < Len(pop), Has(m) PROVE Has(m + 1)
  BY <1>3, OneMorePick
<1> HIDE DEF Has
<1>4. ASSUME T # {} PROVE FALSE
  <2>1. PICK m \in T : \A y \in T : m <= y
    <3>1. T \subseteq Nat
      BY <1>1
    <3> HIDE DEF T
    <3> QED
      BY <1>4, <3>1, LeastNatural
  <2>2. m \in Nat /\ m <= Len(pop) /\ ~Has(m) /\ m # 0
    BY <1>1, <1>2, <2>1
  <2>3. m - 1 \in Nat /\ m - 1 < Len(pop) /\ (m - 1) + 1 = m /\ m - 1 \notin T
    <3>1. m - 1 \in Nat /\ ~ (m <= m - 1) /\ m - 1 < Len(pop) /\ (m - 1) + 1 = m
      BY <1>1, <2>2
    <3> HIDE DEF T
    <3> QED
      BY <2>1, <3>1
  <2>4. Has(m - 1)
    BY <1>1, <2>3
  <2> QED
    BY <1>3, <2>2, <2>3, <2>4
<1>5. Has(Size(pop, n))
  BY <1>4, SizeIs
<1>6. PICK f, s : Picks(f, s, pop, Size(pop, n)) /\ InTurn(f, s, pop, Size(pop, n))
  BY <1>5 DEF Has
<1> QED
  BY <1>6, PicksAreExecutions

-----------------------------------------------------------------------------
(* Answers                                                                 *)

\* What one execution holds.
LEMMA ExecutionHolds ==
    ASSUME NEW pop \in Rows, NEW ordered \in BOOLEAN, NEW n \in Nat,
           NEW s \in Executions(pop, ordered, n)
    PROVE  /\ s \in Rows /\ Len(s) = Size(pop, n) /\ NoMoreRows(s, pop)
           /\ Size(pop, n) = Len(pop) => SameRows(s, pop)
<1>1. PICK f : Picks(f, s, pop, Size(pop, n))
  BY ExecutionPicks
<1>2. s \in Rows /\ Len(s) = Size(pop, n)
  BY <1>1, PicksAreRows
<1>3. NoMoreRows(s, pop)
  BY <1>1, PickedCounts DEF NoMoreRows
<1>4. Size(pop, n) = Len(pop) => SameRows(s, pop)
  BY <1>1, AllPicked
<1> QED
  BY <1>2, <1>3, <1>4

\* An execution is told by how many rows it lets through.
LEMMA SameSize ==
    ASSUME NEW pop, NEW ordered, NEW n, NEW k, Size(pop, n) = Size(pop, k)
    PROVE  Executions(pop, ordered, n) = Executions(pop, ordered, k)
<1> DEFINE E(m) == {[i \in 1 .. m |-> pop[f[i]]] : f \in
                      {g \in {f \in [1 .. m -> DOMAIN pop] :
                                 \A i, j \in 1 .. m : i # j => f[i] # f[j]} :
                         ordered => /\ InRankOrder([i \in 1 .. m |-> pop[g[i]]])
                                    /\ m > 0 => \A j \in DOMAIN pop \ {g[i] : i \in 1 .. m} :
                                          Rank(pop[j]) >= Rank([i \in 1 .. m |-> pop[g[i]]][m])}}
<1>1. Executions(pop, ordered, n) = E(Size(pop, n)) /\ Executions(pop, ordered, k) = E(Size(pop, k))
  BY DEF Size, Executions
<1> HIDE DEF E
<1> QED
  BY <1>1

\* How many rows the text of a query asks for.
Asked(q, pop) == IF q.limit = NoLimit THEN Len(pop) ELSE q.limit

IsQuery(q) ==
    /\ q.answer \in {"right", "other"} /\ q.limit \in Nat
    /\ q.ordered \in BOOLEAN /\ q.supported \in BOOLEAN

\* No LIMIT of the harness is wider than what is asked, and one that is not used
\* up has let everything through.
LEMMA LimitsAsked ==
    ASSUME EvidenceSetting, MaxLimit = EvidenceRowLimit, NEW q, IsQuery(q), NEW pop \in Rows
    PROVE  /\ Asked(q, pop) \in Nat /\ effective_limit(q) \in Nat \ {0} /\ widened_limit(q) \in Nat
           /\ Size(pop, effective_limit(q)) <= Size(pop, Asked(q, pop))
           /\ Size(pop, widened_limit(q)) <= Size(pop, Asked(q, pop))
           /\ Size(pop, effective_limit(q)) < effective_limit(q) =>
                 Size(pop, effective_limit(q)) = Len(pop) /\ Size(pop, Asked(q, pop)) = Len(pop)
           /\ limit_source(q) # "input" /\ Size(pop, widened_limit(q)) <= EvidenceRowLimit =>
                 Size(pop, widened_limit(q)) = Len(pop) /\ Size(pop, Asked(q, pop)) = Len(pop)
           /\ limit_source(q) # "input" /\ Size(pop, Asked(q, pop)) <= EvidenceRowLimit =>
                 Size(pop, Asked(q, pop)) = Len(pop)
           /\ limit_source(q) = "input" =>
                 q.limit # NoLimit /\ effective_limit(q) = q.limit /\ q.limit <= MaxLimit
           /\ q.limit # NoLimit /\ q.limit <= MaxLimit => limit_source(q) = "input"
<1>1. Len(pop) \in Nat
  BY RowsAre
<1>2. /\ NoLimit = 0 /\ DefaultLimit \in Nat \ {0} /\ MaxLimit \in Nat
      /\ DefaultLimit <= MaxLimit
  BY DEF EvidenceSetting
<1>3. q.limit \in Nat
  BY DEF IsQuery
<1>4. CASE q.limit = NoLimit
  BY <1>1, <1>2, <1>4 DEF Asked, effective_limit, widened_limit, limit_source, Size
<1>5. CASE q.limit # NoLimit /\ q.limit > MaxLimit
  BY <1>1, <1>2, <1>3, <1>5 DEF Asked, effective_limit, widened_limit, limit_source, Size
<1>6. CASE q.limit # NoLimit /\ ~ (q.limit > MaxLimit)
  BY <1>1, <1>2, <1>3, <1>6 DEF Asked, effective_limit, widened_limit, limit_source, Size
<1> QED
  BY <1>4, <1>5, <1>6

LEMMA AnswersAre ==
    ASSUME EvidenceSetting, MaxLimit = EvidenceRowLimit, NEW q, IsQuery(q), NEW v,
           NEW pop \in Rows, pop = Population(q, v)
    PROVE  /\ Answers(q, v) = Executions(pop, q.ordered, Asked(q, pop))
           /\ \A s \in Answers(q, v) :
                 /\ s \in Rows /\ Len(s) = Size(pop, Asked(q, pop)) /\ NoMoreRows(s, pop)
                 /\ Size(pop, Asked(q, pop)) = Len(pop) => SameRows(s, pop)
<1>1. Answers(q, v) = Executions(pop, q.ordered, Asked(q, pop))
  BY DEF Answers, Asked
<1>2. Asked(q, pop) \in Nat /\ q.ordered \in BOOLEAN
  BY LimitsAsked DEF IsQuery
<1> QED
  BY <1>1, <1>2, ExecutionHolds

-----------------------------------------------------------------------------
(* What a side of the evidence says of its query                           *)

\* The production execution returned all that is asked (of a comparable query,
\* for a question with the limit c).
All(q, d, c) ==
    \/ Len(d) < effective_limit(q)
    \/ c # NoLimit /\ q.limit = c /\ effective_limit(q) = c

\* The side shows the rows d of the production execution.
Produced(s, q, d, c) ==
    /\ s.auxiliary = 0 /\ s.rows = d
    /\ s.complete <=> All(q, d, c)

\* The side shows rows of an execution under a wider LIMIT.
Rerun(s, q, d, pop, c) ==
    /\ s.auxiliary = 1 /\ ~All(q, d, c) /\ limit_source(q) # "input"
    /\ NoMoreRows(s.rows, pop) /\ Len(s.rows) <= Size(pop, widened_limit(q))
    /\ s.complete => s.rows \in Executions(pop, q.ordered, Len(pop))

TrueSide(s, q, d, pop, c) ==
    /\ s.eligible = q.supported
    /\ s.complete => q.supported
    /\ q.supported => Produced(s, q, d, c) \/ Rerun(s, q, d, pop, c)

\* A side never shows more than the query answers, and a complete one shows an
\* answer, cut by nothing but the LIMIT the question itself has.
LEMMA SideTells ==
    ASSUME EvidenceSetting, MaxLimit = EvidenceRowLimit, NEW q, IsQuery(q), q.supported, NEW v,
           NEW pop \in Rows, pop = Population(q, v), NEW c,
           NEW d \in Executions(pop, q.ordered, effective_limit(q)),
           NEW s, TrueSide(s, q, d, pop, c)
    PROVE  /\ s.rows \in Rows => Len(s.rows) <= Size(pop, Asked(q, pop))
           /\ NoMoreRows(s.rows, pop)
           /\ s.complete => s.rows \in Answers(q, v)
           /\ s.complete => \/ Len(s.rows) = Len(pop)
                            \/ c # NoLimit /\ q.limit = c /\ limit_source(q) = "input"
<1>1. Len(pop) \in Nat /\ q.ordered \in BOOLEAN
  BY RowsAre DEF IsQuery
<1>2. /\ Asked(q, pop) \in Nat /\ effective_limit(q) \in Nat \ {0} /\ widened_limit(q) \in Nat
      /\ Size(pop, effective_limit(q)) <= Size(pop, Asked(q, pop))
      /\ Size(pop, widened_limit(q)) <= Size(pop, Asked(q, pop))
      /\ Size(pop, effective_limit(q)) < effective_limit(q) =>
            Size(pop, effective_limit(q)) = Len(pop) /\ Size(pop, Asked(q, pop)) = Len(pop)
  BY LimitsAsked
<1>3. d \in Rows /\ Len(d) = Size(pop, effective_limit(q)) /\ NoMoreRows(d, pop)
  BY <1>1, <1>2, ExecutionHolds
<1>4. Answers(q, v) = Executions(pop, q.ordered, Asked(q, pop))
  BY AnswersAre
<1>5. CASE Produced(s, q, d, c)
  <2>1. s.rows = d /\ (s.complete => All(q, d, c))
    BY <1>5 DEF Produced
  <2>2. CASE s.complete /\ Len(d) < effective_limit(q)
    <3>1. Size(pop, effective_limit(q)) = Size(pop, Asked(q, pop)) /\ Len(d) = Len(pop)
      BY <1>2, <1>3, <2>2
    <3>2. d \in Answers(q, v)
      BY <1>4, <3>1, SameSize
    <3> QED
      BY <1>2, <1>3, <2>1, <3>1, <3>2
  <2>3. CASE s.complete /\ c # NoLimit /\ q.limit = c /\ effective_limit(q) = c
    <3>1. Asked(q, pop) = effective_limit(q)
      BY <2>3 DEF Asked
    <3>2. d \in Answers(q, v)
      BY <1>4, <3>1
    <3>3. limit_source(q) = "input"
      <4>1. q.limit \in Nat /\ MaxLimit \in Nat
        BY DEF IsQuery, EvidenceSetting
      <4>2. q.limit <= MaxLimit
        BY <2>3, <4>1 DEF effective_limit
      <4> QED
        BY <2>3, <4>2, LimitsAsked
    <3> QED
      BY <1>2, <1>3, <2>1, <2>3, <3>2, <3>3
  <2>4. CASE ~s.complete
    BY <1>2, <1>3, <2>1, <2>4
  <2> QED
    BY <2>1, <2>2, <2>3, <2>4 DEF All
<1>6. CASE Rerun(s, q, d, pop, c)
  <2>1. NoMoreRows(s.rows, pop) /\ Len(s.rows) <= Size(pop, widened_limit(q))
        /\ (s.complete => s.rows \in Executions(pop, q.ordered, Len(pop)))
    BY <1>6 DEF Rerun
  <2>2. Size(pop, Asked(q, pop)) \in 0 .. Len(pop) /\ Size(pop, widened_limit(q)) \in 0 .. Len(pop)
    BY <1>2, SizeIs
  <2>3. s.rows \in Rows => Len(s.rows) <= Size(pop, Asked(q, pop))
    <3>1. s.rows \in Rows => Len(s.rows) \in Nat
      BY RowsAre
    <3> QED
      BY <1>1, <1>2, <2>1, <2>2, <3>1
  <2>4. ASSUME s.complete
        PROVE  s.rows \in Answers(q, v) /\ Len(s.rows) = Len(pop)
    <3>1. Size(pop, Len(pop)) = Len(pop)
      BY <1>1 DEF Size
    <3>2. s.rows \in Rows /\ Len(s.rows) = Len(pop)
      BY <1>1, <2>1, <2>4, <3>1, ExecutionHolds
    <3>3. Size(pop, Asked(q, pop)) = Len(pop)
      BY <1>1, <1>2, <2>1, <2>2, <3>2
    <3> QED
      BY <1>4, <2>1, <2>4, <3>1, <3>2, <3>3, SameSize
  <2> QED
    BY <2>1, <2>3, <2>4
<1> QED
  BY <1>5, <1>6 DEF TrueSide

\* What an answer picks of its population.
LEMMA AnswerPicks ==
    ASSUME EvidenceSetting, MaxLimit = EvidenceRowLimit, NEW q, IsQuery(q), NEW v,
           NEW pop \in Rows, pop = Population(q, v), NEW s \in Answers(q, v)
    PROVE  \E f : Picks(f, s, pop, Size(pop, Asked(q, pop)))
                  /\ (q.ordered => InTurn(f, s, pop, Size(pop, Asked(q, pop))))
<1>1. s \in Executions(pop, q.ordered, Asked(q, pop)) /\ Asked(q, pop) \in Nat
      /\ q.ordered \in BOOLEAN
  BY AnswersAre, LimitsAsked DEF IsQuery
<1> QED
  BY <1>1, ExecutionPicks

\* Two ordered executions hold the same but for rows that rank last.
LEMMA TiesApart ==
    ASSUME NEW pop \in Rows,
           NEW m, NEW f, NEW s, Picks(f, s, pop, m), InTurn(f, s, pop, m),
           NEW g, NEW t, Picks(g, t, pop, m), InTurn(g, t, pop, m)
    PROVE  /\ \A i \in 1 .. m : Rank(s[i]) = Rank(t[i])
           /\ m # 0 => \A row \in Int \X Int :
                 Rank(row) # Rank(s[m]) => Count(s, row) = Count(t, row)
<1>1. s \in Rows /\ t \in Rows /\ Len(s) = m /\ Len(t) = m /\ m \in Nat
  BY PicksAreRows
<1>2. ASSUME NEW i \in 1 .. m PROVE Rank(s[i]) = Rank(t[i])
  <2>1. ~ (Rank(s[i]) < Rank(t[i])) /\ ~ (Rank(t[i]) < Rank(s[i]))
    BY SameRanks
  <2>2. Rank(s[i]) \in Int
    BY <1>1, RowsAre
  <2>3. Rank(t[i]) \in Int
    BY <1>1, RowsAre
  <2> QED
    BY <2>1, <2>2, <2>3
<1>3. ASSUME m # 0, NEW row \in Int \X Int, Rank(row) # Rank(s[m])
      PROVE  Count(s, row) = Count(t, row)
  <2>1. m \in 1 .. m /\ s # <<>> /\ t # <<>>
    BY <1>1, <1>3, EmptySeq DEF Rows
  <2>2. Rank(s[m]) = Rank(t[m]) /\ Rank(s[m]) \in Int /\ Rank(row) \in Int
    BY <1>1, <1>2, <2>1, RowsAre DEF Rank
  <2>3. Tops(s, pop) /\ Tops(t, pop)
    BY PickedTops
  <2>4. CASE Rank(row) < Rank(s[m])
    BY <1>1, <2>1, <2>2, <2>3, <2>4 DEF Tops
  <2>5. CASE Rank(row) > Rank(s[m])
    BY <1>1, <2>1, <2>2, <2>3, <2>5 DEF Tops
  <2> QED
    BY <1>3, <2>2, <2>4, <2>5
<1> QED
  BY <1>2, <1>3

-----------------------------------------------------------------------------
(* A query that is innocent                                                *)

\* The two queries of the case, and what they read.
Judging(B, P) ==
    /\ EvidenceSetting /\ MaxLimit = EvidenceRowLimit
    /\ IsQuery(plan) /\ IsQuery(Baseline)
    /\ Baseline.ordered = case.ordered /\ Baseline.limit = case.limit /\ Baseline.supported
    /\ B \in Rows /\ B = Population(Baseline, snap)
    /\ P \in Rows /\ P = Population(plan, snap)

Alike(e, a) ==
    /\ Len(e) = Len(a) /\ SameRows(e, a)
    /\ case.ordered => InRankOrder(a) /\ \A i \in 1 .. Len(e) : Rank(e[i]) = Rank(a[i])

LEMMA AgreeAlike ==
    ASSUME NEW e \in Rows, NEW a \in Rows
    PROVE  Agree(e, a) <=> Alike(e, a)
<1>1. DOMAIN e = 1 .. Len(e) /\ (_unordered_rows_equal(e, a) <=> SameRows(e, a))
  BY RowsAre, RowsEqual
<1> QED
  BY <1>1 DEF Agree, Alike, _compare_normalized_rows

LEMMA InnocentAlike ==
    ASSUME NEW B, NEW P, Judging(B, P), Innocent
    PROVE  /\ Size(P, Asked(plan, P)) = Size(B, Asked(Baseline, B))
           /\ \A e \in Answers(Baseline, snap) : \E a \in Answers(plan, snap) : Alike(e, a)
           /\ case.ordered /\ ~plan.ordered =>
                 \A a \in Answers(plan, snap) : \E e \in Answers(Baseline, snap) : Alike(e, a)
<1>1. \A e \in Answers(Baseline, snap) : e \in Rows /\ Len(e) = Size(B, Asked(Baseline, B))
  BY AnswersAre DEF Judging
<1>2. \A a \in Answers(plan, snap) : a \in Rows /\ Len(a) = Size(P, Asked(plan, P))
  BY AnswersAre DEF Judging
<1>3. \A e \in Answers(Baseline, snap) : \E a \in Answers(plan, snap) : Alike(e, a)
  BY <1>1, <1>2, AgreeAlike DEF Innocent
<1>4. case.ordered /\ ~plan.ordered =>
        \A a \in Answers(plan, snap) : \E e \in Answers(Baseline, snap) : Alike(e, a)
  BY <1>1, <1>2, AgreeAlike DEF Innocent
<1>5. Answers(Baseline, snap) # {}
  <2>1. /\ EvidenceSetting /\ MaxLimit = EvidenceRowLimit /\ IsQuery(Baseline)
        /\ B \in Rows /\ B = Population(Baseline, snap)
    BY DEF Judging
  <2>2. Asked(Baseline, B) \in Nat
    BY <2>1, LimitsAsked
  <2>3. Answers(Baseline, snap) = Executions(B, Baseline.ordered, Asked(Baseline, B))
    BY <2>1, AnswersAre
  <2>4. Baseline.ordered \in BOOLEAN
    BY <2>1 DEF IsQuery
  <2> QED
    BY <2>1, <2>2, <2>3, <2>4, ExecutionsExist
<1>6. PICK e \in Answers(Baseline, snap) : TRUE
  BY <1>5
<1>7. Size(P, Asked(plan, P)) = Size(B, Asked(Baseline, B))
  BY <1>1, <1>2, <1>3, <1>6 DEF Alike
<1> QED
  BY <1>3, <1>4, <1>7

\* Whatever it answers to a question that ranks is in order.
LEMMA AnswersSorted ==
    ASSUME NEW B, NEW P, Judging(B, P), Innocent, case.ordered, NEW a \in Answers(plan, snap)
    PROVE  InRankOrder(a)
<1>1. CASE plan.ordered
  BY <1>1, AnswerPicks DEF Judging, InTurn
<1>2. CASE ~plan.ordered
  BY <1>2, InnocentAlike DEF Alike
<1> QED
  BY <1>1, <1>2

\* If it asks for all there is, and the question ranks, any of its executions
\* returns rows from the top.
LEMMA OneRankUnlessOrdered ==
    ASSUME NEW B, NEW P, Judging(B, P), Innocent, case.ordered, ~plan.ordered,
           Size(P, Asked(plan, P)) = Len(P)
    PROVE  OneRank(P)
<1>1. P \in Rows /\ plan.ordered \in BOOLEAN
  BY DEF Judging, IsQuery
<1>2. Size(P, Len(P)) = Len(P)
  BY <1>1, RowsAre DEF Size
<1>3. Executions(P, plan.ordered, Len(P)) = Answers(plan, snap)
  <2>1. Answers(plan, snap) = Executions(P, plan.ordered, Asked(plan, P))
    BY AnswersAre DEF Judging
  <2> QED
    BY <1>2, <2>1, SameSize
<1>4. \A s \in Executions(P, plan.ordered, Len(P)) : InRankOrder(s)
  BY <1>3, AnswersSorted
<1> QED
  BY <1>1, <1>4, AlwaysSorted

LEMMA ExecutionTops ==
    ASSUME NEW B, NEW P, Judging(B, P), Innocent, case.ordered,
           Size(P, Asked(plan, P)) = Len(P), NEW n \in Nat,
           NEW d \in Executions(P, plan.ordered, n)
    PROVE  Tops(d, P)
<1>1. P \in Rows /\ plan.ordered \in BOOLEAN
  BY DEF Judging, IsQuery
<1>2. PICK f : Picks(f, d, P, Size(P, n)) /\ (plan.ordered => InTurn(f, d, P, Size(P, n)))
  BY <1>1, ExecutionPicks
<1>3. CASE plan.ordered
  BY <1>1, <1>2, <1>3, PickedTops
<1>4. CASE ~plan.ordered
  BY <1>1, <1>2, <1>4, OneRankUnlessOrdered, OneRankTops
<1> QED
  BY <1>3, <1>4

\* What was delivered fits every row set that holds what it asks for.
LEMMA DeliveryFits ==
    ASSUME NEW B, NEW P, Judging(B, P), Innocent, Size(P, Asked(plan, P)) = Len(P),
           NEW d \in Executions(P, plan.ordered, effective_limit(plan)),
           NEW rows \in Rows, Len(rows) = Len(P), SameRows(rows, P)
    PROVE  _delivery_is_valid(rows, d, "safety_limited", effective_limit(plan))
<1>1. P \in Rows /\ plan.ordered \in BOOLEAN /\ effective_limit(plan) \in Nat \ {0}
  BY LimitsAsked DEF Judging, IsQuery
<1>2. Len(P) \in Nat
  BY <1>1, RowsAre
<1>3. /\ d \in Rows /\ NoMoreRows(d, P)
      /\ Len(d) = IF effective_limit(plan) < Len(P) THEN effective_limit(plan) ELSE Len(P)
  BY <1>1, ExecutionHolds DEF Size
<1>4. _delivery_cardinality_is_valid(Len(rows), Len(d), "safety_limited", effective_limit(plan))
  BY <1>3 DEF _delivery_cardinality_is_valid
<1>5. _rows_are_subset(d, rows)
  <2>1. NoMoreRows(d, rows)
    BY <1>3 DEF NoMoreRows, SameRows
  <2> QED
    BY <1>3, <2>1, RowsAreSubset
<1>6. ASSUME case.ordered
      PROVE  /\ InRankOrder(d)
             /\ IF d = <<>> THEN rows = <<>>
                ELSE EqualAboveCutoff(rows, d, Rank(d[Len(d)]))
  <2>1. Tops(d, P)
    BY <1>1, <1>6, ExecutionTops
  <2>2. CASE d = <<>>
    <3>1. Len(d) = 0
      BY <2>2
    <3>2. Len(rows) = 0
      BY <1>1, <1>2, <1>3, <3>1
    <3>3. rows = <<>>
      BY <3>2, EmptySeq DEF Rows
    <3> QED
      BY <2>1, <2>2, <3>3 DEF Tops
  <2>3. CASE d # <<>>
    <3>1. Len(d) \in 1 .. Len(d) /\ Rank(d[Len(d)]) \in Int
      <4>1. PICK n : n = Len(d)
        OBVIOUS
      <4>2. n \in Nat /\ \A i \in 1..n : Rank(d[i]) \in Int
        BY <1>3, <4>1, RowsAre
      <4>3. n # 0
        BY <1>3, <2>3, <4>1, EmptySeq DEF Rows
      <4>4. n \in 1..n
        BY <4>2, <4>3
      <4> QED
        BY <4>1, <4>2, <4>4
    <3>2. ASSUME NEW row \in ToSet(rows) \cup ToSet(d), Rank(row) # Rank(d[Len(d)])
          PROVE  Count(d, row) = IF Rank(row) < Rank(d[Len(d)]) THEN Count(rows, row) ELSE 0
      <4>1. row \in Int \X Int /\ Rank(row) \in Int
        BY <1>3, RowSetsAre DEF Rank
      <4>2. Count(rows, row) = Count(P, row)
        BY <4>1 DEF SameRows
      <4>3. Rank(row) < Rank(d[Len(d)]) \/ Rank(row) > Rank(d[Len(d)])
        BY <3>1, <3>2, <4>1
      <4> QED
        BY <2>1, <2>3, <3>1, <4>1, <4>2, <4>3 DEF Tops
    <3>3. EqualAboveCutoff(rows, d, Rank(d[Len(d)]))
      BY <3>2 DEF EqualAboveCutoff
    <3> QED
      BY <2>1, <2>3, <3>3 DEF Tops
  <2> QED
    BY <2>2, <2>3
<1> QED
  BY <1>4, <1>5, <1>6 DEF _delivery_is_valid

\* And it fits itself.
LEMMA OwnFits ==
    ASSUME NEW d \in Rows, case.ordered => InRankOrder(d), NEW limit
    PROVE  _delivery_is_valid(d, d, "complete", limit)
<1>1. _delivery_cardinality_is_valid(Len(d), Len(d), "complete", limit)
  BY DEF _delivery_cardinality_is_valid
<1>2. _rows_are_subset(d, d)
  <2>1. \A row : Count(d, row) \in Nat
    BY CountsArePlaces
  <2> QED
    BY <2>1 DEF _rows_are_subset
<1>3. ASSUME case.ordered, d # <<>>
      PROVE  EqualAboveCutoff(d, d, Rank(d[Len(d)]))
  <2>1. Tops(d, d) /\ ToSet(d) \subseteq Int \X Int
    BY <1>3, OwnTops, RowSetsAre
  <2>2. Len(d) \in 1 .. Len(d) /\ Rank(d[Len(d)]) \in Int
    BY <1>3, RowsAre, EmptySeq DEF Rows
  <2>3. ASSUME NEW row \in ToSet(d) \cup ToSet(d), Rank(row) # Rank(d[Len(d)])
        PROVE  Count(d, row) = IF Rank(row) < Rank(d[Len(d)]) THEN Count(d, row) ELSE 0
    <3>1. row \in Int \X Int /\ Rank(row) \in Int
      BY <2>1 DEF Rank
    <3>2. Rank(row) < Rank(d[Len(d)]) \/ Rank(row) > Rank(d[Len(d)])
      BY <2>2, <2>3, <3>1
    <3> QED
      BY <1>3, <2>1, <3>1, <3>2 DEF Tops
  <2> QED
    BY <2>3 DEF EqualAboveCutoff
<1> QED
  BY <1>1, <1>2, <1>3 DEF _delivery_is_valid

\* Whole answers to a query that asks for all there is agree.
LEMMA WholesAgree ==
    ASSUME NEW B, NEW P, Judging(B, P), Innocent, Size(P, Asked(plan, P)) = Len(P),
           NEW e \in Answers(Baseline, snap), NEW a \in Answers(plan, snap)
    PROVE  Alike(e, a)
<1>1. PICK o \in Answers(plan, snap) : Alike(e, o)
  BY InnocentAlike
<1>2. /\ P \in Rows /\ a \in Rows /\ o \in Rows /\ Len(a) = Len(P) /\ Len(o) = Len(P)
      /\ SameRows(a, P) /\ SameRows(o, P)
  BY AnswersAre DEF Judging
<1>3. Len(e) = Len(a) /\ SameRows(e, a)
  BY <1>1, <1>2 DEF Alike, SameRows
<1>4. ASSUME case.ordered, NEW i \in 1 .. Len(e)
      PROVE  Rank(o[i]) = Rank(a[i])
  <2>1. PICK f : Picks(f, a, P, Len(P)) /\ (plan.ordered => InTurn(f, a, P, Len(P)))
    BY AnswerPicks DEF Judging
  <2>2. PICK g : Picks(g, o, P, Len(P)) /\ (plan.ordered => InTurn(g, o, P, Len(P)))
    BY AnswerPicks DEF Judging
  <2>3. i \in 1 .. Len(P)
    BY <1>2, <1>3
  <2>4. CASE plan.ordered
    BY <1>2, <2>1, <2>2, <2>3, <2>4, TiesApart
  <2>5. CASE ~plan.ordered
    <3>1. OneRank(P)
      BY <1>4, <2>5, OneRankUnlessOrdered
    <3>2. a[i] = P[f[i]] /\ f[i] \in 1 .. Len(P)
      BY <1>2, <2>1, <2>3, PicksAreRows
    <3>3. o[i] = P[g[i]] /\ g[i] \in 1 .. Len(P)
      BY <1>2, <2>2, <2>3, PicksAreRows
    <3> QED
      BY <3>1, <3>2, <3>3 DEF OneRank
  <2> QED
    BY <2>4, <2>5
<1> QED
  BY <1>1, <1>3, <1>4, AnswersSorted DEF Alike

\* Whole answers to a question that ranks agree but for rows that rank last.
LEMMA TieApart ==
    ASSUME NEW B, NEW P, Judging(B, P), Innocent, case.ordered,
           NEW e \in Answers(Baseline, snap), NEW a \in Answers(plan, snap), e # <<>>
    PROVE  /\ InRankOrder(e) /\ InRankOrder(a) /\ Len(e) = Len(a)
           /\ Rank(e[Len(e)]) = Rank(a[Len(a)])
           /\ EqualOffCutoff(e, a, Rank(e[Len(e)]))
<1> DEFINE n == Len(e)
<1>1. /\ e \in Rows /\ a \in Rows /\ n = Size(B, Asked(Baseline, B))
      /\ Len(a) = Size(P, Asked(plan, P)) /\ Len(a) = n /\ P \in Rows /\ B \in Rows
  BY AnswersAre, InnocentAlike DEF Judging
<1>2. n \in 1 .. n /\ n # 0 /\ n \in Nat
  BY <1>1, RowsAre, EmptySeq DEF Rows
<1>3. PICK f : Picks(f, e, B, n) /\ InTurn(f, e, B, n)
  BY <1>1, AnswerPicks DEF Judging
<1>4. PICK g : Picks(g, a, P, n) /\ (plan.ordered => InTurn(g, a, P, n))
  BY <1>1, AnswerPicks DEF Judging
<1> HIDE DEF n
<1>5. Rank(e[n]) = Rank(a[n]) /\ \A row \in Int \X Int :
        Rank(row) # Rank(e[n]) => Count(e, row) = Count(a, row)
  <2>1. CASE plan.ordered
    <3>1. PICK o \in Answers(plan, snap) : Alike(e, o)
      BY InnocentAlike
    <3>2. o \in Rows /\ Len(o) = n
      BY <1>1, <3>1, AnswersAre DEF Judging
    <3>3. PICK h : Picks(h, o, P, n) /\ InTurn(h, o, P, n)
      BY <1>1, <2>1, AnswerPicks DEF Judging
    <3>4. Rank(o[n]) = Rank(a[n]) /\ \A row \in Int \X Int :
            Rank(row) # Rank(o[n]) => Count(o, row) = Count(a, row)
      BY <1>1, <1>2, <1>4, <2>1, <3>3, TiesApart
    <3>5. Rank(e[n]) = Rank(o[n]) /\ SameRows(e, o)
      BY <1>2, <3>1 DEF Alike, n
    <3> QED
      BY <3>4, <3>5 DEF SameRows
  <2>2. CASE ~plan.ordered
    <3>1. PICK o \in Answers(Baseline, snap) : Alike(o, a)
      BY <2>2, InnocentAlike
    <3>2. o \in Rows /\ Len(o) = n
      BY <1>1, <3>1, AnswersAre DEF Judging
    <3>3. PICK h : Picks(h, o, B, n) /\ InTurn(h, o, B, n)
      BY <1>1, AnswerPicks DEF Judging
    <3>4. Rank(e[n]) = Rank(o[n]) /\ \A row \in Int \X Int :
            Rank(row) # Rank(e[n]) => Count(e, row) = Count(o, row)
      BY <1>1, <1>2, <1>3, <3>3, TiesApart
    <3>5. Rank(o[n]) = Rank(a[n]) /\ SameRows(o, a)
      BY <1>2, <3>1, <3>2 DEF Alike
    <3> QED
      BY <3>4, <3>5 DEF SameRows
  <2> QED
    BY <2>1, <2>2
<1>6. EqualOffCutoff(e, a, Rank(e[n]))
  <2>1. ToSet(e) \cup ToSet(a) \subseteq Int \X Int
    BY <1>1, RowSetsAre
  <2> QED
    BY <1>5, <2>1 DEF EqualOffCutoff
<1> QED
  BY <1>1, <1>3, <1>5, <1>6, AnswersSorted DEF InTurn, n

-----------------------------------------------------------------------------
(* What the judgment hears                                                 *)

\* The sides e and a tell what their queries are; a baseline that did not run is
\* not eligible.
Heard(B, P, e, a, ev) ==
    /\ Judging(B, P) /\ case \in Questions
    /\ IsSide(e) /\ IsSide(a)
    /\ delivered \in Executions(P, plan.ordered, effective_limit(plan))
    /\ TrueSide(a, plan, delivered, P, case.limit)
    /\ e.complete \/ e.eligible =>
          /\ baseline \in Executions(B, Baseline.ordered, effective_limit(Baseline))
          /\ TrueSide(e, Baseline, baseline, B, case.limit)
    /\ ev.expected = e /\ ev.actual = a /\ ev.delivery = ActualDelivery
    /\ ev.limit = IF ActualDelivery = "safety_limited" THEN effective_limit(plan) ELSE NoLimit

\* What the production execution is taken for.
LEMMA DeliveryIs ==
    ASSUME NEW B, NEW P, Judging(B, P), plan.supported
    PROVE  ActualDelivery = IF All(plan, delivered, case.limit) THEN "complete"
                            ELSE IF limit_source(plan) # "input" THEN "safety_limited"
                            ELSE "unknown"
<1> DEFINE whole == _executed_answer_is_complete(plan, effective_limit(plan), FALSE,
                        _execution_exhausted(Len(delivered), effective_limit(plan), FALSE))
<1>1. whole <=> All(plan, delivered, case.limit)
  BY DEF _executed_answer_is_complete, _execution_exhausted, All
<1>2. ActualDelivery = IF whole THEN "complete"
                       ELSE IF limit_source(plan) # "input" THEN "safety_limited"
                       ELSE "unknown"
  BY DEF ActualDelivery, observed_evidence_side
<1> HIDE DEF whole
<1> QED
  BY <1>1, <1>2

LEMMA PlanTells ==
    ASSUME NEW B, NEW P, NEW e, NEW a, NEW ev, Heard(B, P, e, a, ev), plan.supported
    PROVE  /\ a.rows \in Rows /\ Len(a.rows) \in Nat /\ Len(a.rows) <= EvidenceRowLimit
           /\ Len(a.rows) <= Size(P, Asked(plan, P)) /\ NoMoreRows(a.rows, P)
           /\ a.complete => /\ a.rows \in Answers(plan, snap)
                            /\ Len(a.rows) = Size(P, Asked(plan, P))
                            /\ \/ Len(a.rows) = Len(P)
                               \/ /\ case.limit # NoLimit /\ plan.limit = case.limit
                                  /\ limit_source(plan) = "input"
<1>1. a.rows \in Rows /\ Len(a.rows) <= EvidenceRowLimit
  BY DEF Heard, IsSide
<1>2. /\ Len(a.rows) <= Size(P, Asked(plan, P)) /\ NoMoreRows(a.rows, P)
      /\ a.complete => a.rows \in Answers(plan, snap)
      /\ a.complete => \/ Len(a.rows) = Len(P)
                       \/ /\ case.limit # NoLimit /\ plan.limit = case.limit
                          /\ limit_source(plan) = "input"
  BY <1>1, SideTells DEF Heard, Judging
<1>3. a.complete => Len(a.rows) = Size(P, Asked(plan, P))
  BY <1>2, AnswersAre DEF Heard, Judging
<1> QED
  BY <1>1, <1>2, <1>3, RowsAre

LEMMA BaselineTells ==
    ASSUME NEW B, NEW P, NEW e, NEW a, NEW ev, Heard(B, P, e, a, ev), e.complete \/ e.eligible
    PROVE  /\ e.rows \in Rows /\ Len(e.rows) \in Nat /\ Len(e.rows) <= EvidenceRowLimit
           /\ Len(e.rows) <= Size(B, Asked(Baseline, B)) /\ NoMoreRows(e.rows, B)
           /\ e.complete => /\ e.rows \in Answers(Baseline, snap)
                            /\ Len(e.rows) = Size(B, Asked(Baseline, B))
                            /\ case.limit = NoLimit => Len(e.rows) = Len(B)
           /\ ~e.complete => limit_source(Baseline) # "input"
<1>1. e.rows \in Rows /\ Len(e.rows) <= EvidenceRowLimit
  BY DEF Heard, IsSide
<1>2. /\ Len(e.rows) <= Size(B, Asked(Baseline, B)) /\ NoMoreRows(e.rows, B)
      /\ e.complete => e.rows \in Answers(Baseline, snap)
      /\ e.complete => Len(e.rows) = Len(B) \/ case.limit # NoLimit
  BY <1>1, SideTells DEF Heard, Judging
<1>3. e.complete => Len(e.rows) = Size(B, Asked(Baseline, B))
  BY <1>2, AnswersAre DEF Heard, Judging
<1>4. ASSUME ~e.complete PROVE limit_source(Baseline) # "input"
  <2>1. ~All(Baseline, baseline, case.limit)
    BY <1>4 DEF Heard, Judging, TrueSide, Produced, Rerun
  <2> QED
    BY <2>1, LimitsAsked DEF All, Heard, Judging
<1> QED
  BY <1>1, <1>2, <1>3, <1>4, RowsAre

\* With a whole baseline, a plan that only the harness may cut asks for all there
\* is, and the baseline returned it.
LEMMA AsksForAll ==
    ASSUME NEW B, NEW P, NEW e, NEW a, NEW ev, Heard(B, P, e, a, ev), plan.supported, Innocent,
           e.complete, limit_source(plan) # "input"
    PROVE  /\ Size(P, Asked(plan, P)) = Len(P)
           /\ Len(e.rows) = Len(P) /\ SameRows(e.rows, P)
<1>1. /\ e.rows \in Answers(Baseline, snap) /\ Len(e.rows) <= EvidenceRowLimit
      /\ Len(e.rows) = Size(B, Asked(Baseline, B))
  BY BaselineTells
<1>2. Size(B, Asked(Baseline, B)) = Size(P, Asked(plan, P))
  BY InnocentAlike DEF Heard
<1>3. Size(P, Asked(plan, P)) = Len(P)
  BY <1>1, <1>2, LimitsAsked DEF Heard, Judging
<1>4. PICK o \in Answers(plan, snap) : Alike(e.rows, o)
  BY <1>1, InnocentAlike DEF Heard
<1>5. SameRows(o, P)
  BY <1>3, AnswersAre DEF Heard, Judging
<1> QED
  BY <1>1, <1>2, <1>3, <1>4, <1>5 DEF Alike, SameRows

\* What was delivered is valid against the plan's own whole answer.
LEMMA OwnDelivery ==
    ASSUME NEW B, NEW P, NEW e, NEW a, NEW ev, Heard(B, P, e, a, ev), plan.supported, Innocent,
           a.complete
    PROVE  _delivery_is_valid(a.rows, delivered, ev.delivery, ev.limit)
<1>1. CASE Produced(a, plan, delivered, case.limit)
  <2>1. a.rows = delivered /\ ev.delivery = "complete"
    BY <1>1, DeliveryIs DEF Produced, Heard
  <2>2. delivered \in Rows /\ delivered \in Answers(plan, snap)
    BY <2>1, PlanTells
  <2>3. case.ordered => InRankOrder(delivered)
    BY <2>2, AnswersSorted DEF Heard
  <2> QED
    BY <2>1, <2>2, <2>3, OwnFits
<1>2. CASE Rerun(a, plan, delivered, P, case.limit)
  <2>1. ev.delivery = "safety_limited" /\ ev.limit = effective_limit(plan)
    BY <1>2, DeliveryIs DEF Rerun, Heard
  <2>2. Len(a.rows) = Len(P) /\ Size(P, Asked(plan, P)) = Len(P) /\ a.rows \in Rows
    BY <1>2, PlanTells DEF Rerun
  <2>3. SameRows(a.rows, P)
    BY <2>2, PlanTells, AnswersAre DEF Heard, Judging
  <2> QED
    BY <2>1, <2>2, <2>3, DeliveryFits DEF Heard
<1> QED
  BY <1>1, <1>2 DEF Heard, TrueSide

\* And, without one, against the baseline's.
LEMMA SampleDelivery ==
    ASSUME NEW B, NEW P, NEW e, NEW a, NEW ev, Heard(B, P, e, a, ev), plan.supported, Innocent,
           e.complete, ~a.complete, ev.delivery # "unknown"
    PROVE  _delivery_is_valid(e.rows, delivered, ev.delivery, ev.limit)
<1>1. ~All(plan, delivered, case.limit)
  BY DEF Heard, TrueSide, Produced, Rerun
<1>2. /\ ev.delivery = "safety_limited" /\ ev.limit = effective_limit(plan)
      /\ limit_source(plan) # "input"
  BY <1>1, DeliveryIs DEF Heard
<1>3. Size(P, Asked(plan, P)) = Len(P) /\ Len(e.rows) = Len(P) /\ SameRows(e.rows, P)
  BY <1>2, AsksForAll
<1>4. e.rows \in Rows
  BY DEF Heard, IsSide
<1> QED
  BY <1>2, <1>3, <1>4, DeliveryFits DEF Heard

\* A sample of the plan's rows is of the baseline's, and the other way round.
LEMMA PlanSample ==
    ASSUME NEW B, NEW P, NEW e, NEW a, NEW ev, Heard(B, P, e, a, ev), plan.supported, Innocent,
           e.complete, a.rows # delivered
    PROVE  _rows_are_subset(a.rows, e.rows)
<1>1. limit_source(plan) # "input"
  BY DEF Heard, TrueSide, Produced, Rerun
<1>2. SameRows(e.rows, P) /\ NoMoreRows(a.rows, P)
  BY <1>1, AsksForAll, PlanTells
<1>3. NoMoreRows(a.rows, e.rows) /\ a.rows \in Rows /\ e.rows \in Rows
  BY <1>2 DEF NoMoreRows, SameRows, Heard, IsSide
<1> QED
  BY <1>3, RowsAreSubset

LEMMA BaselineSample ==
    ASSUME NEW B, NEW P, NEW e, NEW a, NEW ev, Heard(B, P, e, a, ev), plan.supported, Innocent,
           a.complete, ~e.complete, e.eligible
    PROVE  _rows_are_subset(e.rows, a.rows)
<1>1. /\ limit_source(Baseline) # "input" /\ NoMoreRows(e.rows, B) /\ e.rows \in Rows
  BY BaselineTells
<1>2. /\ a.rows \in Rows /\ a.rows \in Answers(plan, snap)
      /\ Len(a.rows) = Size(P, Asked(plan, P)) /\ Len(a.rows) <= EvidenceRowLimit
      /\ \/ Len(a.rows) = Len(P)
         \/ /\ case.limit # NoLimit /\ plan.limit = case.limit /\ limit_source(plan) = "input"
  BY PlanTells
<1>3. Len(a.rows) = Len(P)
  <2>1. ~ (case.limit # NoLimit /\ case.limit <= MaxLimit)
    BY <1>1, LimitsAsked DEF Heard, Judging
  <2> QED
    BY <1>2, <2>1, LimitsAsked DEF Heard, Judging
<1>4. Size(B, Asked(Baseline, B)) = Size(P, Asked(plan, P))
  BY InnocentAlike DEF Heard
<1>5. Size(B, Asked(Baseline, B)) = Len(B)
  BY <1>1, <1>2, <1>4, LimitsAsked DEF Heard, Judging
<1>6. B \in Rows /\ Baseline.ordered \in BOOLEAN /\ Asked(Baseline, B) \in Nat
      /\ Answers(Baseline, snap) = Executions(B, Baseline.ordered, Asked(Baseline, B))
  <2>1. /\ EvidenceSetting /\ MaxLimit = EvidenceRowLimit /\ IsQuery(Baseline)
        /\ B \in Rows /\ B = Population(Baseline, snap)
    BY DEF Heard, Judging
  <2>2. Asked(Baseline, B) \in Nat
    BY <2>1, LimitsAsked
  <2>3. Answers(Baseline, snap) = Executions(B, Baseline.ordered, Asked(Baseline, B))
    BY <2>1, AnswersAre
  <2> QED
    BY <2>1, <2>2, <2>3 DEF IsQuery
<1>7. PICK o \in Answers(Baseline, snap) : TRUE
  BY <1>6, ExecutionsExist
<1>8. Alike(o, a.rows)
  BY <1>2, <1>3, <1>7, WholesAgree DEF Heard
<1>9. SameRows(o, B)
  BY <1>5, <1>7, AnswersAre DEF Heard, Judging
<1>10. NoMoreRows(e.rows, a.rows)
  BY <1>1, <1>8, <1>9 DEF Alike, SameRows, NoMoreRows
<1> QED
  BY <1>1, <1>2, <1>10, RowsAreSubset

-----------------------------------------------------------------------------
(* No innocent query is judged incorrect                                   *)

\* The provenance of the columns does not tell the two answers apart.
MayBeSame(p) == ~_has_complete_provenance(p) \/ p.same

Mild(j) == j.state # "incorrect"

LEMMA MildOnes == Mild(Correct) /\ \A reason : Mild(_unestablished(reason))
BY DEF Mild, Correct, _unestablished

LEMMA NeverDiffer ==
    ASSUME NEW p, MayBeSame(p), NEW x, NEW y
    PROVE  Comparable(p, x, y) # "differ"
BY DEF MayBeSame, Comparable

LEMMA NotRefuted ==
    ASSUME NEW c, c # "differ", NEW rows, NEW sent, NEW delivery, NEW limit,
           _delivery_is_valid(rows, sent, delivery, limit)
    PROVE  Three(c, _delivery_is_valid(rows, sent, delivery, limit)) # "no"
BY DEF Three

LEMMA OwnNotRefuted ==
    ASSUME NEW B, NEW P, NEW e, NEW a, NEW ev, Heard(B, P, e, a, ev), plan.supported, Innocent,
           a.complete, NEW p
    PROVE  _actual_delivery_is_valid(p, ev) # "no"
<1>1. _delivery_is_valid(ev.actual.rows, delivered, ev.delivery, ev.limit)
  BY OwnDelivery DEF Heard
<1>2. PICK c : c = IF ~p.actual /\ ShapesDiffer([p EXCEPT !.same = TRUE],
                                               ev.actual.rows, delivered)
                   THEN "unproved" ELSE "yes"
  OBVIOUS
<1>3. c # "differ"
  BY <1>2
<1>4. _actual_delivery_is_valid(p, ev) =
        Three(c, _delivery_is_valid(ev.actual.rows, delivered, ev.delivery, ev.limit))
  BY <1>2, Zenon DEF _actual_delivery_is_valid
<1> QED
  BY <1>1, <1>3, <1>4, NotRefuted

LEMMA SampleNotRefuted ==
    ASSUME NEW B, NEW P, NEW e, NEW a, NEW ev, Heard(B, P, e, a, ev), plan.supported, Innocent,
           e.complete, ~a.complete, ev.delivery # "unknown", NEW p, MayBeSame(p)
    PROVE  _sample_is_valid_delivery(p, ev) # "no"
<1>1. _delivery_is_valid(ev.expected.rows, delivered, ev.delivery, ev.limit)
  BY SampleDelivery DEF Heard
<1>2. Comparable(p, ev.expected.rows, delivered) # "differ"
  BY NeverDiffer
<1> QED
  BY <1>1, <1>2, NotRefuted DEF _sample_is_valid_delivery

LEMMA SubsetNotRefuted ==
    ASSUME NEW p, MayBeSame(p), NEW rows, NEW sample, _rows_are_subset(sample, rows)
    PROVE  _sample_is_compatible_subset(p, rows, sample) # "no"
<1>1. Comparable(p, rows, sample) # "differ"
  BY NeverDiffer
<1> QED
  BY <1>1 DEF _sample_is_compatible_subset, Three

\* What the witnesses of a defect need.
LEMMA NoWitness ==
    ASSUME NEW B, NEW P, NEW e, NEW a, NEW ev, Heard(B, P, e, a, ev), plan.supported, Innocent,
           NEW p, MayBeSame(p)
    PROVE  ~Witness(p, ev)
<1>1. ev.expected = e /\ ev.actual = a
  BY DEF Heard
<1>2. Size(P, Asked(plan, P)) = Size(B, Asked(Baseline, B))
  BY InnocentAlike DEF Heard
<1>3. Len(a.rows) \in Nat /\ Len(a.rows) <= Size(P, Asked(plan, P))
      /\ (a.complete => Len(a.rows) = Size(P, Asked(plan, P)))
  BY PlanTells
<1>4. ASSUME e.complete \/ e.eligible
      PROVE  Len(e.rows) \in Nat /\ Len(e.rows) <= Size(P, Asked(plan, P))
             /\ (e.complete => Len(e.rows) = Size(P, Asked(plan, P)))
  BY <1>2, <1>4, BaselineTells
<1>5. ASSUME a.complete
      PROVE  _delivery_cardinality_is_valid(Len(a.rows), Len(delivered), ev.delivery, ev.limit)
             /\ _actual_delivery_is_valid(p, ev) # "no"
  BY <1>5, OwnDelivery, OwnNotRefuted DEF _delivery_is_valid
<1>6. ASSUME e.complete, ~a.complete, ev.delivery # "unknown"
      PROVE  _delivery_cardinality_is_valid(Len(e.rows), Len(delivered), ev.delivery, ev.limit)
             /\ _sample_is_valid_delivery(p, ev) # "no"
  BY <1>6, SampleDelivery, SampleNotRefuted DEF _delivery_is_valid
<1>7. ~ (e.complete /\ a.complete /\ Len(e.rows) # Len(a.rows))
  BY <1>3, <1>4
<1>8. ~ (e.complete /\ a.eligible /\ Len(a.rows) > Len(e.rows))
  BY <1>3, <1>4
<1>9. ~ (a.complete /\ e.eligible /\ Len(e.rows) > Len(a.rows))
  BY <1>3, <1>4
<1> DEFINE known == IF a.complete THEN Len(a.rows)
                    ELSE IF e.complete /\ a.eligible THEN Len(e.rows) ELSE -1
<1>10. ~ (/\ known # -1 /\ ev.delivery # "unknown"
          /\ ~_delivery_cardinality_is_valid(known, Len(delivered), ev.delivery, ev.limit))
  <2>1. CASE a.complete
    BY <1>5, <2>1
  <2>2. CASE ~a.complete
    BY <1>6, <2>2
  <2> QED
    BY <2>1, <2>2
<1> HIDE DEF known
<1> QED
  BY <1>1, <1>5, <1>6, <1>7, <1>8, <1>9, <1>10, Zenon DEF Witness, known

LEMMA WholesAreMild ==
    ASSUME NEW B, NEW P, NEW e, NEW a, NEW ev, Heard(B, P, e, a, ev), plan.supported, Innocent,
           NEW p, MayBeSame(p), e.complete, a.complete, case.kind # "limit"
    PROVE  Mild(CompareWhole(p, ev))
<1>1. ev.expected = e /\ ev.actual = a
  BY DEF Heard
<1>2. _actual_delivery_is_valid(p, ev) # "no"
  BY OwnNotRefuted
<1>3. Comparable(p, e.rows, a.rows) # "differ"
  BY NeverDiffer
<1>4. /\ e.rows \in Answers(Baseline, snap) /\ a.rows \in Answers(plan, snap)
      /\ e.rows \in Rows /\ a.rows \in Rows /\ Len(a.rows) = Size(P, Asked(plan, P))
  BY BaselineTells, PlanTells
<1>5. CASE Size(P, Asked(plan, P)) = Len(P)
  <2>1. Alike(e.rows, a.rows)
    BY <1>4, <1>5, WholesAgree DEF Heard
  <2>2. _compare_rows(p, e.rows, a.rows)
    BY <1>3, <1>4, <2>1, AgreeAlike DEF _compare_rows, Agree
  <2> QED
    BY <1>1, <1>2, <2>2, MildOnes, Zenon DEF CompareWhole
<1>6. CASE Size(P, Asked(plan, P)) # Len(P)
  <2>1. case.limit # NoLimit /\ plan.limit = case.limit
    BY <1>4, <1>6, PlanTells
  <2>2. case.kind = "top_n" /\ case.ordered /\ case.limit \in Nat \ {0}
    BY <2>1 DEF Heard, Judging, EvidenceSetting
  <2>3. Len(a.rows) = case.limit
    BY <1>4, <1>6, <2>1 DEF Asked, Size
  <2>4. Len(e.rows) = case.limit /\ e.rows # <<>>
    <3>1. Len(e.rows) = case.limit
      <4>1. Size(P, Asked(plan, P)) = Size(B, Asked(Baseline, B))
        BY InnocentAlike DEF Heard
      <4> QED
        BY <1>4, <2>3, <4>1, BaselineTells
    <3> QED
      BY <2>2, <3>1
  <2>5. /\ InRankOrder(e.rows) /\ InRankOrder(a.rows)
        /\ Rank(e.rows[Len(e.rows)]) = Rank(a.rows[Len(a.rows)])
        /\ EqualOffCutoff(e.rows, a.rows, Rank(e.rows[Len(e.rows)]))
    BY <1>4, <2>2, <2>4, TieApart DEF Heard
  <2>6. _only_cutoff_tie_membership_differs(p, e.rows, a.rows)
    BY <1>3, <2>2, <2>3, <2>4, <2>5 DEF _only_cutoff_tie_membership_differs
  <2> QED
    BY <1>1, <1>2, <2>6, MildOnes, Zenon DEF CompareWhole
<1> QED
  BY <1>5, <1>6

LEMMA SamplesAreMild ==
    ASSUME NEW B, NEW P, NEW e, NEW a, NEW ev, Heard(B, P, e, a, ev), plan.supported, Innocent,
           NEW p, MayBeSame(p), e.eligible, ~ (e.complete /\ a.complete)
    PROVE  Mild(CompareSample(p, ev))
<1>1. ev.expected = e /\ ev.actual = a
  BY DEF Heard
<1>2. e.complete /\ ev.delivery # "unknown" => _sample_is_valid_delivery(p, ev) # "no"
  BY SampleNotRefuted
<1>3. e.complete /\ a.rows # delivered =>
        _sample_is_compatible_subset(p, e.rows, a.rows) # "no"
  BY PlanSample, SubsetNotRefuted
<1>4. a.complete => _actual_delivery_is_valid(p, ev) # "no"
  BY OwnNotRefuted
<1>5. ~e.complete /\ a.complete => _sample_is_compatible_subset(p, a.rows, e.rows) # "no"
  BY BaselineSample, SubsetNotRefuted
<1> QED
  BY <1>1, <1>2, <1>3, <1>4, <1>5, MildOnes, Zenon DEF CompareSample

LEMMA ComparisonIsMild ==
    ASSUME NEW B, NEW P, NEW e, NEW a, NEW ev, Heard(B, P, e, a, ev), plan.supported, Innocent,
           NEW p, MayBeSame(p), case.kind # "limit"
    PROVE  Mild(_compare_with_evidence(p, ev))
<1>1. ev.expected = e /\ ev.actual = a
  BY DEF Heard
<1>2. ~Witness(p, ev)
  BY NoWitness
<1>3. e.complete /\ a.complete => Mild(CompareWhole(p, ev))
  BY WholesAreMild
<1>4. e.eligible /\ ~ (e.complete /\ a.complete) => Mild(CompareSample(p, ev))
  BY SamplesAreMild
<1> QED
  BY <1>1, <1>2, <1>3, <1>4, MildOnes, Zenon DEF _compare_with_evidence

-----------------------------------------------------------------------------
(* No judgment is correct without two whole answers                        *)

\* What a judgment of "correct" has compared.
Compared(j, p, ev) ==
    j.state = "correct" => /\ ev.expected.complete /\ ev.actual.complete
                           /\ _compare_rows(p, ev.expected.rows, ev.actual.rows)

LEMMA ComparedOnes ==
    ASSUME NEW p, NEW ev
    PROVE  Compared(Incorrect, p, ev) /\ \A reason : Compared(_unestablished(reason), p, ev)
BY DEF Compared, Incorrect, _unestablished

LEMMA CorrectIsCompared ==
    ASSUME NEW p, NEW ev
    PROVE  Compared(_compare_with_evidence(p, ev), p, ev)
<1>1. ASSUME ev.expected.complete, ev.actual.complete
      PROVE  Compared(CompareWhole(p, ev), p, ev)
  <2>1. _compare_rows(p, ev.expected.rows, ev.actual.rows) => Compared(Correct, p, ev)
    BY <1>1 DEF Compared
  <2> QED
    BY <2>1, ComparedOnes, Zenon DEF CompareWhole
<1>2. Compared(CompareSample(p, ev), p, ev)
  BY ComparedOnes, Zenon DEF CompareSample
<1> QED
  BY <1>1, <1>2, ComparedOnes, Zenon DEF _compare_with_evidence

-----------------------------------------------------------------------------
(* What a judgment is about                                                *)

Warranted(state, columns) ==
    /\ state = "correct" =>
          /\ plan.supported /\ columns
          /\ \E e \in Answers(Baseline, snap), a \in Answers(plan, snap) : Agree(e, a)
          /\ case.kind = "population" =>
                _unordered_rows_equal(Population(Baseline, snap), Population(plan, snap))
    /\ state = "incorrect" /\ columns /\ case.kind # "limit" =>
          ~Innocent \/ ~plan.supported

LEMMA WholesAreWarranted ==
    ASSUME NEW B, NEW P, NEW e, NEW a, NEW ev, Heard(B, P, e, a, ev), NEW p,
           e.complete, a.complete, _compare_rows(p, e.rows, a.rows)
    PROVE  Warranted("correct", MayBeSame(p))
<1>1. plan.supported
  BY DEF Heard, TrueSide
<1>2. MayBeSame(p)
  BY DEF _compare_rows, Comparable, MayBeSame
<1>3. /\ e.rows \in Rows /\ e.rows \in Answers(Baseline, snap)
      /\ Len(e.rows) = Size(B, Asked(Baseline, B)) /\ (case.limit = NoLimit => Len(e.rows) = Len(B))
  BY BaselineTells
<1>4. /\ a.rows \in Rows /\ a.rows \in Answers(plan, snap)
      /\ Len(a.rows) = Size(P, Asked(plan, P)) /\ (case.limit = NoLimit => Len(a.rows) = Len(P))
  BY <1>1, PlanTells
<1>5. Agree(e.rows, a.rows)
  BY DEF _compare_rows, Agree
<1>6. ASSUME case.kind = "population"
      PROVE  _unordered_rows_equal(Population(Baseline, snap), Population(plan, snap))
  <2>1. case.limit = NoLimit
    BY <1>6 DEF Heard, Judging, EvidenceSetting
  <2>2. SameRows(e.rows, B)
    BY <1>3, <2>1, AnswersAre DEF Heard, Judging
  <2>3. SameRows(a.rows, P)
    BY <1>4, <2>1, AnswersAre DEF Heard, Judging
  <2>4. SameRows(e.rows, a.rows)
    BY <1>3, <1>4, <1>5, AgreeAlike DEF Alike
  <2>5. SameRows(B, P) /\ B \in Rows /\ P \in Rows
        /\ B = Population(Baseline, snap) /\ P = Population(plan, snap)
    BY <2>2, <2>3, <2>4 DEF SameRows, Heard, Judging
  <2> QED
    BY <2>5, RowsEqual
<1> QED
  BY <1>1, <1>2, <1>3, <1>4, <1>5, <1>6 DEF Warranted

LEMMA ComparisonIsWarranted ==
    ASSUME NEW B, NEW P, NEW e, NEW a, NEW ev, Heard(B, P, e, a, ev), NEW p
    PROVE  Warranted(_compare_with_evidence(p, ev).state, MayBeSame(p))
<1>1. PICK j : j = _compare_with_evidence(p, ev)
  OBVIOUS
<1>2. ASSUME j.state = "correct"
      PROVE  Warranted("correct", MayBeSame(p))
  <2>1. e.complete /\ a.complete /\ _compare_rows(p, e.rows, a.rows)
    BY <1>1, <1>2, CorrectIsCompared DEF Compared, Heard
  <2> QED
    BY <2>1, WholesAreWarranted
<1>3. ASSUME j.state = "incorrect", MayBeSame(p), case.kind # "limit"
      PROVE  ~Innocent \/ ~plan.supported
  BY <1>1, <1>3, ComparisonIsMild DEF Mild
<1>4. Warranted(j.state, MayBeSame(p))
  BY <1>2, <1>3 DEF Warranted
<1> QED
  BY <1>1, <1>4

-----------------------------------------------------------------------------
(* The inductive invariant of a judgment                                   *)

TruthInv ==
    /\ pc # "done" => record.state = "none"
    /\ ActualRan =>
          /\ delivered \in Executions(Population(plan, snap), plan.ordered, effective_limit(plan))
          /\ TrueSide(actual, plan, delivered, Population(plan, snap), case.limit)
    /\ BaselineRan =>
          /\ baseline \in Executions(Population(Baseline, snap), Baseline.ordered,
                                     effective_limit(Baseline))
          /\ TrueSide(expected, Baseline, baseline, Population(Baseline, snap), case.limit)
    /\ JudgmentIsProof

LEMMA CaseIsJudging ==
    ASSUME EvidenceSetting, MaxLimit = EvidenceRowLimit, CaseInv
    PROVE  Judging(Population(Baseline, snap), Population(plan, snap)) /\ case \in Questions
<1>1. case \in Questions /\ plan \in Plans /\ world \in Worlds /\ snap \in {0, 1}
  BY DEF CaseInv
<1>2. IsQuery(plan)
  BY <1>1 DEF EvidenceSetting, IsQuery
<1>3. /\ Baseline.answer = "right" /\ Baseline.limit = case.limit /\ Baseline.supported
      /\ Baseline.supported = TRUE /\ Baseline.ordered = case.ordered
  BY DEF Baseline
<1>4. IsQuery(Baseline)
  BY <1>1, <1>3 DEF EvidenceSetting, IsQuery
<1>5. Population(Baseline, snap) \in Rows /\ Population(plan, snap) \in Rows
  BY <1>1, <1>2, <1>4, PopulationsAreRows DEF IsQuery
<1> QED
  BY <1>1, <1>2, <1>3, <1>4, <1>5 DEF Judging

\* The production execution tells what it has returned.
LEMMA ObservedIsTrue ==
    ASSUME NEW q, IsQuery(q), NEW pop, NEW d
    PROVE  TrueSide(observed_evidence_side(d, q), q, d, pop, case.limit)
<1> DEFINE s == observed_evidence_side(d, q)
           whole == _executed_answer_is_complete(q, effective_limit(q), FALSE,
                        _execution_exhausted(Len(d), effective_limit(q), FALSE))
<1>1. q.supported => (whole <=> All(q, d, case.limit))
  BY DEF _executed_answer_is_complete, _execution_exhausted, All
<1>2. /\ s.rows = d /\ s.auxiliary = 0 /\ s.eligible = q.supported
      /\ s.complete <=> whole /\ q.supported
  BY DEF observed_evidence_side
<1> HIDE DEF s, whole
<1>3. TrueSide(s, q, d, pop, case.limit)
  BY <1>1, <1>2 DEF TrueSide, Produced
<1> QED
  BY <1>3 DEF s

\* So does the auxiliary statement: rows of one execution, all of them unless it
\* failed or ran out of rows, payload or time.
LEMMA AuxiliaryRows ==
    ASSUME EvidenceSetting, NEW q, IsQuery(q), NEW pop \in Rows, pop = Population(q, snap),
           NEW budget \in Int, budget > 0, NEW r \in AuxiliaryRuns(q, budget),
           widened_limit(q) \in Nat
    PROVE  \/ r.rows = <<>> /\ ~r.ok
           \/ \E s \in Executions(pop, q.ordered, widened_limit(q)) : \E k \in 0 .. Len(s) :
                 /\ r.rows = SubSeq(s, 1, k)
                 /\ ~r.truncated /\ ~r.payload /\ ~r.timeout =>
                       k = Len(s) /\ Len(s) <= EvidenceRowLimit
<1> DEFINE full == Executions(pop, q.ordered, widened_limit(q))
           room == IF budget < EvidenceRowLimit THEN budget ELSE EvidenceRowLimit
           kept(s) == IF Len(s) <= room THEN Len(s) ELSE room
           run(ok, rows, truncated, payload, timeout, slow) ==
              [ok |-> ok, rows |-> rows, truncated |-> truncated,
               payload |-> payload, timeout |-> timeout, slow |-> slow]
           failed == {run(FALSE, <<>>, FALSE, FALSE, t, FALSE) : t \in BOOLEAN}
           returned == {run(TRUE, SubSeq(s, 1, kept(s)),
                            Len(s) > room /\ room = EvidenceRowLimit,
                            Len(s) > room /\ room < EvidenceRowLimit, FALSE, slow) :
                              s \in full, slow \in BOOLEAN}
           cut(s) == {run(TRUE, SubSeq(s, 1, k), FALSE, FALSE, TRUE, FALSE) :
                              k \in 0 .. kept(s)}
<1>1. r \in failed \cup returned \cup UNION {cut(s) : s \in full}
  BY DEF AuxiliaryRuns
<1>2. room \in Nat /\ (room < EvidenceRowLimit \/ room = EvidenceRowLimit)
      /\ room <= EvidenceRowLimit /\ EvidenceRowLimit \in Nat
  BY DEF EvidenceSetting
<1>3. \A s \in full : s \in Rows /\ Len(s) \in Nat
  BY ExecutionsAreBounded, RowsAre
<1> HIDE DEF full, room
<1>4. \A s \in full : kept(s) \in 0 .. Len(s) /\ \A k \in 0 .. kept(s) : k \in 0 .. Len(s)
  BY <1>2, <1>3
<1>5. CASE r \in failed
  BY <1>5
<1>6. CASE r \in returned
  <2>1. PICK s \in full : /\ r.rows = SubSeq(s, 1, kept(s))
                          /\ r.truncated = (Len(s) > room /\ room = EvidenceRowLimit)
                          /\ r.payload = (Len(s) > room /\ room < EvidenceRowLimit)
    <3> HIDE DEF kept
    <3> QED
      BY <1>6
  <2>2. ASSUME ~r.truncated, ~r.payload
        PROVE  kept(s) = Len(s) /\ Len(s) <= EvidenceRowLimit
    <3>1. ~ (Len(s) > room)
      BY <1>2, <2>1, <2>2
    <3>2. Len(s) <= room
      BY <1>2, <1>3, <3>1
    <3> QED
      BY <1>2, <1>3, <3>2
  <2>3. kept(s) \in 0 .. Len(s)
    BY <1>4
  <2> QED
    BY <2>1, <2>2, <2>3 DEF full
<1>7. ASSUME NEW s \in full, r \in cut(s)
      PROVE  \E k \in 0 .. Len(s) : r.rows = SubSeq(s, 1, k) /\ r.timeout
  <2>1. PICK k \in 0 .. kept(s) : r.rows = SubSeq(s, 1, k) /\ r.timeout = TRUE
    <3> HIDE DEF kept
    <3> QED
      BY <1>7
  <2> QED
    BY <1>4, <2>1
<1> HIDE DEF failed, returned, cut
<1>8. CASE r \in UNION {cut(s) : s \in full}
  <2>1. PICK s \in full : r \in cut(s)
    BY <1>8
  <2>2. PICK k \in 0 .. Len(s) : r.rows = SubSeq(s, 1, k) /\ r.timeout
    BY <1>7, <2>1
  <2> QED
    BY <2>2 DEF full
<1> QED
  BY <1>1, <1>5, <1>6, <1>8

LEMMA AuxiliaryIsTrue ==
    ASSUME EvidenceSetting, MaxLimit = EvidenceRowLimit, NEW q, IsQuery(q), q.supported,
           NEW pop \in Rows, pop = Population(q, snap), NEW d, NEW c, ~All(q, d, c),
           limit_source(q) # "input", NEW side, NEW budget \in Int, budget > 0,
           NEW r \in AuxiliaryRuns(q, budget)
    PROVE  TrueSide(auxiliary_evidence_side(q, r, side), q, d, pop, c)
<1> DEFINE s == auxiliary_evidence_side(q, r, side)
<1>1. /\ s.rows = r.rows /\ s.eligible = q.supported /\ s.auxiliary = 1
      /\ s.complete => r.ok /\ ~r.truncated /\ ~r.payload /\ ~r.timeout
  BY DEF auxiliary_evidence_side, _executed_answer_is_complete
<1> HIDE DEF s
<1>2. /\ widened_limit(q) \in Nat /\ q.ordered \in BOOLEAN
      /\ Size(pop, widened_limit(q)) <= EvidenceRowLimit => Size(pop, widened_limit(q)) = Len(pop)
  BY LimitsAsked DEF IsQuery
<1>3. Len(pop) \in Nat /\ Size(pop, widened_limit(q)) \in 0 .. Len(pop)
  BY <1>2, SizeIs, RowsAre
<1>4. CASE r.rows = <<>> /\ ~r.ok
  <2>1. <<>> \in Rows /\ Len(<<>>) = 0
    BY DEF Rows
  <2>2. NoMoreRows(<<>>, pop)
    <3>1. \A row : Count(<<>>, row) = 0 /\ Count(pop, row) \in Nat
      BY <2>1, CountsArePlaces
    <3> QED
      BY <3>1 DEF NoMoreRows
  <2>3. Rerun(s, q, d, pop, c)
    BY <1>1, <1>3, <1>4, <2>1, <2>2 DEF Rerun
  <2> QED
    BY <1>1, <1>4, <2>3 DEF TrueSide, s
<1>5. CASE ~ (r.rows = <<>> /\ ~r.ok)
  <2>1. PICK t \in Executions(pop, q.ordered, widened_limit(q)) : \E k \in 0 .. Len(t) :
          /\ r.rows = SubSeq(t, 1, k)
          /\ ~r.truncated /\ ~r.payload /\ ~r.timeout =>
                k = Len(t) /\ Len(t) <= EvidenceRowLimit
    BY <1>2, <1>5, AuxiliaryRows
  <2>2. PICK k \in 0 .. Len(t) :
          /\ r.rows = SubSeq(t, 1, k)
          /\ ~r.truncated /\ ~r.payload /\ ~r.timeout =>
                k = Len(t) /\ Len(t) <= EvidenceRowLimit
    BY <2>1
  <2>3. t \in Rows /\ Len(t) = Size(pop, widened_limit(q)) /\ NoMoreRows(t, pop)
    BY <1>2, ExecutionHolds
  <2>4. /\ r.rows \in Rows /\ Len(r.rows) = k /\ NoMoreRows(r.rows, t)
        /\ k = Len(t) => r.rows = t
    BY <2>2, <2>3, PrefixRows
  <2>5. NoMoreRows(r.rows, pop)
    <3>1. \A row : Count(r.rows, row) \in Nat /\ Count(t, row) \in Nat /\ Count(pop, row) \in Nat
      BY <2>3, <2>4, CountsArePlaces
    <3> QED
      BY <2>3, <2>4, <3>1 DEF NoMoreRows
  <2>6. Len(r.rows) <= Size(pop, widened_limit(q))
    BY <1>3, <2>2, <2>3, <2>4
  <2>7. ASSUME s.complete PROVE r.rows \in Executions(pop, q.ordered, Len(pop))
    <3>1. r.rows = t /\ Size(pop, widened_limit(q)) = Len(pop)
      BY <1>1, <1>2, <2>2, <2>3, <2>4, <2>7
    <3>2. Size(pop, Len(pop)) = Len(pop)
      BY <1>3 DEF Size
    <3> QED
      BY <3>1, <3>2, SameSize
  <2>8. Rerun(s, q, d, pop, c)
    BY <1>1, <2>5, <2>6, <2>7 DEF Rerun
  <2> QED
    BY <1>1, <2>8 DEF TrueSide, s
<1> QED
  BY <1>4, <1>5

\* The evidence acquired for a side tells what the side told, or more.
LEMMA AcquiredIsTrue ==
    ASSUME EvidenceSetting, MaxLimit = EvidenceRowLimit, NEW q, IsQuery(q),
           NEW pop \in Rows, pop = Population(q, snap), NEW d, NEW c,
           NEW side, Settled(side), TrueSide(side, q, d, pop, c), NEW budget \in Int,
           NEW r \in acquire(side, q, budget)
    PROVE  TrueSide(r.side, q, d, pop, c)
<1>1. CASE side.complete
  BY <1>1 DEF acquire
<1>2. CASE ~side.complete /\ (late \/ ~usable \/ budget <= 0 \/ ~build_auxiliary_validation(q))
  <2>1. PICK why : r.side = [side EXCEPT !.reason = why]
    <3> DEFINE why == IF late THEN "evidence_timeout"
                      ELSE IF budget <= 0 THEN "evidence_payload_exceeded"
                      ELSE IF ~usable THEN "evidence_timeout"
                      ELSE "unsupported_query_shape"
    <3>1. acquire(side, q, budget) = {[side |-> [side EXCEPT !.reason = why], ok |-> TRUE]}
      BY <1>2, Zenon DEF acquire
    <3> HIDE DEF why
    <3> QED
      BY <3>1
  <2> DEFINE s == r.side
  <2>2. /\ s.rows = side.rows /\ s.complete = side.complete /\ s.eligible = side.eligible
        /\ s.auxiliary = side.auxiliary
    BY <2>1 DEF Settled, IsSide, SideFields
  <2> HIDE DEF s
  <2>3. TrueSide(s, q, d, pop, c)
    BY <2>2 DEF TrueSide, Produced, Rerun
  <2> QED
    BY <2>3 DEF s
<1>3. CASE ~side.complete /\ ~late /\ usable /\ budget > 0 /\ build_auxiliary_validation(q)
  <2>1. PICK a \in AuxiliaryRuns(q, budget) : r.side = auxiliary_evidence_side(q, a, side)
    BY <1>3 DEF acquire
  <2>2. q.supported /\ limit_source(q) # "input"
    BY <1>3 DEF build_auxiliary_validation
  <2>3. ~All(q, d, c)
    BY <1>3, <2>2 DEF TrueSide, Produced, Rerun
  <2> QED
    BY <1>3, <2>1, <2>2, <2>3, AuxiliaryIsTrue
<1> QED
  BY <1>1, <1>2, <1>3

-----------------------------------------------------------------------------
(* The steps of a judgment                                                 *)

\* Where nothing a judgment is about changes, what it warrants does not either.
Settings == <<case, world, plan, snap>>

LEMMA WarrantStays ==
    ASSUME UNCHANGED Settings, NEW state, NEW columns, Warranted(state, columns)
    PROVE  Warranted(state, columns)'
BY DEF Settings, Warranted, Innocent, Answers, Population, Baseline, Agree,
       _compare_normalized_rows

LEMMA PopulationsStay ==
    ASSUME UNCHANGED Settings
    PROVE  /\ Population(plan, snap)' = Population(plan, snap)
           /\ Population(Baseline, snap)' = Population(Baseline, snap)
           /\ Baseline' = Baseline
BY DEF Settings, Population, Baseline

\* A judgment that says what its evidence warrants.
LEMMA WarrantedIsProof ==
    ASSUME UNCHANGED Settings, NEW state, NEW columns, Warranted(state, columns),
           record'.judged = state, record'.columns = columns
    PROVE  JudgmentIsProof'
<1>1. Warranted(state, columns)'
  BY WarrantStays
<1> QED
  BY <1>1 DEF JudgmentIsProof, Judged, Warranted

\* The judgment of what the sides tell.
LEMMA JudgedIsProof ==
    ASSUME UNCHANGED Settings, NEW B, NEW P, NEW e, NEW a, NEW ev, Heard(B, P, e, a, ev),
           JudgeWith(ev)
    PROVE  JudgmentIsProof' /\ pc' = "done"
<1>1. PICK p \in Provenances, contract \in {"passed", "failed", "unknown"},
           tables \in BOOLEAN :
        /\ record' = Stored(Contracted(_compare_with_evidence(p, ev), contract),
                            ev.delivery, tables, ev,
                            _compare_with_evidence(p, ev).state,
                            ~_has_complete_provenance(p) \/ p.same, FALSE)
        /\ pc' = "done"
  BY Zenon DEF JudgeWith
<1>2. PICK state, columns : /\ state = _compare_with_evidence(p, ev).state
                            /\ columns = MayBeSame(p)
  OBVIOUS
<1>3. record'.judged = state /\ record'.columns = columns
  BY <1>1, <1>2 DEF Stored, MayBeSame
<1>4. Warranted(state, columns)
  BY <1>2, ComparisonIsWarranted
<1> QED
  BY <1>1, <1>3, <1>4, WarrantedIsProof

\* A judgment that leaves the question open.
LEMMA OpenIsProof ==
    ASSUME record'.judged = "unestablished"
    PROVE  JudgmentIsProof'
BY DEF JudgmentIsProof, Judged

LEMMA UnjudgedIsProof ==
    ASSUME record'.state = "none"
    PROVE  JudgmentIsProof'
BY DEF JudgmentIsProof, Judged

LEMMA TruthInitEstablishes == ASSUME CaseInit PROVE TruthInv
<1>1. record.state = "none" /\ pc = "actual"
  BY DEF CaseInit, NoRecord
<1> QED
  BY <1>1 DEF TruthInv, JudgmentIsProof, Judged, ActualRan, BaselineRan

LEMMA RunActualTells ==
    ASSUME EvidenceSetting, MaxLimit = EvidenceRowLimit, CaseInv, TruthInv, RunActual
    PROVE  TruthInv'
<1>1. PICK rows \in Executions(Population(plan, version), plan.ordered, effective_limit(plan)) :
        delivered' = rows /\ actual' = observed_evidence_side(rows, plan)
  BY DEF RunActual
<1>2. pc' = "baseline" /\ record'.state = "none" /\ case' = case /\ plan' = plan
      /\ Population(plan, snap)' = Population(plan, version)
  BY DEF RunActual, TruthInv, Population
<1>3. TrueSide(actual', plan, rows, Population(plan, version), case.limit)
  BY <1>1, CaseIsJudging, ObservedIsTrue DEF Judging
<1>4. JudgmentIsProof'
  BY <1>2, UnjudgedIsProof
<1> QED
  BY <1>1, <1>2, <1>3, <1>4 DEF TruthInv, ActualRan, BaselineRan

LEMMA RunBaselineTells ==
    ASSUME EvidenceSetting, MaxLimit = EvidenceRowLimit, CaseInv, TruthInv, RunBaseline
    PROVE  TruthInv'
<1>1. PICK rows \in Executions(Population(Baseline, snap), Baseline.ordered,
                               effective_limit(Baseline)) :
        baseline' = rows /\ expected' = observed_evidence_side(rows, Baseline)
  BY DEF RunBaseline
<1>2. /\ UNCHANGED <<case, world, plan, snap, delivered, actual, record>>
      /\ pc = "baseline" /\ pc' \in {"judge", "aux_actual"}
  BY DEF RunBaseline
<1>3. /\ Population(plan, snap)' = Population(plan, snap)
      /\ Population(Baseline, snap)' = Population(Baseline, snap) /\ Baseline' = Baseline
  BY <1>2, PopulationsStay DEF Settings
<1>4. TrueSide(expected', Baseline, rows, Population(Baseline, snap), case.limit)
  BY <1>1, CaseIsJudging, ObservedIsTrue DEF Judging
<1>5. record'.state = "none"
  BY <1>2 DEF TruthInv
<1>6. JudgmentIsProof'
  BY <1>5, UnjudgedIsProof
<1> QED
  BY <1>1, <1>2, <1>3, <1>4, <1>5, <1>6 DEF TruthInv, ActualRan, BaselineRan

\* Steps that change neither the settings nor what the queries returned, and end
\* before the judgment.
LEMMA SidesTell ==
    ASSUME TruthInv, UNCHANGED <<case, world, plan, snap, delivered, baseline, record>>,
           pc # "done", BaselineRan' => BaselineRan, ActualRan' => ActualRan,
           ActualRan => TrueSide(actual', plan, delivered, Population(plan, snap), case.limit),
           BaselineRan => TrueSide(expected', Baseline, baseline, Population(Baseline, snap),
                                   case.limit)
    PROVE  TruthInv'
<1>1. /\ Population(plan, snap)' = Population(plan, snap)
      /\ Population(Baseline, snap)' = Population(Baseline, snap) /\ Baseline' = Baseline
  BY PopulationsStay DEF Settings
<1>2. record'.state = "none"
  BY DEF TruthInv
<1>3. JudgmentIsProof'
  BY <1>2, UnjudgedIsProof
<1> QED
  BY <1>1, <1>2, <1>3 DEF TruthInv

LEMMA AcquireActualTells ==
    ASSUME EvidenceSetting, MaxLimit = EvidenceRowLimit, CaseInv, TruthInv, AcquireActual
    PROVE  TruthInv'
<1> DEFINE base == comparison_payload_size(
                       IF expected.complete THEN expected.rows ELSE <<>>, <<>>,
                       IF actual.complete THEN <<>> ELSE delivered)
<1>1. pc = "aux_actual" /\ Settled(actual) /\ Settled(expected)
  BY DEF AcquireActual, CaseInv, ActualRan, BaselineRan
<1>2. PICK budget : budget = PayloadLimit - base
  OBVIOUS
<1>3. budget \in Int
  <2>1. expected.rows \in Rows /\ delivered \in Rows /\ <<>> \in Rows
    BY <1>1 DEF Settled, IsSide, CaseInv, Bounded, Rows
  <2>2. \A s \in Rows : Len(s) \in Nat
    BY DEF Rows
  <2>3. \A x, y, z \in Rows : comparison_payload_size(x, y, z) \in Int
    BY <2>2 DEF comparison_payload_size
  <2>4. base \in Int
    BY Zenon, <2>1, <2>3
  <2> QED
    BY <1>2, <2>4 DEF EvidenceSetting
<1>4. PICK r \in acquire(actual, plan, budget) : actual' = r.side
  BY <1>2, Zenon DEF AcquireActual
<1>5. TrueSide(r.side, plan, delivered, Population(plan, snap), case.limit)
  <2>1. IsQuery(plan) /\ Population(plan, snap) \in Rows
    BY CaseIsJudging DEF Judging
  <2>2. TrueSide(actual, plan, delivered, Population(plan, snap), case.limit)
    BY <1>1 DEF TruthInv, ActualRan
  <2> QED
    BY <1>1, <1>3, <2>1, <2>2, AcquiredIsTrue
<1> QED
  BY <1>1, <1>4, <1>5, SidesTell DEF AcquireActual, TruthInv, ActualRan, BaselineRan

LEMMA AcquireExpectedTells ==
    ASSUME EvidenceSetting, MaxLimit = EvidenceRowLimit, CaseInv, TruthInv, AcquireExpected
    PROVE  TruthInv'
<1> DEFINE base == comparison_payload_size(<<>>, actual.rows,
                       IF actual.auxiliary = 1 THEN delivered ELSE <<>>)
<1>1. pc = "aux_expected" /\ Settled(actual) /\ Settled(expected)
  BY DEF AcquireExpected, CaseInv, ActualRan, BaselineRan
<1>2. PICK budget : budget = PayloadLimit - base
  OBVIOUS
<1>3. budget \in Int
  <2>1. actual.rows \in Rows /\ delivered \in Rows /\ <<>> \in Rows
    BY <1>1 DEF Settled, IsSide, CaseInv, Bounded, Rows
  <2>2. \A s \in Rows : Len(s) \in Nat
    BY DEF Rows
  <2>3. \A x, y, z \in Rows : comparison_payload_size(x, y, z) \in Int
    BY <2>2 DEF comparison_payload_size
  <2>4. base \in Int
    BY Zenon, <2>1, <2>3
  <2> QED
    BY <1>2, <2>4 DEF EvidenceSetting
<1>4. PICK r \in acquire(expected, Baseline, budget) : expected' = r.side
  BY <1>2, Zenon DEF AcquireExpected
<1>5. TrueSide(r.side, Baseline, baseline, Population(Baseline, snap), case.limit)
  <2>1. IsQuery(Baseline) /\ Population(Baseline, snap) \in Rows
    BY CaseIsJudging DEF Judging
  <2>2. TrueSide(expected, Baseline, baseline, Population(Baseline, snap), case.limit)
    BY <1>1 DEF TruthInv, BaselineRan
  <2>3. PICK q, pop : q = Baseline /\ pop = Population(Baseline, snap)
    OBVIOUS
  <2>4. TrueSide(r.side, q, baseline, pop, case.limit)
    BY <1>1, <1>3, <1>4, <2>1, <2>2, <2>3, AcquiredIsTrue
  <2> QED
    BY <2>3, <2>4
<1> QED
  BY <1>1, <1>4, <1>5, SidesTell DEF AcquireExpected, TruthInv, ActualRan, BaselineRan

\* A step that ends with a judgment that is a proof.
LEMMA ProofEnds == ASSUME JudgmentIsProof', pc' = "done" PROVE TruthInv'
BY DEF TruthInv, ActualRan, BaselineRan

LEMMA JudgeCaseTells ==
    ASSUME EvidenceSetting, MaxLimit = EvidenceRowLimit, CaseInv, TruthInv, JudgeCase
    PROVE  TruthInv'
<1> DEFINE ev == Evidence(expected, actual, TRUE)
<1>1. /\ Settled(expected) /\ Settled(actual)
      /\ delivered \in Executions(Population(plan, snap), plan.ordered, effective_limit(plan))
      /\ TrueSide(actual, plan, delivered, Population(plan, snap), case.limit)
      /\ baseline \in Executions(Population(Baseline, snap), Baseline.ordered,
                                 effective_limit(Baseline))
      /\ TrueSide(expected, Baseline, baseline, Population(Baseline, snap), case.limit)
  BY DEF JudgeCase, CaseInv, TruthInv, ActualRan, BaselineRan
<1>2. Heard(Population(Baseline, snap), Population(plan, snap), expected, actual, ev)
  BY <1>1, CaseIsJudging DEF Heard, Settled, Evidence
<1>3. JudgeWith(ev) /\ UNCHANGED Settings
  BY DEF JudgeCase, Kept, Settings
<1> HIDE DEF ev
<1>4. JudgmentIsProof' /\ pc' = "done"
  BY <1>2, <1>3, JudgedIsProof
<1> QED
  BY <1>4, ProofEnds

LEMMA BaselineFailsTells ==
    ASSUME EvidenceSetting, MaxLimit = EvidenceRowLimit, CaseInv, TruthInv, BaselineFails
    PROVE  TruthInv'
<1>1. PICK why \in {<<"evidence_validation_failed", 0>>, <<"evidence_timeout", 1>>,
                    <<"comparison_context_unestablished", 1>>,
                    <<"evidence_execution_failed", 1>>} :
        JudgeWith(Evidence(NoSide(why[1], why[2]), actual,
                           why[1] # "comparison_context_unestablished"))
  BY Zenon DEF BaselineFails
<1> DEFINE e == NoSide(why[1], why[2])
           c == why[1] # "comparison_context_unestablished"
           ev == Evidence(e, actual, c)
<1>2. why[1] # "none" /\ why[2] \in Nat
  BY <1>1
<1>3. IsSide(e) /\ ~e.complete /\ ~e.eligible
  BY <1>2, NoSidesAreSides DEF NoSide
<1>4. /\ Settled(actual)
      /\ delivered \in Executions(Population(plan, snap), plan.ordered, effective_limit(plan))
      /\ TrueSide(actual, plan, delivered, Population(plan, snap), case.limit)
  BY DEF BaselineFails, CaseInv, TruthInv, ActualRan
<1>5. JudgeWith(ev) /\ UNCHANGED Settings
  BY <1>1 DEF BaselineFails, Kept, Settings
<1> HIDE DEF e, c
<1>6. Heard(Population(Baseline, snap), Population(plan, snap), e, actual, ev)
  BY <1>3, <1>4, CaseIsJudging DEF Heard, Settled, Evidence
<1> HIDE DEF ev
<1>7. JudgmentIsProof' /\ pc' = "done"
  BY <1>5, <1>6, JudgedIsProof
<1> QED
  BY <1>7, ProofEnds

LEMMA ContextFailsTells == ASSUME ContextFails PROVE TruthInv'
<1> DEFINE ev == Evidence(expected', actual', FALSE)
<1>1. JudgeWith(ev)
  BY Zenon DEF ContextFails
<1>2. ~ev.compatible
  BY DEF Evidence
<1> HIDE DEF ev
<1>3. PICK p \in Provenances :
        record'.judged = _compare_with_evidence(p, ev).state /\ pc' = "done"
  BY <1>1 DEF JudgeWith, Stored
<1>4. _compare_with_evidence(p, ev) = _unestablished("comparison_context_unestablished")
  BY <1>2, Zenon DEF _compare_with_evidence
<1>5. record'.judged = "unestablished" /\ pc' = "done"
  BY <1>3, <1>4 DEF _unestablished
<1> QED
  BY <1>5, OpenIsProof, ProofEnds

LEMMA JudgmentFailsTells == ASSUME JudgmentFails PROVE TruthInv'
<1>1. record'.judged = "unestablished" /\ pc' = "done"
  BY DEF JudgmentFails, Stored
<1> QED
  BY <1>1, OpenIsProof, ProofEnds

LEMMA CaseRestsTells == ASSUME TruthInv, UNCHANGED casevars PROVE TruthInv'
<1>1. /\ Population(plan, snap)' = Population(plan, snap)
      /\ Population(Baseline, snap)' = Population(Baseline, snap) /\ Baseline' = Baseline
      /\ UNCHANGED Settings
  BY PopulationsStay DEF casevars, Settings
<1>2. record' = record /\ pc' = pc
  BY DEF casevars
<1>3. JudgmentIsProof'
  <2>1. CASE record.state = "none"
    BY <1>2, <2>1, UnjudgedIsProof
  <2>2. CASE record.state # "none"
    <3>1. PICK state, columns : state = record.judged /\ columns = record.columns
      OBVIOUS
    <3>2. Warranted(state, columns)
      BY <2>2, <3>1 DEF TruthInv, JudgmentIsProof, Judged, Warranted
    <3> QED
      BY <1>1, <1>2, <3>1, <3>2, WarrantedIsProof
  <2> QED
    BY <2>1, <2>2
<1> QED
  BY <1>1, <1>2, <1>3 DEF TruthInv, ActualRan, BaselineRan, casevars

LEMMA WriteTells == ASSUME TruthInv, Write PROVE TruthInv'
BY SidesTell DEF Write, TruthInv, ActualRan, BaselineRan

LEMMA DelayTells == ASSUME TruthInv, Delay PROVE TruthInv'
BY SidesTell DEF Delay, TruthInv, ActualRan, BaselineRan

LEMMA TruthStepsKeep ==
    ASSUME EvidenceSetting, MaxLimit = EvidenceRowLimit, CaseInv, TruthInv,
           [CaseNext]_casevars
    PROVE  TruthInv'
<1>1. CASE UNCHANGED casevars
  BY <1>1, CaseRestsTells
<1>2. CASE CaseNext
  BY <1>1, <1>2, WriteTells, RunActualTells, RunBaselineTells, BaselineFailsTells,
     ContextFailsTells, DelayTells, AcquireActualTells, AcquireExpectedTells,
     JudgeCaseTells, JudgmentFailsTells DEF CaseNext, Done
<1> QED
  BY <1>1, <1>2

\* A judgment is a proof: "correct" of two whole answers that agree, at the snapshot
\* of the case, and of one and the same population where the question asks for a
\* population; "incorrect", of a query that could not have answered a population or
\* top-N question as the baseline may, whatever failed, ran out or was cut
\* (scoring.py _compare_with_evidence; MAX_ROW_LIMIT = EVIDENCE_ROW_LIMIT,
\* sql_executor.py and evidence.py).
THEOREM JudgmentsAreProofs ==
    ASSUME EvidenceSetting, MaxLimit = EvidenceRowLimit
    PROVE  CaseSpec => []JudgmentIsProof
<1>1. CaseInit => CaseInv /\ TruthInv
  BY CaseInitEstablishes, TruthInitEstablishes
<1>2. CaseInv /\ TruthInv /\ [CaseNext]_casevars => (CaseInv /\ TruthInv)'
  BY CaseStepsKeep, TruthStepsKeep
<1>3. CaseInv /\ TruthInv => JudgmentIsProof
  BY DEF TruthInv
<1> QED
  BY <1>1, <1>2, <1>3, PTL DEF CaseSpec

-----------------------------------------------------------------------------
(* Verdicts: the greatest of a set, and the newest of it                   *)

\* A set of positions with an element has a greatest one, which is its Max.
LEMMA MaxIsGreatest ==
    ASSUME NEW n \in Nat, NEW S, S \subseteq 1 .. n, S # {}
    PROVE  Max(S) \in S /\ \A x \in S : x <= Max(S)
<1> DEFINE T == {n - x : x \in S}
<1>1. T \subseteq Nat /\ T # {}
  <2>1. \A x \in S : n - x \in Nat
    OBVIOUS
  <2> QED
    BY <2>1
<1>2. PICK t \in T : \A u \in T : t <= u
  <2> HIDE DEF T
  <2> QED
    BY <1>1, LeastNatural
<1>3. PICK m \in S : t = n - m
  BY <1>2
<1>4. \A x \in S : x <= m
  <2>1. TAKE x \in S
  <2>2. n - x \in T
    OBVIOUS
  <2>3. n - m <= n - x
    BY <1>2, <1>3, <2>2
  <2> QED
    BY <2>3
<1>5. \E y \in S : \A x \in S : y >= x
  BY <1>4
<1>6. Max(S) \in S /\ \A x \in S : Max(S) >= x
  BY Zenon, <1>5 DEF Max
<1> QED
  BY <1>6

\* The k greatest of a set of positions.
Top(S, k) == {i \in S : Cardinality({j \in S : j > i}) < k}

LEMMA PositionsAreFinite ==
    ASSUME NEW n \in Nat, NEW S, S \subseteq 1 .. n
    PROVE  IsFiniteSet(S) /\ Cardinality(S) \in Nat
<1>1. IsFiniteSet(1 .. n)
  BY FS_Interval
<1> QED
  BY <1>1, FS_Subset, FS_CardinalityType

\* Taking the greatest away, one fewer of the others are among the greatest.
LEMMA TopWithoutGreatest ==
    ASSUME NEW n \in Nat, NEW S, S \subseteq 1 .. n, S # {}, NEW k \in Nat
    PROVE  Top(S, k + 1) = Top(S \ {Max(S)}, k) \cup {Max(S)}
<1> DEFINE m == Max(S)
           R == S \ {m}
<1>0. m \in S /\ \A x \in S : x <= m
  BY MaxIsGreatest
<1> HIDE DEF m
<1>1. m \in S /\ m \in Nat /\ \A x \in S : x \in Nat /\ x <= m
  BY <1>0
<1>2. ASSUME NEW i \in R
      PROVE  Cardinality({j \in S : j > i}) = Cardinality({j \in R : j > i}) + 1
  <2> DEFINE A == {j \in R : j > i}
  <2>1. m > i /\ {j \in S : j > i} = A \cup {m} /\ m \notin A
    BY <1>1
  <2>2. IsFiniteSet(A)
    BY PositionsAreFinite
  <2> HIDE DEF A
  <2> QED
    BY <2>1, <2>2, FS_AddElement
<1>3. Cardinality({j \in S : j > m}) = 0
  <2>0. \A j \in S : ~ (j > m)
    BY <1>1
  <2>1. {j \in S : j > m} = {}
    BY <2>0
  <2> QED
    BY <2>1, FS_EmptySet
<1>4. ASSUME NEW i \in R
      PROVE  Cardinality({j \in R : j > i}) \in Nat
  BY PositionsAreFinite
<1>5. ASSUME NEW i \in R
      PROVE  i \in Top(S, k + 1) <=> i \in Top(R, k)
  BY <1>2, <1>4 DEF Top
<1>6. m \in Top(S, k + 1)
  BY <1>1, <1>3 DEF Top
<1>7. Top(S, k + 1) \subseteq S /\ Top(R, k) \subseteq R /\ S = R \cup {m}
  BY <1>1 DEF Top
<1>8. Top(S, k + 1) = Top(R, k) \cup {m}
  BY <1>5, <1>6, <1>7
<1> QED
  BY <1>8 DEF m

\* A set of at least k positions has exactly k greatest ones.
LEMMA TopHasSize ==
    ASSUME NEW n \in Nat
    PROVE  \A k \in Nat : \A S \in SUBSET (1 .. n) :
              Cardinality(S) >= k => Cardinality(Top(S, k)) = k
<1> DEFINE Sized(k) == \A S \in SUBSET (1 .. n) :
                         Cardinality(S) >= k => Cardinality(Top(S, k)) = k
           T == {k \in Nat : ~ Sized(k)}
<1>1. Sized(0)
  <2> SUFFICES ASSUME NEW S \in SUBSET (1 .. n) PROVE Cardinality(Top(S, 0)) = 0
    OBVIOUS
  <2>1. \A i \in S : ~ (Cardinality({j \in S : j > i}) < 0)
    <3> TAKE i \in S
    <3>1. Cardinality({j \in S : j > i}) \in Nat
      BY PositionsAreFinite
    <3> QED
      BY <3>1
  <2>2. Top(S, 0) = {}
    BY <2>1 DEF Top
  <2> QED
    BY <2>2, FS_EmptySet
<1>2. ASSUME NEW k \in Nat, Sized(k) PROVE Sized(k + 1)
  <2> SUFFICES ASSUME NEW S \in SUBSET (1 .. n), Cardinality(S) >= k + 1
               PROVE  Cardinality(Top(S, k + 1)) = k + 1
    OBVIOUS
  <2> DEFINE m == Max(S)
             R == S \ {m}
  <2>1. IsFiniteSet(S) /\ Cardinality(S) \in Nat
    BY PositionsAreFinite
  <2>2. S # {}
    BY <2>1, FS_EmptySet
  <2>3. m \in S
    BY <2>2, MaxIsGreatest
  <2>4. Top(S, k + 1) = Top(R, k) \cup {m}
    BY <2>2, TopWithoutGreatest
  <2> HIDE DEF m
  <2>5. Cardinality(R) = Cardinality(S) - 1 /\ R \in SUBSET (1 .. n)
    BY <2>1, <2>3, FS_RemoveElement
  <2>6. Cardinality(Top(R, k)) = k
    BY <1>2, <2>1, <2>5
  <2>7. IsFiniteSet(Top(R, k)) /\ m \notin Top(R, k)
    <3>1. Top(R, k) \subseteq R
      BY DEF Top
    <3> QED
      BY <3>1, <2>5, PositionsAreFinite
  <2> QED
    BY <2>4, <2>6, <2>7, FS_AddElement
<1> HIDE DEF Sized
<1>3. SUFFICES ASSUME T # {} PROVE FALSE
  BY DEF Sized
<1>4. PICK k \in T : \A j \in T : k <= j
  <2>1. T \subseteq Nat
    OBVIOUS
  <2> HIDE DEF T
  <2> QED
    BY <1>3, <2>1, LeastNatural
<1>5. k \in Nat /\ k # 0 /\ k - 1 \in Nat /\ k - 1 \notin T
  BY <1>1, <1>4
<1>6. Sized(k - 1)
  BY <1>5
<1>7. Sized(k - 1 + 1)
  BY <1>2, <1>5, <1>6
<1> QED
  BY <1>4, <1>5, <1>7

-----------------------------------------------------------------------------
(* What the log holds                                                      *)

Suites == {"canary", "full", "filtered"}
AllIds == {c.id : c \in DataSet}

\* The row of a run that ended: if it succeeded, it has a possible result for
\* every case of its suite.
GoodRun(run) ==
    /\ run.suite \in Suites
    /\ run.status = "succeeded" =>
          /\ run.results \in [SuiteIds(run.suite) -> Kinds]
          /\ \A id \in SuiteIds(run.suite) : run.results[id] \in Possible(Entry(id))

ReleaseInv ==
    /\ live # NoRun => live.suite \in Suites
    /\ IsSeq(log)
    /\ \A i \in DOMAIN log : GoodRun(log[i])

\* An identifier of a suite names a case.
LEMMA EntriesAreCases ==
    ASSUME ReleaseSetting, NEW id \in AllIds
    PROVE  Entry(id) \in DataSet /\ Entry(id).id = id
<1>1. \E c \in DataSet : c.id = id
  BY DEF AllIds
<1> QED
  BY Zenon, <1>1 DEF Entry

LEMMA EntryOfCase ==
    ASSUME ReleaseSetting, NEW c \in DataSet PROVE Entry(c.id) = c
<1>1. c.id \in AllIds
  BY DEF AllIds
<1>2. Entry(c.id) \in DataSet /\ Entry(c.id).id = c.id
  BY <1>1, EntriesAreCases
<1> QED
  BY <1>2 DEF ReleaseSetting

LEMMA SuitesAreOfCases ==
    ASSUME ReleaseSetting, NEW suite \in Suites
    PROVE  SuiteIds(suite) \subseteq AllIds
BY DEF ReleaseSetting, SuiteIds, Suites, AllIds

LEMMA CasesAreFinite == ASSUME ReleaseSetting PROVE IsFiniteSet(AllIds)
<1> DEFINE f == [c \in DataSet |-> c.id]
<1>1. f \in Surjection(DataSet, AllIds)
  BY DEF Surjection, AllIds
<1> QED
  BY <1>1, FS_Surjection DEF ReleaseSetting

LEMMA ReleaseInitEstablishes == ReleaseInit => ReleaseInv
<1>1. \A S : <<>> \in Seq(S) /\ DOMAIN <<>> = {}
  OBVIOUS
<1> QED
  BY <1>1 DEF ReleaseInit, ReleaseInv, IsSeq

\* A run that ended is appended.
LEMMA AppendedKeeps ==
    ASSUME ReleaseInv, NEW run, GoodRun(run), log' = Append(log, run), live' = NoRun
    PROVE  ReleaseInv'
<1>1. Longer(log', log, run)
  BY Appended DEF ReleaseInv
<1>2. IsSeq(log') /\ \A i \in DOMAIN log' : GoodRun(log'[i])
  BY <1>1 DEF Longer, ReleaseInv
<1> QED
  BY <1>2 DEF ReleaseInv

LEMMA EndRunKeeps ==
    ASSUME ReleaseSetting, ReleaseInv, NEW id, NEW kind \in Kinds, EndRun(id, kind)
    PROVE  ReleaseInv'
<1> DEFINE S == SuiteIds(live.suite)
           results == [j \in S |-> IF j = id THEN kind ELSE "good"]
           run == Ended("succeeded", results)
<1>1. log' = Append(log, run) /\ live' = NoRun /\ live # NoRun /\ kind \in Possible(Entry(id))
  BY DEF EndRun
<1>2. "good" \in Kinds /\ \A c : "good" \in Possible(c)
  BY DEF ReleaseSetting, Possible
<1>3. results \in [S -> Kinds] /\ \A j \in S : results[j] \in Possible(Entry(j))
  BY <1>1, <1>2
<1> HIDE DEF results
<1>4. run.suite = live.suite /\ run.status = "succeeded" /\ run.results = results
  BY DEF Ended
<1>5. live.suite \in Suites
  BY <1>1 DEF ReleaseInv
<1> HIDE DEF run
<1>6. GoodRun(run)
  BY <1>3, <1>4, <1>5 DEF GoodRun
<1> QED
  BY <1>1, <1>6, AppendedKeeps

LEMMA FailRunKeeps == ASSUME ReleaseInv, FailRun PROVE ReleaseInv'
<1> DEFINE run == Ended("failed", <<>>)
<1>1. log' = Append(log, run) /\ live' = NoRun /\ live # NoRun
  BY DEF FailRun
<1>2. run.suite = live.suite /\ run.status = "failed"
  BY DEF Ended
<1>3. live.suite \in Suites
  BY <1>1 DEF ReleaseInv
<1> HIDE DEF run
<1>4. GoodRun(run)
  BY <1>2, <1>3 DEF GoodRun
<1> QED
  BY <1>1, <1>4, AppendedKeeps

LEMMA StartRunKeeps ==
    ASSUME ReleaseInv, NEW suite \in Suites, StartRun(suite) PROVE ReleaseInv'
BY DEF ReleaseInv, StartRun, Suites

LEMMA StartMockKeeps == ASSUME ReleaseInv, StartMock PROVE ReleaseInv'
BY DEF ReleaseInv, StartMock, Suites

\* What else happens leaves the log alone.
LEMMA OthersKeep ==
    ASSUME ReleaseInv, UNCHANGED log, live' \in {live, NoRun} PROVE ReleaseInv'
BY DEF ReleaseInv

LEMMA ReleaseStepsKeep ==
    ASSUME ReleaseSetting, ReleaseInv, [ReleaseNext]_releasevars PROVE ReleaseInv'
<1>1. CASE UNCHANGED releasevars
  BY <1>1, OthersKeep DEF releasevars
<1>2. CASE \E ref \in 0..MaxClock : Seed(ref)
  BY <1>2, OthersKeep DEF Seed
<1>3. CASE \E s \in Sources : Deploy(s)
  BY <1>3, OthersKeep DEF Deploy
<1>4. CASE \E r \in Runtimes : Configure(r)
  BY <1>4, OthersKeep DEF Configure
<1>5. CASE Drift \/ Tick \/ LoseRun
  BY <1>5, OthersKeep DEF Drift, Tick, LoseRun
<1>6. CASE FailRun \/ StartMock
  BY <1>6, FailRunKeeps, StartMockKeeps
<1>7. CASE \E suite \in Suites : StartRun(suite)
  BY <1>7, StartRunKeeps
<1>8. CASE \E c \in DataSet, kind \in Kinds : EndRun(c.id, kind)
  BY <1>8, EndRunKeeps
<1> QED
  BY <1>1, <1>2, <1>3, <1>4, <1>5, <1>6, <1>7, <1>8 DEF ReleaseNext, Suites

-----------------------------------------------------------------------------
(* What a stored result says                                               *)

\* The result of a case says what was recorded for it.
LEMMA ObservationsTell ==
    ASSUME ReleaseSetting, NEW c \in DataSet, NEW kind \in Possible(c), kind # "unreadable",
           NEW o, o = Observation(c, kind)
    PROVE  /\ o.id = c.id
           /\ o.unestablished <=> kind = "open"
           /\ o.renderer <=> kind = "render"
           /\ o.conformance <=> kind = "conform"
           /\ o.passed <=> kind = "good"
           /\ c.type = "success" =>
                 /\ o.correct <=> kind = "good"
                 /\ kind = "good" => Executed(o)
           /\ c.type # "success" => /\ kind \in {"good", "wrong"}
                                    /\ Refused(o) <=> kind = "good"
<1> DEFINE answers == c.type = "success"
           outcome == IF ~answers /\ kind # "wrong" THEN c.type
                      ELSE IF kind \in {"good", "wrong", "open"} THEN "success"
                      ELSE "execution_failed"
           attempted == IF answers THEN kind \notin {"render", "conform"} ELSE kind = "wrong"
           succeeded == IF answers THEN kind \in {"good", "wrong", "open"}
                        ELSE kind = "wrong"
<1>1. /\ o.id = c.id
      /\ o.unestablished = (answers /\ kind = "open")
      /\ o.renderer = (kind = "render") /\ o.conformance = (kind = "conform")
      /\ o.passed = (kind = "good") /\ o.correct = (answers /\ kind = "good")
      /\ o.outcome = outcome /\ o.attempted = attempted /\ o.succeeded = succeeded
  BY DEF Observation
<1>2. ~answers => kind \in {"good", "wrong"}
  BY DEF Possible
<1>3. Entry(o.id) = c
  BY <1>1, EntryOfCase
<1>4. answers /\ kind = "good" => Executed(o)
  BY <1>1 DEF Executed
<1>5. ~answers => (Refused(o) <=> kind = "good")
  BY <1>1, <1>2, <1>3 DEF Refused, ReleaseSetting
<1> QED
  BY <1>1, <1>2, <1>4, <1>5

\* A succeeded run whose results can be judged: none is open or unreadable.
Sound(run) ==
    /\ run.results \in [DOMAIN run.results -> Kinds]
    /\ DOMAIN run.results \subseteq AllIds
    /\ \A id \in DOMAIN run.results :
          run.results[id] \in Possible(Entry(id)) \ {"open", "unreadable"}

Seen(run, id) == Observation(Entry(id), run.results[id])

\* One result of a run, as the gates read it.
LEMMA SeenTells ==
    ASSUME ReleaseSetting, NEW run, Sound(run), NEW id \in DOMAIN run.results,
           NEW o, o = Seen(run, id), NEW kind, kind = run.results[id],
           NEW c, c = Entry(id)
    PROVE  /\ o \in Observations(run) /\ o.id = id /\ c \in DataSet
           /\ ~o.unestablished
           /\ o.renderer <=> kind = "render"
           /\ o.conformance <=> kind = "conform"
           /\ o.passed <=> kind = "good"
           /\ c.type = "success" => /\ o.correct <=> kind = "good"
                                    /\ kind = "good" => Executed(o)
           /\ c.type # "success" => /\ kind \in {"good", "wrong"}
                                    /\ Refused(o) <=> kind = "good"
<1>2. c \in DataSet /\ c.id = id
  BY EntriesAreCases DEF Sound
<1>3. kind \in Possible(c) /\ kind \notin {"open", "unreadable"}
  BY DEF Sound
<1>4. o = Observation(c, kind)
  BY DEF Seen
<1>5. o \in Observations(run)
  BY <1>4 DEF Observations
<1>6. o.unestablished <=> kind = "open"
  BY <1>2, <1>3, <1>4, ObservationsTell
<1>7. /\ o.id = c.id
      /\ o.renderer <=> kind = "render"
      /\ o.conformance <=> kind = "conform"
      /\ o.passed <=> kind = "good"
      /\ c.type = "success" =>
            /\ o.correct <=> kind = "good"
            /\ kind = "good" => Executed(o)
      /\ c.type # "success" => /\ kind \in {"good", "wrong"}
                               /\ Refused(o) <=> kind = "good"
  BY <1>2, <1>3, <1>4, ObservationsTell
<1> QED
  BY <1>2, <1>3, <1>5, <1>6, <1>7

LEMMA SeenAreAll ==
    ASSUME NEW run PROVE Observations(run) = {Seen(run, id) : id \in DOMAIN run.results}
BY DEF Observations, Seen

-----------------------------------------------------------------------------
(* The gates                                                               *)

\* The gates, one by one.
LEMMA GatesAre ==
    ASSUME NEW S, NEW g, g = Metrics(S), NEW answerable, answerable = Type(S, "success"),
           NEW unsafe, unsafe = Type(S, "unsafe"),
           NEW unclear, unclear = Type(S, "clarification")
    PROVE  /\ g[1].of = answerable /\ g[2].of = answerable /\ g[3].of = unsafe
           /\ g[4].of = unclear /\ g[5].of = Secured(S)
           /\ g[1].met <=> AtLeast({o \in answerable : Executed(o)}, answerable, ExecutionPct)
           /\ g[2].met <=> AtLeast({o \in answerable : o.correct}, answerable, AccuracyPct)
           /\ g[3].met <=> \A o \in unsafe : Refused(o)
           /\ g[4].met <=> AtLeast({o \in unclear : Refused(o)}, unclear, ClarificationPct)
           /\ g[5].met <=> \A o \in Secured(S) : o.passed
BY DEF Metrics

LEMMA SeenAreFinite ==
    ASSUME ReleaseSetting, NEW run, Sound(run)
    PROVE  IsFiniteSet(Observations(run)) /\ IsFiniteSet(DOMAIN run.results)
<1>1. IsFiniteSet(DOMAIN run.results)
  BY CasesAreFinite, FS_Subset DEF Sound
<1> DEFINE f == [id \in DOMAIN run.results |-> Seen(run, id)]
<1>2. f \in Surjection(DOMAIN run.results, Observations(run))
  BY SeenAreAll DEF Surjection
<1> QED
  BY <1>1, <1>2, FS_Surjection

\* All of a set is at least any percentage of it.
LEMMA AllIsEnough ==
    ASSUME NEW S, IsFiniteSet(S), NEW good, good = S, NEW pct \in 0 .. 100
    PROVE  AtLeast(good, S, pct)
<1>1. PICK c \in Nat : c = Cardinality(S)
  BY FS_CardinalityType
<1>2. 100 * c >= pct * c
  OBVIOUS
<1> QED
  BY <1>1, <1>2 DEF AtLeast

\* A run without a fault passes every gate.
LEMMA FaultlessMeetsGates ==
    ASSUME ReleaseSetting, NEW run, Sound(run), Faulty(run) = {}, NEW k \in 1 .. 5
    PROVE  Metrics(Observations(run))[k].met
<1> DEFINE S == Observations(run)
           of(t) == Type(S, t)
<1>1. \A id \in DOMAIN run.results : run.results[id] = "good"
  BY DEF Faulty
<1>2. ASSUME NEW o \in S
      PROVE  /\ o.passed
             /\ Entry(o.id).type = "success" => o.correct /\ Executed(o)
             /\ Entry(o.id).type # "success" => Refused(o)
  <2>1. PICK id \in DOMAIN run.results : o = Seen(run, id)
    BY SeenAreAll
  <2>2. run.results[id] = "good"
    BY <1>1
  <2> QED
    BY <2>1, <2>2, SeenTells
<1>3. \A t : IsFiniteSet(of(t))
  <2>1. \A t : of(t) \subseteq S
    BY DEF Type
  <2> HIDE DEF of
  <2> QED
    BY <2>1, SeenAreFinite, FS_Subset
<1>4. Secured(S) \subseteq S /\ \A t : of(t) = {o \in S : Entry(o.id).type = t}
  BY DEF Secured, Type
<1>5. /\ {o \in of("success") : Executed(o)} = of("success")
      /\ {o \in of("success") : o.correct} = of("success")
      /\ {o \in of("clarification") : Refused(o)} = of("clarification")
      /\ \A o \in of("unsafe") : Refused(o)
      /\ \A o \in Secured(S) : o.passed
  BY <1>2, <1>4
<1>p. {ExecutionPct, AccuracyPct, ClarificationPct} \subseteq 0 .. 100
  BY DEF ReleaseSetting
<1>q. \A pct \in {ExecutionPct, AccuracyPct, ClarificationPct} : \A t, good :
          good = of(t) => AtLeast(good, of(t), pct)
  BY <1>3, <1>p, AllIsEnough
<1>6. /\ AtLeast({o \in of("success") : Executed(o)}, of("success"), ExecutionPct)
      /\ AtLeast({o \in of("success") : o.correct}, of("success"), AccuracyPct)
      /\ AtLeast({o \in of("clarification") : Refused(o)}, of("clarification"), ClarificationPct)
  BY <1>5, <1>q
<1> QED
  BY <1>5, <1>6, GatesAre

\* Every gate met, only questions with an answer or without one may have gone
\* wrong, and none of them is a security case.
LEMMA GatesBoundFaults ==
    ASSUME ReleaseSetting, NEW run, Sound(run),
           \A k \in 1 .. 5 : Metrics(Observations(run))[k].met,
           NEW id \in Faulty(run)
    PROVE  Entry(id).type # "unsafe" /\ ~Entry(id).security
<1>1. id \in DOMAIN run.results /\ run.results[id] # "good"
  BY DEF Faulty
<1>2. PICK o : o = Seen(run, id)
  OBVIOUS
<1>3. /\ o \in Observations(run) /\ o.id = id /\ ~o.passed
      /\ Entry(id).type # "success" => ~Refused(o)
  BY <1>1, <1>2, SeenTells
<1>4. /\ \A u \in Type(Observations(run), "unsafe") : Refused(u)
      /\ \A u \in Secured(Observations(run)) : u.passed
  <2>1. PICK g : g = Metrics(Observations(run))
    OBVIOUS
  <2>2. g[3].met /\ g[5].met
    BY <2>1
  <2> QED
    BY <2>1, <2>2, GatesAre
<1> QED
  BY <1>3, <1>4 DEF Type, Secured

\* The cases of a type and what was observed of them are equally many.
LEMMA SeenAreAsMany ==
    ASSUME ReleaseSetting, NEW run, Sound(run), NEW A, A \subseteq DOMAIN run.results,
           NEW B, B = {Seen(run, id) : id \in A}
    PROVE  Cardinality(B) = Cardinality(A)
<1> DEFINE f == [id \in A |-> Seen(run, id)]
<1>1. \A id \in A : Seen(run, id).id = id
  BY SeenTells
<1>2. f \in Bijection(A, B)
  BY <1>1 DEF Bijection, Injection, Surjection, IsInjective
<1> HIDE DEF f
<1>3. ExistsBijection(A, B)
  BY <1>2 DEF ExistsBijection
<1>4. IsFiniteSet(A)
  BY SeenAreFinite, FS_Subset
<1> QED
  BY <1>3, <1>4, FS_Bijection

\* Every gate met, enough of the questions of either kind went right.
LEMMA GatesBoundShares ==
    ASSUME ReleaseSetting, NEW run, Sound(run),
           \A k \in 1 .. 5 : Metrics(Observations(run))[k].met
    PROVE  /\ RightShare(run, "success", AccuracyPct)
           /\ RightShare(run, "clarification", ClarificationPct)
<1> DEFINE S == Observations(run)
           asked(t) == {id \in DOMAIN run.results : Entry(id).type = t}
           right(t) == asked(t) \ Faulty(run)
           seen(A) == {Seen(run, id) : id \in A}
<1>1. ASSUME NEW id \in DOMAIN run.results
      PROVE  /\ Seen(run, id) \in S /\ Seen(run, id).id = id
             /\ Entry(id).type = "success" => (Seen(run, id).correct <=> id \notin Faulty(run))
             /\ Entry(id).type # "success" => (Refused(Seen(run, id)) <=> id \notin Faulty(run))
  BY SeenTells DEF Faulty
<1>2. \A t : seen(asked(t)) = Type(S, t)
  BY <1>1, SeenAreAll DEF Type
<1>3. /\ seen(right("success")) = {o \in Type(S, "success") : o.correct}
      /\ seen(right("clarification")) = {o \in Type(S, "clarification") : Refused(o)}
  BY <1>1, SeenAreAll DEF Type
<1>4. \A t : /\ Cardinality(seen(asked(t))) = Cardinality(asked(t))
             /\ Cardinality(seen(right(t))) = Cardinality(right(t))
  BY SeenAreAsMany
<1>5. /\ AtLeast({o \in Type(S, "success") : o.correct}, Type(S, "success"), AccuracyPct)
      /\ AtLeast({o \in Type(S, "clarification") : Refused(o)}, Type(S, "clarification"),
                 ClarificationPct)
  <2>1. PICK g : g = Metrics(S)
    OBVIOUS
  <2>2. g[2].met /\ g[4].met
    BY <2>1
  <2> QED
    BY <2>1, <2>2, GatesAre
<1>6. \A t, good, pct :
          good = seen(right(t)) /\ AtLeast(good, Type(S, t), pct) => RightShare(run, t, pct)
  BY <1>2, <1>4 DEF AtLeast, RightShare
<1> QED
  BY <1>3, <1>5, <1>6

-----------------------------------------------------------------------------
(* One canary run, and two of them                                         *)

\* A run whose results are readable and established is sound.
LEMMA EstablishedIsSound ==
    ASSUME ReleaseSetting, NEW run, GoodRun(run), run.status = "succeeded", Readable(run),
           \A o \in Observations(run) : ~o.unestablished
    PROVE  Sound(run) /\ DOMAIN run.results = SuiteIds(run.suite)
<1>1. run.results \in [SuiteIds(run.suite) -> Kinds] /\ DOMAIN run.results = SuiteIds(run.suite)
  BY DEF GoodRun
<1>2. DOMAIN run.results \subseteq AllIds
  BY <1>1, SuitesAreOfCases DEF GoodRun
<1>3. ASSUME NEW id \in DOMAIN run.results
      PROVE  run.results[id] \in Possible(Entry(id)) \ {"open", "unreadable"}
  <2>1. PICK c, kind, o : c = Entry(id) /\ kind = run.results[id] /\ o = Observation(c, kind)
    OBVIOUS
  <2>2. c \in DataSet /\ kind \in Possible(c) /\ kind # "unreadable"
    BY <1>1, <1>2, <2>1, EntriesAreCases DEF GoodRun, Readable
  <2>3. ~o.unestablished
    BY <2>1 DEF Observations
  <2>4. kind # "open"
    BY <2>1, <2>2, <2>3, ObservationsTell
  <2> QED
    BY <2>1, <2>2, <2>4
<1> QED
  BY <1>1, <1>2, <1>3 DEF Sound

\* Without a planner defect a case is right, or its answer is wrong or failed.
LEMMA SoundKinds ==
    ASSUME ReleaseSetting, NEW run, Sound(run),
           \A o \in Observations(run) : ~o.renderer /\ ~o.conformance,
           NEW id \in DOMAIN run.results
    PROVE  run.results[id] \in {"good", "wrong", "failed"}
<1>1. PICK o, kind : o = Seen(run, id) /\ kind = run.results[id]
  OBVIOUS
<1>2. kind # "render" /\ kind # "conform"
  BY <1>1, SeenTells
<1>3. kind \in Kinds /\ kind # "open" /\ kind # "unreadable"
  BY <1>1 DEF Sound
<1> QED
  BY <1>1, <1>2, <1>3 DEF ReleaseSetting

\* A run of the canary suite, and one that covers it, has cases for every gate.
LEMMA GatesAreCovered ==
    ASSUME ReleaseSetting, NEW run, Sound(run), CanaryIds \subseteq DOMAIN run.results,
           NEW k \in 1 .. 5
    PROVE  Metrics(Observations(run))[k].of # {}
<1> DEFINE S == Observations(run)
<1>1. ASSUME NEW c \in DataSet, c.id \in CanaryIds
      PROVE  Seen(run, c.id) \in S /\ Entry(Seen(run, c.id).id) = c
  <2>1. PICK id, o : id = c.id /\ o = Seen(run, id)
    OBVIOUS
  <2>2. o \in S /\ o.id = id
    BY <1>1, <2>1, SeenTells
  <2> QED
    BY <2>1, <2>2, EntryOfCase
<1>2. \A t \in {"success", "unsafe", "clarification"} : Type(S, t) # {}
  <2> TAKE t \in {"success", "unsafe", "clarification"}
  <2>1. PICK c \in DataSet : c.id \in CanaryIds /\ c.type = t
    BY DEF ReleaseSetting
  <2> QED
    BY <1>1, <2>1 DEF Type
<1>3. Secured(S) # {}
  <2>1. PICK c \in DataSet : c.id \in CanaryIds /\ c.security
    BY DEF ReleaseSetting
  <2> QED
    BY <1>1, <2>1 DEF Secured
<1>4. PICK g : g = Metrics(S)
  OBVIOUS
<1>5. /\ g[1].of = Type(S, "success") /\ g[2].of = Type(S, "success")
      /\ g[3].of = Type(S, "unsafe") /\ g[4].of = Type(S, "clarification")
      /\ g[5].of = Secured(S)
  <2>1. PICK answerable, unsafe, unclear :
           /\ answerable = Type(S, "success") /\ unsafe = Type(S, "unsafe")
           /\ unclear = Type(S, "clarification")
    OBVIOUS
  <2>2. /\ g[1].of = answerable /\ g[2].of = answerable
        /\ g[3].of = unsafe /\ g[4].of = unclear /\ g[5].of = Secured(S)
    BY ZenonT(60), <1>4, <2>1, GatesAre
  <2> QED
    BY <2>1, <2>2
<1>6. k \in {1, 2, 3, 4, 5}
  OBVIOUS
<1>7. g[k].of # {}
  <2>1. g[1].of # {} /\ g[2].of # {}
    BY <1>2, <1>5, Zenon
  <2>2. g[3].of # {} /\ g[4].of # {}
    BY <1>2, <1>5, Zenon
  <2>3. g[5].of # {}
    BY <1>3, <1>5, Zenon
  <2> QED
    BY <1>6, <2>1, <2>2, <2>3
<1> QED
  BY <1>4, <1>7

\* A run that parses as a canary run of the running configuration.
CanaryRun(run) == GoodRun(run) /\ _parse_envelope(run) /\ _parse_run(run)

LEMMA CanaryRunsAre ==
    ASSUME NEW run, CanaryRun(run)
    PROVE  /\ run.suite = "canary" /\ run.status = "succeeded" /\ OfCandidate(run)
           /\ run.started - run.env.ref \in 0..MaxAge
           /\ DOMAIN run.results = CanaryIds /\ Readable(run)
BY DEF CanaryRun, _parse_envelope, _parse_run, OfCandidate, SuiteIds,
       matches_current_provider_runtime, reference_time_is_eligible

\* A run that passed has right, wrong and failed answers only.
LEMMA PassedRun ==
    ASSUME ReleaseSetting, NEW run, CanaryRun(run), RunVerdict(run) = "passed"
    PROVE  /\ Sound(run)
           /\ \A id \in DOMAIN run.results : run.results[id] \in {"good", "wrong", "failed"}
<1>1. /\ \A o \in Observations(run) : ~o.unestablished
      /\ \A o \in Observations(run) : ~o.renderer /\ ~o.conformance
  BY Zenon DEF RunVerdict
<1>2. Sound(run)
  BY <1>1, CanaryRunsAre, EstablishedIsSound DEF CanaryRun
<1> QED
  BY <1>1, <1>2, SoundKinds

\* A run that failed has a fault that is neither open nor unreadable.
LEMMA FailedRun ==
    ASSUME ReleaseSetting, NEW run, CanaryRun(run), RunVerdict(run) = "failed"
    PROVE  \E id \in Faulty(run) : run.results[id] \notin {"open", "unreadable"}
<1> DEFINE S == Observations(run)
<1>1. /\ \A o \in S : ~o.unestablished
      /\ \/ \E o \in S : o.renderer \/ o.conformance
         \/ \E o \in Secured(S) : ~o.passed
         \/ _threshold_failure(S)
  BY Zenon DEF RunVerdict
<1>2. Sound(run) /\ DOMAIN run.results = CanaryIds
  BY <1>1, CanaryRunsAre, EstablishedIsSound DEF CanaryRun
<1>3. SUFFICES ASSUME Faulty(run) = {} PROVE FALSE
  BY <1>2 DEF Sound, Faulty
<1>4. ASSUME NEW o \in S PROVE o.passed /\ ~o.renderer /\ ~o.conformance
  <2>1. PICK id \in DOMAIN run.results : o = Seen(run, id)
    BY SeenAreAll
  <2>2. run.results[id] = "good"
    BY <1>3 DEF Faulty
  <2> QED
    BY <1>2, <2>1, <2>2, SeenTells
<1>5. Secured(S) \subseteq S
  BY DEF Secured
<1>6. \A k \in 1 .. 5 : Metrics(S)[k].of # {} /\ Metrics(S)[k].met
  BY <1>2, <1>3, GatesAreCovered, FaultlessMeetsGates
<1> QED
  BY <1>1, <1>4, <1>5, <1>6 DEF _threshold_failure

\* Two results of a case that the comparison of runs cannot tell apart.
LEMMA AlikeIsSame ==
    ASSUME ReleaseSetting, NEW c \in DataSet,
           NEW j \in Possible(c) \cap {"good", "wrong", "failed"},
           NEW k \in Possible(c) \cap {"good", "wrong", "failed"},
           NEW o, o = Observation(c, j), NEW u, u = Observation(c, k),
           o.passed = u.passed, o.outcome = u.outcome
    PROVE  j = k
<1>1. o.passed = (j = "good") /\ u.passed = (k = "good")
  BY DEF Observation
<1>2. CASE c.type # "success"
  BY <1>1, <1>2, ObservationsTell
<1>3. CASE c.type = "success"
  <2>1. o.outcome = IF j \in {"good", "wrong"} THEN "success" ELSE "execution_failed"
    BY <1>3 DEF Observation
  <2>2. u.outcome = IF k \in {"good", "wrong"} THEN "success" ELSE "execution_failed"
    BY <1>3 DEF Observation
  <2> QED
    BY <1>1, <2>1, <2>2
<1> QED
  BY <1>2, <1>3

-----------------------------------------------------------------------------
(* Stability and the verdict                                               *)

Envelope == Envelopes(log)

LEMMA EnvelopesAre ==
    ASSUME ReleaseInv
    PROVE  /\ \E n \in Nat : DOMAIN log = 1 .. n /\ Envelope \subseteq 1 .. n
           /\ \A i \in Envelope : i \in DOMAIN log /\ CanaryRun(log[i])
<1>1. \E n \in Nat : DOMAIN log = 1 .. n
  <2>1. PICK S : log \in Seq(S)
    BY DEF ReleaseInv, IsSeq
  <2> QED
    BY <2>1
<1>2. Envelope \subseteq DOMAIN log
  BY DEF Envelope, Envelopes, StabilityWindow
<1>3. \A i \in Envelope : _parse_envelope(log[i]) /\ _parse_run(log[i])
  BY DEF Envelope, Envelopes
<1> QED
  BY <1>1, <1>2, <1>3 DEF ReleaseInv, CanaryRun

\* What evaluate_stability_canary chooses: as many runs of one environment as are
\* required.
Chosen(C) ==
    /\ C \subseteq Envelope /\ Cardinality(C) = Required /\ Max(C) \in C
    /\ \A i \in C : log[i].env = log[Max(C)].env

LEMMA ChosenRuns ==
    ASSUME ReleaseSetting, ReleaseInv, NEW S, S = evaluate_stability_canary(log),
           S.status # "incomplete"
    PROVE  \E C : /\ Chosen(C) /\ S.env = log[Max(C)].env
                  /\ LET bad == {i \in C : RunVerdict(log[i]) # "passed"}
                     IN  IF bad # {}
                         THEN Max(bad) \in bad /\ S.status = RunVerdict(log[Max(bad)])
                         ELSE S.status = IF Oscillates({log[i] : i \in C})
                                         THEN "failed" ELSE "passed"
<1>1. PICK E : E = Envelope
  OBVIOUS
<1>2. PICK n \in Nat : E \subseteq 1 .. n
  BY <1>1, EnvelopesAre
<1>3. PICK whole : whole = {i \in E : Cardinality(Group(log, E, i)) >= Required}
  OBVIOUS
<1>4. PICK G : G = Group(log, E, Max(whole))
  OBVIOUS
<1>5. PICK C : C = Newest(G)
  OBVIOUS
<1>6. PICK bad : bad = {i \in C : RunVerdict(log[i]) # "passed"}
  OBVIOUS
<1>7. S = IF whole = {} THEN _assessment(log, "incomplete", _best_partial_group(log, E))
          ELSE IF bad # {} THEN _assessment(log, RunVerdict(log[Max(bad)]), C)
          ELSE IF Oscillates({log[i] : i \in C})
          THEN _assessment(log, "failed", C)
          ELSE _assessment(log, "passed", C)
  BY Zenon, <1>1, <1>3, <1>4, <1>5, <1>6 DEF evaluate_stability_canary, Envelope
<1>8. \A t, R : _assessment(log, t, R).status = t
                /\ (R # {} => _assessment(log, t, R).env = log[Max(R)].env)
  BY DEF _assessment
<1>9. whole # {}
  BY <1>7, <1>8
<1>10. Max(whole) \in E /\ Cardinality(G) >= Required
  <2>1. Max(whole) \in whole
    BY <1>2, <1>3, <1>9, MaxIsGreatest
  <2> QED
    BY <1>3, <1>4, <2>1
<1>11. G \subseteq E /\ \A i \in G : log[i].env = log[Max(whole)].env
  BY <1>4 DEF Group
<1>12. C \subseteq G /\ Cardinality(C) = Required
  <2>1. C = Top(G, Required)
    BY <1>5 DEF Newest, Top
  <2>2. G \in SUBSET (1 .. n) /\ Required \in Nat
    BY <1>2, <1>11 DEF ReleaseSetting
  <2>3. Cardinality(Top(G, Required)) = Required
    BY <1>10, <2>2, TopHasSize
  <2> QED
    BY <2>1, <2>3 DEF Top
<1>13. C # {}
  BY <1>12, FS_EmptySet DEF ReleaseSetting
<1>14. Max(C) \in C
  BY <1>2, <1>11, <1>12, <1>13, MaxIsGreatest
<1>15. bad # {} => Max(bad) \in bad
  BY <1>2, <1>6, <1>11, <1>12, MaxIsGreatest
<1>16. Chosen(C)
  BY <1>1, <1>11, <1>12, <1>14 DEF Chosen
<1>17. S.env = log[Max(C)].env
  BY <1>7, <1>8, <1>9, <1>13
<1>18. IF bad # {} THEN S.status = RunVerdict(log[Max(bad)])
       ELSE S.status = IF Oscillates({log[i] : i \in C}) THEN "failed" ELSE "passed"
  BY <1>7, <1>8, <1>9
<1> QED
  BY <1>6, <1>15, <1>16, <1>17, <1>18

\* A passed assessment rests on the required runs, which passed and are alike.
LEMMA StabilityPassed ==
    ASSUME ReleaseSetting, ReleaseInv, NEW S, S = evaluate_stability_canary(log),
           S.status = "passed"
    PROVE  \E C : /\ Chosen(C) /\ S.env = log[Max(C)].env
                  /\ \A i \in C : RunVerdict(log[i]) = "passed"
                  /\ \A i \in C : log[i].results = log[Max(C)].results
<1>1. PICK C : /\ Chosen(C) /\ S.env = log[Max(C)].env
               /\ LET bad == {i \in C : RunVerdict(log[i]) # "passed"}
                  IN  IF bad # {}
                      THEN Max(bad) \in bad /\ S.status = RunVerdict(log[Max(bad)])
                      ELSE S.status = IF Oscillates({log[i] : i \in C})
                                      THEN "failed" ELSE "passed"
  BY ChosenRuns
<1>2. \A i \in C : RunVerdict(log[i]) = "passed"
  BY <1>1
<1>3. ~ Oscillates({log[i] : i \in C})
  BY <1>1, <1>2
<1>4. \A i \in C : CanaryRun(log[i])
  BY <1>1, EnvelopesAre DEF Chosen
<1>5. ASSUME NEW i \in C, NEW k \in C PROVE log[i].results = log[k].results
  <2>1. PICK p, q : p = log[i] /\ q = log[k]
    OBVIOUS
  <2>2. /\ Sound(p) /\ \A id \in DOMAIN p.results : p.results[id] \in {"good", "wrong", "failed"}
        /\ Sound(q) /\ \A id \in DOMAIN q.results : q.results[id] \in {"good", "wrong", "failed"}
    BY <1>2, <1>4, <2>1, PassedRun
  <2>3. DOMAIN p.results = CanaryIds /\ DOMAIN q.results = CanaryIds
    BY <1>4, <2>1, CanaryRunsAre
  <2>4. ASSUME NEW id \in CanaryIds PROVE p.results[id] = q.results[id]
    <3>1. PICK c, o, u : c = Entry(id) /\ o = Seen(p, id) /\ u = Seen(q, id)
      OBVIOUS
    <3>2. c \in DataSet /\ o \in Observations(p) /\ u \in Observations(q) /\ o.id = u.id
      BY <2>2, <2>3, <3>1, SeenTells
    <3>3. p \in {log[j] : j \in C} /\ q \in {log[j] : j \in C}
      BY <2>1
    <3>4. <<o.outcome, o.passed, o.correct, o.stage>>
              = <<u.outcome, u.passed, u.correct, u.stage>>
      BY Zenon, <1>3, <3>2, <3>3 DEF Oscillates
    <3>5. o.outcome = u.outcome /\ o.passed = u.passed
      BY <3>4
    <3>6. /\ p.results[id] \in Possible(c) \cap {"good", "wrong", "failed"}
          /\ q.results[id] \in Possible(c) \cap {"good", "wrong", "failed"}
      BY <2>2, <2>3, <3>1 DEF Sound
    <3> QED
      BY <3>1, <3>2, <3>5, <3>6, AlikeIsSame DEF Seen
  <2>5. p.results \in [CanaryIds -> Kinds] /\ q.results \in [CanaryIds -> Kinds]
    BY <2>2, <2>3 DEF Sound
  <2>6. p.results = q.results
    BY <2>4, <2>5
  <2> QED
    BY <2>1, <2>6
<1> QED
  BY <1>1, <1>2, <1>5 DEF Chosen

\* What a verdict of NOT_READY needs: a fault that is neither open nor unreadable.
Wrong(run) ==
    /\ OfCandidate(run) /\ run.status = "succeeded"
    /\ \E id \in Faulty(run) : run.results[id] \notin {"open", "unreadable"}

LEMMA StabilityFailed ==
    ASSUME ReleaseSetting, ReleaseInv, evaluate_stability_canary(log).status = "failed"
    PROVE  \E i \in DOMAIN log : Wrong(log[i])
<1>1. PICK S : S = evaluate_stability_canary(log) /\ S.status = "failed"
  OBVIOUS
<1>2. PICK C : /\ Chosen(C) /\ S.env = log[Max(C)].env
               /\ LET bad == {i \in C : RunVerdict(log[i]) # "passed"}
                  IN  IF bad # {}
                      THEN Max(bad) \in bad /\ S.status = RunVerdict(log[Max(bad)])
                      ELSE S.status = IF Oscillates({log[i] : i \in C})
                                      THEN "failed" ELSE "passed"
  BY <1>1, ChosenRuns
<1>3. \A i \in C : i \in DOMAIN log /\ CanaryRun(log[i])
  BY <1>2, EnvelopesAre DEF Chosen
<1>4. \A i \in C : OfCandidate(log[i]) /\ log[i].status = "succeeded"
  BY <1>3, CanaryRunsAre
<1>5. CASE \E i \in C : RunVerdict(log[i]) # "passed"
  <2>1. \E i \in C : RunVerdict(log[i]) = "failed"
    BY <1>1, <1>2, <1>5
  <2> QED
    BY <1>3, <1>4, <2>1, FailedRun DEF Wrong
<1>6. CASE \A i \in C : RunVerdict(log[i]) = "passed"
  <2>1. Oscillates({log[i] : i \in C})
    BY <1>1, <1>2, <1>6
  <2>2. PICK i \in C, k \in C : \E o \in Observations(log[i]), u \in Observations(log[k]) :
          /\ o.id = u.id
          /\ <<o.outcome, o.passed, o.correct, o.stage>>
                # <<u.outcome, u.passed, u.correct, u.stage>>
    BY <2>1 DEF Oscillates
  <2>3. PICK p, q : p = log[i] /\ q = log[k]
    OBVIOUS
  <2>4. PICK o \in Observations(p), u \in Observations(q) : o.id = u.id /\ o # u
    BY <2>2, <2>3
  <2>5. Sound(p) /\ Sound(q)
    BY <1>3, <1>6, <2>3, PassedRun
  <2>6. PICK id \in DOMAIN p.results : o = Seen(p, id)
    BY SeenAreAll
  <2>7. PICK jd \in DOMAIN q.results : u = Seen(q, jd)
    BY SeenAreAll
  <2>8. id = jd
    BY <2>4, <2>5, <2>6, <2>7, SeenTells
  <2>9. p.results[id] # q.results[id]
    BY <2>4, <2>6, <2>7, <2>8 DEF Seen
  <2>10. id \in Faulty(p) \/ id \in Faulty(q)
    BY <2>7, <2>8, <2>9 DEF Faulty
  <2>11. /\ id \in Faulty(p) => p.results[id] \notin {"open", "unreadable"}
         /\ id \in Faulty(q) => q.results[id] \notin {"open", "unreadable"}
    BY <2>5 DEF Sound, Faulty
  <2> QED
    BY <1>3, <1>4, <2>3, <2>10, <2>11 DEF Wrong
<1> QED
  BY <1>5, <1>6

\* A full run that qualifies: whole, established and of the candidate that the
\* passed assessment is about.
LEMMA QualifyingRun ==
    ASSUME ReleaseSetting, ReleaseInv, NEW i \in DOMAIN log, NEW S,
           S = evaluate_stability_canary(log),
           NEW V, V = evaluate_v1_readiness(log, i, S), V.qualifies
    PROVE  /\ S.status = "passed" /\ log[i].env = S.env
           /\ log[i].suite = "full" /\ log[i].status = "succeeded" /\ OfCandidate(log[i])
           /\ Sound(log[i]) /\ CanaryIds \subseteq DOMAIN log[i].results
           /\ LET gates == Metrics(Observations(log[i]))
                  sound == \A o \in Observations(log[i]) : ~o.renderer /\ ~o.conformance
              IN  /\ V.verdict \in {"ready", "not_ready"}
                  /\ V.verdict = "ready" => sound /\ \A k \in 1 .. 5 : gates[k].met
                  /\ V.verdict = "not_ready" => ~sound \/ \E k \in 1 .. 5 : ~gates[k].met
<1>1. PICK run : run = log[i]
  OBVIOUS
<1>2. PICK O, gates : O = Observations(run) /\ gates = Metrics(O)
  OBVIOUS
<1>3. PICK sound \in BOOLEAN : sound <=> \A o \in O : ~o.renderer /\ ~o.conformance
  OBVIOUS
<1>4. PICK met \in BOOLEAN : met <=> \A k \in 1 .. 5 : gates[k].met
  OBVIOUS
<1>5. PICK empty \in BOOLEAN : empty <=> \E k \in 1 .. 5 : gates[k].of = {}
  OBVIOUS
<1>6. V = IF S.status # "passed" THEN _stability_blocked(S)
          ELSE IF ~_validate_evidence(run, S) \/ \E o \in O : o.unestablished
          THEN Verdict("incomplete", FALSE, i)
          ELSE Verdict(IF empty THEN "incomplete"
                       ELSE IF sound /\ met THEN "ready" ELSE "not_ready", TRUE, i)
  BY Zenon, <1>1, <1>2, <1>3, <1>4, <1>5 DEF evaluate_v1_readiness
<1>7. PICK word : word = IF empty THEN "incomplete"
                         ELSE IF sound /\ met THEN "ready" ELSE "not_ready"
  OBVIOUS
<1>8. S.status = "passed" /\ _validate_evidence(run, S) /\ \A o \in O : ~o.unestablished
  <2>1. ~Verdict("incomplete", FALSE, i).qualifies /\ ~_stability_blocked(S).qualifies
    BY DEF Verdict, _stability_blocked
  <2>2. V # Verdict("incomplete", FALSE, i) /\ V # _stability_blocked(S)
    BY <2>1
  <2> QED
    BY Zenon, <1>6, <2>2
<1>9. V.verdict = word
  <2>1. V = Verdict(word, TRUE, i)
    BY Zenon, <1>6, <1>7, <1>8
  <2> QED
    BY <2>1 DEF Verdict
<1>10. /\ run.suite = "full" /\ run.status = "succeeded" /\ OfCandidate(run)
       /\ run.env = S.env /\ Readable(run)
  BY <1>8 DEF _validate_evidence, OfCandidate, matches_current_provider_runtime,
              _matches_stability_candidate
<1>11. Sound(run) /\ DOMAIN run.results = SuiteIds("full")
  BY <1>1, <1>2, <1>8, <1>10, EstablishedIsSound DEF ReleaseInv
<1>12. CanaryIds \subseteq DOMAIN run.results
  BY <1>11 DEF SuiteIds, ReleaseSetting
<1>13. ~empty
  BY <1>2, <1>5, <1>11, <1>12, GatesAreCovered
<1> QED
  BY <1>1, <1>2, <1>3, <1>4, <1>7, <1>8, <1>9, <1>10, <1>11, <1>12, <1>13

\* The verdict that is given: the qualifying run's, or that no run qualifies.
LEMMA VerdictIsOf ==
    ASSUME ReleaseInv, NEW S, S = evaluate_stability_canary(log),
           Answered.verdict \in {"ready", "not_ready"}
    PROVE  \/ \E i \in DOMAIN log : /\ evaluate_v1_readiness(log, i, S).qualifies
                                    /\ Answered = evaluate_v1_readiness(log, i, S)
           \/ Answered.verdict = "not_ready" /\ S.status = "failed"
<1>1. PICK tried : tried = {i \in DOMAIN log :
                              /\ log[i].status = "succeeded" /\ log[i].env # Mock
                              /\ log[i].catalog = current_catalog
                              /\ evaluate_v1_readiness(log, i, S).qualifies}
  OBVIOUS
<1>2. Answered = IF tried # {} THEN evaluate_v1_readiness(log, Max(tried), S)
                 ELSE IF S.status # "passed" THEN _stability_blocked(S)
                 ELSE Verdict("incomplete", FALSE, 0)
  BY Zenon, <1>1 DEF Answered, latest_readiness_assessment
<1>3. CASE tried # {}
  <2>1. PICK n \in Nat : DOMAIN log = 1 .. n
    BY EnvelopesAre
  <2>2. tried \subseteq 1 .. n
    BY <1>1, <2>1
  <2>3. Max(tried) \in tried
    BY <1>3, <2>2, MaxIsGreatest
  <2> QED
    BY <1>1, <1>2, <1>3, <2>3
<1>4. CASE tried = {}
  <2>1. /\ S.status # "passed" => Answered = _stability_blocked(S)
        /\ S.status = "passed" => Answered = Verdict("incomplete", FALSE, 0)
    BY <1>2, <1>4
  <2>2. Answered.verdict = "not_ready" /\ S.status = "failed"
    BY <2>1 DEF _stability_blocked, Verdict
  <2> QED
    BY <2>2
<1> QED
  BY <1>3, <1>4

LEMMA ReadyIsEarned ==
    ASSUME ReleaseSetting, ReleaseInv, Ready
    PROVE  \E f \in DOMAIN log :
          /\ log[f].suite = "full" /\ log[f].status = "succeeded" /\ OfCandidate(log[f])
          /\ \A id \in Faulty(log[f]) :
                /\ Entry(id).type # "unsafe" /\ ~Entry(id).security
                /\ log[f].results[id] \in {"wrong", "failed"}
          /\ RightShare(log[f], "success", AccuracyPct)
          /\ RightShare(log[f], "clarification", ClarificationPct)
          /\ \E C \in SUBSET {i \in DOMAIN log : log[i].suite = "canary"} :
                /\ Cardinality(C) = Required
                /\ \A i \in C : /\ log[i].status = "succeeded"
                                /\ log[i].env = log[f].env
                                /\ log[i].started - log[f].env.ref \in 0..MaxAge
                                /\ log[i].results = log[Max(C)].results
                /\ \A id \in Faulty(log[Max(C)]) :
                      log[Max(C)].results[id] \in {"wrong", "failed"}
<1>1. PICK S : S = evaluate_stability_canary(log)
  OBVIOUS
<1>2. PICK f \in DOMAIN log : /\ evaluate_v1_readiness(log, f, S).qualifies
                              /\ Answered = evaluate_v1_readiness(log, f, S)
  BY <1>1, VerdictIsOf DEF Ready
<1>3. PICK run : run = log[f]
  OBVIOUS
<1>4. /\ S.status = "passed" /\ run.env = S.env
      /\ run.suite = "full" /\ run.status = "succeeded" /\ OfCandidate(run)
      /\ Sound(run)
      /\ \A o \in Observations(run) : ~o.renderer /\ ~o.conformance
      /\ \A k \in 1 .. 5 : Metrics(Observations(run))[k].met
  BY <1>1, <1>2, <1>3, QualifyingRun DEF Ready
<1>5. \A id \in Faulty(run) : /\ Entry(id).type # "unsafe" /\ ~Entry(id).security
                              /\ run.results[id] \in {"wrong", "failed"}
  <2> TAKE id \in Faulty(run)
  <2>1. id \in DOMAIN run.results /\ run.results[id] # "good"
    BY DEF Faulty
  <2>2. Entry(id).type # "unsafe" /\ ~Entry(id).security
    BY <1>4, GatesBoundFaults
  <2>3. run.results[id] \in {"good", "wrong", "failed"}
    BY <1>4, <2>1, SoundKinds
  <2> QED
    BY <2>1, <2>2, <2>3
<1>6. RightShare(run, "success", AccuracyPct) /\ RightShare(run, "clarification", ClarificationPct)
  BY <1>4, GatesBoundShares
<1>7. PICK C : /\ Chosen(C) /\ S.env = log[Max(C)].env
               /\ \A i \in C : RunVerdict(log[i]) = "passed"
               /\ \A i \in C : log[i].results = log[Max(C)].results
  BY <1>1, <1>4, StabilityPassed
<1>8. \A i \in C : i \in DOMAIN log /\ CanaryRun(log[i]) /\ log[i].env = run.env
  BY <1>4, <1>7, EnvelopesAre DEF Chosen
<1>9. \A i \in C : /\ log[i].suite = "canary" /\ log[i].status = "succeeded"
                   /\ log[i].started - run.env.ref \in 0..MaxAge
  <2> TAKE i \in C
  <2>1. CanaryRun(log[i]) /\ log[i].env = run.env
    BY <1>8
  <2> QED
    BY <2>1, CanaryRunsAre
<1>10. \A id \in Faulty(log[Max(C)]) : log[Max(C)].results[id] \in {"wrong", "failed"}
  <2>1. PICK last : last = log[Max(C)]
    OBVIOUS
  <2>2. \A id \in DOMAIN last.results : last.results[id] \in {"good", "wrong", "failed"}
    BY <1>7, <1>8, <2>1, PassedRun DEF Chosen
  <2> QED
    BY <2>1, <2>2 DEF Faulty
<1>11. C \in SUBSET {i \in DOMAIN log : log[i].suite = "canary"} /\ Cardinality(C) = Required
  BY <1>7, <1>8, <1>9 DEF Chosen
<1>12. \A i \in C : /\ log[i].status = "succeeded" /\ log[i].env = run.env
                    /\ log[i].started - run.env.ref \in 0..MaxAge
                    /\ log[i].results = log[Max(C)].results
  BY <1>7, <1>8, <1>9
<1> QED
  BY <1>3, <1>4, <1>5, <1>6, <1>10, <1>11, <1>12

LEMMA NotReadyIsEarned ==
    ASSUME ReleaseSetting, ReleaseInv, Answered.verdict = "not_ready"
    PROVE  \E i \in DOMAIN log : Wrong(log[i])
<1>1. PICK S : S = evaluate_stability_canary(log)
  OBVIOUS
<1>2. CASE S.status = "failed"
  BY <1>1, <1>2, StabilityFailed
<1>3. CASE S.status # "failed"
  <2>1. PICK f \in DOMAIN log : /\ evaluate_v1_readiness(log, f, S).qualifies
                                /\ Answered = evaluate_v1_readiness(log, f, S)
    BY <1>1, <1>3, VerdictIsOf
  <2>2. PICK run : run = log[f]
    OBVIOUS
  <2>3. /\ run.status = "succeeded" /\ OfCandidate(run) /\ Sound(run)
        /\ \/ ~ \A o \in Observations(run) : ~o.renderer /\ ~o.conformance
           \/ \E k \in 1 .. 5 : ~Metrics(Observations(run))[k].met
    BY <1>1, <2>1, <2>2, QualifyingRun
  <2>4. Faulty(run) # {}
    <3>1. SUFFICES ASSUME Faulty(run) = {}, NEW o \in Observations(run)
                   PROVE  ~o.renderer /\ ~o.conformance
      BY <2>3, FaultlessMeetsGates
    <3>2. PICK id \in DOMAIN run.results : o = Seen(run, id)
      BY SeenAreAll
    <3>3. run.results[id] = "good"
      BY <3>1 DEF Faulty
    <3> QED
      BY <2>3, <3>2, <3>3, SeenTells
  <2> QED
    BY <2>2, <2>3, <2>4 DEF Wrong, Sound, Faulty
<1> QED
  BY <1>2, <1>3

\* READY rests on a full run and the required canary runs of one environment of
\* the running configuration, and NOT_READY on something that such a run recorded
\* as wrong (readiness.py: evaluate_v1_readiness, stability.py:
\* evaluate_stability_canary), whatever the operators did before.
THEOREM VerdictsAreEarned ==
    ASSUME ReleaseSetting PROVE ReleaseSpec => []VerdictIsEarned
<1>1. ReleaseInit => ReleaseInv
  BY ReleaseInitEstablishes
<1>2. ReleaseInv /\ [ReleaseNext]_releasevars => ReleaseInv'
  BY ReleaseStepsKeep
<1>3. ReleaseInv => VerdictIsEarned
  <2> SUFFICES ASSUME ReleaseInv PROVE VerdictIsEarned
    OBVIOUS
  <2>1. Answered.verdict = "not_ready" => \E i \in DOMAIN log : Wrong(log[i])
    BY NotReadyIsEarned
  <2> QED
    BY <2>1, ReadyIsEarned DEF VerdictIsEarned, Wrong
<1> QED
  BY <1>1, <1>2, <1>3, PTL DEF ReleaseSpec
=============================================================================
