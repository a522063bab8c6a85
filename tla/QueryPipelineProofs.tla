------------------------- MODULE QueryPipelineProofs -------------------------
(***************************************************************************)
(* Machine-checked proofs about QueryPipeline and the access decision it   *)
(* uses, for every number of users, sessions, runs and connections and     *)
(* every data set, template and registry.                                  *)
(***************************************************************************)
EXTENDS QueryPipeline, WellFoundedInduction, TLAPS

-----------------------------------------------------------------------------
(* Naturals                                                                *)

\* A set of naturals with an element has a least one,
LEMMA LeastNatural ==
    ASSUME NEW T, T \subseteq Nat, T # {}
    PROVE  \E x \in T : \A y \in T : x <= y
<1>1. PICK x \in T : \A y \in T : ~ (<<y, x>> \in OpToRel(<, Nat))
  BY NatLessThanWellFounded, WFMin
<1>2. \A y \in T : ~ (y < x)
  BY <1>1 DEF OpToRel
<1> QED
  BY <1>2

\* and one with a bound has a greatest.
LEMMA GreatestNatural ==
    ASSUME NEW n \in Nat, NEW T, T \subseteq 1 .. n, T # {}
    PROVE  Max(T) \in T
<1>1. PICK D : D = {n - x : x \in T}
  OBVIOUS
<1>2. D \subseteq Nat /\ D # {}
  <2>1. \A x \in T : x \in Nat /\ n - x \in Nat
    OBVIOUS
  <2> QED BY <1>1, <2>1
<1>3. PICK d \in D : \A e \in D : d <= e
  BY <1>2, LeastNatural
<1>4. PICK x \in T : d = n - x
  BY <1>1
<1>5. \A y \in T : n - y \in D
  BY <1>1
<1>6. \A y \in T : x >= y
  BY <1>3, <1>4, <1>5
<1> QED
  BY <1>6 DEF Max

\* The smaller of two
LEMMA SmallerOfTwo ==
    ASSUME NEW a \in Nat, NEW b \in Nat
    PROVE  Min({a, b}) = IF a <= b THEN a ELSE b
<1>1. CASE a <= b
  <2>1. \A x \in {a, b} : (\A y \in {a, b} : x <= y) <=> x = a
    BY <1>1
  <2> QED BY <1>1, <2>1 DEF Min
<1>2. CASE ~ (a <= b)
  <2>1. \A x \in {a, b} : (\A y \in {a, b} : x <= y) <=> x = b
    BY <1>2
  <2> QED BY <1>2, <2>1 DEF Min
<1> QED
  BY <1>1, <1>2

-----------------------------------------------------------------------------
(* What is known of a LIMIT                                                *)

\* The bound recorded with SQL says truly where its LIMIT comes from: "asked"
\* is the LIMIT the author of the question wrote.
Told(sql, bound, asked) ==
    /\ sql.limit \in Nat /\ sql.limit <= MAX_QUERY_LIMIT
    /\ DOMAIN bound = {"valid", "input", "effective", "source"}
    /\ bound.valid = TRUE /\ bound.effective = sql.limit
    /\ asked \in Nat \cup {NoLimit}
    /\ \/ bound.source = "input" /\ bound.input = sql.limit /\ asked = sql.limit
       \/ /\ bound.source = "safety_added" /\ bound.input = NoLimit /\ asked = NoLimit
          /\ sql.limit = DEFAULT_QUERY_LIMIT
       \/ /\ bound.source = "safety_clamped" /\ bound.input = asked /\ asked \in Nat
          /\ asked > sql.limit /\ sql.limit = MAX_QUERY_LIMIT
       \/ bound.source = "unknown"

\* A run that calls itself complete has every row asked for.
Honest(rows, total, verdict, asked) ==
    verdict = "complete" =>
        rows = IF asked = NoLimit THEN total ELSE Min({total, asked})

\* Validation of new SQL tells the truth,
LEMMA NewBound ==
    ASSUME Setting, NEW sql \in SQLText, _apply_limit(sql.limit).valid,
           NEW bound, bound = _apply_limit(sql.limit),
           NEW left, left.limit = bound.effective
    PROVE  Told(left, bound, sql.limit)
<1>1. PICK n \in Nat \cup {NoLimit, BadLimit} : n = sql.limit
  BY DEF SQLText
<1>2. n # BadLimit
  BY <1>1 DEF _apply_limit, Unbounded
<1>3. CASE n = NoLimit
  BY <1>1, <1>2, <1>3 DEF Setting, _apply_limit, Bound, Told, DEFAULT_QUERY_LIMIT, MAX_QUERY_LIMIT
<1>4. CASE n \in Nat /\ n <= MAX_QUERY_LIMIT
  BY <1>1, <1>2, <1>4 DEF Setting, _apply_limit, Bound, Told, DEFAULT_QUERY_LIMIT, MAX_QUERY_LIMIT
<1>5. CASE n \in Nat /\ ~ (n <= MAX_QUERY_LIMIT)
  BY <1>1, <1>2, <1>5 DEF Setting, _apply_limit, Bound, Told, DEFAULT_QUERY_LIMIT, MAX_QUERY_LIMIT
<1> QED
  BY <1>1, <1>2, <1>3, <1>4, <1>5

\* and so does the bound restored for stored SQL, whose LIMIT may be the
\* validator's and not the author's.
LEMMA RestoredBound ==
    ASSUME Setting, NEW sql, NEW prior, NEW asked, Told(sql, prior, asked),
           NEW bound, bound = restore_saved_bound(_apply_limit(sql.limit), prior)
    PROVE  Told(sql, bound, asked)
<1>1. PICK n \in Nat : n = sql.limit
  BY DEF Told
<1>2. PICK fresh : fresh = [valid |-> TRUE, input |-> n, effective |-> n, source |-> "input"]
  OBVIOUS
<1>3. _apply_limit(sql.limit) = fresh
  BY <1>1, <1>2 DEF Told, Setting, _apply_limit, Bound, MAX_QUERY_LIMIT
<1>4. bound = [fresh EXCEPT !.input = prior.input, !.source = prior.source]
      \/ bound = [fresh EXCEPT !.input = NoLimit, !.source = "unknown"]
  BY <1>3 DEF restore_saved_bound
<1>5. CASE bound = [fresh EXCEPT !.input = NoLimit, !.source = "unknown"]
  BY <1>1, <1>2, <1>5 DEF Told
<1>6. CASE bound = [fresh EXCEPT !.input = prior.input, !.source = prior.source]
  BY <1>1, <1>2, <1>6 DEF Told
<1> QED
  BY <1>4, <1>5, <1>6

\* The verdict of the executor is honest where the bound is.
LEMMA HonestFetch ==
    ASSUME Setting, NEW sql, NEW bound, NEW asked, Told(sql, bound, asked),
           NEW total \in Nat, NEW limit \in Nat,
           NEW got, got = Fetched(total, bound, limit, NoLimit)
    PROVE  /\ got.rows \in Nat
           /\ completeness(bound, got) \in Verdict
           /\ Honest(got.rows, total, completeness(bound, got), asked)
<1>1. PICK n \in Nat : n = sql.limit /\ n = bound.effective
  BY DEF Told
<1>2. PICK offered \in Nat : /\ offered = Min({total, n})
                             /\ offered = IF total <= n THEN total ELSE n
  BY SmallerOfTwo
<1>3. /\ got.rows = IF offered <= limit THEN offered ELSE limit
      /\ got.truncated <=> offered > limit
      /\ ~ got.cut
  <2>1. {offered, limit} \cup {} = {offered, limit}
    OBVIOUS
  <2>2. /\ got.rows = Min({offered, limit})
        /\ got.truncated = (NoLimit = NoLimit /\ offered > limit)
        /\ got.cut = (NoLimit # NoLimit)
    BY <1>1, <1>2, <2>1, Zenon DEF Fetched
  <2> QED BY <2>2, SmallerOfTwo
<1>4. completeness(bound, got) \in Verdict
  BY DEF completeness, Verdict
<1>5. ASSUME completeness(bound, got) = "complete"
      PROVE  got.rows = IF asked = NoLimit THEN total ELSE Min({total, asked})
  <2>1. /\ got.rows = offered /\ bound.source # "unknown"
        /\ bound.source \in {"safety_added", "safety_clamped"} => ~ (got.rows >= n)
    BY <1>1, <1>3, <1>5 DEF completeness
  <2>2. asked # NoLimit => asked \in Nat
    BY DEF Told
  <2>3. asked \in Nat => Min({total, asked}) = IF total <= asked THEN total ELSE asked
    BY SmallerOfTwo
  <2> QED
    BY <1>1, <1>2, <2>1, <2>2, <2>3 DEF Told, Setting
<1> QED
  BY <1>2, <1>3, <1>4, <1>5 DEF Honest

-----------------------------------------------------------------------------
(* The inductive invariant.  Its parts are about a session x, or a row, in *)
(* a given state of the rest.                                              *)

Fields == {"pc", "user", "op", "arg", "ctx", "shown", "sql", "asked", "bound",
           "override", "res", "run", "ans", "allowed", "queryable"}

RunFields == {"user", "saved", "status", "sql", "tables", "bound", "asked", "rows",
              "total", "completeness"}

IsSeq(q) == \E S : q \in Seq(S)

\* A stored run that succeeded can be executed again, and every one is honest.
StoredRun(run) ==
    /\ DOMAIN run = RunFields
    /\ run.status = "succeeded" => run.sql \in SQLText /\ Told(run.sql, run.bound, run.asked)
    /\ Honest(run.rows, run.total, run.completeness, run.asked)

Underway(x)  == x.pc \notin {"idle", "done"}
Executing(x) == x.pc \in {"load", "runtime", "execute"}

\* The argument of a request under way exists, and the request has no answer
\* yet; generation is for questions.
Argued(x, rs) ==
    Underway(x) => /\ x.ans.kind = "none"
                   /\ x.pc \in {"prepare", "generate"} => x.op \in RunOps
                   /\ x.op = "template" => x.arg \in DOMAIN Templates
                   /\ x.op = "export" => x.arg \in DOMAIN rs

\* The SQL to be executed is told where its LIMIT comes from, and the result
\* that waits to be stored is honest.
Bounded(x) ==
    /\ Executing(x) \/ (x.pc = "persist" /\ x.res # None)
       => x.sql \in SQLText /\ Told(x.sql, x.bound, x.asked)
    /\ x.pc = "persist" /\ x.res # None
       => /\ x.res \in Result
          /\ Honest(x.res.rows, x.res.total, x.res.completeness, x.asked)

\* What is open now was open at some instant of the request, and so were the
\* tables of the SQL; from the second reading of the registry on, they were
\* queryable after validation.
Opened(x, acc, reg) ==
    /\ Underway(x) => schema_tables(acc[x.user], QUERY_ACTION(x.op), reg) \subseteq x.allowed
    /\ x.pc = "generate" => x.shown \subseteq x.allowed
    /\ Executing(x) => x.sql.tables \subseteq x.allowed /\ Tables_of(reg) \subseteq x.queryable
    /\ x.pc \in {"runtime", "execute"} => x.sql.tables \subseteq x.queryable

RowsOf(res) == IF res = None THEN 0 ELSE res.rows
VerdictOf(res) == IF res = None THEN "unknown" ELSE res.completeness

\* Between its commit and its answer, a request's run is on record.
Recorded(x, rs) ==
    x.pc = "reload" =>
        /\ x.run \in DOMAIN rs
        /\ rs[x.run].user = x.user
        /\ rs[x.run].rows = RowsOf(x.res) /\ rs[x.run].completeness = VerdictOf(x.res)

\* So is what a request was answered.
Answered(x, rs, au) ==
    /\ x.ans.kind = "result" =>
          /\ x.ans.run \in DOMAIN rs
          /\ rs[x.ans.run].user = x.user
          /\ rs[x.ans.run].rows = x.ans.rows
          /\ rs[x.ans.run].completeness = x.ans.completeness
    /\ x.ans.kind = "csv" =>
          /\ x.ans.audit \in DOMAIN au
          /\ au[x.ans.audit].rows = x.ans.rows /\ au[x.ans.audit].run = x.ans.run
          /\ au[x.ans.audit].completeness = x.ans.completeness
          /\ au[x.ans.audit].override = x.override

SessionInv(x, acc, reg, rs, au) ==
    /\ DOMAIN x = Fields
    /\ Argued(x, rs) /\ Bounded(x) /\ Opened(x, acc, reg)
    /\ Recorded(x, rs) /\ Answered(x, rs, au)

StoreInv(rs, au) ==
    /\ IsSeq(rs) /\ IsSeq(au)
    /\ \A r \in DOMAIN rs : StoredRun(rs[r])

PipelineInv ==
    /\ StoreInv(runs, audit)
    /\ DOMAIN ses = Sessions
    /\ \A s \in Sessions : SessionInv(ses[s], access, registry, runs, audit)

\* The invariant has the three properties in it.
LEMMA PipelineInvGives ==
    ASSUME PipelineInv PROVE CompletenessHonest /\ AnswerMatchesRow /\ OnlyOpenTablesRead
<1>1. CompletenessHonest
  BY DEF PipelineInv, StoreInv, StoredRun, Honest, CompletenessHonest
<1>2. AnswerMatchesRow
  BY DEF PipelineInv, SessionInv, Answered, AnswerMatchesRow
<1>3. OnlyOpenTablesRead
  BY DEF PipelineInv, SessionInv, Opened, Executing, OnlyOpenTablesRead
<1> QED
  BY <1>1, <1>2, <1>3

-----------------------------------------------------------------------------
(* Rows are only added, or marked as a card's                              *)

RunsKept(rs, more) ==
    /\ DOMAIN rs \subseteq DOMAIN more
    /\ \A r \in DOMAIN rs : /\ more[r].user = rs[r].user /\ more[r].rows = rs[r].rows
                            /\ more[r].completeness = rs[r].completeness

AuditKept(au, more) ==
    DOMAIN au \subseteq DOMAIN more /\ \A a \in DOMAIN au : more[a] = au[a]

\* One sequence is another one and an element.
Longer(more, q, e) ==
    /\ IsSeq(more) /\ Len(q) + 1 \in DOMAIN more /\ more[Len(q) + 1] = e
    /\ DOMAIN q \subseteq DOMAIN more /\ \A i \in DOMAIN q : more[i] = q[i]
    /\ DOMAIN more = DOMAIN q \cup {Len(q) + 1}

\* Appending to a sequence keeps what is in it.
LEMMA Appended ==
    ASSUME NEW q, IsSeq(q), NEW e PROVE Longer(Append(q, e), q, e)
<1> DEFINE more == Append(q, e)
<1> HIDE DEF more
<1>1. PICK S : q \in Seq(S)
  BY DEF IsSeq
<1>2. PICK T : T = S \cup {e}
  OBVIOUS
<1>3. q \in Seq(T) /\ e \in T
  BY <1>1, <1>2
<1>4. more \in Seq(T) /\ Len(more) = Len(q) + 1 /\ Len(q) \in Nat
  BY <1>3 DEF more
<1>5. DOMAIN q = 1 .. Len(q) /\ DOMAIN more = 1 .. (Len(q) + 1)
  BY <1>3, <1>4
<1>6. more[Len(q) + 1] = e /\ \A i \in DOMAIN q : more[i] = q[i]
  BY <1>3, <1>5 DEF more
<1>7. Longer(more, q, e)
  BY <1>4, <1>5, <1>6 DEF IsSeq, Longer
<1> QED
  BY <1>7 DEF more

\* A session that does nothing loses nothing by what others store.
LEMMA SessionKept ==
    ASSUME NEW x, NEW acc, NEW reg, NEW rs, NEW au, SessionInv(x, acc, reg, rs, au),
           NEW rs2, RunsKept(rs, rs2), NEW au2, AuditKept(au, au2)
    PROVE  SessionInv(x, acc, reg, rs2, au2)
<1>1. Argued(x, rs2)
  BY DEF SessionInv, Argued, RunsKept
<1>2. Recorded(x, rs2)
  BY DEF SessionInv, Recorded, RunsKept
<1>3. Answered(x, rs2, au2)
  BY DEF SessionInv, Answered, RunsKept, AuditKept
<1> QED
  BY <1>1, <1>2, <1>3 DEF SessionInv

\* One session's step
LEMMA OneSession ==
    ASSUME PipelineInv, NEW s \in Sessions, NEW y, Become(s, y),
           UNCHANGED <<access, registry>>,
           StoreInv(runs', audit'), RunsKept(runs, runs'), AuditKept(audit, audit'),
           SessionInv(y, access, registry, runs', audit')
    PROVE  PipelineInv'
<1>1. DOMAIN ses' = Sessions /\ \A t \in Sessions : ses'[t] = IF t = s THEN y ELSE ses[t]
  BY DEF PipelineInv, Become
<1>2. \A t \in Sessions : SessionInv(ses[t], access, registry, runs', audit')
  BY SessionKept DEF PipelineInv
<1>3. \A t \in Sessions : SessionInv(ses'[t], access, registry, runs', audit')
  BY <1>1, <1>2
<1> QED
  BY <1>1, <1>3 DEF PipelineInv

\* One session's step that stores nothing
LEMMA OneSessionOnly ==
    ASSUME PipelineInv, NEW s \in Sessions, NEW y, Become(s, y),
           UNCHANGED <<access, registry, runs, audit>>,
           SessionInv(y, access, registry, runs, audit)
    PROVE  PipelineInv'
<1>1. StoreInv(runs', audit') /\ RunsKept(runs, runs') /\ AuditKept(audit, audit')
  BY DEF PipelineInv, RunsKept, AuditKept
<1> QED
  BY <1>1, OneSession

-----------------------------------------------------------------------------
(* The steps                                                               *)

\* A request that ends without a result or a CSV
LEMMA EndsEmpty ==
    ASSUME PipelineInv, NEW s \in Sessions, NEW ans, ans.kind \notin {"result", "csv"},
           Answer(s, ans), UNCHANGED <<access, registry, runs, audit>>
    PROVE  PipelineInv'
<1>1. PICK x : x = ses[s] /\ SessionInv(x, access, registry, runs, audit)
  BY DEF PipelineInv
<1>2. PICK y : y = [x EXCEPT !.pc = "done", !.ans = ans]
  OBVIOUS
<1>3. DOMAIN y = Fields /\ y.pc = "done" /\ y.ans = ans
  BY <1>1, <1>2 DEF SessionInv, Fields
<1>4. SessionInv(y, access, registry, runs, audit)
  BY <1>3 DEF SessionInv, Argued, Bounded, Opened, Recorded, Answered, Underway, Executing
<1>5. Become(s, y)
  BY <1>1, <1>2 DEF Answer
<1> QED
  BY <1>4, <1>5, OneSessionOnly

\* The answers that say nothing about a row
LEMMA EmptyKinds ==
    \A k : [NoAnswer EXCEPT !.kind = k].kind = k
BY DEF NoAnswer

\* A refusal says nothing about data.
LEMMA RefuseKeeps ==
    ASSUME PipelineInv, NEW s \in Sessions, Refuse(s),
           UNCHANGED <<access, registry, runs, audit>>
    PROVE  PipelineInv'
<1>1. PICK ans : ans = [NoAnswer EXCEPT !.kind = "refused"]
  OBVIOUS
<1>2. ans.kind = "refused"
  BY <1>1, EmptyKinds
<1>3. Answer(s, ans)
  BY <1>1 DEF Refuse
<1> QED
  BY <1>2, <1>3, EndsEmpty

\* A failure of a request under way is recorded, or the request is refused.
LEMMA FailKeeps ==
    ASSUME PipelineInv, NEW s \in Sessions, Underway(ses[s]), Fail(s),
           UNCHANGED <<access, registry, runs, audit>>
    PROVE  PipelineInv'
<1>1. PICK x : x = ses[s] /\ SessionInv(x, access, registry, runs, audit)
  BY DEF PipelineInv
<1>2. CASE x.op \notin RunOps
  BY <1>1, <1>2, RefuseKeeps DEF Fail
<1>3. CASE x.op \in RunOps
  <2>1. PICK y : y = [x EXCEPT !.pc = "persist", !.res = None]
    OBVIOUS
  <2>2. DOMAIN y = Fields /\ y.pc = "persist" /\ y.res = None /\ y.user = x.user
        /\ y.op = x.op /\ y.arg = x.arg /\ y.allowed = x.allowed /\ y.ans = x.ans
        /\ y.override = x.override
    BY <1>1, <2>1 DEF SessionInv, Fields
  <2>3. Argued(y, runs) /\ Bounded(y) /\ Opened(y, access, registry) /\ Recorded(y, runs)
        /\ Answered(y, runs, audit)
    BY <1>1, <2>2 DEF SessionInv, Argued, Bounded, Opened, Recorded, Answered, Underway, Executing
  <2>4. SessionInv(y, access, registry, runs, audit)
    BY <2>2, <2>3 DEF SessionInv
  <2>5. Become(s, y)
    BY <1>1, <1>3, <2>1 DEF Fail
  <2> QED
    BY <2>4, <2>5, OneSessionOnly
<1> QED
  BY <1>2, <1>3

\* A step on that neither validates nor executes
LEMMA GotoFields ==
    ASSUME NEW x, DOMAIN x = Fields, NEW pc, NEW y, y = [x EXCEPT !.pc = pc]
    PROVE  /\ DOMAIN y = Fields /\ y.pc = pc /\ y.user = x.user /\ y.op = x.op
           /\ y.arg = x.arg /\ y.shown = x.shown /\ y.sql = x.sql /\ y.asked = x.asked
           /\ y.bound = x.bound /\ y.override = x.override /\ y.res = x.res /\ y.run = x.run
           /\ y.ans = x.ans /\ y.allowed = x.allowed /\ y.queryable = x.queryable
BY DEF Fields

\* A handler goes on to its next statement with what it has.
LEMMA GotoKeeps ==
    ASSUME PipelineInv, NEW s \in Sessions, NEW pc, Goto(s, pc),
           pc \in {"route", "prepare"}, Underway(ses[s]), pc = "prepare" => ses[s].op \in RunOps,
           UNCHANGED <<access, registry, runs, audit>>
    PROVE  PipelineInv'
<1>1. PICK x : x = ses[s] /\ SessionInv(x, access, registry, runs, audit)
  BY DEF PipelineInv
<1>2. PICK y : y = [x EXCEPT !.pc = pc]
  OBVIOUS
<1>3. /\ DOMAIN y = Fields /\ y.pc = pc /\ y.user = x.user /\ y.op = x.op
      /\ y.arg = x.arg /\ y.ans = x.ans /\ y.allowed = x.allowed /\ y.override = x.override
  BY <1>1, <1>2, GotoFields DEF SessionInv
<1>4. Argued(y, runs) /\ Bounded(y) /\ Opened(y, access, registry) /\ Recorded(y, runs)
      /\ Answered(y, runs, audit)
  BY <1>1, <1>3 DEF SessionInv, Argued, Bounded, Opened, Recorded, Answered, Underway, Executing
<1>5. SessionInv(y, access, registry, runs, audit)
  BY <1>3, <1>4 DEF SessionInv
<1>6. Become(s, y)
  BY <1>1, <1>2 DEF Goto
<1> QED
  BY <1>5, <1>6, OneSessionOnly

\* A request that arrives has all that is open to its user.
LEMMA ArriveKeeps ==
    ASSUME PipelineInv, NEW s \in Sessions, Arrive(s) PROVE PipelineInv'
<1>1. PICK u \in Users, op \in Ops : \E a \in Arguments(op) :
          Become(s, [Idle EXCEPT !.pc = "connect", !.user = u, !.op = op, !.arg = a,
                        !.allowed = schema_tables(access[u], QUERY_ACTION(op), registry)])
  BY DEF Arrive
<1>2. PICK a \in Arguments(op) :
          Become(s, [Idle EXCEPT !.pc = "connect", !.user = u, !.op = op, !.arg = a,
                        !.allowed = schema_tables(access[u], QUERY_ACTION(op), registry)])
  BY <1>1
<1>3. PICK y : y = [Idle EXCEPT !.pc = "connect", !.user = u, !.op = op, !.arg = a,
                        !.allowed = schema_tables(access[u], QUERY_ACTION(op), registry)]
  OBVIOUS
<1>4. /\ DOMAIN y = Fields /\ y.pc = "connect" /\ y.user = u /\ y.op = op /\ y.arg = a
      /\ y.allowed = schema_tables(access[u], QUERY_ACTION(op), registry)
      /\ y.ans = NoAnswer
  BY <1>3 DEF Idle, Fields
<1>5. op = "template" => a \in DOMAIN Templates
  BY DEF Arguments
<1>6. op = "export" => a \in DOMAIN runs
  BY DEF Arguments
<1>7. y.ans.kind = "none"
  BY <1>4 DEF NoAnswer
<1>8. Argued(y, runs) /\ Bounded(y) /\ Opened(y, access, registry) /\ Recorded(y, runs)
      /\ Answered(y, runs, audit)
  BY <1>4, <1>5, <1>6, <1>7 DEF Argued, Bounded, Opened, Recorded, Answered, Underway, Executing
<1>9. SessionInv(y, access, registry, runs, audit)
  BY <1>4, <1>8 DEF SessionInv
<1>10. UNCHANGED <<access, registry, runs, audit>>
  BY DEF Arrive
<1> QED
  BY <1>2, <1>3, <1>9, <1>10, OneSessionOnly

\* What generation is shown is open to the user.
LEMMA PrepareKeeps ==
    ASSUME PipelineInv, NEW s \in Sessions, Prepare(s) PROVE PipelineInv'
<1>1. PICK x : x = ses[s] /\ SessionInv(x, access, registry, runs, audit)
  BY DEF PipelineInv
<1>2. PICK shown : shown = IF x.op = "template" /\ Templates[x.arg].sql # None
                   THEN schema_tables(access[x.user], QUERY_ACTION(x.op), registry)
                        \cap Templates[x.arg].sql.tables
                   ELSE schema_tables(access[x.user], QUERY_ACTION(x.op), registry)
  OBVIOUS
<1>3. PICK y : y = [x EXCEPT !.pc = "generate", !.ctx = access[x.user], !.shown = shown]
  OBVIOUS
<1>4. Become(s, y) /\ x.pc = "prepare" /\ UNCHANGED <<access, registry, runs, audit>>
  BY <1>1, <1>2, <1>3 DEF Prepare
<1>5. /\ DOMAIN y = Fields /\ y.pc = "generate" /\ y.user = x.user /\ y.op = x.op
      /\ y.arg = x.arg /\ y.ans = x.ans /\ y.allowed = x.allowed /\ y.shown = shown
      /\ y.override = x.override
  BY <1>1, <1>3 DEF SessionInv, Fields
<1>6. shown \subseteq x.allowed
  BY <1>1, <1>2, <1>4 DEF SessionInv, Opened, Underway
<1>7. Argued(y, runs) /\ Bounded(y) /\ Opened(y, access, registry) /\ Recorded(y, runs)
      /\ Answered(y, runs, audit)
  BY <1>1, <1>4, <1>5, <1>6
     DEF SessionInv, Argued, Bounded, Opened, Recorded, Answered, Underway, Executing
<1>8. SessionInv(y, access, registry, runs, audit)
  BY <1>5, <1>7 DEF SessionInv
<1> QED
  BY <1>4, <1>8, OneSessionOnly

\* SQL that passes validation is open to the user, and its bound is told.
LEMMA GenerateKeeps ==
    ASSUME Setting, PipelineInv, NEW s \in Sessions, Generate(s) PROVE PipelineInv'
<1>1. PICK x : x = ses[s] /\ SessionInv(x, access, registry, runs, audit)
  BY DEF PipelineInv
<1>2. x.pc = "generate" /\ UNCHANGED <<access, registry, runs, audit>>
  BY <1>1 DEF Generate
<1>3. PICK sql \in IF x.op = "free" THEN RenderedSQL ELSE {Templates[x.arg].sql} \ {None} :
          LET final == Corrected(x.op, sql, x.shown)
          IN  IF Valid(final, x.shown)
              THEN Validated(s, final, _apply_limit(final.limit), final.limit)
              ELSE Fail(s)
  BY <1>1, Zenon DEF Generate
<1>4. PICK final : final = Corrected(x.op, sql, x.shown)
  OBVIOUS
<1>5. CASE ~ Valid(final, x.shown)
  BY <1>1, <1>2, <1>3, <1>4, <1>5, FailKeeps DEF Underway
<1>6. x.op \in {"free", "template"}
  BY <1>1, <1>2 DEF SessionInv, Argued, Underway, RunOps
<1>7. CASE Valid(final, x.shown)
  <2>1. sql \in SQLText
    BY <1>1, <1>2, <1>3, <1>6 DEF Setting, SessionInv, Argued, Underway
  <2>2. final \in SQLText
    BY <1>4, <2>1 DEF Corrected, SQLText
  <2>3. PICK bound : bound = _apply_limit(final.limit)
    OBVIOUS
  <2>4. final.tables \subseteq x.shown /\ bound.valid
    BY <1>7, <2>3 DEF Valid
  <2>5. PICK left : left = [tables |-> final.tables, limit |-> bound.effective, star |-> FALSE]
    OBVIOUS
  <2>6. Told(left, bound, final.limit)
    BY <2>2, <2>3, <2>4, <2>5, NewBound
  <2>7. left \in SQLText /\ left.tables = final.tables
    BY <2>2, <2>5, <2>6 DEF Told, SQLText
  <2>8. PICK y : y = [x EXCEPT !.pc = "load", !.asked = final.limit, !.bound = bound,
                         !.sql = left, !.queryable = Tables_of(registry)]
    OBVIOUS
  <2>9. Become(s, y)
    BY <1>1, <1>3, <1>4, <1>7, <2>3, <2>5, <2>8 DEF Validated
  <2>10. /\ DOMAIN y = Fields /\ y.pc = "load" /\ y.user = x.user /\ y.op = x.op
         /\ y.arg = x.arg /\ y.ans = x.ans /\ y.allowed = x.allowed /\ y.override = x.override
         /\ y.sql = left /\ y.bound = bound /\ y.asked = final.limit
         /\ y.queryable = Tables_of(registry)
    BY <1>1, <2>8 DEF SessionInv, Fields
  <2>11. Bounded(y)
    BY <2>6, <2>7, <2>10 DEF Bounded
  <2>12. Opened(y, access, registry)
    BY <1>1, <1>2, <2>4, <2>7, <2>10 DEF SessionInv, Opened, Underway
  <2>13. Argued(y, runs) /\ Recorded(y, runs) /\ Answered(y, runs, audit)
    BY <1>1, <1>2, <2>10 DEF SessionInv, Argued, Recorded, Answered, Underway
  <2>14. SessionInv(y, access, registry, runs, audit)
    BY <2>10, <2>11, <2>12, <2>13 DEF SessionInv
  <2> QED
    BY <1>2, <2>9, <2>14, OneSessionOnly
<1> QED
  BY <1>5, <1>7

\* The run a refresh or an export starts from is a stored success.
LEMMA SourceIsStored ==
    ASSUME PipelineInv, NEW s \in Sessions, Underway(ses[s]), SourceRun(s) # 0
    PROVE  SourceRun(s) \in DOMAIN runs /\ runs[SourceRun(s)].status = "succeeded"
<1>1. PICK x : x = ses[s] /\ SessionInv(x, access, registry, runs, audit)
  BY DEF PipelineInv
<1>2. CASE x.op = "export"
  BY <1>1, <1>2 DEF SourceRun, SessionInv, Argued, Underway
<1>3. CASE x.op # "export"
  <2>1. PICK ok : ok = {r \in DOMAIN runs : runs[r].saved = x.arg /\ runs[r].status = "succeeded"}
    OBVIOUS
  <2>2. SourceRun(s) = IF ok = {} THEN 0 ELSE Max(ok)
    BY <1>1, <1>3, <2>1 DEF SourceRun, Latest
  <2>3. PICK n \in Nat : DOMAIN runs = 1 .. n
    BY DEF PipelineInv, StoreInv, IsSeq
  <2>4. Max(ok) \in ok
    BY <2>1, <2>2, <2>3, GreatestNatural
  <2> QED
    BY <2>1, <2>2, <2>4
<1> QED
  BY <1>2, <1>3

\* Stored SQL is executed again only where it is open to its caller now.
LEMMA StoredKeeps ==
    ASSUME Setting, PipelineInv, NEW s \in Sessions, ExecuteStored(s) PROVE PipelineInv'
<1>1. PICK x : x = ses[s] /\ SessionInv(x, access, registry, runs, audit)
  BY DEF PipelineInv
<1>2. x.pc = "route" /\ x.op \notin RunOps /\ UNCHANGED <<access, registry, runs, audit>>
  BY <1>1 DEF ExecuteStored
<1>3. PICK src : src = SourceRun(s)
  OBVIOUS
<1>4. PICK ctx : ctx = access[x.user]
  OBVIOUS
<1>5. PICK run : run = runs[src]
  OBVIOUS
<1>6. PICK y : y = [x EXCEPT !.pc = "load", !.ctx = ctx, !.run = src,
                       !.sql = run.sql, !.asked = run.asked,
                       !.bound = restore_saved_bound(_apply_limit(run.sql.limit), run.bound),
                       !.override = Restricted(run.tables) # {},
                       !.queryable = Tables_of(registry)]
  OBVIOUS
<1>7. \/ src # 0 /\ StillValid(ctx, run) /\ Become(s, y)
      \/ Refuse(s)
  BY <1>1, <1>3, <1>4, <1>5, <1>6, Zenon DEF ExecuteStored
<1>8. CASE Refuse(s)
  BY <1>2, <1>8, RefuseKeeps
<1>9. CASE src # 0 /\ StillValid(ctx, run) /\ Become(s, y)
  <2>1. src \in DOMAIN runs /\ run.status = "succeeded"
    BY <1>1, <1>2, <1>3, <1>5, <1>9, SourceIsStored DEF Underway
  <2>2. run.sql \in SQLText /\ Told(run.sql, run.bound, run.asked)
    BY <1>5, <2>1 DEF PipelineInv, StoreInv, StoredRun
  <2>3. PICK bound : bound = restore_saved_bound(_apply_limit(run.sql.limit), run.bound)
    OBVIOUS
  <2>4. Told(run.sql, bound, run.asked)
    BY <2>2, <2>3, RestoredBound
  <2>5. run.sql.tables \subseteq schema_tables(access[x.user], "query_scoped_data", registry)
    BY <1>4, <1>9 DEF StillValid, Valid
  <2>6. QUERY_ACTION(x.op) = "query_scoped_data"
    BY <1>2 DEF QUERY_ACTION, RunOps
  <2>7. /\ DOMAIN y = Fields /\ y.pc = "load" /\ y.user = x.user /\ y.op = x.op
        /\ y.arg = x.arg /\ y.ans = x.ans /\ y.allowed = x.allowed
        /\ y.sql = run.sql /\ y.bound = bound /\ y.asked = run.asked
        /\ y.queryable = Tables_of(registry)
    BY <1>1, <1>6, <2>3 DEF SessionInv, Fields
  <2>8. Bounded(y)
    BY <2>2, <2>4, <2>7 DEF Bounded
  <2>9. Opened(y, access, registry)
    BY <1>1, <1>2, <2>5, <2>6, <2>7 DEF SessionInv, Opened, Underway
  <2>10. Argued(y, runs) /\ Recorded(y, runs)
    BY <1>1, <1>2, <2>7 DEF SessionInv, Argued, Recorded, Underway
  <2>11. Answered(y, runs, audit)
    BY <1>1, <1>2, <2>7 DEF SessionInv, Argued, Answered, Underway
  <2>12. SessionInv(y, access, registry, runs, audit)
    BY <2>7, <2>8, <2>9, <2>10, <2>11 DEF SessionInv
  <2> QED
    BY <1>2, <1>9, <2>12, OneSessionOnly
<1> QED
  BY <1>7, <1>8, <1>9

\* Execution that finds no error finds every table queryable.
LEMMA QueryableNow ==
    ASSUME NEW ctx, NEW action, NEW tables \in SUBSET Nat,
           execution_error(ctx, action, registry, tables) = "none"
    PROVE  tables \subseteq Tables_of(registry)
<1>1. PICK bad : bad = {t \in tables : resource_error(ctx, action, registry, t) # "none"}
  OBVIOUS
<1>2. bad = {}
  <2>1. SUFFICES ASSUME bad # {} PROVE FALSE
    OBVIOUS
  <2>2. PICK first : first = CHOOSE t \in bad : \A o \in bad : t <= o
    OBVIOUS
  <2>3. first \in bad
    BY <1>1, <2>1, <2>2, LeastNatural
  <2>4. execution_error(ctx, action, registry, tables)
          = resource_error(ctx, action, registry, first)
    BY <1>1, <2>1, <2>2 DEF execution_error
  <2> QED
    BY <1>1, <2>3, <2>4
<1>3. \A t \in tables : resource_error(ctx, action, registry, t) = "none"
  BY <1>1, <1>2
<1>4. \A t \in tables : t \in DOMAIN registry /\ registry[t].queryable
  BY <1>3 DEF resource_error
<1> QED
  BY <1>4 DEF Tables_of

\* The second reading of the registry keeps withdrawn tables out.
LEMMA LoadKeeps ==
    ASSUME PipelineInv, NEW s \in Sessions, LoadResources(s) PROVE PipelineInv'
<1>1. PICK x : x = ses[s] /\ SessionInv(x, access, registry, runs, audit)
  BY DEF PipelineInv
<1>2. x.pc = "load" /\ UNCHANGED <<access, registry, runs, audit>>
  BY <1>1 DEF LoadResources
<1>3. CASE Fail(s)
  BY <1>1, <1>2, <1>3, FailKeeps DEF Underway
<1>4. CASE ~ Fail(s)
  <2>1. /\ execution_error(x.ctx, QUERY_ACTION(x.op), registry, x.sql.tables) = "none"
        /\ Goto(s, "runtime")
    BY <1>1, <1>4 DEF LoadResources
  <2>2. x.sql \in SQLText
    BY <1>1, <1>2 DEF SessionInv, Bounded, Executing
  <2>3. x.sql.tables \in SUBSET Nat
    BY <2>2 DEF SQLText
  <2>4. x.sql.tables \subseteq x.queryable
    BY <1>1, <1>2, <2>1, <2>3, QueryableNow DEF SessionInv, Opened, Executing
  <2>5. PICK y : y = [x EXCEPT !.pc = "runtime"]
    OBVIOUS
  <2>6. /\ DOMAIN y = Fields /\ y.pc = "runtime" /\ y.user = x.user /\ y.op = x.op
        /\ y.arg = x.arg /\ y.shown = x.shown /\ y.sql = x.sql /\ y.asked = x.asked
        /\ y.bound = x.bound /\ y.override = x.override /\ y.res = x.res /\ y.run = x.run
        /\ y.ans = x.ans /\ y.allowed = x.allowed /\ y.queryable = x.queryable
    BY <1>1, <2>5, GotoFields DEF SessionInv
  <2>7. Argued(y, runs) /\ Bounded(y) /\ Recorded(y, runs) /\ Answered(y, runs, audit)
    BY <1>1, <1>2, <2>6
       DEF SessionInv, Argued, Bounded, Recorded, Answered, Underway, Executing
  <2>8. Opened(y, access, registry)
    BY <1>1, <1>2, <2>4, <2>6 DEF SessionInv, Opened, Underway, Executing
  <2>9. SessionInv(y, access, registry, runs, audit) /\ Become(s, y)
    BY <1>1, <2>1, <2>5, <2>6, <2>7, <2>8 DEF SessionInv, Goto
  <2> QED
    BY <1>2, <2>9, OneSessionOnly
<1> QED
  BY <1>3, <1>4

\* The connection it executes on changes nothing about what is executed.
LEMMA RuntimeKeeps ==
    ASSUME PipelineInv, NEW s \in Sessions, OpenRuntime(s) PROVE PipelineInv'
<1>1. PICK x : x = ses[s] /\ SessionInv(x, access, registry, runs, audit)
  BY DEF PipelineInv
<1>2. x.pc = "runtime" /\ Goto(s, "execute") /\ UNCHANGED <<access, registry, runs, audit>>
  BY <1>1 DEF OpenRuntime
<1>3. PICK y : y = [x EXCEPT !.pc = "execute"]
  OBVIOUS
<1>4. /\ DOMAIN y = Fields /\ y.pc = "execute" /\ y.user = x.user /\ y.op = x.op
      /\ y.arg = x.arg /\ y.shown = x.shown /\ y.sql = x.sql /\ y.asked = x.asked
      /\ y.bound = x.bound /\ y.override = x.override /\ y.res = x.res /\ y.run = x.run
      /\ y.ans = x.ans /\ y.allowed = x.allowed /\ y.queryable = x.queryable
  BY <1>1, <1>3, GotoFields DEF SessionInv
<1>5. Argued(y, runs) /\ Bounded(y) /\ Recorded(y, runs) /\ Answered(y, runs, audit)
  BY <1>1, <1>2, <1>4 DEF SessionInv, Argued, Bounded, Recorded, Answered, Underway, Executing
<1>6. Opened(y, access, registry)
  BY <1>1, <1>2, <1>4 DEF SessionInv, Opened, Underway, Executing
<1>7. SessionInv(y, access, registry, runs, audit) /\ Become(s, y)
  BY <1>1, <1>2, <1>3, <1>4, <1>5, <1>6 DEF SessionInv, Goto
<1> QED
  BY <1>2, <1>7, OneSessionOnly

\* The result of an execution is honest.
LEMMA ExecuteKeeps ==
    ASSUME Setting, PipelineInv, NEW s \in Sessions, Execute(s) PROVE PipelineInv'
<1>1. PICK x : x = ses[s] /\ SessionInv(x, access, registry, runs, audit)
  BY DEF PipelineInv
<1>2. x.pc = "execute" /\ UNCHANGED <<access, registry, runs, audit>>
  BY <1>1 DEF Execute
<1>3. PICK limit \in Nat : limit = RowLimit(x.op)
  BY DEF RowLimit, CARD_REFRESH_ROW_LIMIT, EXPORT_ROW_LIMIT, DEFAULT_ROW_LIMIT
<1>4. PICK total \in Totals :
          LET got == Fetched(total, x.bound, limit, NoLimit)
          IN  Become(s, [x EXCEPT !.pc = "persist",
                  !.res = [rows |-> got.rows, total |-> total,
                           completeness |-> completeness(x.bound, got)]])
  BY <1>1, <1>3 DEF Execute
<1>5. PICK got : got = Fetched(total, x.bound, limit, NoLimit)
  OBVIOUS
<1>6. PICK res : res = [rows |-> got.rows, total |-> total,
                        completeness |-> completeness(x.bound, got)]
  OBVIOUS
<1>7. PICK y : y = [x EXCEPT !.pc = "persist", !.res = res]
  OBVIOUS
<1>8. Become(s, y)
  BY <1>4, <1>5, <1>6, <1>7
<1>9. x.sql \in SQLText /\ Told(x.sql, x.bound, x.asked)
  BY <1>1, <1>2 DEF SessionInv, Bounded, Executing
<1>10. total \in Nat
  BY DEF Setting
<1>11. /\ got.rows \in Nat /\ completeness(x.bound, got) \in Verdict
       /\ Honest(got.rows, total, completeness(x.bound, got), x.asked)
  BY <1>5, <1>9, <1>10, HonestFetch
<1>12. res \in Result /\ Honest(res.rows, res.total, res.completeness, x.asked)
  BY <1>6, <1>10, <1>11 DEF Result
<1>13. /\ DOMAIN y = Fields /\ y.pc = "persist" /\ y.user = x.user /\ y.op = x.op
       /\ y.arg = x.arg /\ y.sql = x.sql /\ y.asked = x.asked
       /\ y.bound = x.bound /\ y.override = x.override /\ y.res = res
       /\ y.ans = x.ans /\ y.allowed = x.allowed
  BY <1>1, <1>7 DEF SessionInv, Fields
<1>14. Bounded(y)
  BY <1>9, <1>12, <1>13 DEF Bounded
<1>15. Argued(y, runs) /\ Recorded(y, runs) /\ Answered(y, runs, audit)
       /\ Opened(y, access, registry)
  BY <1>1, <1>2, <1>13 DEF SessionInv, Argued, Opened, Recorded, Answered, Underway, Executing
<1>16. SessionInv(y, access, registry, runs, audit)
  BY <1>13, <1>14, <1>15 DEF SessionInv
<1> QED
  BY <1>2, <1>8, <1>16, OneSessionOnly

\* A row is an honest record of its session.
LEMMA RowOfSession ==
    ASSUME NEW s \in Sessions, NEW x, x = ses[s], Bounded(x), x.pc = "persist",
           NEW row, row = Row(s)
    PROVE  /\ StoredRun(row)
           /\ row.user = x.user /\ row.rows = RowsOf(x.res)
           /\ row.completeness = VerdictOf(x.res)
<1>1. /\ DOMAIN row = RunFields /\ row.user = x.user
      /\ row.status = (IF x.res = None THEN "failed" ELSE "succeeded")
      /\ row.sql = x.sql /\ row.bound = x.bound /\ row.asked = x.asked
      /\ row.rows = RowsOf(x.res) /\ row.completeness = VerdictOf(x.res)
      /\ row.total = (IF x.res = None THEN 0 ELSE x.res.total)
  BY DEF Row, RunFields, RowsOf, VerdictOf
<1>2. CASE x.res = None
  BY <1>1, <1>2 DEF StoredRun, Honest, VerdictOf
<1>3. CASE x.res # None
  BY <1>1, <1>3 DEF StoredRun, Honest, VerdictOf, RowsOf, Bounded
<1> QED
  BY <1>1, <1>2, <1>3

\* The commit stores it.
LEMMA PersistKeeps ==
    ASSUME PipelineInv, NEW s \in Sessions, Persist(s) PROVE PipelineInv'
<1>1. PICK x : x = ses[s] /\ SessionInv(x, access, registry, runs, audit)
  BY DEF PipelineInv
<1>2. PICK row : row = Row(s)
  OBVIOUS
<1>3. PICK y : y = [x EXCEPT !.pc = "reload", !.run = Len(runs) + 1]
  OBVIOUS
<1>4. /\ x.pc = "persist" /\ runs' = Append(runs, row) /\ Become(s, y)
      /\ UNCHANGED <<access, registry, audit>>
  BY <1>1, <1>2, <1>3 DEF Persist
<1>5. /\ IsSeq(runs') /\ Len(runs) + 1 \in DOMAIN runs' /\ runs'[Len(runs) + 1] = row
      /\ DOMAIN runs \subseteq DOMAIN runs' /\ \A i \in DOMAIN runs : runs'[i] = runs[i]
      /\ DOMAIN runs' = DOMAIN runs \cup {Len(runs) + 1}
  <2>1. Longer(runs', runs, row)
    BY <1>4, Appended DEF PipelineInv, StoreInv
  <2> QED BY <2>1 DEF Longer
<1>6. /\ StoredRun(row) /\ row.user = x.user /\ row.rows = RowsOf(x.res)
      /\ row.completeness = VerdictOf(x.res)
  BY <1>1, <1>2, <1>4, RowOfSession DEF SessionInv
<1>7. StoreInv(runs', audit') /\ RunsKept(runs, runs') /\ AuditKept(audit, audit')
  BY <1>4, <1>5, <1>6 DEF PipelineInv, StoreInv, RunsKept, AuditKept
<1>8. SessionInv(x, access, registry, runs', audit')
  BY <1>1, <1>7, SessionKept
<1>9. /\ DOMAIN y = Fields /\ y.pc = "reload" /\ y.user = x.user /\ y.op = x.op
      /\ y.arg = x.arg /\ y.ans = x.ans /\ y.allowed = x.allowed /\ y.override = x.override
      /\ y.res = x.res /\ y.run = Len(runs) + 1
  BY <1>1, <1>3 DEF SessionInv, Fields
<1>10. Recorded(y, runs')
  BY <1>5, <1>6, <1>9 DEF Recorded
<1>11. Argued(y, runs') /\ Bounded(y) /\ Opened(y, access, registry) /\ Answered(y, runs', audit')
  BY <1>4, <1>8, <1>9 DEF SessionInv, Argued, Bounded, Opened, Answered, Underway, Executing
<1>12. SessionInv(y, access, registry, runs', audit')
  BY <1>9, <1>10, <1>11 DEF SessionInv
<1> QED
  BY <1>4, <1>7, <1>12, OneSession

\* A result is told as it was stored.
LEMMA ReloadKeeps ==
    ASSUME PipelineInv, NEW s \in Sessions, Reload(s) PROVE PipelineInv'
<1>1. PICK x : x = ses[s] /\ SessionInv(x, access, registry, runs, audit)
  BY DEF PipelineInv
<1>2. PICK ans : ans = [NoAnswer EXCEPT !.kind = "result", !.run = x.run,
                          !.rows = IF x.res = None THEN 0 ELSE x.res.rows,
                          !.completeness = IF x.res = None THEN "unknown"
                                           ELSE x.res.completeness]
  OBVIOUS
<1>3. PICK y : y = [x EXCEPT !.pc = "done", !.ans = ans]
  OBVIOUS
<1>4. x.pc = "reload" /\ Become(s, y) /\ UNCHANGED <<access, registry, runs, audit>>
  BY <1>1, <1>2, <1>3 DEF Reload, Answer
<1>5. /\ ans.kind = "result" /\ ans.run = x.run /\ ans.rows = RowsOf(x.res)
      /\ ans.completeness = VerdictOf(x.res)
  BY <1>2 DEF NoAnswer, RowsOf, VerdictOf
<1>6. DOMAIN y = Fields /\ y.pc = "done" /\ y.user = x.user /\ y.ans = ans
  BY <1>1, <1>3 DEF SessionInv, Fields
<1>7. Answered(y, runs, audit)
  BY <1>1, <1>4, <1>5, <1>6 DEF SessionInv, Recorded, Answered
<1>8. Argued(y, runs) /\ Bounded(y) /\ Opened(y, access, registry) /\ Recorded(y, runs)
  BY <1>6 DEF Argued, Bounded, Opened, Recorded, Underway, Executing
<1>9. SessionInv(y, access, registry, runs, audit)
  BY <1>6, <1>7, <1>8 DEF SessionInv
<1> QED
  BY <1>4, <1>9, OneSessionOnly

\* A CSV is sent after its audit row, which says what is in it.
LEMMA ExportKeeps ==
    ASSUME PipelineInv, NEW s \in Sessions, Export(s) PROVE PipelineInv'
<1>1. PICK x : x = ses[s] /\ SessionInv(x, access, registry, runs, audit)
  BY DEF PipelineInv
<1>2. PICK row : row = [run |-> x.run, rows |-> x.res.rows,
                        completeness |-> x.res.completeness,
                        tables |-> x.sql.tables, override |-> x.override]
  OBVIOUS
<1>3. PICK ans : ans = [kind |-> "csv", run |-> x.run, rows |-> x.res.rows,
                        completeness |-> x.res.completeness, audit |-> Len(audit) + 1]
  OBVIOUS
<1>4. PICK y : y = [x EXCEPT !.pc = "done", !.ans = ans]
  OBVIOUS
<1>5. /\ audit' = Append(audit, row) /\ Become(s, y) /\ UNCHANGED <<access, registry, runs>>
  BY <1>1, <1>2, <1>3, <1>4 DEF Export, Answer
<1>6. /\ IsSeq(audit') /\ Len(audit) + 1 \in DOMAIN audit' /\ audit'[Len(audit) + 1] = row
      /\ DOMAIN audit \subseteq DOMAIN audit' /\ \A i \in DOMAIN audit : audit'[i] = audit[i]
  <2>1. Longer(audit', audit, row)
    BY <1>5, Appended DEF PipelineInv, StoreInv
  <2> QED BY <2>1 DEF Longer
<1>7. StoreInv(runs', audit') /\ RunsKept(runs, runs') /\ AuditKept(audit, audit')
  BY <1>5, <1>6 DEF PipelineInv, StoreInv, RunsKept, AuditKept
<1>8. DOMAIN y = Fields /\ y.pc = "done" /\ y.ans = ans /\ y.override = x.override
  BY <1>1, <1>4 DEF SessionInv, Fields
<1>9. Answered(y, runs', audit')
  BY <1>2, <1>3, <1>6, <1>8 DEF Answered
<1>10. Argued(y, runs') /\ Bounded(y) /\ Opened(y, access, registry) /\ Recorded(y, runs')
  BY <1>8 DEF Argued, Bounded, Opened, Recorded, Underway, Executing
<1>11. SessionInv(y, access, registry, runs', audit')
  BY <1>8, <1>9, <1>10 DEF SessionInv
<1> QED
  BY <1>5, <1>7, <1>11, OneSession

\* An idle session
LEMMA IdleInv ==
    ASSUME NEW acc, NEW reg, NEW rs, NEW au PROVE SessionInv(Idle, acc, reg, rs, au)
<1>1. DOMAIN Idle = Fields /\ Idle.pc = "idle" /\ Idle.ans = NoAnswer
  BY DEF Idle, Fields
<1>2. NoAnswer.kind = "none"
  BY DEF NoAnswer
<1> QED
  BY <1>1, <1>2
     DEF SessionInv, Argued, Bounded, Opened, Recorded, Answered, Underway, Executing

\* A handler that has answered leaves.
LEMMA LeaveKeeps ==
    ASSUME PipelineInv, NEW s \in Sessions, Leave(s) PROVE PipelineInv'
<1>1. Become(s, Idle) /\ UNCHANGED <<access, registry, runs, audit>>
  BY DEF Leave
<1> QED
  BY <1>1, IdleInv, OneSessionOnly

\* A card is saved of a run, and the run says the rest as before.
LEMMA SaveCardKeeps ==
    ASSUME PipelineInv, NEW r \in DOMAIN runs, SaveCard(r) PROVE PipelineInv'
<1>1. PICK run : run = runs[r] /\ StoredRun(run)
  BY DEF PipelineInv, StoreInv
<1>2. PICK card : card = [run EXCEPT !.saved = r]
  OBVIOUS
<1>3. runs' = [runs EXCEPT ![r] = card] /\ UNCHANGED <<access, registry, audit, ses>>
  BY <1>1, <1>2 DEF SaveCard
<1>4. /\ DOMAIN card = RunFields /\ card.user = run.user /\ card.status = run.status
      /\ card.sql = run.sql /\ card.bound = run.bound /\ card.asked = run.asked
      /\ card.rows = run.rows /\ card.total = run.total
      /\ card.completeness = run.completeness
  BY <1>1, <1>2 DEF StoredRun, RunFields
<1>5. StoredRun(card)
  BY <1>1, <1>4 DEF StoredRun
<1>6. IsSeq(runs')
  <2>1. PICK S : runs \in Seq(S)
    BY DEF PipelineInv, StoreInv, IsSeq
  <2>2. PICK T : T = S \cup {card}
    OBVIOUS
  <2>3. runs \in Seq(T) /\ card \in T
    BY <2>1, <2>2
  <2>4. runs' \in Seq(T)
    BY <1>3, <2>3
  <2> QED
    BY <2>4 DEF IsSeq
<1>7. DOMAIN runs' = DOMAIN runs /\ \A q \in DOMAIN runs : runs'[q] = IF q = r THEN card ELSE runs[q]
  BY <1>3
<1>8. StoreInv(runs', audit') /\ RunsKept(runs, runs') /\ AuditKept(audit, audit')
  BY <1>1, <1>3, <1>4, <1>5, <1>6, <1>7 DEF PipelineInv, StoreInv, RunsKept, AuditKept
<1>9. \A t \in Sessions : SessionInv(ses[t], access, registry, runs', audit')
  BY <1>8, SessionKept DEF PipelineInv
<1> QED
  BY <1>3, <1>8, <1>9 DEF PipelineInv

\* A change of access or of the registry opens to the sessions under way what it
\* opens, and they remember the rest.
LEMMA RememberKeeps ==
    ASSUME PipelineInv, NEW acc, NEW reg, access' = acc, registry' = reg,
           Remember(acc, reg), UNCHANGED <<runs, audit>>
    PROVE  PipelineInv'
<1>1. ASSUME NEW t \in Sessions PROVE SessionInv(ses'[t], acc, reg, runs, audit)
  <2>1. PICK x : x = ses[t] /\ SessionInv(x, access, registry, runs, audit)
    BY DEF PipelineInv
  <2>2. CASE x.pc \in {"idle", "done"}
    <3>1. ses'[t] = x
      BY <2>1, <2>2 DEF Remember
    <3>2. Opened(x, acc, reg)
      BY <2>2 DEF Opened, Underway, Executing
    <3> QED
      BY <2>1, <3>1, <3>2 DEF SessionInv
  <2>3. CASE x.pc \notin {"idle", "done"}
    <3>1. PICK y : y = [x EXCEPT
              !.allowed = x.allowed \cup schema_tables(acc[x.user], QUERY_ACTION(x.op), reg),
              !.queryable = x.queryable \cup Tables_of(reg)]
      OBVIOUS
    <3>2. ses'[t] = y
      BY <2>1, <2>3, <3>1 DEF Remember
    <3>3. /\ DOMAIN y = Fields /\ y.pc = x.pc /\ y.user = x.user /\ y.op = x.op
          /\ y.arg = x.arg /\ y.shown = x.shown /\ y.sql = x.sql /\ y.asked = x.asked
          /\ y.bound = x.bound /\ y.override = x.override /\ y.res = x.res
          /\ y.run = x.run /\ y.ans = x.ans
          /\ y.allowed = x.allowed \cup schema_tables(acc[x.user], QUERY_ACTION(x.op), reg)
          /\ y.queryable = x.queryable \cup Tables_of(reg)
      BY <2>1, <3>1 DEF SessionInv, Fields
    <3>4. Argued(y, runs) /\ Bounded(y) /\ Recorded(y, runs) /\ Answered(y, runs, audit)
      BY <2>1, <3>3 DEF SessionInv, Argued, Bounded, Recorded, Answered, Underway, Executing
    <3>5. Opened(y, acc, reg)
      BY <2>1, <3>3 DEF SessionInv, Opened, Underway, Executing
    <3> QED
      BY <3>2, <3>3, <3>4, <3>5 DEF SessionInv
  <2> QED
    BY <2>2, <2>3
<1>2. DOMAIN ses' = Sessions
  BY DEF Remember
<1> QED
  BY <1>1, <1>2 DEF PipelineInv

\* The pipeline starts with nothing stored and nobody in it.
LEMMA PipelineInvInit ==
    ASSUME Init PROVE PipelineInv
<1>1. DOMAIN ses = Sessions /\ \A s \in Sessions : ses[s] = Idle
  BY DEF Init
<1>2. \A s \in Sessions : SessionInv(ses[s], access, registry, runs, audit)
  BY <1>1, IdleInv
<1>3. runs \in Seq({}) /\ audit \in Seq({}) /\ DOMAIN runs = {}
  BY DEF Init
<1>4. StoreInv(runs, audit)
  BY <1>3 DEF StoreInv, IsSeq
<1> QED
  BY <1>1, <1>2, <1>4 DEF PipelineInv

\* A step of a handler keeps the invariant.
LEMMA StepKeeps ==
    ASSUME Setting, PipelineInv, NEW s \in Sessions, Step(s) PROVE PipelineInv'
<1>1. CASE Connect(s)
  BY <1>1, GotoKeeps DEF Connect, Underway
<1>2. CASE PoolTimeout(s)
  <2>1. PICK ans : ans = [NoAnswer EXCEPT !.kind = "error"]
    OBVIOUS
  <2>2. ans.kind = "error" /\ Answer(s, ans) /\ UNCHANGED <<access, registry, runs, audit>>
    BY <1>2, <2>1, EmptyKinds DEF PoolTimeout
  <2> QED
    BY <2>2, EndsEmpty
<1>3. CASE Authorize(s)
  <2>1. /\ ses[s].pc = "route" /\ ses[s].op \in RunOps
        /\ Goto(s, "prepare") \/ Refuse(s)
        /\ UNCHANGED <<access, registry, runs, audit>>
    BY <1>3, Zenon DEF Authorize
  <2> QED
    BY <2>1, GotoKeeps, RefuseKeeps DEF Underway
<1>4. CASE Prepare(s)
  BY <1>4, PrepareKeeps
<1>5. CASE Generate(s)
  BY <1>5, GenerateKeeps
<1>6. CASE GenerateFails(s)
  BY <1>6, FailKeeps DEF GenerateFails, Underway
<1>7. CASE ExecuteStored(s)
  BY <1>7, StoredKeeps
<1>8. CASE LoadResources(s)
  BY <1>8, LoadKeeps
<1>9. CASE OpenRuntime(s)
  BY <1>9, RuntimeKeeps
<1>10. CASE RuntimeTimeout(s)
  BY <1>10, FailKeeps DEF RuntimeTimeout, Underway
<1>11. CASE Execute(s)
  BY <1>11, ExecuteKeeps
<1>12. CASE ExecuteFails(s)
  BY <1>12, FailKeeps DEF ExecuteFails, Underway
<1>13. CASE Persist(s)
  BY <1>13, PersistKeeps
<1>14. CASE Reload(s)
  BY <1>14, ReloadKeeps
<1>15. CASE ReloadTimeout(s) \/ CommitFails(s)
  <2>1. PICK kind : kind = IF ses[s].op \in RunOps /\ ses[s].res # None
                           THEN "not_persisted" ELSE "error"
    OBVIOUS
  <2>2. PICK ans : ans = [NoAnswer EXCEPT !.kind = kind]
    OBVIOUS
  <2>3. Answer(s, ans) /\ UNCHANGED <<access, registry, runs, audit>>
    BY <1>15, <2>1, <2>2 DEF ReloadTimeout, CommitFails, NotPersisted
  <2>4. ans.kind \notin {"result", "csv"}
    BY <2>1, <2>2, EmptyKinds
  <2> QED
    BY <2>3, <2>4, EndsEmpty
<1>16. CASE Export(s)
  BY <1>16, ExportKeeps
<1> QED
  BY <1>1, <1>2, <1>3, <1>4, <1>5, <1>6, <1>7, <1>8, <1>9, <1>10, <1>11, <1>12, <1>13,
     <1>14, <1>15, <1>16 DEF Step

\* Every step keeps it.
LEMMA PipelineInvNext ==
    ASSUME Setting, PipelineInv, [Next]_vars PROVE PipelineInv'
<1>1. CASE UNCHANGED vars
  BY <1>1 DEF vars, PipelineInv
<1>2. ASSUME NEW s \in Sessions, Arrive(s) PROVE PipelineInv'
  BY <1>2, ArriveKeeps
<1>3. ASSUME NEW s \in Sessions, Step(s) PROVE PipelineInv'
  BY <1>3, StepKeeps
<1>4. ASSUME NEW s \in Sessions, Crash(s) PROVE PipelineInv'
  <2>1. PICK ans : ans = [NoAnswer EXCEPT !.kind = "crashed"]
    OBVIOUS
  <2>2. ans.kind = "crashed" /\ Answer(s, ans) /\ UNCHANGED <<access, registry, runs, audit>>
    BY <1>4, <2>1, EmptyKinds DEF Crash
  <2> QED
    BY <2>2, EndsEmpty
<1>5. ASSUME NEW s \in Sessions, Leave(s) PROVE PipelineInv'
  BY <1>5, LeaveKeeps
<1>6. ASSUME NEW r \in DOMAIN runs, SaveCard(r) PROVE PipelineInv'
  BY <1>6, SaveCardKeeps
<1>7. CASE ChangeAccess
  <2>1. \E acc : access' = acc /\ Remember(acc, registry) /\ UNCHANGED <<registry, runs, audit>>
    BY <1>7 DEF ChangeAccess
  <2> QED BY <2>1, RememberKeeps
<1>8. CASE ChangeRegistry
  <2>1. \E reg : registry' = reg /\ Remember(access, reg) /\ UNCHANGED <<access, runs, audit>>
    BY <1>8 DEF ChangeRegistry
  <2> QED BY <2>1, RememberKeeps
<1> QED
  BY <1>1, <1>2, <1>3, <1>4, <1>5, <1>6, <1>7, <1>8 DEF Next

\* The invariant holds in every state of every pipeline.
THEOREM PipelineInvHolds ==
    ASSUME Setting PROVE Spec => []PipelineInv
<1>1. Init => PipelineInv
  BY PipelineInvInit
<1>2. PipelineInv /\ [Next]_vars => PipelineInv'
  BY PipelineInvNext
<1> QED
  BY <1>1, <1>2, PTL DEF Spec

\* A stored run that says "complete" has every row asked for, after any number of
\* refreshes of stored SQL (completeness, restore_saved_bound).
THEOREM CompletenessHolds ==
    ASSUME Setting PROVE Spec => []CompletenessHonest
BY PipelineInvHolds, PipelineInvGives, PTL

\* What a request was told is on record, and what left as CSV is in the audit
\* trail (service.py: run, exports.py).
THEOREM AnswersHold ==
    ASSUME Setting PROVE Spec => []AnswerMatchesRow
BY PipelineInvHolds, PipelineInvGives, PTL

\* Nobody reads a table that was closed to him, or withdrawn, all along
\* (sql_executor.py, card_refresh.py, exports.py).
THEOREM OpenTablesHold ==
    ASSUME Setting PROVE Spec => []OnlyOpenTablesRead
BY PipelineInvHolds, PipelineInvGives, PTL

-----------------------------------------------------------------------------
(* The access decision                                                     *)

\* The default scope is one of the user's.
LEMMA DefaultIsHeld ==
    ASSUME NEW ctx, Scoped(ctx), ctx.scopes # {} PROVE default_scope(ctx) \in ctx.scopes
<1>1. PICK best : best = {s \in ctx.scopes : (\E d \in ctx.scopes : d.default) => s.default}
  OBVIOUS
<1>2. best # {} /\ best \subseteq ctx.scopes
  BY <1>1
<1>3. \A s : TypeRank(s.type) \in Nat
  BY DEF TypeRank
<1>4. PICK ranks : ranks = {TypeRank(s.type) : s \in best}
  OBVIOUS
<1>5. PICK r \in ranks : \A q \in ranks : r <= q
  BY <1>2, <1>3, <1>4, LeastNatural
<1>6. PICK keys : keys = {s.key : s \in {s \in best : TypeRank(s.type) = r}}
  OBVIOUS
<1>7. keys # {} /\ keys \subseteq Nat
  BY <1>2, <1>4, <1>5, <1>6 DEF Scoped
<1>8. PICK k \in keys : \A j \in keys : k <= j
  BY <1>7, LeastNatural
<1>9. PICK s \in best : TypeRank(s.type) = r /\ s.key = k
  BY <1>6, <1>8
<1>10. ASSUME NEW o \in ctx.scopes \ {s} PROVE Before(s, o)
  <2>1. CASE s.default /\ ~ o.default
    BY <2>1 DEF Before
  <2>2. CASE ~ (s.default /\ ~ o.default)
    <3>1. s.default = o.default /\ o \in best
      BY <1>1, <1>2, <1>9, <2>2 DEF Scoped
    <3>2. TypeRank(o.type) \in ranks
      BY <1>4, <3>1
    <3>3. CASE r < TypeRank(o.type)
      BY <1>9, <3>1, <3>3 DEF Before
    <3>4. CASE ~ (r < TypeRank(o.type))
      <4>1. TypeRank(o.type) = r
        BY <1>3, <1>4, <1>5, <3>2, <3>4
      <4>2. o.type = s.type /\ o.key \in keys /\ o.key \in Nat /\ s.key \in Nat
        BY <1>2, <1>6, <1>9, <3>1, <4>1 DEF Scoped
      <4>3. s.key # o.key
        BY <1>2, <1>9, <4>2 DEF Scoped
      <4>4. s.key < o.key
        BY <1>8, <1>9, <4>2, <4>3
      <4> QED
        BY <3>1, <4>2, <4>4 DEF Before
    <3> QED
      BY <3>3, <3>4
  <2> QED
    BY <2>1, <2>2
<1> QED
  BY <1>2, <1>9, <1>10 DEF default_scope, first_scope

\* The key taken for a table's kind is that of a scope of the kind.
LEMMA KeyOfKind ==
    ASSUME None \notin Nat, NEW ctx, Scoped(ctx), ~ has_global_scope(ctx), NEW type,
           NEW key, key = scope_key_for_resource(ctx, type)
    PROVE  /\ key # None <=> \E s \in ctx.scopes : s.type = type
           /\ key # None => has_scope(ctx, type, key)
<1>1. PICK keys : keys = {s.key : s \in {s \in ctx.scopes : s.type = type}}
  OBVIOUS
<1>2. keys \subseteq Nat /\ \A k \in keys : has_scope(ctx, type, k) /\ k # None
  BY <1>1 DEF Scoped, has_scope
<1>3. CASE keys = {}
  <2>1. key = None
    BY <1>1, <1>3 DEF scope_key_for_resource
  <2> QED BY <1>1, <1>3, <2>1
<1>4. CASE keys # {} /\ default_scope(ctx).type = type
  <2>1. key = default_scope(ctx).key
    BY <1>1, <1>4 DEF scope_key_for_resource
  <2>2. default_scope(ctx) \in ctx.scopes
    BY <1>1, <1>4, DefaultIsHeld
  <2>3. key \in keys
    BY <1>1, <1>4, <2>1, <2>2
  <2> QED BY <1>1, <1>2, <2>3
<1>5. CASE keys # {} /\ default_scope(ctx).type # type
  <2>1. key = CHOOSE k \in keys : \A o \in keys : k <= o
    BY <1>1, <1>5 DEF scope_key_for_resource
  <2>2. key \in keys
    BY <1>2, <1>5, <2>1, LeastNatural
  <2> QED BY <1>1, <1>2, <2>2
<1> QED
  BY <1>3, <1>4, <1>5

\* One table: the user may query it if and only if he holds a scope of its kind.
LEMMA ResourceByHolding ==
    ASSUME None \notin Nat, NEW ctx, Scoped(ctx), NEW resource
    PROVE  ResourceAllowed(ctx, "query_scoped_data", resource) <=>
               /\ "can_query_scoped_data" \in ctx.permissions /\ resource.queryable
               /\ \/ resource.scope_type = ""
                  \/ \E s \in ctx.scopes : s.type \in {"global", resource.scope_type}
<1>1. PICK type : type = resource.scope_type
  OBVIOUS
<1>2. PICK key : key = IF type = "" THEN None ELSE scope_key_for_resource(ctx, type)
  OBVIOUS
<1>3. ResourceAllowed(ctx, "query_scoped_data", resource)
      <=> evaluate_access(ctx, "query_scoped_data", resource.queryable, type, key) \in Allowing
  BY <1>1, <1>2 DEF ResourceAllowed
<1>4. /\ "query_scoped_data" \in DOMAIN ACTION_REQUIRED_PERMISSIONS
      /\ ACTION_REQUIRED_PERMISSIONS["query_scoped_data"] = "can_query_scoped_data"
      /\ "query_scoped_data" \in QUERY_ACTIONS /\ "query_scoped_data" \in SCOPED_DATA_ACTIONS
      /\ "query_scoped_data" \notin EXACT_SCOPE_ACTIONS
  BY DEF ACTION_REQUIRED_PERMISSIONS, QUERY_ACTIONS, SCOPED_DATA_ACTIONS, EXACT_SCOPE_ACTIONS
<1>5. evaluate_access(ctx, "query_scoped_data", resource.queryable, type, key) \in Allowing
      <=> /\ "can_query_scoped_data" \in ctx.permissions /\ resource.queryable
          /\ \/ type = ""
             \/ /\ key # None
                /\ has_global_scope(ctx) \/ has_scope(ctx, type, key)
  BY <1>4 DEF evaluate_access, Allowing
<1>6. has_global_scope(ctx) <=> \E s \in ctx.scopes : s.type = "global"
  BY DEF has_global_scope, Scoped
<1>7. CASE has_global_scope(ctx)
  <2>1. type # "" => key = 0 /\ key # None
    <3>1. scope_key_for_resource(ctx, type) = 0
      BY <1>7, Zenon DEF scope_key_for_resource
    <3>2. 0 # None
      <4>1. 0 \in Nat
        OBVIOUS
      <4> QED BY <4>1, Zenon
    <3> QED BY <1>2, <3>1, <3>2, Zenon
  <2> QED BY <1>1, <1>3, <1>5, <1>6, <1>7, <2>1
<1>8. CASE ~ has_global_scope(ctx)
  <2>1. type # "" => /\ key # None <=> \E s \in ctx.scopes : s.type = type
                     /\ key # None => has_scope(ctx, type, key)
    BY <1>2, <1>8, KeyOfKind
  <2>2. \A s \in ctx.scopes : s.type # "global"
    BY <1>6, <1>8
  <2> QED BY <1>1, <1>3, <1>5, <1>8, <2>1, <2>2
<1> QED
  BY <1>7, <1>8

\* Holding decides, for every set of scopes, tables and departments.
LEMMA HoldingDecides ==
    ASSUME None \notin Nat, NEW ctx, Scoped(ctx), NEW resources, NEW departments
    PROVE  DecidedByHolding(ctx, resources, departments)
<1>1. \A resource \in resources :
          ResourceAllowed(ctx, "query_scoped_data", resource) <=>
               /\ "can_query_scoped_data" \in ctx.permissions /\ resource.queryable
               /\ \/ resource.scope_type = ""
                  \/ \E s \in ctx.scopes : s.type \in {"global", resource.scope_type}
  BY ResourceByHolding
<1>2. rls_departments(ctx, departments) # {} =>
          \E s \in ctx.scopes : s.type \in {"global", "department"}
  BY DEF rls_departments, has_global_scope
<1> QED
  BY <1>1, <1>2 DEF DecidedByHolding

\* Contexts stay what the loader makes them, whoever is given which.
ContextsScoped == DOMAIN access = Users /\ \A u \in Users : Scoped(access[u])

\* A change of access is a change to a context the loader makes; nothing else
\* writes the table.
LEMMA ContextsScopedStep ==
    ASSUME Setting, ContextsScoped, [Next]_vars PROVE ContextsScoped'
<1>1. CASE UNCHANGED access
  BY <1>1 DEF ContextsScoped, Scoped
<1>2. CASE ChangeAccess
  <2>1. PICK u \in Users, c \in AccessChoices : access' = [access EXCEPT ![u] = c]
    BY <1>2, Zenon DEF ChangeAccess
  <2>2. Scoped(c)
    BY DEF Setting
  <2> QED
    BY <2>1, <2>2 DEF ContextsScoped
<1>3. ASSUME NEW s \in Sessions, Arrive(s) \/ Step(s) \/ Crash(s) \/ Leave(s)
      PROVE  UNCHANGED access
  BY <1>3, Zenon DEF Arrive, Step, Crash, Leave, Connect, PoolTimeout, Authorize, Prepare,
         Generate, GenerateFails, ExecuteStored, LoadResources, OpenRuntime, RuntimeTimeout,
         Execute, ExecuteFails, Persist, Reload, ReloadTimeout, CommitFails, Export
<1>4. ASSUME NEW r \in DOMAIN runs, SaveCard(r) PROVE UNCHANGED access
  BY <1>4, Zenon DEF SaveCard
<1>5. CASE ChangeRegistry
  <2>1. UNCHANGED access
    BY <1>5, Zenon DEF ChangeRegistry
  <2> QED BY <2>1, <1>1
<1>6. CASE UNCHANGED vars
  BY <1>6, <1>1 DEF vars
<1> QED
  BY <1>1, <1>2, <1>3, <1>4, <1>5, <1>6 DEF Next

\* Holding decides whoever's access changes and however: for every set of users,
\* scopes, tables and departments (_scope_key_for_resource, evaluate_access,
\* build_rls_context).
THEOREM AccessHolds ==
    ASSUME Setting PROVE Spec => []AccessIsHolding
<1>1. Init => ContextsScoped
  BY DEF Init, ContextsScoped, Setting
<1>2. ContextsScoped /\ [Next]_vars => ContextsScoped'
  BY ContextsScopedStep
<1>3. ContextsScoped => AccessIsHolding
  <2>1. ASSUME ContextsScoped, NEW u \in Users
        PROVE  DecidedByHolding(access[u], {registry[t] : t \in DOMAIN registry}, Departments)
    <3>1. None \notin Nat /\ Scoped(access[u])
      BY <2>1 DEF Setting, ContextsScoped
    <3> QED BY <3>1, HoldingDecides
  <2> QED
    BY <2>1 DEF AccessIsHolding
<1> QED
  BY <1>1, <1>2, <1>3, PTL DEF Spec
=============================================================================
