---------------------------- MODULE QueryPipeline ----------------------------
(***************************************************************************)
(* Query runs from the request to the stored row: free and template        *)
(* queries (api/routes/queries.py, query_engine/service.py), refreshes of  *)
(* saved cards (query_engine/card_refresh.py) and CSV exports              *)
(* (api/routes/exports.py), over the connection pool of db/session.py.     *)
(*                                                                         *)
(* A handler keeps the connection of its request session from its first    *)
(* statement to its commit, the language-model call included, and needs a  *)
(* second one to re-read the registry and again to execute. Every commit   *)
(* expires the session's objects, so the stored run is loaded once more.   *)
(*                                                                         *)
(* SQL is a record of its tables, its LIMIT and whether it selects "*".    *)
(***************************************************************************)
EXTENDS DataAccess, QueryDelivery, Sequences

CONSTANTS Users, Sessions,
          Templates,          \* id -> [scope_type, sql]; sql is None without SQL
          RenderedSQL,        \* SQL that rendered plans may be
          Ops,                \* the endpoints in use
          InitialAccess, AccessChoices,       \* a context per user; contexts
          InitialRegistry, RegistryChoices,   \* registries
          Departments,        \* rows of the departments table
          Totals,             \* rows the data has for a query
          PoolSize, MaxRuns, MaxRequests

VARIABLES access, registry, runs, audit, ses, conns, requests

vars == <<access, registry, runs, audit, ses, conns, requests>>

SQLText == [tables : SUBSET Nat, limit : Nat \cup {NoLimit, BadLimit}, star : BOOLEAN]

Verdict == {"complete", "safety_limited", "unknown"}
Result == [rows : Nat, total : Nat, completeness : Verdict]

\* What is asked of the constants: SQL is SQL, rows are counted, and the markers
\* are none of the values they stand beside; access contexts are as the loader
\* makes them.
Setting ==
    /\ NoLimit \notin Int /\ BadLimit \notin Int /\ NoLimit # BadLimit
    /\ None \notin SQLText \cup Result
    /\ RenderedSQL \subseteq SQLText
    /\ \A t \in DOMAIN Templates : Templates[t].sql \in SQLText \cup {None}
    /\ Totals \subseteq Nat /\ None \notin Nat
    /\ \A a \in InitialAccess : DOMAIN a = Users /\ \A u \in Users : Scoped(a[u])
    /\ \A c \in AccessChoices : Scoped(c)

RunOps == {"free", "template"}
NoAnswer == [kind |-> "none", run |-> 0, rows |-> 0, completeness |-> "unknown", audit |-> 0]

Idle == [pc |-> "idle", user |-> None, op |-> "none", arg |-> None,
         ctx |-> None, shown |-> {}, sql |-> None, asked |-> NoLimit,
         bound |-> Unbounded, override |-> FALSE, res |-> None,
         run |-> 0, ans |-> NoAnswer, allowed |-> {}, queryable |-> {}]

QUERY_ACTION(op) ==
    IF op = "template" THEN "query_approved_template" ELSE "query_scoped_data"

-----------------------------------------------------------------------------
(* The pool: a waiter gives up when no connection comes free in time       *)

Used == FoldSet(LAMBDA s, n : n + conns[s], 0, Sessions)
Free == Used < PoolSize

Become(s, x) == ses' = [ses EXCEPT ![s] = x]
Hold(s, n) == conns' = [conns EXCEPT ![s] = n]

Goto(s, pc) == Become(s, [ses[s] EXCEPT !.pc = pc])

\* Ends the request; the session is closed and its connections returned.
Answer(s, ans) ==
    /\ Become(s, [ses[s] EXCEPT !.pc = "done", !.ans = ans])
    /\ Hold(s, 0)

Refuse(s) == Answer(s, [NoAnswer EXCEPT !.kind = "refused"])

\* _persist_query_run for a failure; refreshes and exports record none.
Fail(s) ==
    IF ses[s].op \in RunOps
    THEN Become(s, [ses[s] EXCEPT !.pc = "persist", !.res = None]) /\ Hold(s, 1)
    ELSE Refuse(s)

Tables_of(reg) == {t \in DOMAIN reg : reg[t].queryable}

-----------------------------------------------------------------------------
(* Arrival and the route's own checks                                      *)

Latest(sq) ==
    LET ok == {r \in DOMAIN runs : runs[r].saved = sq /\ runs[r].status = "succeeded"}
    IN  IF ok = {} THEN 0 ELSE Max(ok)

Cards == {runs[r].saved : r \in DOMAIN runs} \ {0}

Arguments(op) ==
    CASE op = "free" -> {None}
      [] op = "template" -> DOMAIN Templates
      [] op = "export" -> DOMAIN runs
      [] OTHER -> Cards

Arrive(s) ==
    /\ ses[s].pc = "idle" /\ requests < MaxRequests
    /\ \E u \in Users, op \in Ops : \E a \in Arguments(op) :
         Become(s, [Idle EXCEPT !.pc = "connect", !.user = u, !.op = op, !.arg = a,
                    !.allowed = schema_tables(access[u], QUERY_ACTION(op), registry)])
    /\ requests' = requests + 1
    /\ UNCHANGED <<access, registry, runs, audit, conns>>

Connect(s) ==
    /\ ses[s].pc = "connect" /\ Free
    /\ Goto(s, "route") /\ Hold(s, 1)
    /\ UNCHANGED <<access, registry, runs, audit, requests>>

\* Mutant: nothing ends the wait for the second connection.
PoolTimeoutOnce(s) ==
    /\ ses[s].pc = "connect" /\ ~ Free
    /\ Answer(s, [NoAnswer EXCEPT !.kind = "error"])
    /\ UNCHANGED <<access, registry, runs, audit, requests>>

\* A pool timeout outside any handler: an internal error, nothing is stored.
PoolTimeout(s) ==
    /\ ses[s].pc \in {"connect", "load"} /\ ~ Free
    /\ Answer(s, [NoAnswer EXCEPT !.kind = "error"])
    /\ UNCHANGED <<access, registry, runs, audit, requests>>

Authorize(s) ==
    /\ ses[s].pc = "route" /\ ses[s].op \in RunOps
    /\ LET free == ses[s].op = "free"
       IN  IF authorize_query_request(access[ses[s].user], free,
                  IF free THEN None ELSE Templates[ses[s].arg].scope_type)
           THEN Goto(s, "prepare") /\ UNCHANGED conns
           ELSE Refuse(s)
    /\ UNCHANGED <<access, registry, runs, audit, requests>>

-----------------------------------------------------------------------------
(* Generation                                                              *)

\* service.run builds its own access context and the schema context.
Prepare(s) ==
    /\ ses[s].pc = "prepare"
    /\ LET ctx   == access[ses[s].user]
           shown == schema_tables(ctx, QUERY_ACTION(ses[s].op), registry)
       IN  Become(s, [ses[s] EXCEPT !.pc = "generate", !.ctx = ctx,
               !.shown = IF ses[s].op = "template" /\ Templates[ses[s].arg].sql # None
                         THEN shown \cap Templates[ses[s].arg].sql.tables ELSE shown])
    /\ UNCHANGED <<access, registry, runs, audit, conns, requests>>

\* validate_sql
Valid(sql, shown) ==
    ~ sql.star /\ sql.tables # {} /\ sql.tables \subseteq shown /\ _apply_limit(sql.limit).valid

\* _deterministic_sql_correction, for SELECT * from one table shown
Corrected(op, sql, shown) ==
    IF op = "template" /\ sql.star /\ Cardinality(sql.tables) = 1 /\ sql.tables \subseteq shown
    THEN [sql EXCEPT !.star = FALSE] ELSE sql

\* What is left to execute after validation: the sanitized SQL
Validated(s, sql, bound, asked) ==
    Become(s, [ses[s] EXCEPT !.pc = "load", !.asked = asked, !.bound = bound,
                !.sql = [tables |-> sql.tables, limit |-> bound.effective, star |-> FALSE],
                !.queryable = Tables_of(registry)])

\* The provider answers with a plan that renders, or the template has SQL.
Generate(s) ==
    /\ ses[s].pc = "generate"
    /\ \E sql \in IF ses[s].op = "free" THEN RenderedSQL
                  ELSE {Templates[ses[s].arg].sql} \ {None} :
         LET final == Corrected(ses[s].op, sql, ses[s].shown)
         IN  IF Valid(final, ses[s].shown)
             THEN /\ Validated(s, final, _apply_limit(final.limit), final.limit)
                  /\ UNCHANGED conns
             ELSE Fail(s)
    /\ UNCHANGED <<access, registry, runs, audit, requests>>

\* Clarification, unsafe request, provider failure, invalid plan, plan that
\* cannot be rendered, failed conformance; a template without SQL.
GenerateFails(s) ==
    /\ ses[s].pc = "generate"
    /\ ses[s].op = "template" => Templates[ses[s].arg].sql = None
    /\ Fail(s)
    /\ UNCHANGED <<access, registry, runs, audit, requests>>

-----------------------------------------------------------------------------
(* Stored SQL, executed again                                              *)

\* The run a refresh or an export starts from, 0 if there is none
SourceRun(s) ==
    IF ses[s].op = "export"
    THEN IF runs[ses[s].arg].user = ses[s].user /\ runs[ses[s].arg].status = "succeeded"
         THEN ses[s].arg ELSE 0
    ELSE Latest(ses[s].arg)

\* _evaluate_export_resource_policy
Restricted(tables) == {t \in tables : ~ registry[t].exportable}

MayExport(ctx, tables) ==
    /\ "can_export_results" \in ctx.permissions
    /\ tables \subseteq Tables_of(registry)
    /\ Restricted(tables) = {} \/ "can_export_restricted_results" \in ctx.permissions

MayRefresh(ctx) == "can_query_scoped_data" \in ctx.permissions

\* Mutant: stored SQL needs no validation.
StillValidAlways(ctx, run) == TRUE

\* The stored SQL is validated against the caller's own schema context, and
\* names the tables recorded with it.
StillValid(ctx, run) ==
    /\ Valid(run.sql, schema_tables(ctx, "query_scoped_data", registry))
    /\ run.sql.tables = run.tables

ExecuteStored(s) ==
    /\ ses[s].pc = "route" /\ ses[s].op \notin RunOps
    /\ LET ctx == access[ses[s].user]
           src == SourceRun(s)
           run == runs[src]
       IN  IF /\ src # 0
              /\ IF ses[s].op = "refresh" THEN MayRefresh(ctx) ELSE MayExport(ctx, run.tables)
              /\ StillValid(ctx, run)
           THEN /\ Become(s, [ses[s] EXCEPT !.pc = "load", !.ctx = ctx, !.run = src,
                       !.sql = run.sql, !.asked = run.asked,
                       !.bound = restore_saved_bound(_apply_limit(run.sql.limit), run.bound),
                       !.override = Restricted(run.tables) # {},
                       !.queryable = Tables_of(registry)])
                /\ UNCHANGED conns
           ELSE Refuse(s)
    /\ UNCHANGED <<access, registry, runs, audit, requests>>

-----------------------------------------------------------------------------
(* Execution                                                               *)

\* The registry is read again on another connection, which is then returned.
LoadResources(s) ==
    /\ ses[s].pc = "load" /\ Free
    /\ IF execution_error(ses[s].ctx, QUERY_ACTION(ses[s].op), registry, ses[s].sql.tables) = "none"
       THEN Goto(s, "runtime") /\ UNCHANGED conns
       ELSE Fail(s)
    /\ UNCHANGED <<access, registry, runs, audit, requests>>

\* query_runtime_transaction
OpenRuntime(s) ==
    /\ ses[s].pc = "runtime" /\ Free
    /\ Goto(s, "execute") /\ Hold(s, 2)
    /\ UNCHANGED <<access, registry, runs, audit, requests>>

RuntimeTimeout(s) ==
    /\ ses[s].pc = "runtime" /\ ~ Free
    /\ Fail(s)
    /\ UNCHANGED <<access, registry, runs, audit, requests>>

RowLimit(op) ==
    CASE op = "refresh" -> CARD_REFRESH_ROW_LIMIT
      [] op \in {"export", "export_card"} -> EXPORT_ROW_LIMIT
      [] OTHER -> DEFAULT_ROW_LIMIT

Execute(s) ==
    /\ ses[s].pc = "execute"
    /\ \E total \in Totals :
         LET got == Fetched(total, ses[s].bound, RowLimit(ses[s].op), NoLimit)
         IN  Become(s, [ses[s] EXCEPT !.pc = "persist",
                 !.res = [rows |-> got.rows, total |-> total,
                          completeness |-> completeness(ses[s].bound, got)]])
    /\ Hold(s, 1)
    /\ UNCHANGED <<access, registry, runs, audit, requests>>

\* Statement timeout or a database error
ExecuteFails(s) ==
    /\ ses[s].pc = "execute" /\ Fail(s)
    /\ UNCHANGED <<access, registry, runs, audit, requests>>

-----------------------------------------------------------------------------
(* The record of it                                                        *)

Row(s) ==
    LET x == ses[s] IN
    [user |-> x.user, saved |-> IF x.op = "refresh" THEN x.arg ELSE 0,
     status |-> IF x.res = None THEN "failed" ELSE "succeeded",
     sql |-> x.sql, tables |-> IF x.sql = None THEN {} ELSE x.sql.tables,
     bound |-> x.bound, asked |-> x.asked,
     rows |-> IF x.res = None THEN 0 ELSE x.res.rows,
     total |-> IF x.res = None THEN 0 ELSE x.res.total,
     completeness |-> IF x.res = None THEN "unknown" ELSE x.res.completeness]

\* Mutant: the answer is prepared before the row is stored.
PersistLater(s) ==
    /\ ses[s].pc = "persist" /\ ses[s].op \in RunOps \cup {"refresh"}
    /\ Len(runs) < MaxRuns
    /\ runs' \in {runs, Append(runs, Row(s))}
    /\ Become(s, [ses[s] EXCEPT !.pc = "reload", !.run = Len(runs) + 1])
    /\ Hold(s, 0)
    /\ UNCHANGED <<access, registry, audit, requests>>

\* The commit; it returns the session's connection.
Persist(s) ==
    /\ ses[s].pc = "persist" /\ ses[s].op \in RunOps \cup {"refresh"}
    /\ Len(runs) < MaxRuns
    /\ runs' = Append(runs, Row(s))
    /\ Become(s, [ses[s] EXCEPT !.pc = "reload", !.run = Len(runs) + 1])
    /\ Hold(s, 0)
    /\ UNCHANGED <<access, registry, audit, requests>>

\* db.refresh on a new connection, then the answer from the stored row
Reload(s) ==
    /\ ses[s].pc = "reload" /\ Free
    /\ LET run == ses[s].run
       IN  Answer(s, [NoAnswer EXCEPT !.kind = "result", !.run = run,
                          !.rows = IF ses[s].res = None THEN 0 ELSE ses[s].res.rows,
                          !.completeness = IF ses[s].res = None THEN "unknown"
                                           ELSE ses[s].res.completeness])
    /\ UNCHANGED <<access, registry, runs, audit, requests>>

\* QueryRunPersistenceError for a query that succeeded, an internal error
\* otherwise
NotPersisted(s) ==
    Answer(s, [NoAnswer EXCEPT !.kind = IF ses[s].op \in RunOps /\ ses[s].res # None
                                        THEN "not_persisted" ELSE "error"])

ReloadTimeout(s) ==
    /\ ses[s].pc = "reload" /\ ~ Free
    /\ NotPersisted(s)
    /\ UNCHANGED <<access, registry, runs, audit, requests>>

CommitFails(s) ==
    /\ ses[s].pc = "persist"
    /\ NotPersisted(s)
    /\ UNCHANGED <<access, registry, runs, audit, requests>>

\* _record_csv_export_audit commits before the CSV is sent.
Export(s) ==
    /\ ses[s].pc = "persist" /\ ses[s].op \in {"export", "export_card"}
    /\ audit' = Append(audit, [run |-> ses[s].run, rows |-> ses[s].res.rows,
                          completeness |-> ses[s].res.completeness,
                          tables |-> ses[s].sql.tables, override |-> ses[s].override])
    /\ Answer(s, [kind |-> "csv", run |-> ses[s].run, rows |-> ses[s].res.rows,
                  completeness |-> ses[s].res.completeness, audit |-> Len(audit) + 1])
    /\ UNCHANGED <<access, registry, runs, requests>>

-----------------------------------------------------------------------------
(* The environment                                                         *)

Crash(s) ==
    /\ ses[s].pc \notin {"idle", "done"}
    /\ Answer(s, [NoAnswer EXCEPT !.kind = "crashed"])
    /\ UNCHANGED <<access, registry, runs, audit, requests>>

Leave(s) ==
    /\ ses[s].pc = "done" /\ Become(s, Idle)
    /\ UNCHANGED <<access, registry, runs, audit, conns, requests>>

\* save_query_run_as_card (DashboardEditor has the whole handler)
SaveCard(r) ==
    /\ runs[r].status = "succeeded" /\ runs[r].saved = 0
    /\ "refresh" \in Ops \/ "export_card" \in Ops
    /\ runs' = [runs EXCEPT ![r] = [runs[r] EXCEPT !.saved = r]]
    /\ UNCHANGED <<access, registry, audit, ses, conns, requests>>

\* The ghosts of sessions under way follow what becomes possible.
Remember(acc, reg) ==
    ses' = [s \in Sessions |->
        IF ses[s].pc \in {"idle", "done"} THEN ses[s]
        ELSE [ses[s] EXCEPT
            !.allowed = ses[s].allowed
                        \cup schema_tables(acc[ses[s].user], QUERY_ACTION(ses[s].op), reg),
            !.queryable = ses[s].queryable \cup Tables_of(reg)]]

ChangeAccess ==
    \E u \in Users, c \in AccessChoices :
        /\ c # access[u]
        /\ access' = [access EXCEPT ![u] = c]
        /\ Remember([access EXCEPT ![u] = c], registry)
        /\ UNCHANGED <<registry, runs, audit, conns, requests>>

ChangeRegistry ==
    \E r \in RegistryChoices :
        /\ r # registry
        /\ registry' = r
        /\ Remember(access, r)
        /\ UNCHANGED <<access, runs, audit, conns, requests>>

-----------------------------------------------------------------------------
Init ==
    /\ access \in InitialAccess /\ registry \in InitialRegistry
    /\ runs = <<>> /\ audit = <<>> /\ requests = 0
    /\ ses = [s \in Sessions |-> Idle] /\ conns = [s \in Sessions |-> 0]

Step(s) ==
    \/ Connect(s) \/ PoolTimeout(s) \/ Authorize(s) \/ Prepare(s)
    \/ Generate(s) \/ GenerateFails(s) \/ ExecuteStored(s)
    \/ LoadResources(s) \/ OpenRuntime(s) \/ RuntimeTimeout(s)
    \/ Execute(s) \/ ExecuteFails(s)
    \/ Persist(s) \/ Reload(s) \/ ReloadTimeout(s) \/ CommitFails(s) \/ Export(s)

Next ==
    \/ \E s \in Sessions : Arrive(s) \/ Step(s) \/ Crash(s) \/ Leave(s)
    \/ \E r \in DOMAIN runs : SaveCard(r)
    \/ ChangeAccess \/ ChangeRegistry

Spec == Init /\ [][Next]_vars

-----------------------------------------------------------------------------
(* Properties                                                              *)

(* "Complete" is a promise: every stored run that says so has all the rows     *)
(* the data had for the question, up to the LIMIT its author wrote, however    *)
(* many refreshes lie between the question and the run and although each of    *)
(* them finds a LIMIT in the stored SQL (sql_executor.py:                      *)
(* delivery_completeness, delivery.py: restore_saved_bound).                   *)
CompletenessHonest ==
    \A r \in DOMAIN runs :
        runs[r].completeness = "complete" =>
            runs[r].rows = IF runs[r].asked = NoLimit THEN runs[r].total
                           ELSE Min({runs[r].total, runs[r].asked})

(* What the user is told is what is on record: a result is stored under the   *)
(* id in the answer with the same rows and completeness, where history,        *)
(* refreshes and exports find it (service.py: run), and every CSV that left    *)
(* has an audit row of its own that says what was in it and whether a          *)
(* restricted table was (exports.py: _export_query_run_as_csv).                *)
AnswerMatchesRow ==
    \A s \in Sessions :
        /\ ses[s].ans.kind = "result" =>
              /\ ses[s].ans.run \in DOMAIN runs
              /\ LET run == runs[ses[s].ans.run]
                 IN  /\ run.user = ses[s].user
                     /\ run.rows = ses[s].ans.rows
                     /\ run.completeness = ses[s].ans.completeness
        /\ ses[s].ans.kind = "csv" =>
              /\ ses[s].ans.audit \in DOMAIN audit
              /\ LET row == audit[ses[s].ans.audit]
                 IN  /\ row.rows = ses[s].ans.rows /\ row.run = ses[s].ans.run
                     /\ row.completeness = ses[s].ans.completeness
                     /\ row.override = ses[s].override

(* Nobody reads a table that was not open to him at any instant of his         *)
(* request, in particular not through a card or a run that somebody, or he     *)
(* himself, stored under other access (card_refresh.py and exports.py:         *)
(* validation against the caller's schema context), nor one that was           *)
(* withdrawn while the model was writing the query and stays withdrawn,        *)
(* although the schema context that validated the query still offers it        *)
(* (sql_executor.py: _load_data_resources_for_execution).                      *)
OnlyOpenTablesRead ==
    \A s \in Sessions :
        ses[s].pc = "execute" => ses[s].sql.tables \subseteq ses[s].allowed \cap ses[s].queryable

(* Holding decides, now and after every change: a user who has the permission  *)
(* and any scope of a table's kind, or the global one, may query the table,    *)
(* whichever of the scopes is the default, and nobody else may                 *)
(* (schema_context.py: _scope_key_for_resource, access_policy.py:              *)
(* evaluate_access). And row-level security, which computes the departments on *)
(* its own, shows rows to nobody whom the decision keeps out of a department   *)
(* table (core/rls.py: build_rls_context).                                     *)
AccessIsHolding ==
    \A u \in Users :
        DecidedByHolding(access[u], {registry[t] : t \in DOMAIN registry}, Departments)
=============================================================================
