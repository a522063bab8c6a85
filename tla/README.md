# Verification of queryops-ai in TLA+

queryops-ai lets business users ask questions of an IT-operations database in
plain language, put the answers on dashboards, and *act* on them: reclaim unused
licenses, disable inactive users. The action engine is where the program can do
harm, so it is the core of this development: every change it makes to a domain
table goes through a preview, a submission, an approval by somebody whose
permissions and scope allow it, a revalidation under row locks, and one commit.
Around it stand the parts that decide what a person may see and whether an answer
can be believed: access and row-level security, dashboards, the query pipeline
with its semantic plans, and the evaluation harness that judges it.

## 1. Inventory

Every HTTP request runs in a thread of its own with one SQLAlchemy session, that
is, one PostgreSQL transaction at READ COMMITTED; the processes share nothing but
the database. Components interact through rows, row locks and commits.

| Component | State | Operations | Hard behaviour | What makes it correct |
|---|---|---|---|---|
| Action request lifecycle (`action_engine/service.py`) | `action_requests`, `approval_requests`, `app_audit_logs` | `create_preview`, `submit_request`, `cancel_request`, owner's expiry | a retried submit; a cancel racing an approval; the deadline boundary | one outcome; both rows agree; one audit trail |
| Approval lifecycle (`action_engine/approval.py`) | the same rows, plus notifications | `list_pending` (expiry sweep), `get_detail` (lazy expiry), `reject`, `approve` (claim, lock, revalidate, lock, revalidate, decide, execute), `_persist_escalation`, `_persist_execution_failure` | lock waits between reading the clock or the access context and using them; a rollback followed by a second transaction; sweeps without ORDER BY | nothing is changed but by a completion; overrides need the override permission; every request ends |
| Approval policy (`action_engine/policy.py`) | none | `evaluate_action_request`, `evaluate_action_approval` | the order of the denials decides what escalates | who may decide what |
| Revalidation and execution (`revalidation.py`, `disable_execution.py`, `executor.py`, `action_dispatch.py`) | target and dependency rows of the domain tables | two passes over the targets, ordered locking, mutation | rows that change, or come into view, between the passes | what is executed was eligible at that instant |
| Previews and snapshots (`preview.py`, `domains/it_operations/actions`) | JSON snapshots in `action_requests` | selection, encoding, strict re-validation | agreement of preview and revalidation | the snapshot is what was previewed |
| Approval notifications (`notifications.py`) | `notifications` | eligible approvers, one notification each | two senders (submission, escalation) | everybody once |
| Audit trail (`audit.py`) | `app_audit_logs`, `it_audit_events` | one row per event, in the event's transaction | partial failure | the trail is the history |
| Access context and row-level security (`auth/`, `core/rls.py`) | `app_users`, roles, permissions, scopes | resolve permissions and scopes, set the RLS variables | read before lock waits | - |
| Role requests (`api/routes/role_requests.py`) | `role_upgrade_requests`, `app_users.role_id`, `user_access_scopes` | create, approve, reject | two creates of one user (no constraint of the table forbids a second pending row); two administrators; approvals that cross; roles, grants and scopes that change meanwhile | one pending request, one decision, an approval gives what was asked for |
| Dashboards (`api/routes/dashboards.py`, `dashboards/`) | dashboards, cards, layouts, `layout_version` | create, rename, archive; add, change, duplicate, remove, reorder cards; save a layout draft | objects loaded before a row lock and not refreshed after it; drafts open across other people's edits | no lost update, one order, what is served never overlaps |
| Query pipeline (`query_engine/service.py`, `sql_validator.py`, `sql_executor.py`, `card_refresh.py`, `delivery.py`) | `query_runs`, the connection pool | free and template queries, card refresh, CSV export | a handler holds one connection while it needs another; access and registry change during the model call; stored SQL runs again later | nothing withdrawn is read, completeness is not overstated, answer and history agree |
| Provider calls (`openai_provider.py`, `llm_provider.py`, `plan_generator.py`) | usage measurements | attempts, retries, classification | lost answers, partial usage, counts at the cap | totals are what was billed or say they are incomplete |
| Semantic plans (`semantic_plan.py`, `relational_semantics.py`, `sql_renderer.py`, `semantic_conformance.py`) | none | validate, order joins, render, parse again and compare | outer joins, fan-out, NULL, boundaries of filters | approved SQL means the plan; a named metric counts its own entity |
| Evaluation (`evaluation/`) | `evaluation_runs` and result rows | run cases, gather evidence, judge, summarise; readers; stability and readiness | evidence cut by limits and time; a failure after the observation; runs of different candidates | a verdict is a proof; READY is earned |
| Live diagnostic dispatch (`scripts/w6c_*.py`) | a journal on disk | reserve, send, record, complete | crash, power failure, restart, retry above the transport | no question is ever sent twice |
| Semantic grounding, sessions, inbox, home overview, seed data, frontend | see section 7 | | | |

`PROJECT.json` lists the components with their status and the hazards, each at
the line where it bites and with the properties that would catch it.

## 2. Modules

| Module | Models | Notes |
|---|---|---|
| `ActionPolicy` | `policy.py`, the part of the access context it reads | pure operators |
| `ActionLifecycle` | `service.py`, `approval.py`, revalidation and execution | one worker per HTTP request; EXTENDS `ActionPolicy` |
| `ActionContract` | what the engine promises | abstract specification, instantiated by `ActionLifecycle` |
| `ActionLifecycleProofs` | theorems about `ActionLifecycle` | the pair of rows, the contract, then locks, execution and the trail |
| `ActionTargets` | previews, snapshots, revalidation of both action types, what viewers are shown | EXTENDS `ActionPolicy`; one request over rows with their columns, under row-level security |
| `RoleRequests` | `api/routes/role_requests.py` | create, approve, reject; row locks with their modes |
| `DataAccess` | `access_policy.py`, `schema_context.py`, `rls.py`, the executor's check | pure operators |
| `DashboardLayout` | `dashboards/editor.py` | pure operators: sizes, normalisation, placement, order |
| `DashboardEditor` | `api/routes/dashboards.py`, `dashboards/policy.py` | EXTENDS `DashboardLayout`; handlers with the objects they loaded |
| `QueryDelivery` | LIMIT rules, row loop, completeness, restored bounds | pure operators |
| `QueryPipeline` | queries, refreshes and exports over the pool | composes `DataAccess` and `QueryDelivery` |
| `ProviderCall` | one planning call after another | attempts of the client, measurement, totals |
| `PlanCatalog` | the catalog plans are over | constants, and the variables that both specifications of plans have |
| `SemanticSql` | plan to SQL and back, with the meaning of both | EXTENDS `PlanCatalog`; plans and SQL are evaluated on small tables |
| `RequiredIntent` | the grounded result contract against the plan | EXTENDS `PlanCatalog`; both evaluated on small databases with hidden rows |
| `ResultComparison` | `scoring.py`, `evidence.py`, evidence gathering of `runner.py` | two answers of one snapshot, judged from bounded evidence |
| `EvaluationRun` | `runner.py`, `selection.py`, `read_service.py` | one run, its faults, its readers |
| `EvaluationReadiness` | `readiness*.py`, `stability.py`, `environment.py` | the verdict as a function of stored runs and configuration |
| `LiveDispatch` | `w6c_dispatch.py`, `w6c_v3.py` | processes, a journal, a file system that forgets |
| `ActionTargetsProofs`, `RoleRequestsProofs`, `DashboardEditorProofs`, `QueryPipelineProofs`, `LiveDispatchProofs` | theorems | each EXTENDS the specification of that name and TLAPS |
| `EvaluationProofs` | theorems about runs, judgments and verdicts | EXTENDS `EvaluationRun`, `ResultComparison`, `EvaluationReadiness` and TLAPS |
| `SemanticPlanProofs` | theorems about contracts, measurements, plans and their SQL | EXTENDS `RequiredIntent`, `ProviderCall`, `SemanticSql` and TLAPS |
| `MCActionLifecycle`, `MCActionTargets`, `MCRoleRequests`, `MCDashboardEditor`, `MCLiveDispatch` | instances | EXTEND the specification of that name |
| `MCSemanticPlans` | an instance | EXTENDS `SemanticSql`, `RequiredIntent` and `ProviderCall`, side by side over one catalog; a variable `part` says which of them a behaviour belongs to |
| `MCActionLiveness`, `MCQueryPipeline`, `MCEvaluation` | several instances in one run | EXTEND `MCActionLifecycle`; `QueryPipeline`; the three evaluation modules, with the constants of the .cfg; further INSTANCEs over the same variables have other constants, and a variable `part` says which of them a behaviour belongs to. The invariants are those of the extended modules, so that what a theorem states is what the run checks |

### How ActionLifecycle corresponds to the code

*State.* `action[r]` is the row of `action_requests` (status, `expires_at`,
targets of the preview snapshot, the preview's and the revalidation's policy
flags); `approval[r]` the row of `approval_requests`; `row[x]` a target row
(license assignment, directory user) with what revalidation reads of it;
`dep[d]` the rows its eligibility depends on (users and licenses; login events,
group memberships, security events), reduced to *plain*, *skip* and *override*;
`access[u]` what `build_user_access_context` would return now; `audit`,
`notified`, `executed` the audit rows, pending-approval notifications and
changed rows per request. A worker's `session` holds the local variables of its
handler: the user and access context read at the start, `now`, the targets still
to lock, the result of the first revalidation. `held[w]` are the row locks of its
transaction.

*Steps.* A step lies between two points where another transaction can get in:
the start of a request (unlocked reads, the access context), each lock that may
have to be waited for, and each commit. All writes of a transaction appear in
its commit. So `submit_request` is `StartOwn` and then one of `SubmitAccept`,
`SubmitAgain`, `OwnerExpire`; `approve` is `StartDecision`, `ApproveClaim` (the
pair lock and everything checked under it), `LockTarget`*, `FirstRevalidation`,
`LockDependency`*, `SecondRevalidation`, `LockTarget`* and one of `DecideExecute`
then `Execute`, `DecideEscalate`, `DecideForbidden`, `DecideUnstable`; after an
exception `RollBackToFailure` releases everything and `PersistFailure` is the
second transaction. `list_pending` updates row by row (`ExpiringUpdate`) and
commits once (`ExpiringCommit`).

*One lock for the pair.* Every writer locks (or updates) the action row before
the approval row, so holding the first means never waiting for the second.

*External.* PostgreSQL's lock queue and deadlock detector (`Wants`, `WaitsFor`,
`WaitCycle`, `DeadlockVictim`), loss of a process or a connection (`Crash`), the
clock, and other writers of the domain tables, who respect row locks.

*Abstractions.* The two action types are one. Reasons, explanations, snapshots
and serialised answers are left out. `Cardinality(targets)` stands for the record
count the policy compares with its limit of 20 (1 or 2 in the instances). The access
context a decision was made with is kept in `approval[r].with`; the code keeps
its user. The preview's deadline check and the recount of the snapshot are part
of the submit actions. `ActionTargets` has what is abstracted here.

### How RoleRequests corresponds to the code

*State.* `request[r]` is a row of `role_upgrade_requests`: status, requester, role,
the scope's foreign key (`scope`), the scope type and key copied at creation
(`key`), and who decided (`by`). `user[u]` is the row of `app_users` with its own
entry for `can_approve_role_requests` (`effect`) and its `user_access_scopes`
(`level`, `defaults`). `scopes` are the rows of `access_scopes` that exist, as
numbers in the order `_load_scope_contexts` sorts them. `audit[r]` counts the
decision rows in `app_audit_logs`.

*Steps.* A handler authenticates without a lock (`StartCreate`, `StartDecision`),
waits for the requester's row FOR NO KEY UPDATE (`LockRequester`), reads and
decides under that lock (`CreateCheck`, `DecideCheck`, or `Refuse`) and commits
(`CreateCommit`, `ApproveCommit`, `RejectCommit`). Check and commit are separate
steps because grants and scope rows, which the requester's lock does not cover,
may change between them: a commit whose scope row is gone fails on its foreign
key (`Refuse`). The request row is locked only after its requester's row, so its
lock is never waited for and is left out. The decision's audit row takes a
key-share lock on the actor's row through its foreign key (`AuditRow`); the two
modes do not conflict, which is what lets crossing decisions through.

*External.* `AdministerUser`, `ChangeGrant` and `DropScope` are operators at the
database; they respect row locks, and deleting a scope clears the foreign key of
requests and removes assignments as the schema's ON DELETE clauses say.

### How ActionTargets corresponds to the code

`db` holds directory users (with the newest successful login, one group membership
and one security event, each with the department its row is filed under) and
license assignments; `request` is the one action request with its stored snapshot.
`CreatePreview` is `build_preview` of either handler: required tables, candidates
visible under the *query* role's row policies, classification, missing selectors,
flags, totals. `Submit` validates the snapshot again. `ApproveExecute` and
`ApproveEscalate` are the decision with revalidation under the *action* role, whose
policies additionally show the facts of visible users (migration 0010). That is
why a preview can miss a privileged group, an alert or a login filed under another
department, and why the execution cannot: `ExecutionSeesEveryFact`. A row locked
FOR UPDATE must also pass the action role's UPDATE policy, which admits active
human accounts only. Reasons are kept because the validator counts them; wording is
not. Locks and deadlines are `ActionLifecycle`'s matter.

### How DashboardEditor corresponds to the code

`dash` and `card` are the rows; `seen` in a worker's session are the ORM objects
it loaded before it waited for the dashboard's row lock. A locking SELECT finds
the current *set* of rows but leaves loaded objects as they were, and a commit
writes only columns whose value differs from the loaded one: this is what the
finding about dashboards rests on. `Begin` is authentication, access context and
the unlocked loads; the rest of the handler is one step, because nobody else
writes under the dashboard's lock. Which handlers load before they lock is taken
from each endpoint. `OpenEditor` is the client that keeps a draft with the version
it saw.

### How QueryPipeline corresponds to the code

A session's `pc` goes from arrival over generation, validation, the second
connection for the registry, execution, commit and reload to the answer. The
request's connection is held from the first statement to the commit, the model call
included. SQL is a record of its tables, its LIMIT and whether it selects `*`; the
rows of a result are a number. Pool timeouts, provider failures, statement timeouts
and loss of the process are alternatives of the steps they interrupt. A refresh
re-validates the stored SQL with the recorded bound (`restore_saved_bound`), and an
export writes its audit row before the response.

### How SemanticSql and RequiredIntent correspond to the code

A plan selects entities, relationships with join types, filters, concepts and a
metric. `Validate` is `validate_semantic_plan` with the greedy `selected_join_order`,
`Compile` the renderer followed by the conformance check. `ApproveWritten` lets any
other executable SQL through that the checker approves: the checker is written not
to trust its candidate, and the renderer is an injectable seam. `Execute` evaluates
SQL and plan on every small database that honours the declared cardinalities and
non-null columns (an assumption about the data).
Grouping, ordering, limits and labels, which the checker compares one to one, are
left out. `RequiredIntent` takes the contract grounding attaches to a question as
given and compares it with the plan as `_validate_grounded_result_intent` does; the
contract is one-sided (a plan may add a HAVING when none is required), and required
outputs, row grain and DISTINCT of rows are left out.

### How the evaluation modules correspond to the code

`ResultComparison` runs the planner's query and the baseline in one snapshot while
others write, gathers evidence under row, byte and time limits, judges, and keeps
what the readers check. Rows carry one measure. `EvaluationRun` takes the judgment
as any verdict the evidence allows and has the transactions instead: the row of the
run, each case, the summary, any of which may fail or be the last thing the process
does. `EvaluationReadiness` abstracts a run to what the readers look at and adds
operators who seed, deploy, configure and run in any order; thresholds, window and
age are constants.

### How LiveDispatch corresponds to the code

A process is one start of the script with its `DispatchGuard`; a journal write is
two steps, write and fsync. A power failure loses what was not fsynced, a file or
directory name included, and ends every process; a crash loses nothing on disk.
What reached the provider stays sent. The directory is *none*, *new* from mkdir until
the maker's fsync of its parent makes it *durable*, and *used* when another start finds
it new and goes on in it, as `live_journal` lets it; a power failure may take a *new*
or *used* one with the journal. The model has one directory for the chain of parents
that `live_journal` walks. `lost` remembers that a *used* directory was taken with a
journal. `changed` is the drift the manifest check
would notice. The client may retry once per run above the transport.

## 3. Runs

| Run | Instance | Properties |
|---|---|---|
| `races` | 2 workers, 1 request, 3 users (an owner who is promoted to administrator, an analyst, an approver with every permission but the global one), a target row that moves between departments and becomes sensitive, clock 0..2, dependencies *plain* or *override* | `TypeOK`, `PairConsistent`, `TrailMatchesStatus`, `OverrideNeedsPermission`, `DatedWithinDeadline`, `NotifiedOnce`, `DecisionsAreFinal`, `ExecutionAuthorized`: every handler against every other |
| `shared` | 2 workers, 2 requests on the same 2 rows, clock 0..1 | `ApprovalsNeverDeadlock`: no wait cycle among ordered lockers; `ContractHolds`: refinement of `ActionContract`, sweeps of two requests included |
| `liveness` | 2 workers, fair. *views*: 2 requests, one over 2 rows and one over the first of them, which leaves the approver's department and comes back (the other row stays); *sweeps*: 2 requests over one row and their expiry, clock 0..1; *moves*: 1 request on a row that moves, an approver for two departments without the global permission | `EveryRequestEnds`: approvals that wait for each other over target rows, sweeps that do over pairs, failing executions, escalation, crashes |
| `previews` | 576 directories (users and assignments at the cutoffs, facts filed under either department), 12 payloads, 1 write by others, clock 4..5 | `SnapshotStaysReadable`, `HiddenRowsLeaveNoTrace`, `ViewersAreDeciders`, `ExecutionSeesEveryFact` |
| `roles` | 2 workers, 3 users, 2 requests, 2 changes by operators | `OnePending`, `OneDecision`, `ApprovalGrantsRequest`, `NoWaitCycle` (two people with the grant decide each other's requests) |
| `dashboards` | 2 handlers of any kind that load before they lock, 3 requests, up to 4 cards, an owner who may lose access | `ServedProper`, `ArchivedFrozen`, `DraftsExpire` |
| `queries` | *chain*: 99, 100, 101, 501 rows and LIMITs around default and maximum, a query and two refreshes or exports; *changes*: 2 users, access and registry change at any point; *pool*: 2 handlers, 2 connections, fair; *decision*: every context of up to 2 scopes against every small registry | `CompletenessHonest`, `OnlyOpenTablesRead`, `AnswerMatchesRow`, `AccessIsHolding` in every part, the first, second and last of them aimed at by *chain*, *changes* and *decision*; `EveryQueryEnds` (pool) |
| `plans` | plans over a catalog of 5 entities with 2 rows each: every choice of joins over a triangle of them, every mix of joins along a chain of 4, and, over each entity alone, literals, concepts and OR rules, with every pair of values and NULL among the rows of the 5; *contract*: every contract against every plan over 2 relationships, with hidden rows; *calls*: 2 calls of 2 attempts, counts at the cap | `ConformingMeansPlan`, `MetricCountsPopulation`, `RefusalsExact`, `RequiredIntentMet`, `UsageHonest` |
| `evaluation` | *case*: populations, top-N with ties, any n, limits 0 to 3, the right rows and other rows, writes, timeouts, failures; *faults*: 3 cases of which at most 2 are selected, every answer of the engine, 2 faults, one reader; *reading*: 3 answers of the engine, 1 fault, a global and a scoped reader during a run; *results*: 3 runs of one candidate, 5 cases (4 of them canary), every kind of result, 1 change; *candidates*: 2 revisions, 2 runtimes, 3 changes, results *good* or *wrong*, reseeding, drift, stale manifests | `JudgmentIsProof`, `StoredIsReadable`, `ObservationSurvives`, `FinishedRunIsWhole`, `VerdictIsEarned` |
| `dispatch` | 2 starts, 2 questions, crashes, failing writes, retries, 2 power failures, with or without the directory before the first start; fair | `OncePerQuestion`, `JournalLeads`, `EveryRunEnds` |
| `override_failure`, `stale_version` | expected violations | see findings |

*Why the bounds are enough.* Interference on one request is pairwise: a second
handler is what invalidates what the first has read, and the environment (clock,
access, domain writers, crash) is always free to move as a third party. Lifetimes
of 1 and a clock up to 2 give every relation of now, deadline and decision: before,
at, after, for the preview and again for the pending request. Two requests on two
rows are needed for double execution, for lock order and for a sweep that settles
more than one; the record limit is 1, so that one row is within it and two exceed it.
For role requests, two handlers of one requester are what the requester's lock
keeps apart, two requests are what `OnePending` needs to be violated, and two
changes let a role and a scope both move under one decision. For previews, every
fact lies before, at or after its cutoff when it is previewed and a day later.
For dashboards, two handlers are what makes a loaded object stale, two cards are
what an overlap needs, a third or fourth is what an addition or a copy brings, and
three requests let a draft be opened, overtaken and saved. The row counts of *chain*
lie at and on both sides of each of the code's real limits; three runs are a query
and two refreshes, the second of which sees what the first stored. Two connections
with two handlers are the smallest pool in which everyone can hold one and want
another; the invariants that quantify over sessions are evaluated for the session of
the .cfg, and the two sessions of *pool* are interchangeable.
Evaluation limits are scaled down (default 1, maximum 2, evidence 2; the last two are
equal in the code, both 1000) so that populations of three rows fall on every side of
each; two rows of one rank are what a tie at the cutoff needs. Two canary runs required
instead of three, with three runs in all, let a group be complete, incomplete or
mixed. Databases of two rows per entity are enough for fan-out, missing partners and
NULL extension, which each need one extra row; four entities in a chain are the
shortest on which LEFT and INNER joins can alternate with both ends open. Two starts
of the diagnostic are needed for one to spend the attempt and one to spend it again; the
case that `OncePerQuestion` leaves out needs a third (section 4).
The theorems remove the bounds for everything they cover.

Workers are interchangeable, so the safety runs of the action engine, of role
requests (which permute the request identifiers too) and of dashboards use
permutations of them as symmetry; `evaluation` permutes the two revisions and the
two runtimes of *candidates*, which differ in nothing but identity. The runs with a
liveness property use none.

*Fairness.* For the action engine, strong fairness of each handler's steps:
PostgreSQL queues the waiters of a row and grants them in turn, so a worker for whom
the lock is free again and again gets it (at each place a handler stands at most one
of its steps waits for a lock), and a thread that has what it needs runs on. Weak
fairness of `DeadlockVictim`: the detector breaks every cycle after
`deadlock_timeout`. No fairness of starting requests, crashes, execution errors,
time, or other writers. The *sweeps* and *views* of `liveness` cannot do without the
detector: both reach wait cycles, the one over pairs, the other over target rows,
and `EveryRequestEnds` fails when nobody breaks them, which is its mutant. These are
the two cycles the code allows: two sweeps take pairs in opposite orders, and two
approvals take targets against the order when the second revalidation of one finds a
row that has come into view. A sweep and an approval form none, since an approval
takes one pair, before anything else, and a sweep takes pairs only. `queries` has
weak fairness of each handler's own steps; these include the pool timeout, the
provider's and the statement's timeouts, so no wait lasts for ever although nobody
promises that a connection comes free. `dispatch` has weak fairness of a started
process; the client's timeout bounds the wait for an answer.

Deadlock checking is on for the action engine, because new HTTP requests can always
be made (a stuck worker shows as a violation of `EveryRequestEnds`). It is off where a
bound on requests, runs, starts or changes is used up, or where a behaviour is a
single pipeline that ends; stuck handlers are there the question of `NoWaitCycle`,
`EveryQueryEnds` and `EveryRunEnds`.

## 4. Findings

- `override_failure`: the release test matrix (row 6) says an analyst cannot
  approve a policy override. `approve` rolls back before it records a failure;
  between the two another approver can escalate the request, and
  `_persist_execution_failure` checks only that the pair is still pending. The
  approval is then recorded as *approved* by somebody without the override
  permission. Nothing is executed: `OverrideNeedsPermission`, about completed
  requests, holds and is proved.
- `stale_version`: a card edit increments the `layout_version` of an object loaded
  before the row lock (`dashboards.py:703`, `804`, `877`). Two that overlap store the
  same version, and a draft opened between them is accepted, against the tests that
  say a stale version is refused. `DraftsExpire` shows that the protocol itself is
  sound as long as no stale object is written.

Further places where code and documentation part, met while modelling. The modules
contain the behaviour; no run of its own is kept for them, and where a property
leaves such a case out its comment says so.

- `approve` reads the clock once, before it waits for target and dependency locks
  (`approval.py:292`), so it may execute after the deadline, against row 10 of the
  release test matrix; `DatedWithinDeadline` shows that such an approval is still
  *dated* before it.
- Two orders of the same cards that overlap leave two cards at one position
  (`dashboards.py:353`), for the same reason as `stale_version`.
- `_persist_query_run` reloads the row after its commit (`service.py:618`); when the
  pool has no connection for it, a stored run is reported as not persisted.
- The conformance checker sorts the values of IN and NOT IN and rewrites a one-value
  NOT IN, but not those of the plan (`semantic_conformance.py:536`): SQL rendered from
  a valid plan with an unsorted list is refused.
- For a question that asks for any n rows, a partial sample outside the baseline's n
  rows is judged incorrect (`scoring.py:740-772`), where the evidence contract says
  *unestablished*.
- A plan that runs without its own bound (no LIMIT, or one clamped) and whose rows
  are exactly *one* of the legitimate answers of a top-N question with a tie at the
  cutoff is judged incorrect when the statement that would have shown its population
  fails or times out: `_sample_is_valid_delivery` and `_sample_is_compatible_subset`
  do not know the cutoff (`scoring.py:715`), where
  `docs/evaluation/bounded-result-evidence.md:118` says that differing membership of
  an unresolved tie stays *unestablished*. It came out of the proof of
  `JudgmentIsProof`, on three rows with two of one rank, N = 2, a default limit of 1
  and maximum and evidence limits of 3. Such a plan returns the right rows only if
  the baseline happens to break the tie as the plan's filter does, so it is not
  `Innocent`, which asks for an answer to *each* of the baseline's; the property is
  silent about it.
- After an exception in the judgment, or a failure after an answer that should have
  been a refusal, the stored combination is one every reader rejects
  (`runner.py:1241`, `674`): the observation is lost to the metrics.
- No reader compares the recorded source revision with the running one, so READY
  outlives a deployment (`readiness.py:521`, `stability.py:401`); and a newer full run
  with an open comparison is passed over in favour of an older READY one
  (`readiness_service.py:89`).
- The guard's comment says `O_EXCL` rejects every restart (`w6c_dispatch.py:61`), and
  `docs/audits/w6c/live-experiment-v3.md:63` that a reservation permanently spends its
  attempt. Only the start that makes the journal's directory syncs its name
  (`w6c_v3.py:89`): let it be killed, or be slow, in between, and another start finds
  the directory, journals and sends in it. Its fsync of the directory keeps the
  journal's name but not the directory's own, so a power failure may take both, and a
  third start sends the question again. Whether a file system forgets such a name is
  left open by POSIX; many do not. TLC finds this with three starts, one
  question and one power failure when the exception (`lost`) is taken out of
  `OncePerQuestion`; with it, that property and `JournalLeads` are theorems.
- Filters that only exclude (`not_equals`, `not_in`) are never found contradictory
  (`semantic_plan.py:1166-1207`), although on a boolean column, or on one whose
  metadata lists its known values, they may exclude everything; such a plan runs and
  returns nothing. `RefusalsExact` says what is refused: filters that tell a column
  what to be and leave it no value.

## 5. Proofs

Twelve specifications have theorems, for every value of their constants: any number
of workers, users, requests, rows, sessions, runs or starts, any data and any bound.
`PROJECT.json` lists them all.

| Module | Theorem | States |
|---|---|---|
| `ActionLifecycleProofs` | `TypeCorrect`, `LockProtocolHolds` | types, and what a handler's locks protect |
| | `PairsConsistent`, `DatedInTime`, `OneWinner`, `OverrideHeld`, `ToldOnce` | `PairConsistent`, `DatedWithinDeadline`, `DecisionsAreFinal`, `OverrideNeedsPermission`, `NotifiedOnce` |
| | `MutationOnlyByCompletion`, `ImplementsContract` | `ExecutedOnlyIfCompleted`; refinement of `ActionContract` |
| | `LocksHold` | what an approval has locked at each of its steps |
| | `ExecutesWhatWasRevalidated`, `ApprovalsLockInOrder`, `TrailIsHistory` | `ExecutionAuthorized`, `ApprovalsNeverDeadlock`, `TrailMatchesStatus` |
| `ActionTargetsProofs` | `FactsDecide`, `SnapshotsReadable`, `ViewersDecide`, `HiddenRowsHidden` | `ExecutionSeesEveryFact`, `SnapshotStaysReadable`, `ViewersAreDeciders`, `HiddenRowsLeaveNoTrace` |
| `RoleRequestsProofs` | `RoleInvHolds`, `OnePendingHolds`, `OneDecisionHolds`, `ApprovalGrantsHolds`, `NoWaitCycleHolds` | the four properties of `roles` |
| `DashboardEditorProofs` | `EditorInvHolds`, `ArchivedStaysFrozen`, `DraftsAreCurrent` | `ArchivedFrozen`, `DraftsExpire` |
| | `ServedIsProper` | `ServedProper` |
| `QueryPipelineProofs` | `PipelineInvHolds`, `CompletenessHolds`, `AnswersHold`, `OpenTablesHold`, `AccessHolds` | the four invariants of `queries` |
| `EvaluationProofs` | `EvaluationInvHolds`, `ObservationHolds`, `FinishedRunsWhole` | `ObservationSurvives`, `FinishedRunIsWhole` |
| | `JudgmentsAreReadable`, `JudgmentsAreProofs` | `StoredIsReadable`, `JudgmentIsProof` |
| | `VerdictsAreEarned` | `VerdictIsEarned` |
| `SemanticPlanProofs` | `ContractsAreMet`, `ReportsAreHonest` | `RequiredIntentMet`, `UsageHonest` |
| | `ApprovedSqlMeansThePlan`, `MetricsCountTheirPopulation`, `RefusalsAreExact` | `ConformingMeansPlan`, `MetricCountsPopulation`, `RefusalsExact` |
| `LiveDispatchProofs` | `DispatchInvHolds`, `OncePerQuestionHolds`, `JournalLeadsHolds` | `OncePerQuestion`, `JournalLeads` |

*Assumptions*: the named ASSUMEs of the modules, which give the constants their
types, and the definitions called `Setting`, `EvidenceSetting`, `ReleaseSetting` and `PlanSetting`,
which theorems take as a hypothesis because the same specification runs with several
sets of constants, or beside others; `SettingsHold` in the MC
modules has TLC evaluate each of them for each set. What they ask beyond types:
`QueryPipeline`, that access contexts have scopes as the tables allow
(no two with one type and key, the global one with its key), and at most one type of
scope besides the global one and departments, the only ones the program makes;
`EvaluationRun`, that no two cases have one identifier, which the loader checks;
`EvidenceSetting`, that a question has a limit exactly when its kind needs one and
that a top-N question ranks (`contracts.py:84`), and that the default limit is at most
the maximum and that at most the evidence's; `JudgmentsAreProofs`, that the last two
are equal (`sql_executor.py:30`, `evidence.py:27`: both 1000), as for a larger evidence
limit an answer cut at the maximum would be taken for a whole one; `ReleaseSetting`,
that case identifiers differ and that the canary suite has a case of each type and a
security case, which the suite's definition states; `PlanSetting`, that
columns whose metadata says so hold no NULL, that plans and SQL are finite and name the
catalog's entities and relationships; `ContractAssumption`, that
relationships end at entities and that plans are well
formed, a foreign key being a column of its own; `ProviderAssumption`, that a client
retries at most twice; `EditorAssumption`, that the columns of the first cards, like
the layouts a draft sends, hold what the table's columns can (`CardData`); and
`ServedIsProper`, that the cards ever made number at most a sixth of the rows of a
layout (`RoomForCards`, 1666 cards). The code has no limit on cards; beyond what fits,
`_first_available_coordinates` raises (`editor.py:456`) and nothing is served, which
the model does not describe.

### The action engine

The inductive invariant is `Inv == TypeOK /\ LockProtocol /\ PairConsistent`. None of
the three is inductive alone. A handler writes the rows of the request its session
names, which exist only because of `LockProtocol`; `LockProtocol` says that an
approval under way holds the lock of a *pending* pair, which other workers cannot
falsify because they write a pair only under its lock; and an expiry sweep takes a
lock when the action row is pending, from which `PairConsistent` concludes that the
approval row is. `StepEffect` reduces the whole next-state relation to what it can do
to one request: leave it alone (`Kept`), create it, accept it, escalate it, withdraw
it, decide it. The other theorems of `ActionLifecycleProofs` are consequences of that
lemma with one strengthening each: `EscalatedAfterSubmission` for `OneWinner`,
`ClaimedWithOverride` (the approver at work has the permission its request needs) for
`OverrideHeld`, `SilentBeforeSubmission` for `ToldOnce`. The refinement adds that
every step but the commit of a sweep touches one request only (`OneRequest`).

The second half of the module adds `LocksOK`: in each step of an approval, which target and
dependency rows it holds, that it took them in ascending order, and, at the
execution, that the rows to be changed are executable *now*. Nobody else can make
that untrue, because other writers respect row locks and the access context is the
one the approval began with. From it:

- `ExecutesWhatWasRevalidated`: the commit changes what the second pass found.
- `ApprovalsLockInOrder`: suppose a set of approvals in which somebody waits for each.
  If some of them still lock target rows, take the one that waits for the *least* such
  row: all it holds are smaller target rows, so whoever waits for it waits for a
  smaller row still. Otherwise all wait for dependency rows, and the same argument
  applies to those. This is why the ascending order matters, and why targets come
  before dependencies; sweeps, and second revalidations that find new rows, lock
  against the order, and the property leaves them out.
- `TrailIsHistory`: the trail is a function of the two rows (`TrailOf`), and each of
  the moves of `StepEffect` extends both in the same way. The strengthening is
  again `EscalatedAfterSubmission`.

`LockProtocolHolds`, `LocksHold` and `MutationOnlyByCompletion` have no run of their
own: the first two are inductive cores, and `ContractHolds` covers what
`ExecutedOnlyIfCompleted` says but for the preview's naming of the rows.

### Previews and revalidation

`DirectoryInv` (the directory keeps the shape of its tables) and `RequestInv` (a
stored request is a snapshot, with what an escalation may have added) are inductive.
`FactsDecide` is then about the classification under the action role: whatever
department a fact is filed under, its visibility follows from the target's.
`SnapshotsReadable` needs that a preview counts what it selected (`Counted`), that
its flags follow from each other (`FlagsFollow`), and that an escalation and a
completion keep both; the counts are cardinalities of disjoint sets, since targets
come in two lists. `ViewersDecide` compares two pieces of code that decide
separately who sees and who may approve. `HiddenRowsHidden` takes a preview apart
(`Assembled`) into what it looks up and shows that none of it changes when the hidden
rows are left out of the directory.

### Role requests

`RoleInv` says that a handler past its lock holds its requester's row
(`HoldsSubject`) and that what it checked under the lock still holds when it commits
(`CheckedStillHolds`). Both need `SubjectsDiffer`, two handlers under way are about
different users, which follows from the lock; and that is why two creates of one
user, and two decisions of one request, cannot overlap. `OnePending` is *not*
assumed by any constraint of the table: it comes from `PendingOf(s.user) = {}` staying
true until the commit. `NoWaitCycleHolds` needs nothing but the modes: a worker waits
while it holds nothing, since key-share locks of the audit rows never wait.

### Dashboards

`EditorInv` says of every open draft that it is older than its dashboard or shows
what is served (`Fresh`), as long as no handler has written stale objects or stored an
order, the two things the code does not protect against and `overtaken` records.
`Effect(e)` is what any handler may do: change the cards of one dashboard, and then
increment its version unless its objects were stale; archived dashboards are kept.
Each handler is shown to have an `Effect`, and both properties follow.

`ServedIsProper` is about the algorithm that reads whatever races have stored. Ranks
of cards are distinct and have no gaps, so the order names each card once
(`EarlierOrders`, `OrderedIs`). A step of either pass keeps a *placement*: the boxes
fit their types and lie apart (`StepIsPlacement`). For a step of the second pass this
needs a free place. A box of a default size is at most three rows high and a placed
one at most four, so each placed card blocks at most six rows, and with fewer placed
cards than a sixth of the rows some row is free (`BlockersAreNear`, `RowsOutnumber`,
`SomeRowIsFree`). The passes are recursive functions along the order; that they exist,
and that what a step keeps holds at the end, is shown by a least counterexample
(`WalksExist`, `WalkIsPlacement`), which needs no induction theorem. `LayoutInv` then
says that the cards of the table, and those that a handler has loaded, hold data, so
that the algorithm is applied to what it expects: a commit writes the columns a
handler has loaded, sent or computed, however stale.

### Queries

`PipelineInv` has five parts for each session: the argument of a request exists
(`Argued`), the SQL at hand knows truly where its LIMIT comes from and the result at
hand is honest (`Bounded`), the tables of the SQL were open at some instant
(`Opened`), and what was committed and what was answered is on record (`Recorded`,
`Answered`). The core of `CompletenessHolds` is `Told`: the recorded bound says
whether the stored LIMIT is the author's, was added or was clamped. It is true of new
SQL, and `restore_saved_bound` keeps it through every refresh although validation of
the stored SQL alone would mistake an added LIMIT for the author's; a loop that stops
under a `Told` bound and says "complete" has then lost nothing (`Honest`).
`AccessHolds` proves the agreement of three computations, the decision, the key chosen
for a table's kind and the departments of row-level security, from
`DefaultIsHeld` (the CHOOSE over the user's scopes has a value) and `KeyOfKind`.

### Evaluation runs

`EvaluationInv` relates each run's local variables to its committed rows: rows are of
different cases and, with what is left, make up the selection (`Progress`); the rows
are what is done, but for one at the commit (`Committed`); a fatal case is the last
(`Fatal`); rows and the case at hand say what the engine answered (`Observation`);
status and summary come last (`Finished`). A reader of a succeeded run holds what the
final rows say (`ReaderInv`), which is stable because a succeeded run has no further
writer. `FinishedRunsWhole` then counts: rows and cases are in bijection, so the
numbers of the summary, of the reader and of the selection agree.

### Judgments

`CaseInv` says what a side of the evidence may look like when it is judged (`Settled`,
a finite number of shapes: complete, cut by rows, by bytes or by time, failed), and
that `StoredIsReadable` holds of what is stored. Which shape goes with which verdict is
a case analysis over the branches of the judgment.

`JudgmentsAreProofs` is about what the rows mean. `TruthInv` says that both sides tell
the truth: `delivered` and `baseline` are executions of their queries in the snapshot,
and a side that calls itself exhausted, a sample or a count is one of that query's
population (`TrueSide`). An execution is a prefix of some order of the population, in
the order of ranks if the query ranks; `ExecutionPicks` makes that an injection from
positions to positions, which turns every statement about rows into one about
cardinalities of finite sets. Then:

- *Correct* needs two whole answers: a judgment of "correct" compares rows that are
  answers of their queries (`Answers`), because a side cut short never says that it
  is complete.
- *Incorrect* is never said of an innocent query. Suppose it may answer whatever the
  baseline may answer. For a population, equal answers mean equal counts of each row,
  so no sample of one lies outside the other, and a sample's size never exceeds it.
  For a top-N question, all answers have the same ranks (`SameRanks`: two ordered
  picks of N least rows agree rank by rank, by counting how many rows lie below each)
  and the same rows off the cutoff (`Tops`), which is what the tie rule of the
  judgment compares. If the query does not rank, every answer it may give is one the
  baseline may give, so that its population has only one rank order where it matters
  (`OneRank`).

`Innocent` had to be exact for that: "some answers agree" is too weak, since two
queries may agree by luck on a tie, and TLC and the prover found one counterexample
each to earlier forms, the second of which is an observation of section 4.

### Release verdicts

`ReleaseInv` says of every stored run that, if it succeeded, it has a possible result
for each case of its suite and for no other. The verdict is a function of the log, the
manifest, the clock and the configuration, so the rest is about that function
(`VerdictIsOf`): which runs the readers choose (`ChosenRuns`: as many of the newest
canary runs of one environment as are required, which `TopHasSize` counts), that what the
gates check bounds the faults and the shares of a run's cases (`GatesBoundFaults`,
`GatesBoundShares`), that READY means as many such canary runs as are required and a
full run of the running configuration (`ReadyIsEarned`), and that behind NOT_READY is a
run of the running configuration with a recorded fault (`NotReadyIsEarned`).

### Contracts and measurements

`ContractsAreMet`: aggregations are compared by how often each key occurs, so an
accepted plan's and the contract's are in bijection (`EqualTalliesMatch`), and so are
the numbers that come of them. What has to be shown is that a foreign key may stand for
the identity it names: on every joined row of a proven, inner, many-to-one
relationship the two have one value, whichever rows the viewer does not see
(`KeyIsIdentity`). `ContractInv` adds only that an accepted plan has passed the
validator for the contract at hand.

`ReportsAreHonest`: `CallsInv` relates the call under way to what its attempts have
billed so far (`CallOK`) and each kept call to its measurement (`EntryOK`). A total is
a recursive function over a sequence; a least counterexample (`LeastNatural`) takes the
place of induction in showing that running totals exist, are unique, and grow by the
element that is appended (`TotalsExist`, `TotalsAgree`, `SumUpOneMore`).

### Plans and their SQL

Plans are sets and SQL is a sequence of joins, so most of this part says that what is
computed in turn does not depend on the turns. Loops are recursive functions over the
number of rounds; `RunsExist` and `RoundByRound`, again by least counterexamples, stand
in for induction. `SqlOK` is what every SQL that reaches the checker has: each join
adds a new table with a relationship between it and earlier ones. The renderer's SQL has
it because `selected_join_order` traverses the plan (`Traversed`, `TraversalHolds`).

- `ApprovedSqlMeansThePlan`. After each join, the rows are exactly the assignments
  that every join so far lets through (`RowsFromJoins`); a matching row, or its
  absence, depends only on tables that are there already (`SameThrough`). The
  comparison of keys pairs relationships with joins one to one, the nullable side
  included (`JoinsAsCompared`), so the order falls away. For the filters, one node of
  an OR may be rewritten by the parser, and it still holds of the same rows
  (`FiltersAgree`); an inner join lets its ON terms be moved to WHERE, which is where
  the refusal of residual filters on a LEFT JOIN is needed.
- `MetricsCountTheirPopulation`. The rows of the plan that agree on the metric's entity
  agree on everything the grain walk has visited (`Walked`). A step from the preserved
  side, or between rows that are there, is to-one by the declared cardinality. A step
  back from a nullable side that is NULL would leave the other side open; it does not
  occur, because a visited entity is there in every row as long as the relationship
  that adds it has not been walked.
- `RefusalsAreExact`. If some SQL joins what the plan asks for, the greedy search from
  the same root succeeds (`SearchSucceeds`): while tables are missing, the first one
  that SQL adds can be joined. For that, each join has to add an end of its own
  relationship, which SQL need not do in general; it must here, because a plan is a
  tree and no relationship can be spared (`BeyondIsLarge`, `JoinsAddEnds`). And the
  constraints collected for a column contradict each other exactly if one of them says
  what the column must be and no value it allows satisfies them all (`ContradictoryIs`),
  branch by branch of the OR rules: where there are none of these, the exclusions are
  never compared with anything.

`SqlInv` adds the plan's acceptance, the checker's approval and the data's shape to the
stage that rests on each; it is inductive as it stands.

### The live diagnostic

`DispatchInv` is inductive. At most one start is past `O_EXCL` at a time, because the
journal exists from then on and only a power failure, which ends every process, takes
it (`InRun`, `RunOK`). A start gets to `O_EXCL` only in a directory that is *durable* or
*used* (`Placed`): the maker has synced it by then, anybody else found it made. What
was sent is kept on the disk, names included (`SentIsKept`), each write of the journal
only adds to that (`Grows`, `KeptStable`), and all that a running start relies on,
which questions were sent and which are settled, is recorded by then (`Progress`). A power failure is the only step that takes a line, and takes
none of these unless it takes a *used* directory, which is what `lost` records.
`OncePerQuestion` and `JournalLeads` follow. They say nothing once a *used* directory
was lost with its journal, and `JournalLeads` nothing while that threatens; section
4 says how the code gets there.

### Only model-checked

- `EveryRequestEnds`, `EveryQueryEnds`, `EveryRunEnds`: liveness under fairness is
  outside the prover.
- The two expected violations.

## 6. Plan

1. Done: the action engine's core (`ActionPolicy`, `ActionLifecycle`,
   `ActionContract`) with its runs and the theorems above.
2. Done: `RoleRequests`, `DataAccess`; dashboards (`DashboardLayout`,
   `DashboardEditor`); queries (`QueryDelivery`, `QueryPipeline`, `ProviderCall`);
   plans (`SemanticSql`, `RequiredIntent`); previews and revalidation with real
   columns (`ActionTargets`); evaluation (`ResultComparison`, `EvaluationRun`,
   `EvaluationReadiness`); `LiveDispatch`.
3. Done: the proofs of section 5.
4. Done: judgments, release verdicts, contracts and measurements, plans and their SQL
   (the last four proof subsections), and `ServedProper`. Every invariant that a
   passing run checks is a theorem.
5. Next: the tie at the cutoff of section 4 as a run of its own; grouping and HAVING in
   `SemanticSql`, so that contracts and SQL share one meaning.

## 7. Not modelled

- *Semantic grounding* (`semantic_grounding.py`, the catalog and its loader): a
  deterministic analysis of question text over an open vocabulary. It keeps no
  state, and no small set of inputs would be a faithful one; its result, the
  contract a plan has to meet, is what `RequiredIntent` starts from.
- *SQL syntax rules* of `sql_validator.py` and the parts of plans compared one to
  one (grouping, ordering, limits, labels).
- *Sessions and sign-in*: a signed cookie without server state; the CSRF token is
  bound to a login, and no protocol runs between requests.
- *Notifications inbox*: idempotent status writes by the owner of a single row.
- *Home overview* and the list endpoints: they only read.
- *Seed data and domain packs*: static data, checked at start-up.
- *Version 2 of the live diagnostic* (`w6c_live.py`): superseded; it shares the
  guard and differs in how it makes its directory and in not recording completion.
- *Frontend*: a client of the API that enforces nothing.
