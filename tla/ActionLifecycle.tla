--------------------------- MODULE ActionLifecycle ---------------------------
(***************************************************************************)
(* Action requests from preview to execution, under concurrent requests.   *)
(*                                                                         *)
(* Every HTTP request is a worker that runs one database transaction: it   *)
(* takes row locks (SELECT ... FOR UPDATE, or an UPDATE), waits where      *)
(* another worker holds one, and publishes all its writes in one commit.   *)
(* A step of a worker lies between two points where another transaction    *)
(* can get in between; an exception, a lost connection or a process crash  *)
(* rolls the transaction back.                                             *)
(*                                                                         *)
(* The action row and its approval row are always locked in this order by  *)
(* every writer, so one lock stands for the pair.  A target row (a license *)
(* assignment, a directory user) and the rows its eligibility depends on   *)
(* (users and licenses; login events, groups and security events) carry    *)
(* what revalidation distinguishes: skip, executable, needs an override.   *)
(***************************************************************************)
EXTENDS ActionPolicy, Sequences

CONSTANTS
    Workers,            \* request handlers running at the same time
    Users,              \* application users
    Requests,           \* identifiers of action requests
    Records,            \* identifiers of target rows, in lock order
    Deps,               \* identifiers of dependency rows, in lock order
    Owner,              \* Owner[r]: the user who creates request r
    ScopeOf,            \* ScopeOf[r]: the scope r is created for
    Candidates,         \* Candidates[r]: the target rows r's selectors name
    DepOf,              \* DepOf[x]: the dependency row of target row x
    InitialAccess,      \* the users' access contexts at the start
    AccessChoices,      \* AccessChoices[u]: contexts u may be given later
    RowChoices,         \* contents a domain writer may give a target row
    DepChoices,         \* contents a domain writer may give a dependency row
    PREVIEW_LIFETIME,   \* 30 minutes in the code
    PENDING_APPROVAL_LIFETIME, \* 24 hours in the code
    MaxTime,            \* bound of the clock
    NoUser

ASSUME LifecycleAssumption ==
    /\ Records \subseteq Nat /\ Deps \subseteq Nat
    /\ Owner \in [Requests -> Users] /\ ScopeOf \in [Requests -> Scopes]
    /\ Candidates \in [Requests -> SUBSET Records]
    /\ DepOf \in [Records -> Deps]
    /\ InitialAccess \in [Users -> AccessContext]
    /\ AccessChoices \in [Users -> SUBSET AccessContext]
    /\ PREVIEW_LIFETIME \in Nat /\ PENDING_APPROVAL_LIFETIME \in Nat
    /\ MaxTime \in Nat
    /\ NoUser \notin Users

RowStatus == {"active", "ineligible", "done"}
RowContent == [status : RowStatus, dept : Departments, sensitive : BOOLEAN]
DepContent == {"plain", "override", "skip"}

ASSUME RowAssumption == RowChoices \subseteq RowContent /\ DepChoices \subseteq DepContent

ActionRequestStatus ==
    {"none", "draft_preview", "pending_approval", "completed", "rejected",
     "failed", "cancelled", "expired"}
TerminalStatus == {"completed", "rejected", "failed", "cancelled", "expired"}
ApprovalStatus ==
    {"none", "pending", "approved", "rejected", "cancelled", "expired"}

VARIABLES
    action,     \* action_requests: status, deadline, targets, policy flags
    approval,   \* approval_requests: status, who decided and when
    row,        \* target rows
    dep,        \* dependency rows
    access,     \* what build_user_access_context would return now
    clock,
    held,       \* row locks held by each worker's transaction
    session,    \* local state of each worker
    audit,      \* app_audit_logs of a request, in commit order
    notified,   \* pending-approval notifications per request and user
    executed    \* it_audit_events: target rows a request has changed

vars == <<action, approval, row, dep, access, clock, held, session, audit,
          notified, executed>>

Resources == ({"action"} \X Requests) \cup ({"row"} \X Records)
                 \cup ({"dep"} \X Deps)

Event == {"action_preview_created", "action_requested", "action_cancelled",
          "action_rejected", "action_expired", "action_approval_escalated",
          "action_approved", "action_executed", "action_failed"}

NoAction ==
    [status |-> "none", deadline |-> 0, targets |-> {}, override |-> FALSE,
     crosses |-> FALSE, revOverride |-> FALSE, revCrosses |-> FALSE]

\* "with" is the access context the decision was evaluated with; the code
\* keeps it only as the permissions the decider had.
NoApproval ==
    [status |-> "none", by |-> NoUser, at |-> 0,
     with |-> [active |-> FALSE, permissions |-> {}, scopes |-> {}]]

Idle == [pc |-> "idle", kind |-> "none", user |-> NoUser, req |-> "none",
         ctx |-> NoApproval.with, now |-> 0, todo |-> {}, first |-> {},
         final |-> {}]

PC == {"idle", "queued", "expiring", "locking1", "locking_deps", "locking2",
       "executing", "failed"}
Approving == {"locking1", "locking_deps", "locking2", "executing"}
Kind == {"none", "submit", "cancel", "reject", "approve", "detail", "list"}

-----------------------------------------------------------------------------
(* Row locks                                                               *)

Free(q) == \A w \in Workers : q \notin held[w]
FreeFor(w, q) == \A v \in Workers \ {w} : q \notin held[v]

Acquire(w, q) == /\ FreeFor(w, q)
                 /\ held' = [held EXCEPT ![w] = @ \cup {q}]

\* The worker goes on inside its transaction.
Continue(w, s) == session' = [session EXCEPT ![w] = s]

\* Commit, rollback or the end of the connection: every lock is released.
EndTransaction(w) == /\ held' = [held EXCEPT ![w] = {}]
                     /\ Continue(w, Idle)

-----------------------------------------------------------------------------
(* Eligibility and policy                                                  *)

\* Mutant: the deadline itself still counts as in time.
deadline_strictly_passed(r, now) == action[r].deadline < now

\* deadline <= now counts as passed
deadline_passed(r, now) == action[r].deadline <= now

Pending(r) == /\ action[r].status = "pending_approval"
              /\ approval[r].status = "pending"

\* Mutant: only the preview's flags count, an escalation is forgotten.
ApprovalDecisionAsPreviewed(r, self, ctx) ==
    evaluate_action_approval(ctx, self, ScopeOf[r],
        Cardinality(action[r].targets), action[r].crosses, action[r].override)

\* The flags a revalidation added count as much as the preview's.
ApprovalDecision(r, self, ctx) ==
    evaluate_action_approval(ctx, self, ScopeOf[r],
        Cardinality(action[r].targets),
        action[r].crosses \/ action[r].revCrosses,
        action[r].override \/ action[r].revOverride)

\* Revalidation of one target for an approver (or the preview for a requester)
Executable(ctx, x) ==
    /\ sees_department(ctx, row[x].dept)
    /\ row[x].status = "active"
    /\ dep[DepOf[x]] # "skip"

CrossScope(r, x) == row[x].dept # ScopeOf[r]

NeedsOverride(r, x) == \/ row[x].sensitive
                       \/ dep[DepOf[x]] = "override"
                       \/ CrossScope(r, x)

\* The users eligible_approvers returns when the request carries the flags
EligibleApprovers(r, count, crosses, override) ==
    {u \in Users :
        /\ access[u].active
        /\ Allowed(evaluate_action_approval(access[u], u = Owner[r],
                       ScopeOf[r], count, crosses, override))}

\* Mutant: the escalation tells everyone again.
UnnotifiedIgnored(r, users) == users

\* _persist_escalation leaves out whoever has the notification already.
Unnotified(r, users) == {u \in users : notified[r][u] = 0}

Notify(r, users) ==
    notified' = [notified EXCEPT ![r] =
                    [u \in Users |-> IF u \in users THEN @[u] + 1 ELSE @[u]]]

-----------------------------------------------------------------------------
(* Writes of one request                                                   *)

Log(r, events) == audit' = [audit EXCEPT ![r] = @ \o events]

\* Mutant: the approval row is forgotten.
SettleActionOnly(r, status, decision, by, ctx, now) ==
    action' = [action EXCEPT ![r].status = status] /\ UNCHANGED approval

Settle(r, status, decision, by, ctx, now) ==
    /\ action' = [action EXCEPT ![r] = [@ EXCEPT !.status = status]]
    /\ approval' = [approval EXCEPT ![r] =
                       IF @.status = "pending"
                       THEN [status |-> decision, by |-> by, at |-> now,
                             with |-> ctx]
                       ELSE @]

Expire(r, now) == /\ Settle(r, "expired", "expired", NoUser, NoApproval.with, now)
                  /\ Log(r, <<"action_expired">>)

-----------------------------------------------------------------------------
(* create_preview: one commit, no lock                                     *)

CreatePreview(r) ==
    LET u == Owner[r]
        ctx == access[u]
        targets == {x \in Candidates[r] : Executable(ctx, x)}
    IN  /\ action[r].status = "none"
        /\ ctx.active
        /\ evaluate_action_request(ctx, ScopeOf[r]) = "request_allowed"
        /\ action' = [action EXCEPT ![r] =
              [status |-> "draft_preview", deadline |-> clock + PREVIEW_LIFETIME,
               targets |-> targets,
               override |-> \E x \in targets : NeedsOverride(r, x),
               crosses |-> \E x \in targets : CrossScope(r, x),
               revOverride |-> FALSE, revCrosses |-> FALSE]]
        /\ Log(r, <<"action_preview_created">>)
        /\ UNCHANGED <<approval, row, dep, access, clock, held, session,
                       notified, executed>>

-----------------------------------------------------------------------------
(* A worker starts a request.  The access context is read here, before any *)
(* lock wait; what the handlers check without a lock is checked here.      *)

Job(k, u, r) == [Idle EXCEPT !.pc = "queued", !.kind = k, !.user = u,
                             !.req = r, !.ctx = access[u], !.now = clock]

Start(w, job) == /\ session[w] = Idle
                 /\ access[job.user].active
                 /\ Continue(w, job)
                 /\ UNCHANGED <<action, approval, row, dep, access, clock,
                                held, audit, notified, executed>>

StartOwn(w, k, r) == /\ action[r].status # "none"
                     /\ REQUEST \in access[Owner[r]].permissions
                     /\ Start(w, Job(k, Owner[r], r))

StartDecision(w, k, u, r) == /\ approval[r].status # "none"
                             /\ Start(w, Job(k, u, r))

\* get_detail only goes on to lock when the unlocked read shows a pending
\* request whose deadline has passed.
StartDetail(w, u, r) ==
    /\ approval[r].status # "none"
    /\ \/ Allowed(ApprovalDecision(r, u = Owner[r], access[u]))
       \/ VIEW_AUDIT \in access[u].permissions
    /\ action[r].status = "pending_approval" /\ deadline_passed(r, clock)
    /\ Start(w, Job("detail", u, r))

\* list_pending reads the expired pending requests it may decide, unlocked.
StartList(w, u) ==
    LET rows == {r \in Requests :
                    /\ Pending(r) /\ deadline_passed(r, clock)
                    /\ Allowed(ApprovalDecision(r, u = Owner[r], access[u]))}
    IN  /\ access[u].permissions \cap APPROVAL_PERMISSIONS # {}
        /\ rows # {}
        /\ Start(w, [Idle EXCEPT !.pc = "expiring", !.kind = "list",
                                 !.user = u, !.ctx = access[u],
                                 !.now = clock, !.todo = rows])

-----------------------------------------------------------------------------
(* Handlers that need the pair lock: w obtains it, does its work, commits. *)

Serving(w, k) == /\ session[w].pc = "queued" /\ session[w].kind = k
                 /\ FreeFor(w, <<"action", session[w].req>>)

Unserved == <<row, dep, access, clock, executed>>

\* Nothing to write: an idempotent answer, a conflict or a denial.
NoWrite(w) == /\ EndTransaction(w)
              /\ UNCHANGED <<action, approval, audit, notified>>
              /\ UNCHANGED Unserved

\* Mutant: a retried submit is accepted a second time.
SubmitAcceptAgain(w) ==
    LET r == session[w].req
        count == Cardinality(action[r].targets)
    IN  /\ Serving(w, "submit")
        /\ action[r].status \in {"draft_preview", "pending_approval"}
        /\ ~ deadline_passed(r, clock) /\ count > 0
        /\ action' = [action EXCEPT ![r] =
              [@ EXCEPT !.status = "pending_approval",
                        !.deadline = clock + PENDING_APPROVAL_LIFETIME]]
        /\ approval' = [approval EXCEPT ![r] = [@ EXCEPT !.status = "pending"]]
        /\ Notify(r, EligibleApprovers(r, count, action[r].crosses,
                                       action[r].override))
        /\ Log(r, <<"action_requested">>)
        /\ EndTransaction(w)
        /\ UNCHANGED Unserved

SubmitAccept(w) ==
    LET r == session[w].req
        count == Cardinality(action[r].targets)
    IN  /\ Serving(w, "submit")
        /\ action[r].status = "draft_preview" /\ ~ deadline_passed(r, clock)
        /\ count > 0
        /\ action' = [action EXCEPT ![r] =
              [@ EXCEPT !.status = "pending_approval",
                        !.deadline = clock + PENDING_APPROVAL_LIFETIME]]
        /\ approval' = [approval EXCEPT ![r] = [@ EXCEPT !.status = "pending"]]
        /\ Notify(r, EligibleApprovers(r, count, action[r].crosses,
                                       action[r].override))
        /\ Log(r, <<"action_requested">>)
        /\ EndTransaction(w)
        /\ UNCHANGED Unserved

SubmitAgain(w) ==
    LET r == session[w].req
    IN  /\ Serving(w, "submit")
        /\ action[r].status \in {"draft_preview", "pending_approval"} =>
              /\ ~ deadline_passed(r, clock)
              /\ action[r].status = "draft_preview" => action[r].targets = {}
        /\ NoWrite(w)

\* _expire_action_request, reached from submit_request and cancel_request
OwnerExpire(w) ==
    LET r == session[w].req
    IN  /\ \/ /\ Serving(w, "submit")
              /\ action[r].status \in {"draft_preview", "pending_approval"}
           \/ /\ Serving(w, "cancel")
              /\ action[r].status = "pending_approval"
        /\ deadline_passed(r, clock)
        /\ Expire(r, clock)
        /\ EndTransaction(w)
        /\ UNCHANGED notified /\ UNCHANGED Unserved

CancelCommit(w) ==
    LET r == session[w].req
    IN  /\ Serving(w, "cancel")
        /\ Pending(r) /\ ~ deadline_passed(r, clock)
        /\ Settle(r, "cancelled", "cancelled", NoUser, NoApproval.with, clock)
        /\ Log(r, <<"action_cancelled">>)
        /\ EndTransaction(w)
        /\ UNCHANGED notified /\ UNCHANGED Unserved

CancelRefused(w) ==
    /\ Serving(w, "cancel")
    /\ action[session[w].req].status # "pending_approval"
    /\ NoWrite(w)

\* Reject and approve evaluate the decision on the locked pair, then expire.
Decidable(w, k) ==
    LET s == session[w]
    IN  /\ Serving(w, k)
        /\ Allowed(ApprovalDecision(s.req, s.user = Owner[s.req], s.ctx))

DecisionRefused(w) ==
    LET s == session[w]
    IN  /\ \E k \in {"reject", "approve"} :
              Serving(w, k) /\ (~ Decidable(w, k) \/ ~ Pending(s.req))
        /\ NoWrite(w)

\* _expire_one, reached from reject, approve and get_detail; get_detail uses
\* the time it read before the lock and evaluates no decision under the lock.
DeciderExpire(w) ==
    LET r == session[w].req
        now == IF session[w].kind = "detail" THEN session[w].now ELSE clock
    IN  /\ Decidable(w, "reject") \/ Decidable(w, "approve") \/ Serving(w, "detail")
        /\ Pending(r) /\ deadline_passed(r, now)
        /\ Expire(r, now)
        /\ EndTransaction(w)
        /\ UNCHANGED notified /\ UNCHANGED Unserved

DetailNoWrite(w) ==
    LET r == session[w].req
    IN  /\ Serving(w, "detail")
        /\ ~ (Pending(r) /\ deadline_passed(r, session[w].now))
        /\ NoWrite(w)

RejectCommit(w) ==
    LET s == session[w]
    IN  /\ Decidable(w, "reject")
        /\ Pending(s.req) /\ ~ deadline_passed(s.req, clock)
        /\ Settle(s.req, "rejected", "rejected", s.user, s.ctx, clock)
        /\ Log(s.req, <<"action_rejected">>)
        /\ EndTransaction(w)
        /\ UNCHANGED notified /\ UNCHANGED Unserved

-----------------------------------------------------------------------------
(* list_pending: conditional UPDATEs row by row, one commit at the end     *)

\* Mutant: the UPDATE has no condition on the status.
ExpiringUpdateUnchecked(w) ==
    /\ session[w].pc = "expiring"
    /\ \E r \in session[w].todo :
          /\ Acquire(w, <<"action", r>>)
          /\ Continue(w, [session[w] EXCEPT !.todo = @ \ {r}])
    /\ UNCHANGED <<action, approval, audit, notified>>
    /\ UNCHANGED Unserved

\* The UPDATE waits for the lock and then sees the committed status.
ExpiringUpdate(w) ==
    /\ session[w].pc = "expiring"
    /\ \E r \in session[w].todo :
          /\ FreeFor(w, <<"action", r>>)
          /\ Continue(w, [session[w] EXCEPT !.todo = @ \ {r}])
          /\ IF action[r].status = "pending_approval"
             THEN Acquire(w, <<"action", r>>)
             ELSE UNCHANGED held
    /\ UNCHANGED <<action, approval, audit, notified>>
    /\ UNCHANGED Unserved

ExpiringCommit(w) ==
    LET changed == {r \in Requests : <<"action", r>> \in held[w]}
        now == session[w].now
    IN  /\ session[w].pc = "expiring" /\ session[w].todo = {}
        /\ action' = [r \in Requests |->
              IF r \in changed THEN [action[r] EXCEPT !.status = "expired"]
                               ELSE action[r]]
        /\ approval' = [r \in Requests |->
              IF r \in changed
              THEN [approval[r] EXCEPT !.status = "expired", !.at = now]
              ELSE approval[r]]
        /\ audit' = [r \in Requests |->
              IF r \in changed THEN Append(audit[r], "action_expired")
                               ELSE audit[r]]
        /\ EndTransaction(w)
        /\ UNCHANGED notified /\ UNCHANGED Unserved

-----------------------------------------------------------------------------
(* approve: lock the pair, revalidate, lock dependencies, revalidate again, *)
(* decide, execute.  "now" is read once, when the pair is locked.          *)

VisibleTargets(r, ctx) ==
    {x \in action[r].targets : sees_department(ctx, row[x].dept)}

Locked(w) == {x \in Records : <<"row", x>> \in held[w]}

ApproveClaim(w) ==
    LET s == session[w]
    IN  /\ Decidable(w, "approve")
        /\ Pending(s.req) /\ ~ deadline_passed(s.req, clock)
        /\ Acquire(w, <<"action", s.req>>)
        /\ Continue(w, [s EXCEPT !.pc = "locking1", !.now = clock,
                                 !.todo = VisibleTargets(s.req, s.ctx)])
        /\ UNCHANGED <<action, approval, audit, notified>>
        /\ UNCHANGED Unserved

\* Mutant: the query has no ORDER BY.
LockTargetAnyOrder(w) ==
    /\ session[w].pc \in {"locking1", "locking2"}
    /\ \E x \in session[w].todo :
          /\ Acquire(w, <<"row", x>>)
          /\ Continue(w, [session[w] EXCEPT !.todo = @ \ {x}])
    /\ UNCHANGED <<action, approval, audit, notified>>
    /\ UNCHANGED Unserved

\* One row of SELECT ... ORDER BY id FOR UPDATE
LockTarget(w) ==
    /\ session[w].pc \in {"locking1", "locking2"}
    /\ \E x \in session[w].todo :
          /\ \A y \in session[w].todo : x <= y
          /\ Acquire(w, <<"row", x>>)
          /\ Continue(w, [session[w] EXCEPT !.todo = @ \ {x}])
    /\ UNCHANGED <<action, approval, audit, notified>>
    /\ UNCHANGED Unserved

ExecutableTargets(w) ==
    {x \in action[session[w].req].targets \cap Locked(w) :
        Executable(session[w].ctx, x)}

FirstRevalidation(w) ==
    LET first == ExecutableTargets(w)
    IN  /\ session[w].pc = "locking1" /\ session[w].todo = {}
        /\ Continue(w, [session[w] EXCEPT !.pc = "locking_deps", !.first = first,
                                          !.todo = {DepOf[x] : x \in first}])
        /\ UNCHANGED <<action, approval, held, audit, notified>>
        /\ UNCHANGED Unserved

LockDependency(w) ==
    /\ session[w].pc = "locking_deps"
    /\ \E d \in session[w].todo :
          /\ \A e \in session[w].todo : d <= e
          /\ Acquire(w, <<"dep", d>>)
          /\ Continue(w, [session[w] EXCEPT !.todo = @ \ {d}])
    /\ UNCHANGED <<action, approval, audit, notified>>
    /\ UNCHANGED Unserved

\* The second revalidation locks target rows too: one may have come into view.
SecondRevalidation(w) ==
    LET s == session[w]
    IN  /\ s.pc = "locking_deps" /\ s.todo = {}
        /\ Continue(w, [s EXCEPT !.pc = "locking2",
                          !.todo = VisibleTargets(s.req, s.ctx) \ Locked(w)])
        /\ UNCHANGED <<action, approval, held, audit, notified>>
        /\ UNCHANGED Unserved

\* An exception inside approve: the transaction is rolled back, its locks are
\* gone, and the failure will be recorded by a transaction of its own.
RollBackToFailure(w) ==
    /\ held' = [held EXCEPT ![w] = {}]
    /\ Continue(w, [session[w] EXCEPT !.pc = "failed", !.todo = {},
                                      !.first = {}, !.final = {}])
    /\ UNCHANGED <<action, approval, audit, notified>>
    /\ UNCHANGED Unserved

\* What the second revalidation found, and the decision on it
Revalidated(w) == session[w].pc = "locking2" /\ session[w].todo = {}

\* Mutant: the two revalidations are not compared.
StableSetUnchecked(w) == TRUE

StableSet(w) == ExecutableTargets(w) \subseteq session[w].first

CurrentDecision(w) ==
    LET s == session[w]
        final == ExecutableTargets(w)
    IN  evaluate_action_approval(s.ctx, s.user = Owner[s.req], ScopeOf[s.req],
            Cardinality(final),
            \E x \in final : CrossScope(s.req, x),
            \E x \in final : NeedsOverride(s.req, x))

DecideExecute(w) ==
    /\ Revalidated(w) /\ StableSet(w) /\ Allowed(CurrentDecision(w))
    /\ Continue(w, [session[w] EXCEPT !.pc = "executing",
                                      !.final = ExecutableTargets(w)])
    /\ UNCHANGED <<action, approval, held, audit, notified>>
    /\ UNCHANGED Unserved

\* _persist_escalation: the request stays pending, for override approvers.
DecideEscalate(w) ==
    LET r == session[w].req
        crosses == \E x \in ExecutableTargets(w) : CrossScope(r, x)
    IN  /\ Revalidated(w) /\ StableSet(w)
        /\ CurrentDecision(w) = "override_permission_required"
        /\ action' = [action EXCEPT ![r] =
              [@ EXCEPT !.revOverride = TRUE, !.revCrosses = crosses]]
        /\ Notify(r, Unnotified(r, EligibleApprovers(r,
                            Cardinality(action[r].targets),
                            action[r].crosses \/ crosses, TRUE)))
        /\ Log(r, <<"action_approval_escalated">>)
        /\ EndTransaction(w)
        /\ UNCHANGED approval /\ UNCHANGED Unserved

\* require_stable_execution_set: a target became executable after the first
\* pass, so its dependency row is not locked.
DecideUnstable(w) ==
    /\ Revalidated(w) /\ ~ StableSet(w)
    /\ RollBackToFailure(w)

DecideForbidden(w) ==
    /\ Revalidated(w) /\ StableSet(w)
    /\ ~ Allowed(CurrentDecision(w))
    /\ CurrentDecision(w) # "override_permission_required"
    /\ NoWrite(w)

\* Mutant: the claim is committed on its own, ahead of the execution.
ExecuteClaimOnly(w) ==
    LET s == session[w]
    IN  /\ s.pc = "executing"
        /\ Pending(s.req) /\ action[s.req].deadline > s.now
        /\ Settle(s.req, "approved_executing", "approved", s.user, s.ctx, s.now)
        /\ Log(s.req, <<"action_approved">>)
        /\ EndTransaction(w)
        /\ UNCHANGED notified /\ UNCHANGED Unserved

\* Claim, execute, _complete_success and commit: all or nothing.
Execute(w) ==
    LET s == session[w]
        r == s.req
    IN  /\ s.pc = "executing"
        /\ Pending(r) /\ action[r].deadline > s.now
        /\ \A x \in s.final : row[x].status = "active"
        /\ row' = [x \in Records |->
              IF x \in s.final THEN [row[x] EXCEPT !.status = "done"]
                               ELSE row[x]]
        /\ executed' = [executed EXCEPT ![r] = @ \cup s.final]
        /\ Settle(r, "completed", "approved", s.user, s.ctx, s.now)
        /\ Log(r, <<"action_approved", "action_executed">>)
        /\ EndTransaction(w)
        /\ UNCHANGED <<dep, access, clock, notified>>

\* Any handler or database error between the claim and the commit
ExecutionError(w) == session[w].pc \in Approving /\ RollBackToFailure(w)

\* Mutant: the status is not checked again under the new lock.
PersistFailureBlindly(w) ==
    LET s == session[w]
    IN  /\ s.pc = "failed" /\ FreeFor(w, <<"action", s.req>>)
        /\ action' = [action EXCEPT ![s.req].status = "failed"]
        /\ approval' = [approval EXCEPT ![s.req] =
              [status |-> "approved", by |-> s.user, at |-> s.now, with |-> s.ctx]]
        /\ Log(s.req, <<"action_failed">>)
        /\ EndTransaction(w)
        /\ UNCHANGED notified /\ UNCHANGED Unserved

\* _persist_execution_failure, in a transaction of its own
PersistFailure(w) ==
    LET s == session[w]
    IN  /\ s.pc = "failed" /\ FreeFor(w, <<"action", s.req>>)
        /\ IF Pending(s.req)
           THEN /\ Settle(s.req, "failed", "approved", s.user, s.ctx, s.now)
                /\ Log(s.req, <<"action_failed">>)
           ELSE UNCHANGED <<action, approval, audit>>
        /\ EndTransaction(w)
        /\ UNCHANGED notified /\ UNCHANGED Unserved

-----------------------------------------------------------------------------
(* The database resolves deadlocks, processes die, the world moves on.     *)

\* The row a blocked transaction is waiting for
Wants(w) ==
    LET s == session[w]
    IN  CASE s.pc \in {"queued", "failed"} -> {<<"action", s.req>>}
          [] s.pc = "expiring" -> {<<"action", r>> : r \in s.todo}
          [] s.pc \in {"locking1", "locking2"} ->
                {<<"row", x>> : x \in {x \in s.todo : \A y \in s.todo : x <= y}}
          [] s.pc = "locking_deps" ->
                {<<"dep", d>> : d \in {d \in s.todo : \A e \in s.todo : d <= e}}
          [] OTHER -> {}

WaitsFor(w, v) == /\ Wants(w) \cap held[v] # {}
                  /\ \A q \in Wants(w) : ~ FreeFor(w, q)

\* Every worker of S waits for one of S and is waited for by one of S.
WaitCycle(S) == \A v \in S : /\ \E u \in S \ {v} : WaitsFor(v, u)
                             /\ \E u \in S \ {v} : WaitsFor(u, v)

OnWaitCycle(w) == \E S \in SUBSET Workers : w \in S /\ WaitCycle(S)

\* Mutant: the victim's handler catches the error and tries the statement again
\* within the same transaction.
DeadlockVictimRetries(w) == OnWaitCycle(w) /\ UNCHANGED vars

\* A deadlock victim's statement fails: approve records a failure, the other
\* handlers answer with an error.
DeadlockVictim(w) ==
    /\ OnWaitCycle(w)
    /\ \/ ExecutionError(w)
       \/ session[w].pc \notin Approving /\ NoWrite(w)

\* A crash, or a commit that fails: the transaction is rolled back.
Crash(w) == session[w] # Idle /\ NoWrite(w)

Tick == /\ clock < MaxTime
        /\ clock' = clock + 1
        /\ UNCHANGED <<action, approval, row, dep, access, held, session,
                       audit, notified, executed>>

ChangeAccess(u) ==
    /\ \E ctx \in AccessChoices[u] : access' = [access EXCEPT ![u] = ctx]
    /\ UNCHANGED <<action, approval, row, dep, clock, held, session, audit,
                   notified, executed>>

\* Other writers of the domain tables respect row locks.
WriteRow(x) ==
    /\ Free(<<"row", x>>)
    /\ \E c \in RowChoices : row' = [row EXCEPT ![x] = c]
    /\ UNCHANGED <<action, approval, dep, access, clock, held, session, audit,
                   notified, executed>>

WriteDep(d) ==
    /\ Free(<<"dep", d>>)
    /\ \E c \in DepChoices : dep' = [dep EXCEPT ![d] = c]
    /\ UNCHANGED <<action, approval, row, access, clock, held, session, audit,
                   notified, executed>>

-----------------------------------------------------------------------------
Init ==
    /\ action = [r \in Requests |-> NoAction]
    /\ approval = [r \in Requests |-> NoApproval]
    /\ row \in [Records -> RowChoices]
    /\ dep = [d \in Deps |-> "plain"]
    /\ access = InitialAccess
    /\ clock = 0
    /\ held = [w \in Workers |-> {}]
    /\ session = [w \in Workers |-> Idle]
    /\ audit = [r \in Requests |-> <<>>]
    /\ notified = [r \in Requests |-> [u \in Users |-> 0]]
    /\ executed = [r \in Requests |-> {}]

Begin(w) ==
    \/ \E r \in Requests, k \in {"submit", "cancel"} : StartOwn(w, k, r)
    \/ \E r \in Requests, k \in {"reject", "approve"}, u \in Users :
          StartDecision(w, k, u, r)
    \/ \E r \in Requests, u \in Users : StartDetail(w, u, r)
    \/ \E u \in Users : StartList(w, u)

Serve(w) ==
    \/ SubmitAccept(w) \/ SubmitAgain(w) \/ OwnerExpire(w)
    \/ CancelCommit(w) \/ CancelRefused(w)
    \/ DecisionRefused(w) \/ DeciderExpire(w) \/ DetailNoWrite(w)
    \/ RejectCommit(w) \/ ApproveClaim(w)

Advance(w) ==
    \/ ExpiringUpdate(w) \/ ExpiringCommit(w)
    \/ LockTarget(w) \/ FirstRevalidation(w)
    \/ LockDependency(w) \/ SecondRevalidation(w)
    \/ DecideExecute(w) \/ DecideEscalate(w) \/ DecideForbidden(w)
    \/ DecideUnstable(w) \/ Execute(w) \/ PersistFailure(w)

Disturb(w) == ExecutionError(w) \/ DeadlockVictim(w) \/ Crash(w)

Environment ==
    \/ Tick
    \/ \E u \in Users : ChangeAccess(u)
    \/ \E x \in Records : WriteRow(x)
    \/ \E d \in Deps : WriteDep(d)

Next == \/ \E r \in Requests : CreatePreview(r)
        \/ \E w \in Workers : Begin(w) \/ Serve(w) \/ Advance(w) \/ Disturb(w)
        \/ Environment

Spec == Init /\ [][Next]_vars

\* PostgreSQL grants a row lock to its waiters in turn and breaks every wait
\* cycle after deadlock_timeout; a handler that holds what it needs runs on. At
\* each place a handler stands at most one step waits for a lock, so that fair
\* turns for a worker's steps are fair turns in that lock's queue.
Fairness ==
    \A w \in Workers : SF_vars(Serve(w) \/ Advance(w)) /\ WF_vars(DeadlockVictim(w))

FairSpec == Spec /\ Fairness

-----------------------------------------------------------------------------
(* Properties                                                              *)

ActionRow ==
    [status : ActionRequestStatus, deadline : Nat, targets : SUBSET Records,
     override : BOOLEAN, crosses : BOOLEAN, revOverride : BOOLEAN,
     revCrosses : BOOLEAN]

ApprovalRow ==
    [status : ApprovalStatus, by : Users \cup {NoUser}, at : Nat,
     with : AccessContext]

SessionState ==
    [pc : PC, kind : Kind, user : Users \cup {NoUser},
     req : Requests \cup {"none"}, ctx : AccessContext, now : Nat,
     todo : SUBSET (Requests \cup Nat), first : SUBSET Records,
     final : SUBSET Records]

\* Every variable has its type: the rows hold values their column constraints
\* allow, and a worker holds locks on existing rows only.
TypeOK ==
    /\ action \in [Requests -> ActionRow]
    /\ approval \in [Requests -> ApprovalRow]
    /\ row \in [Records -> RowContent]
    /\ dep \in [Deps -> DepContent]
    /\ access \in [Users -> AccessContext]
    /\ clock \in Nat
    /\ held \in [Workers -> SUBSET Resources]
    /\ session \in [Workers -> SessionState]
    /\ audit \in [Requests -> Seq(Event)]
    /\ notified \in [Requests -> [Users -> Nat]]
    /\ executed \in [Requests -> SUBSET Records]

\* The part of LockProtocol about one worker
WorkerProtocol(w) ==
    LET s == session[w]
        r == s.req
    IN  /\ s.pc \in {"idle", "queued", "failed"} => held[w] = {}
        /\ s.pc \in {"queued", "failed"} \cup Approving =>
              r \in Requests /\ s.user \in Users
        /\ s.pc \in {"failed"} \cup Approving =>
              /\ action[r].status \notin {"none", "draft_preview"}
              /\ s.now < action[r].deadline
        /\ s.pc \in Approving => <<"action", r>> \in held[w] /\ Pending(r)
        /\ s.pc \in {"locking1", "locking2"} => s.todo \subseteq action[r].targets
        /\ s.pc = "locking_deps" => s.todo \subseteq Deps
        /\ s.pc = "executing" => s.final \subseteq action[r].targets
        /\ s.pc = "expiring" =>
              /\ s.todo \subseteq Requests
              /\ \A q \in Requests :
                    /\ q \in s.todo \/ <<"action", q>> \in held[w] =>
                          /\ action[q].status \notin {"none", "draft_preview"}
                          /\ action[q].deadline <= s.now
                    /\ <<"action", q>> \in held[w] => Pending(q)

\* What a worker's place in its handler says about its locks and its request.
\* Row locks are exclusive; a handler that waits for its pair lock, or is
\* about to record a failure, holds nothing; an approval under way holds the
\* pair of a pending request it claimed in time, and so, once it has failed,
\* is still dated in time; an expiry sweep holds only overdue pending pairs.
LockProtocol ==
    /\ \A w, v \in Workers : w # v => held[w] \cap held[v] = {}
    /\ \A w \in Workers : WorkerProtocol(w)

\* Whatever the interleaving of submit, cancel, reject, approve, the expiry
\* paths and the failure record, an action row and its approval row tell the
\* same story, and "approved_executing" is never visible to another request.
PairConsistent ==
    \A r \in Requests :
        <<action[r].status, approval[r].status>> \in
            {<<"none", "none">>, <<"draft_preview", "none">>,
             <<"pending_approval", "pending">>, <<"completed", "approved">>,
             <<"failed", "approved">>, <<"rejected", "rejected">>,
             <<"cancelled", "cancelled">>, <<"expired", "expired">>,
             <<"expired", "none">>}

Outcome(status) ==
    CASE status = "completed" -> <<"action_approved", "action_executed">>
      [] status = "rejected"  -> <<"action_rejected">>
      [] status = "failed"    -> <<"action_failed">>
      [] status = "cancelled" -> <<"action_cancelled">>
      [] status = "expired"   -> <<"action_expired">>
      [] OTHER -> <<>>

\* The audit trail of a request is exactly its history: created, requested at
\* most once however often submit is retried, escalated at most once however
\* many approvers trip over the same override, and one outcome, the one its
\* status shows (service.py and approval.py build every audit row).
TrailMatchesStatus ==
    \A r \in Requests :
        audit[r] =
            (IF action[r].status = "none" THEN <<>>
             ELSE <<"action_preview_created">>)
            \o (IF approval[r].status = "none" THEN <<>>
                ELSE <<"action_requested">>)
            \o (IF action[r].revOverride THEN <<"action_approval_escalated">>
                ELSE <<>>)
            \o Outcome(action[r].status)

\* A target row is changed only on behalf of a completed request, and only if
\* the request's preview named it: a failed, crashed, rejected or overtaken
\* approval leaves no mutation behind (approval.py rolls back before it
\* records a failure).
ExecutedOnlyIfCompleted ==
    \A r \in Requests :
        /\ executed[r] \subseteq action[r].targets
        /\ executed[r] # {} => action[r].status = "completed"

\* A request that was escalated, or whose preview needed an override, is
\* completed only by a decider whose access context held the override
\* permission, even when the escalation was another approver's doing.
OverrideNeedsPermission ==
    \A r \in Requests :
        /\ action[r].status = "completed"
        /\ action[r].override \/ action[r].revOverride
        => OVERRIDE \in approval[r].with.permissions

\* A decision is dated before the deadline it had to meet, an expiry not
\* before it: the two sides of the boundary (<= for expiry, > for the claim)
\* agree although they are checked in different handlers.
DatedWithinDeadline ==
    \A r \in Requests :
        CASE approval[r].status \in {"approved", "rejected", "cancelled"} ->
                approval[r].at < action[r].deadline
          [] approval[r].status = "expired" ->
                approval[r].at >= action[r].deadline
          [] OTHER -> TRUE

\* No user is told twice that the same request waits for approval, although
\* both the submission and an escalation send the notification.
NotifiedOnce ==
    \A r \in Requests, u \in Users : notified[r][u] <= 1

\* One winner: once a request has an outcome no later step changes its
\* action row, its approval row or what it executed; and an escalation is
\* never undone.
DecisionsAreFinal ==
    [][\A r \in Requests :
          /\ action[r].status \in TerminalStatus =>
                /\ action'[r] = action[r] /\ approval'[r] = approval[r]
                /\ executed'[r] = executed[r]
          /\ action[r].revOverride => action'[r].revOverride]_vars

\* The instant a request executes, every row it changes really is an active,
\* eligible row that becomes done in that very step, and any row that needs
\* an override at that instant, by whatever writer made it so, is changed
\* under an override permission: nothing moved between revalidation and
\* mutation.
ExecutionAuthorized ==
    [][\A r \in Requests : executed'[r] # executed[r] =>
          \A x \in executed'[r] \ executed[r] :
              /\ Executable(approval'[r].with, x)
              /\ row'[x].status = "done"
              /\ NeedsOverride(r, x) =>
                    OVERRIDE \in approval'[r].with.permissions]_vars

\* Approvals lock target rows and then dependency rows in ascending order, so
\* they never wait for each other in a circle; only list_pending, which
\* updates rows in whatever order the query returned them, and a second
\* revalidation that finds new rows in view can close a cycle.
ApprovalsNeverDeadlock ==
    \A S \in SUBSET Workers :
        S # {} /\ WaitCycle(S) =>
            \E w \in S : session[w].pc \in {"expiring", "locking2"}

\* Every request is answered: whatever waits, fails or deadlocks, a worker
\* comes back to idle, and its transaction ends with it.
EveryRequestEnds ==
    \A w \in Workers : session[w].pc # "idle" ~> session[w].pc = "idle"

\* The protocol of locks, waits, rollbacks and separate failure records
\* implements the contract: every commit is one atomic move of one request,
\* or one sweep of expiries.
Contract == INSTANCE ActionContract WITH
                status <- [r \in Requests |-> action[r].status],
                changed <- executed

ContractHolds == Contract!CSpec

\* m8-release-test-matrix.md row 6: "Analyst cannot approve a policy
\* override": whoever is recorded as having approved a request that carries
\* the override flag held the override permission.
AnalystCannotApproveOverride ==
    \A r \in Requests :
        approval[r].status = "approved"
            /\ (action[r].override \/ action[r].revOverride)
        => OVERRIDE \in approval[r].with.permissions

=============================================================================
