----------------------------- MODULE RoleRequests -----------------------------
(***************************************************************************)
(* Role upgrade requests: a user asks for a higher role and an access      *)
(* scope, an administrator approves or rejects.                            *)
(*                                                                         *)
(* Every HTTP request is a worker with one transaction.  Create and both   *)
(* decisions lock the requester's row of app_users FOR NO KEY UPDATE first; *)
(* the row of the role request is locked after it and by nobody else, so   *)
(* it needs no lock of its own here.  A decision inserts an audit row whose *)
(* foreign key takes a key-share lock on the actor's row.                  *)
(*                                                                         *)
(* Access scopes are numbers in the order _load_scope_contexts sorts them: *)
(* the departments, then the global scope; 0 is "no scope".                *)
(***************************************************************************)
EXTENDS Naturals, FiniteSets

CONSTANTS
    Workers,        \* request handlers running at the same time
    Users,
    Requests,       \* identifiers of role requests
    Departments,    \* department scopes
    InitialUsers,   \* the users at the start
    Asks,           \* <<user, role, scope>>: what users may ask for
    UserChoices,    \* UserChoices[u]: roles and status the operators may set
    MaxChanges,     \* bound on the operators' changes
    NoUser

Global == Cardinality(Departments) + 1
NoScope == 0
Scopes == Departments \cup {Global}

Role == {"none", "user", "manager", "analyst", "admin"}
ROLE_UPGRADE_TARGETS == {"manager", "analyst", "admin"}
ROLE_HIERARCHY == [user |-> 0, manager |-> 1, analyst |-> 2, admin |-> 3]

\* effect: the user's own entry for can_approve_role_requests
Effect == {"none", "allow", "deny"}

AppUser == [active : BOOLEAN, role : Role, effect : Effect,
            department : Departments \cup {NoScope},
            level : [Scopes -> {"none", "read", "manage"}],
            defaults : SUBSET Scopes]

ASSUME RoleAssumption ==
    /\ IsFiniteSet(Departments) /\ Departments = 1..Cardinality(Departments)
    /\ InitialUsers \in [Users -> AppUser]
    /\ \A u \in Users : Cardinality(InitialUsers[u].defaults) <= 1
    /\ Asks \subseteq Users \X ROLE_UPGRADE_TARGETS \X (Scopes \cup {NoScope})
    /\ UserChoices \in [Users -> SUBSET [active : BOOLEAN, role : Role]]
    /\ MaxChanges \in Nat
    /\ NoUser \notin Users

VARIABLES
    request,    \* role_upgrade_requests
    user,       \* app_users, their permission grants and user_access_scopes
    scopes,     \* access_scopes that exist
    audit,      \* number of decisions in app_audit_logs per request
    held,       \* locks on app_users rows: <<user, mode>> pairs per worker
    session,    \* local state of each worker
    changes     \* changes made by the operators so far

rvars == <<request, user, scopes, audit, held, session, changes>>

\* A row of role_upgrade_requests: scope is requested_scope_id, key is
\* requested_scope_type and _key, by is who decided
NoRequest == [status |-> "none", requester |-> NoUser, role |-> "none",
              scope |-> NoScope, key |-> NoScope, by |-> NoUser]

Idle == [pc |-> "idle", kind |-> "none", user |-> NoUser, req |-> "none",
         role |-> "none", scope |-> NoScope]

-----------------------------------------------------------------------------
(* Row locks of app_users                                                  *)

\* PostgreSQL's conflict table, for the modes used here
Conflict(m, n) == \/ m = "update" \/ n = "update"
                  \/ m = "no_key_update" /\ n = "no_key_update"

Grantable(w, u, m) ==
    \A v \in Workers \ {w} : \A q \in held[v] : q[1] = u => ~ Conflict(m, q[2])

\* Mutant: a plain FOR UPDATE.
RequesterLockExclusive == "update"

\* with_for_update(key_share=True)
RequesterLock == "no_key_update"

Continue(w, s) == session' = [session EXCEPT ![w] = s]

EndTransaction(w) == held' = [held EXCEPT ![w] = {}] /\ Continue(w, Idle)

NoWrite(w) == EndTransaction(w) /\ UNCHANGED <<request, user, scopes, audit, changes>>

-----------------------------------------------------------------------------
(* What the handlers evaluate                                              *)

\* resolve_effective_permission_keys: what the role gives and the user is
\* allowed, without what the user is denied
CanApprove(u) == /\ user[u].active /\ user[u].effect # "deny"
                 /\ user[u].role = "admin" \/ user[u].effect = "allow"

_is_upward_role_request(current, requested) ==
    /\ current \in DOMAIN ROLE_HIERARCHY
    /\ ROLE_HIERARCHY[requested] > ROLE_HIERARCHY[current]

Least(S) == CHOOSE s \in S : \A t \in S : s <= t

Assigned(u) == {s \in Scopes : user[u].level[s] # "none"}

_default_scope_for_user(u) ==
    IF user[u].defaults # {} THEN Least(user[u].defaults)
    ELSE IF Assigned(u) # {} THEN Least(Assigned(u))
    ELSE IF user[u].department \in scopes THEN user[u].department
    ELSE NoScope

ValidScope(s, role) == IF role = "admin" THEN s \in {Global, NoScope}
                                         ELSE s \in Departments

\* The scope a new request is for, when scope s was chosen (or none)
RequestedScope(u, role, s) ==
    IF s # NoScope THEN s
    ELSE IF role = "admin" THEN NoScope
    ELSE _default_scope_for_user(u)

_scope_for_approval(r) ==
    IF request[r].role = "admin" THEN IF Global \in scopes THEN Global ELSE NoScope
    ELSE IF request[r].scope # NoScope THEN request[r].scope
    ELSE _default_scope_for_user(request[r].requester)

PendingOf(u) == {r \in Requests : request[r].requester = u /\ request[r].status = "pending"}

_access_level_for_role(role) == IF role \in {"admin", "analyst"} THEN "manage" ELSE "read"

-----------------------------------------------------------------------------
(* A request arrives: authentication and permission, without a lock.       *)

\* Bound: there is an identifier left for every create under way.
Room == Cardinality({w \in Workers : session[w].kind = "create"})
            < Cardinality({r \in Requests : request[r].status = "none"})

StartCreate(w, u, role, s) ==
    /\ session[w] = Idle /\ user[u].active /\ Room
    /\ Continue(w, [Idle EXCEPT !.pc = "queued", !.kind = "create", !.user = u,
                                !.role = role, !.scope = s])
    /\ UNCHANGED <<request, user, scopes, audit, held, changes>>

StartDecision(w, k, u, r) ==
    /\ session[w] = Idle /\ CanApprove(u) /\ request[r].status # "none"
    /\ Continue(w, [Idle EXCEPT !.pc = "queued", !.kind = k, !.user = u, !.req = r])
    /\ UNCHANGED <<request, user, scopes, audit, held, changes>>

Subject(w) == IF session[w].kind = "create" THEN session[w].user
                                            ELSE request[session[w].req].requester

\* Mutant: nobody is locked.
LockRequesterNever(w) ==
    /\ session[w].pc = "queued"
    /\ Continue(w, [session[w] EXCEPT !.pc = "locked"])
    /\ UNCHANGED <<request, user, scopes, audit, held, changes>>

LockRequester(w) ==
    /\ session[w].pc = "queued"
    /\ Grantable(w, Subject(w), RequesterLock)
    /\ held' = [held EXCEPT ![w] = @ \cup {<<Subject(w), RequesterLock>>}]
    /\ Continue(w, [session[w] EXCEPT !.pc = "locked"])
    /\ UNCHANGED <<request, user, scopes, audit, changes>>

-----------------------------------------------------------------------------
(* create_role_request                                                     *)

Creatable(w) ==
    LET s == session[w]
        current == user[s.user].role
        scope == RequestedScope(s.user, s.role, s.scope)
    IN  /\ user[s.user].active
        /\ current = "none" \/ _is_upward_role_request(current, s.role)
        /\ PendingOf(s.user) = {}
        /\ scope \in scopes \cup {NoScope} /\ ValidScope(scope, s.role)

CreateCheck(w) ==
    LET s == session[w]
    IN  /\ s.pc = "locked" /\ s.kind = "create" /\ Creatable(w)
        /\ Continue(w, [s EXCEPT !.pc = "writing",
                                 !.scope = RequestedScope(s.user, s.role, s.scope)])
        /\ UNCHANGED <<request, user, scopes, audit, held, changes>>

CreateCommit(w) ==
    LET s == session[w]
    IN  /\ s.pc = "writing" /\ s.kind = "create" /\ s.scope \in scopes \cup {NoScope}
        /\ \E r \in Requests :
              /\ request[r].status = "none"
              /\ request' = [request EXCEPT ![r] =
                    [status |-> "pending", requester |-> s.user, role |-> s.role,
                     scope |-> s.scope, key |-> s.scope, by |-> NoUser]]
        /\ EndTransaction(w)
        /\ UNCHANGED <<user, scopes, audit, changes>>

-----------------------------------------------------------------------------
(* approve_role_request and reject_role_request                            *)

\* _decision_actor_error and _role_request_processing_error
Processable(w) ==
    LET r == session[w].req
    IN  /\ CanApprove(session[w].user)
        /\ request[r].requester # session[w].user
        /\ request[r].status = "pending"
        /\ Cardinality(PendingOf(request[r].requester)) = 1

\* Mutant: a request whose scope row is gone falls back on the default scope.
StillValidWithoutScope(r) ==
    LET u == request[r].requester
        scope == _scope_for_approval(r)
    IN  /\ user[u].active
        /\ _is_upward_role_request(user[u].role, request[r].role)
        /\ scope # NoScope /\ ValidScope(scope, request[r].role)

StillValid(r) ==
    LET u == request[r].requester
        scope == _scope_for_approval(r)
    IN  /\ user[u].active
        /\ _is_upward_role_request(user[u].role, request[r].role)
        /\ scope # NoScope /\ ValidScope(scope, request[r].role)
        /\ request[r].key = (IF request[r].scope = NoScope THEN NoScope ELSE scope)

DecideCheck(w) ==
    LET s == session[w]
    IN  /\ s.pc = "locked" /\ s.kind \in {"approve", "reject"}
        /\ Processable(w) /\ (s.kind = "approve" => StillValid(s.req))
        /\ Continue(w, [s EXCEPT !.pc = "writing",
              !.scope = IF s.kind = "approve" THEN _scope_for_approval(s.req)
                                              ELSE NoScope])
        /\ UNCHANGED <<request, user, scopes, audit, held, changes>>

\* The scope becomes the user's one default.
_assign_user_scope(q, scope, level) ==
    [q EXCEPT !.level[scope] = level, !.defaults = {scope}]

\* The audit row's foreign key needs a key-share lock on the actor.
AuditRow(w) == /\ Grantable(w, session[w].user, "key_share")
               /\ audit' = [audit EXCEPT ![session[w].req] = @ + 1]

ApproveCommit(w) ==
    LET s == session[w]
        q == request[s.req]
    IN  /\ s.pc = "writing" /\ s.kind = "approve" /\ s.scope \in scopes
        /\ request' = [request EXCEPT ![s.req] =
              [q EXCEPT !.status = "approved", !.by = s.user,
                        !.scope = IF q.scope = NoScope THEN s.scope ELSE q.scope,
                        !.key = IF q.scope = NoScope THEN s.scope ELSE q.key]]
        /\ user' = [user EXCEPT ![q.requester] =
              [_assign_user_scope(@, s.scope, _access_level_for_role(q.role))
                  EXCEPT !.role = q.role]]
        /\ AuditRow(w)
        /\ EndTransaction(w)
        /\ UNCHANGED <<scopes, changes>>

RejectCommit(w) ==
    LET s == session[w]
    IN  /\ s.pc = "writing" /\ s.kind = "reject"
        /\ request' = [request EXCEPT ![s.req] =
              [@ EXCEPT !.status = "rejected", !.by = s.user]]
        /\ AuditRow(w)
        /\ EndTransaction(w)
        /\ UNCHANGED <<user, scopes, changes>>

\* Every refusal, and a commit whose foreign key finds its scope row gone
Refuse(w) ==
    LET s == session[w]
    IN  /\ \/ /\ s.pc = "locked" /\ s.kind = "create" /\ ~ Creatable(w)
           \/ /\ s.pc = "locked" /\ s.kind \in {"approve", "reject"}
              /\ ~ Processable(w) \/ (s.kind = "approve" /\ ~ StillValid(s.req))
           \/ /\ s.pc = "writing" /\ s.scope \notin scopes \cup {NoScope}
        /\ NoWrite(w)

\* Lost connection, failed commit: rolled back
Crash(w) == session[w] # Idle /\ NoWrite(w)

-----------------------------------------------------------------------------
(* Operators work on the database directly; they respect row locks.        *)

AdministerUser(u) ==
    /\ changes < MaxChanges /\ changes' = changes + 1
    /\ \A w \in Workers : \A q \in held[w] : q[1] # u
    /\ \E c \in UserChoices[u] :
          user' = [user EXCEPT ![u] = [@ EXCEPT !.active = c.active, !.role = c.role]]
    /\ UNCHANGED <<request, scopes, audit, held, session>>

\* can_approve_role_requests allowed or denied: no row of app_users is locked.
ChangeGrant(u) ==
    /\ changes < MaxChanges /\ changes' = changes + 1
    /\ \E e \in Effect \ {user[u].effect} :
          user' = [user EXCEPT ![u] = [@ EXCEPT !.effect = e]]
    /\ UNCHANGED <<request, scopes, audit, held, session>>

\* ON DELETE SET NULL on requests, ON DELETE CASCADE on assignments; the
\* requests concerned must not be locked.
DropScope(s) ==
    /\ changes < MaxChanges /\ changes' = changes + 1
    /\ s \in scopes /\ scopes' = scopes \ {s}
    /\ \A r \in Requests : request[r].scope = s =>
          \A w \in Workers : session[w].req = r => session[w].pc = "queued"
    /\ request' = [r \in Requests |->
          [request[r] EXCEPT !.scope = IF @ = s THEN NoScope ELSE @]]
    /\ user' = [u \in Users |->
          [user[u] EXCEPT !.level[s] = "none", !.defaults = @ \ {s}]]
    /\ UNCHANGED <<audit, held, session>>

-----------------------------------------------------------------------------
Init ==
    /\ request = [r \in Requests |-> NoRequest]
    /\ user = InitialUsers
    /\ scopes = Scopes
    /\ audit = [r \in Requests |-> 0]
    /\ held = [w \in Workers |-> {}]
    /\ session = [w \in Workers |-> Idle]
    /\ changes = 0

Begin(w) ==
    \/ \E a \in Asks : StartCreate(w, a[1], a[2], a[3])
    \/ \E u \in Users, r \in Requests, k \in {"approve", "reject"} :
          StartDecision(w, k, u, r)

Handle(w) == \/ CreateCheck(w) \/ CreateCommit(w) \/ DecideCheck(w)
             \/ ApproveCommit(w) \/ RejectCommit(w) \/ Refuse(w)

Next == \/ \E w \in Workers : Begin(w) \/ LockRequester(w) \/ Handle(w) \/ Crash(w)
        \/ \E u \in Users : AdministerUser(u) \/ ChangeGrant(u)
        \/ \E s \in Scopes : DropScope(s)

Spec == Init /\ [][Next]_rvars

-----------------------------------------------------------------------------
(* Properties                                                              *)

\* However many creates of one user run at the same time, at most one of the
\* user's requests is pending: the check and the insert of create_role_request
\* are two statements, and no constraint of the table repeats the rule.
OnePending ==
    \A r, q \in Requests :
        /\ request[r].status = "pending" /\ request[q].status = "pending"
        /\ request[r].requester = request[q].requester
        => r = q

\* One winner: two administrators who decide the same request at the same
\* time leave one decision and one audit row, and no later step touches them.
OneDecision ==
    [][\A r \in Requests :
          /\ request[r].status \in {"approved", "rejected"} =>
                /\ request'[r].status = request[r].status
                /\ request'[r].by = request[r].by
                /\ audit'[r] = audit[r]
          /\ request[r].status = "pending" /\ request'[r].status # "pending" =>
                audit'[r] = 1]_rvars

\* An approval gives the requester exactly what the request says: a higher
\* role than the one held at that instant, and as only default scope the scope
\* named at creation (the global scope for an administrator), although roles,
\* status and scope rows may have changed since.
ApprovalGrantsRequest ==
    [][\A r \in Requests :
          request[r].status = "pending" /\ request'[r].status = "approved" =>
              LET u == request[r].requester
                  scope == IF request[r].role = "admin" THEN Global
                                                        ELSE request[r].key
              IN  /\ user[u].active
                  /\ user'[u].role = request[r].role
                  /\ _is_upward_role_request(user[u].role, user'[u].role)
                  /\ user'[u].defaults = {scope}
                  /\ user'[u].level[scope] = _access_level_for_role(user'[u].role)]_rvars

\* What a blocked worker waits for
Wants(w) ==
    LET s == session[w]
    IN  CASE s.pc = "queued" -> {<<Subject(w), RequesterLock>>}
          [] s.pc = "writing" /\ s.kind # "create" -> {<<s.user, "key_share">>}
          [] OTHER -> {}

WaitsFor(w, v) == \E q \in Wants(w), h \in held[v] : q[1] = h[1] /\ Conflict(q[2], h[2])

\* Administrators who decide each other's requests at the same time never
\* wait for each other: no set of workers in which everybody waits for another.
NoWaitCycle ==
    \A S \in SUBSET Workers : S # {} =>
        \E w \in S : \A v \in S \ {w} : ~ WaitsFor(w, v)

=============================================================================
