----------------------------- MODULE ActionTargets -----------------------------
(***************************************************************************)
(* Which records an action is about: the preview each handler builds       *)
(* (reclaim_unused_license.py, disable_inactive_user.py), the snapshot     *)
(* stored with the request and its validator (preview.py), the targets     *)
(* revalidation admits under the approver (revalidation.py,                *)
(* disable_execution.py), and what viewers are shown (service.py,          *)
(* approval.py).                                                           *)
(*                                                                         *)
(* ActionLifecycle has the locks, races and deadlines of the same          *)
(* requests over opaque rows; here one request runs without races over     *)
(* rows with their real columns, read under row-level security.            *)
(*                                                                         *)
(* A user carries its newest successful login event, one group membership  *)
(* and one security event, each with the department its row is filed       *)
(* under, which need not be the user's.                                    *)
(***************************************************************************)
EXTENDS ActionPolicy, Integers, FiniteSetsExt

CONSTANTS
    ScopedDepartments,          \* departments an AccessScope row exists for
    AvailableTables,            \* registered and queryable data resources
    InitialDirectories,         \* [users, assignments]: the directory at first
    RequesterContexts, ApproverContexts,
    Payloads,                   \* preview requests, see preview_error
    NoDepartment,               \* the NULL department of a security event
    NORMAL_ELIGIBILITY_DAYS, HIGH_CONFIDENCE_DAYS, INACTIVITY_DAYS, \* 60, 90 and 90
    MAX_PREVIEW_RECORDS,        \* 500
    StartTime, MaxTime,         \* bounds of the clock
    MaxChanges                  \* bound on the writes of others

ASSUME TargetsAssumption ==
    /\ ScopedDepartments \subseteq Departments
    /\ NoDepartment \notin Scopes
    /\ {NORMAL_ELIGIBILITY_DAYS, HIGH_CONFIDENCE_DAYS, INACTIVITY_DAYS} \subseteq Nat
    /\ StartTime \in Nat

\* NULL: before every time
Never == -99

Time == Nat \cup {Never}

UserRow ==
    [dept : Departments, type : {"human", "service"},
     status : {"active", "disabled", "locked"}, login : Time,
     event : [at : Time, dept : Departments],
     group : [privileged : BOOLEAN, dept : Departments],
     alert : [open : BOOLEAN, dept : Departments \cup {NoDepartment}]]

AssignmentStatus == {"active", "reclaimed", "suspended"}

AssignmentRow(row) ==
    /\ DOMAIN row = {"user", "dept", "status", "last", "mandatory", "exception", "cost"}
    /\ row.dept \in Departments /\ row.status \in AssignmentStatus /\ row.last \in Time
    /\ row.mandatory \in BOOLEAN /\ row.exception \in BOOLEAN /\ row.cost \in Int

\* The rows of the tables, by identifier; the user an assignment names need not
\* be among the users.
Directory(d) ==
    /\ DOMAIN d = {"users", "assignments"}
    /\ IsFiniteSet(DOMAIN d.users) /\ IsFiniteSet(DOMAIN d.assignments)
    /\ \A u \in DOMAIN d.users : d.users[u] \in UserRow
    /\ \A a \in DOMAIN d.assignments : AssignmentRow(d.assignments[a])

RECLAIM == "reclaim_unused_license"
DISABLE == "disable_inactive_user"

ASSUME DirectoryAssumption ==
    /\ \A d \in InitialDirectories : Directory(d)
    /\ \A p \in Payloads : /\ p.type \in {RECLAIM, DISABLE}
                           /\ IsFiniteSet(p.users) /\ IsFiniteSet(p.assignments)

VARIABLES
    db,       \* [users, assignments]
    clock,
    changes,  \* writes to db by others
    request   \* the one action request

vars == <<db, clock, changes, request>>

\* RECLAIM_RESOURCE_TABLES, DISABLE_RESOURCE_TABLES
ResourceTables(type) ==
    IF type = RECLAIM
    THEN {"directory_users", "license_assignments", "licenses"}
    ELSE {"directory_users", "login_events", "groups", "user_group_memberships",
          "security_events"}

-----------------------------------------------------------------------------
(* Reading the directory under row-level security                          *)

\* Mutant: the action role has the department policies only.
fact_visible_by_department(ctx, role, user, dept) == sees_department(ctx, dept)

\* The row-level policies of migrations 0005 and 0010 on the tables about a
\* user: by the row's own department and, for the action role, with its user
fact_visible(ctx, role, user, dept) ==
    \/ sees_department(ctx, dept)
    \/ role = "action" /\ sees_department(ctx, user.dept)

\* disable_candidate_statement and disable_candidate_from_mapping
disable_candidate(d, ctx, role, u) ==
    LET user == d.users[u]
    IN  [dept |-> user.dept, type |-> user.type, status |-> user.status,
         login |-> IF fact_visible(ctx, role, user, user.event.dept)
                   THEN Max({user.login, user.event.at}) ELSE user.login,
         privileged |-> /\ user.group.privileged
                        /\ fact_visible(ctx, role, user, user.group.dept),
         critical |-> /\ user.alert.open
                      /\ fact_visible(ctx, role, user, user.alert.dept)]

\* The users read.  The action role's FOR UPDATE also passes its update policy,
\* which is about active humans.
disable_rows(d, ctx, role, ids) ==
    {u \in ids \cap DOMAIN d.users :
        /\ sees_department(ctx, d.users[u].dept)
        /\ role = "action" => d.users[u].type = "human" /\ d.users[u].status = "active"}

\* The outer join of an assignment to its user finds the user's row.
user_joined(d, ctx, a) ==
    /\ d.assignments[a].user \in DOMAIN d.users
    /\ sees_department(ctx, d.users[d.assignments[a].user].dept)

\* Mutant: selected assignments are read whatever their department.
read_reclaim_candidates_unfiltered(d, ctx, payload) ==
    {a \in DOMAIN d.assignments :
        IF payload.assignments \cup payload.users # {}
        THEN a \in payload.assignments \/ d.assignments[a].user \in payload.users
        ELSE /\ sees_department(ctx, d.assignments[a].dept)
             /\ payload.scope \in {GlobalScope, d.assignments[a].dept}}

\* read_reclaim_candidates and its statement: the selected assignments, or all
\* of the scope's
read_reclaim_candidates(d, ctx, payload) ==
    {a \in DOMAIN d.assignments :
        /\ sees_department(ctx, d.assignments[a].dept)
        /\ IF payload.assignments \cup payload.users # {}
           THEN a \in payload.assignments \/ d.assignments[a].user \in payload.users
           ELSE payload.scope \in {GlobalScope, d.assignments[a].dept}}

-----------------------------------------------------------------------------
(* Classification.  A verdict is a skip with its reason, or an actionable  *)
(* record with its override codes.                                         *)

Skip(reason) == [kind |-> "skipped", reason |-> reason, codes |-> {}]

Judged(codes) ==
    [kind |-> IF codes = {} THEN "eligible" ELSE "override", reason |-> "none",
     codes |-> codes]

\* The same in both handlers
_is_cross_scope(dept, scope) == scope = GlobalScope \/ dept # scope

structural_error(d, ctx, a) ==
    LET row == d.assignments[a]
    IN  \/ row.dept \notin ScopedDepartments
        \/ ~ user_joined(d, ctx, a)
        \/ d.users[row.user].dept # row.dept
        \/ row.cost < 0

recently_used(last, now) == last # Never /\ last >= now - NORMAL_ELIGIBILITY_DAYS

high_confidence(last, now) == last = Never \/ last < now - HIGH_CONFIDENCE_DAYS

\* _classify_records of the reclaim handler, one row
classify_assignment(d, ctx, payload, a, now) ==
    LET row == d.assignments[a]
    IN  IF row.status = "reclaimed" THEN Skip("assignment_already_reclaimed")
        ELSE IF row.status = "suspended" THEN Skip("assignment_suspended")
        ELSE IF structural_error(d, ctx, a) THEN Skip("record_structurally_invalid")
        ELSE IF recently_used(row.last, now) THEN Skip("recent_usage")
        ELSE Judged(
                {c \in {"cross_scope_target"} : _is_cross_scope(row.dept, payload.scope)}
                \cup {c \in {"service_account_assignment"} :
                        d.users[row.user].type = "service"}
                \cup {c \in {"mandatory_assignment"} : row.mandatory}
                \cup {c \in {"exception_assignment"} : row.exception})

recent_login(login, now) == login # Never /\ login > now - INACTIVITY_DAYS

disable_codes(row, scope) ==
    {c \in {"privileged_user"} : row.privileged}
    \cup {c \in {"open_critical_security_event"} : row.critical}
    \cup {c \in {"cross_scope_target"} : _is_cross_scope(row.dept, scope)}

\* _classify_records of the disable handler, one row
classify_user(d, ctx, payload, u, now) ==
    LET row == disable_candidate(d, ctx, "query", u)
    IN  IF row.type = "service" THEN Skip("service_account_excluded")
        ELSE IF row.dept \notin ScopedDepartments THEN Skip("invalid_current_state")
        ELSE IF row.status = "disabled" THEN Skip("user_already_disabled")
        ELSE IF row.status # "active" THEN Skip("invalid_current_state")
        ELSE IF recent_login(row.login, now) THEN Skip("recent_successful_login")
        ELSE Judged(disable_codes(row, payload.scope))

\* build_preview of each handler: every row read, classified
reclaim_preview(d, ctx, payload, now) ==
    [a \in read_reclaim_candidates(d, ctx, payload) |->
        classify_assignment(d, ctx, payload, a, now)]

disable_preview(d, ctx, payload, now) ==
    [u \in disable_rows(d, ctx, "query", payload.users) |->
        classify_user(d, ctx, payload, u, now)]

build_preview(d, ctx, payload, now) ==
    IF payload.type = RECLAIM THEN reclaim_preview(d, ctx, payload, now)
    ELSE disable_preview(d, ctx, payload, now)

RecordType(type) == IF type = RECLAIM THEN "license_assignment" ELSE "directory_user"

\* The selectors for which no row came back
missing_selectors(d, ctx, payload, rows) ==
    IF payload.type = RECLAIM
    THEN [directory_user |-> payload.users \ {d.assignments[a].user : a \in rows},
          license_assignment |-> payload.assignments \ rows]
    ELSE [directory_user |-> payload.users \ rows, license_assignment |-> {}]

\* _missing_selector_records
missing_records(d, ctx, payload, rows) ==
    LET missing == missing_selectors(d, ctx, payload, rows)
    IN  UNION {{[type |-> t, id |-> x, reason |-> "record_not_found_or_not_authorized"] :
                    x \in missing[t]} : t \in DOMAIN missing}

-----------------------------------------------------------------------------
(* The stored snapshot.  Its last three fields are not the snapshot's: the *)
(* decider's permissions, what was asked for and by whom.                  *)

Codes(overrides) == UNION {overrides[x] : x \in DOMAIN overrides}

WithReason(records, reason) == {s \in records : s.reason = reason}
WithCode(overrides, code)   == {x \in DOMAIN overrides : code \in overrides[x]}

\* exclusions_by_reason: the Counter of skip reasons and override codes
Exclusions(skipped, overrides) ==
    [c \in {s.reason : s \in skipped} \cup Codes(overrides) |->
        Cardinality(WithReason(skipped, c)) + Cardinality(WithCode(overrides, c))]

\* _policy_flags of both handlers
policy_flags(overrides, count, scope) ==
    Codes(overrides)
    \cup {c \in {"record_count_over_analyst_threshold"} :
            count > SCOPED_APPROVAL_RECORD_LIMIT}
    \cup {c \in {"global_scope_request"} : scope = GlobalScope}

_sum_costs(detail, ids) == MapThenSumSet(LAMBDA x : detail[x].cost, ids)

High(detail) == {x \in DOMAIN detail : detail[x].high}

reclaim_summary(detail, eligible, overrides, skipped) ==
    [affected |-> Cardinality(eligible) + Cardinality(DOMAIN overrides),
     normal |-> Cardinality(eligible), override |-> Cardinality(DOMAIN overrides),
     skipped |-> Cardinality(skipped), high |-> Cardinality(High(detail)),
     savings |-> _sum_costs(detail, eligible),
     override_savings |-> _sum_costs(detail, DOMAIN overrides)]

disable_summary(eligible, overrides, skipped) ==
    [affected |-> Cardinality(eligible) + Cardinality(DOMAIN overrides),
     normal |-> Cardinality(eligible), override |-> Cardinality(DOMAIN overrides),
     skipped |-> Cardinality(skipped),
     privileged |-> Cardinality(WithCode(overrides, "privileged_user")),
     critical |-> Cardinality(WithCode(overrides, "open_critical_security_event")),
     service |-> Cardinality(WithReason(skipped, "service_account_excluded")),
     recent |-> Cardinality(WithReason(skipped, "recent_successful_login"))]

Summary(type, detail, eligible, overrides, skipped) ==
    IF type = RECLAIM THEN reclaim_summary(detail, eligible, overrides, skipped)
    ELSE disable_summary(eligible, overrides, skipped)

\* What is stored of a record that may be acted on
reclaim_record(d, a, now) ==
    LET row == d.assignments[a]
    IN  [scope |-> row.dept, cost |-> row.cost, high |-> high_confidence(row.last, now)]

disable_record(d, u) == [scope |-> d.users[u].dept]

\* _serialize_access_snapshots
access_snapshot(ctx, type) ==
    [permissions |-> {REQUEST} \cap ctx.permissions, scopes |-> ctx.scopes,
     tables |-> ResourceTables(type), runtime_role |-> "queryops_query_runtime"]

\* build_action_preview_storage, and the row create_preview makes of it
Preview(d, ctx, payload, now) ==
    LET verdict   == build_preview(d, ctx, payload, now)
        Of(kind)  == {x \in DOMAIN verdict : verdict[x].kind = kind}
        eligible  == Of("eligible")
        overrides == [x \in Of("override") |-> verdict[x].codes]
        skipped   == {[type |-> RecordType(payload.type), id |-> x,
                       reason |-> verdict[x].reason] : x \in Of("skipped")}
                     \cup missing_records(d, ctx, payload, DOMAIN verdict)
        detail    == [x \in eligible \cup Of("override") |->
                        IF payload.type = RECLAIM THEN reclaim_record(d, x, now)
                        ELSE disable_record(d, x)]
        flags     == policy_flags(overrides, Cardinality(DOMAIN detail), payload.scope)
    IN  [status |-> "draft_preview", type |-> payload.type, scope |-> payload.scope,
         eligible |-> eligible, overrides |-> overrides, detail |-> detail,
         skipped |-> skipped, exclusions |-> Exclusions(skipped, overrides),
         summary |-> Summary(payload.type, detail, eligible, overrides, skipped),
         target_scopes |-> {payload.scope} \cup {detail[x].scope : x \in DOMAIN detail},
         access |-> access_snapshot(ctx, payload.type),
         record_count |-> Cardinality(DOMAIN detail),
         skipped_count |-> Cardinality(skipped),
         flags |-> flags, policy_requires_admin |-> flags # {},
         requires_admin |-> flags # {},
         crosses_scopes |-> "cross_scope_target" \in Codes(overrides),
         requires_policy_override |-> DOMAIN overrides # {},
         revalidation_flags |-> {}, revalidation_requires_admin |-> FALSE,
         revalidation_requires_policy_override |-> FALSE,
         revalidation_crosses_scopes |-> FALSE, decided_by |-> {},
         payload |-> payload, requester |-> ctx]

-----------------------------------------------------------------------------
(* Its validators, which take the counts and the flags again from the       *)
(* stored records                                                           *)

valid_record(r, x) ==
    /\ r.detail[x].scope \in ScopedDepartments
    /\ r.detail[x].cost >= 0
    /\ x \in DOMAIN r.overrides => r.overrides[x] # {}

valid_disable_record(r, x) ==
    /\ r.detail[x].scope \in ScopedDepartments
    /\ x \in DOMAIN r.overrides => r.overrides[x] # {}

\* The part on flags, the same in both
valid_policy(r) ==
    LET expected == policy_flags(r.overrides, r.summary.affected, r.scope)
    IN  /\ r.flags = expected
        /\ r.policy_requires_admin = (expected # {})
        /\ r.requires_admin = (expected # {} \/ r.revalidation_requires_admin)
        /\ r.requires_policy_override = (DOMAIN r.overrides # {})
        /\ r.crosses_scopes = ("cross_scope_target" \in Codes(r.overrides))

valid_reclaim_snapshot(r) ==
    /\ \A x \in r.eligible \cup DOMAIN r.overrides : valid_record(r, x)
    /\ r.summary = reclaim_summary(r.detail, r.eligible, r.overrides, r.skipped)
    /\ r.record_count = r.summary.affected
    /\ r.skipped_count = r.summary.skipped
    /\ valid_policy(r)

\* The exclusions and the access snapshots are the disable validator's only.
valid_access(r) ==
    /\ r.access.permissions = {REQUEST}
    /\ r.access.tables = ResourceTables(r.type)
    /\ r.access.runtime_role = "queryops_query_runtime"

valid_disable_snapshot(r) ==
    /\ \A x \in r.eligible \cup DOMAIN r.overrides : valid_disable_record(r, x)
    /\ r.eligible \cap DOMAIN r.overrides = {}
    /\ r.summary = disable_summary(r.eligible, r.overrides, r.skipped)
    /\ r.record_count = r.summary.affected
    /\ r.skipped_count = r.summary.skipped
    /\ r.exclusions = Exclusions(r.skipped, r.overrides)
    /\ valid_policy(r)
    /\ r.scope \in r.target_scopes
    /\ valid_access(r)

valid_action_snapshot(r) ==
    IF r.type = RECLAIM THEN valid_reclaim_snapshot(r) ELSE valid_disable_snapshot(r)

-----------------------------------------------------------------------------
(* Revalidation, under the approver's row-level security                   *)

_persisted_target_ids(r) == r.eligible \cup DOMAIN r.overrides

\* The cutoff of revalidation.py, written a second time
recent_usage(last, now) == last # Never /\ last >= now - NORMAL_ELIGIBILITY_DAYS

\* revalidate_reclaim_targets, one target.  A visible assignment's department is
\* one of the approver's, so scope_unavailable is never the answer.
revalidate_assignment(d, ctx, r, a, now) ==
    LET row == d.assignments[a]
        usable == /\ user_joined(d, ctx, a)
                  /\ d.users[row.user].dept = row.dept
                  /\ row.cost >= 0
    IN  CASE ~ sees_department(ctx, row.dept) -> Skip("record_unavailable")
          [] sees_department(ctx, row.dept) /\ row.status = "reclaimed" ->
                Skip("already_reclaimed")
          [] sees_department(ctx, row.dept) /\ row.status = "suspended" ->
                Skip("assignment_suspended")
          [] sees_department(ctx, row.dept) /\ row.status = "active"
               /\ recent_usage(row.last, now) -> Skip("recent_usage")
          [] sees_department(ctx, row.dept) /\ row.status = "active"
               /\ ~ recent_usage(row.last, now) /\ ~ usable -> Skip("invalid_current_state")
          [] OTHER -> Judged(
                {c \in {"mandatory_license"} : row.mandatory}
                \cup {c \in {"exception_assignment"} : row.exception}
                \cup {c \in {"service_account"} : d.users[row.user].type = "service"}
                \cup {c \in {"cross_scope"} : _is_cross_scope(row.dept, r.scope)})

\* revalidate_disable_targets, one target
revalidate_user(d, ctx, r, u, now) ==
    LET row == disable_candidate(d, ctx, "action", u)
    IN  IF disable_rows(d, ctx, "action", {u}) = {}
        THEN Skip("record_not_found_or_not_authorized")
        ELSE IF recent_login(row.login, now) THEN Skip("recent_successful_login")
        ELSE Judged(disable_codes(row, r.scope))

revalidate(d, ctx, r, now) ==
    [x \in _persisted_target_ids(r) |->
        IF r.type = RECLAIM THEN revalidate_assignment(d, ctx, r, x, now)
        ELSE revalidate_user(d, ctx, r, x, now)]

Executable(rv) == {x \in DOMAIN rv : rv[x].kind # "skipped"}
RvCodes(rv)    == UNION {rv[x].codes : x \in DOMAIN rv}
RvCrosses(rv)  == RvCodes(rv) \cap {"cross_scope", "cross_scope_target"} # {}

-----------------------------------------------------------------------------
(* Who is shown and may decide the request                                 *)

\* _approval_decision in approval.py
_approval_decision(r, ctx, self) ==
    evaluate_action_approval(ctx, self, r.scope, r.record_count,
        \/ r.scope = GlobalScope \/ r.crosses_scopes \/ r.revalidation_crosses_scopes
        \/ r.record_count > SCOPED_APPROVAL_RECORD_LIMIT,
        r.requires_policy_override \/ r.revalidation_requires_policy_override)

\* Mutant: the copy in service.py was not told about escalations across scopes.
_approval_decision_allowed_stale(r, ctx) ==
    Allowed(evaluate_action_approval(ctx, FALSE, r.scope, r.record_count,
        \/ r.scope = GlobalScope
        \/ r.record_count > SCOPED_APPROVAL_RECORD_LIMIT
        \/ r.crosses_scopes,
        r.requires_policy_override \/ r.revalidation_requires_policy_override))

\* _approval_decision_allowed in service.py, for someone else than the requester
_approval_decision_allowed(r, ctx) ==
    Allowed(evaluate_action_approval(ctx, FALSE, r.scope, r.record_count,
        \/ r.scope = GlobalScope
        \/ r.record_count > SCOPED_APPROVAL_RECORD_LIMIT
        \/ r.crosses_scopes \/ r.revalidation_crosses_scopes,
        r.requires_policy_override \/ r.revalidation_requires_policy_override))

\* _can_view_action_request
_can_view_action_request(r, ctx, self) ==
    self \/ (r.status = "pending_approval" /\ _approval_decision_allowed(r, ctx))

\* safe_reclaim_preview and safe_disable_preview
safe_action_preview(r) ==
    [summary |-> r.summary, skipped |-> r.skipped, exclusions |-> r.exclusions,
     flags |-> r.flags \cup r.revalidation_flags]

safe_policy_details(r) ==
    [crosses |-> r.crosses_scopes \/ r.revalidation_crosses_scopes,
     override |-> \/ r.requires_policy_override
                  \/ r.revalidation_requires_policy_override,
     many |-> "record_count_over_analyst_threshold" \in r.flags]

\* Only a viewer with can_view_sql is given the policy details.
_serialize_action_request(r, view_sql) ==
    IF view_sql
    THEN [preview |-> safe_action_preview(r), policy_details |-> safe_policy_details(r)]
    ELSE [preview |-> safe_action_preview(r)]

\* get_detail of the action routes
action_detail(r, ctx, self, view_sql) ==
    IF ~ _can_view_action_request(r, ctx, self) THEN [error |-> "ACTION_NOT_FOUND"]
    ELSE IF ~ valid_action_snapshot(r) THEN [error |-> "ACTION_PREVIEW_UNAVAILABLE"]
    ELSE _serialize_action_request(r, view_sql)

\* get_detail of the approval routes, for a decider
approval_detail(r, ctx, self) ==
    LET decision   == _approval_decision(r, ctx, self)
        can_decide == Allowed(decision) /\ r.status = "pending_approval"
    IN  [preview |-> safe_action_preview(r), can_approve |-> can_decide,
         reason |-> IF can_decide THEN "none" ELSE decision]

-----------------------------------------------------------------------------
(* The request's life                                                      *)

NoRequest == [status |-> "none"]

Init ==
    /\ db \in InitialDirectories
    /\ clock = StartTime
    /\ changes = 0
    /\ request = NoRequest

\* ActionPreviewRequest: users are disabled by explicit user targets only.
well_formed(payload) ==
    payload.type = DISABLE => payload.users # {} /\ payload.assignments = {}

\* _resolve_request_scope and _validate_department_bridge
scope_error(ctx, payload) ==
    IF \/ payload.scope \notin ScopedDepartments \cup {GlobalScope}
       \/ ~ match_required_scope(ctx, payload.scope) THEN "ACTION_SCOPE_NOT_FOUND"
    ELSE IF payload.department \notin {NoDepartment, payload.scope}
         THEN "ACTION_SCOPE_MISMATCH"
    ELSE "none"

\* A payload's source is the query run it names: "none", "usable", another user's
\* or a failed one, or one about other tables.
_validate_source_query_run(payload) ==
    CASE payload.source \in {"foreign", "failed"} -> "QUERY_RUN_NOT_FOUND"
      [] payload.source = "unsuitable" -> "ACTION_SOURCE_QUERY_INVALID"
      [] OTHER -> "none"

\* _authorize_required_resources, the same in both handlers
_authorize_required_resources(payload) ==
    ResourceTables(payload.type) \subseteq AvailableTables

\* The early returns of create_preview and of build_preview, in their order
preview_error(d, ctx, payload) ==
    IF ~ well_formed(payload) THEN "INVALID_ACTION_REQUEST"
    ELSE IF REQUEST \notin ctx.permissions THEN "FORBIDDEN"
    ELSE IF scope_error(ctx, payload) # "none" THEN scope_error(ctx, payload)
    ELSE IF _validate_source_query_run(payload) # "none"
         THEN _validate_source_query_run(payload)
    ELSE IF ~ _authorize_required_resources(payload) THEN "FORBIDDEN"
    ELSE IF Cardinality(DOMAIN build_preview(d, ctx, payload, clock)) > MAX_PREVIEW_RECORDS
         THEN "ACTION_PREVIEW_TOO_LARGE"
    ELSE "none"

\* create_preview: a snapshot its own validator refuses is not stored
CreatePreview(ctx, payload) ==
    /\ request = NoRequest
    /\ preview_error(db, ctx, payload) = "none"
    /\ LET preview == Preview(db, ctx, payload, clock)
       IN  request' = IF valid_action_snapshot(preview) THEN preview
                      ELSE [status |-> "ACTION_PREVIEW_FAILED"]
    /\ UNCHANGED <<db, clock, changes>>

\* submit_request
Submit ==
    /\ request.status = "draft_preview"
    /\ valid_action_snapshot(request)
    /\ request' = [request EXCEPT !.status = "pending_approval"]
    /\ UNCHANGED <<db, clock, changes>>

\* The decision on what the revalidation found
CurrentDecision(ctx, self, rv) ==
    evaluate_action_approval(ctx, self, request.scope, Cardinality(Executable(rv)),
        RvCrosses(rv), RvCodes(rv) # {})

\* The way into approve
Approving(ctx, self) ==
    /\ request.status = "pending_approval"
    /\ Allowed(_approval_decision(request, ctx, self))
    /\ valid_action_snapshot(request)

\* Mutant: the exclusions are recounted from the skipped records alone.
CompletedForgettingOverrides(r, rv, ctx) ==
    LET skipped == r.skipped \cup {[type |-> RecordType(r.type), id |-> x,
                                    reason |-> rv[x].reason] :
                                   x \in DOMAIN rv \ Executable(rv)}
    IN  [r EXCEPT !.status = "completed", !.skipped = skipped,
                  !.skipped_count = Cardinality(skipped),
                  !.exclusions = Exclusions(skipped, <<>>),
                  !.summary = Summary(r.type, r.detail, r.eligible, r.overrides, skipped),
                  !.decided_by = ctx.permissions]

\* _complete_success: the skips of the revalidation join those of the preview,
\* and the counts that depend on them are taken again
Completed(r, rv, ctx) ==
    LET current == {[type |-> RecordType(r.type), id |-> x, reason |-> rv[x].reason] :
                        x \in DOMAIN rv \ Executable(rv)}
        skipped == r.skipped \cup current
        count == Cardinality(r.skipped) + Cardinality(current)
        recounted ==
            IF r.type = RECLAIM THEN [r.summary EXCEPT !.skipped = count]
            ELSE [r.summary EXCEPT
                    !.skipped = count,
                    !.service = Cardinality(WithReason(skipped, "service_account_excluded")),
                    !.recent = Cardinality(WithReason(skipped, "recent_successful_login"))]
    IN  [r EXCEPT !.status = "completed", !.skipped = skipped,
                  !.skipped_count = count,
                  !.exclusions = Exclusions(skipped, r.overrides),
                  !.summary = recounted, !.decided_by = ctx.permissions]

execute_reclaim(d, ids) ==
    [d EXCEPT !.assignments = [a \in DOMAIN d.assignments |->
        IF a \in ids THEN [d.assignments[a] EXCEPT !.status = "reclaimed"]
        ELSE d.assignments[a]]]

execute_disable(d, ids) ==
    [d EXCEPT !.users = [u \in DOMAIN d.users |->
        IF u \in ids THEN [d.users[u] EXCEPT !.status = "disabled"] ELSE d.users[u]]]

ApproveExecute(ctx, self) ==
    /\ Approving(ctx, self)
    /\ LET rv == revalidate(db, ctx, request, clock)
       IN  /\ Allowed(CurrentDecision(ctx, self, rv))
           /\ db' = IF request.type = RECLAIM THEN execute_reclaim(db, Executable(rv))
                    ELSE execute_disable(db, Executable(rv))
           /\ request' = Completed(request, rv, ctx)
    /\ UNCHANGED <<clock, changes>>

\* _persist_escalation
Escalated(r, rv) ==
    [r EXCEPT !.revalidation_flags = RvCodes(rv),
              !.revalidation_requires_admin = TRUE,
              !.revalidation_requires_policy_override = TRUE,
              !.revalidation_crosses_scopes = RvCrosses(rv),
              !.requires_admin = TRUE]

ApproveEscalate(ctx, self) ==
    /\ Approving(ctx, self)
    /\ LET rv == revalidate(db, ctx, request, clock)
       IN  /\ CurrentDecision(ctx, self, rv) = "override_permission_required"
           /\ request' = Escalated(request, rv)
    /\ UNCHANGED <<db, clock, changes>>

-----------------------------------------------------------------------------
(* Others who write to the directory, once there is a preview to be stale  *)

Writing == request.status \in {"draft_preview", "pending_approval"} /\ changes < MaxChanges

ChangeUser(u) ==
    LET user == db.users[u]
        Write(new) == db' = [db EXCEPT !.users = [db.users EXCEPT ![u] = new]]
    IN  /\ Writing
        /\ \/ \E dept \in Departments :
                 \/ Write([user EXCEPT !.dept = dept])
                 \/ Write([user EXCEPT !.event = [at |-> clock, dept |-> dept]])
                 \/ Write([user EXCEPT !.group = [privileged |-> TRUE, dept |-> dept]])
           \/ \E dept \in Departments \cup {NoDepartment} :
                 Write([user EXCEPT !.alert = [open |-> TRUE, dept |-> dept]])
           \/ \E type \in {"human", "service"} : Write([user EXCEPT !.type = type])
           \/ \E s \in {"active", "disabled", "locked"} : Write([user EXCEPT !.status = s])
        /\ db' # db
        /\ changes' = changes + 1
        /\ UNCHANGED <<clock, request>>

ChangeAssignment(a) ==
    LET row == db.assignments[a]
        Write(new) == db' = [db EXCEPT !.assignments = [db.assignments EXCEPT ![a] = new]]
    IN  /\ Writing
        /\ \/ Write([row EXCEPT !.last = clock])
           \/ \E s \in AssignmentStatus : Write([row EXCEPT !.status = s])
           \/ \E b \in BOOLEAN : Write([row EXCEPT !.mandatory = b])
           \/ \E b \in BOOLEAN : Write([row EXCEPT !.exception = b])
           \/ \E dept \in Departments : Write([row EXCEPT !.dept = dept])
           \/ \E cost \in {-1, 1} : Write([row EXCEPT !.cost = cost])
        /\ db' # db
        /\ changes' = changes + 1
        /\ UNCHANGED <<clock, request>>

Tick ==
    /\ clock < MaxTime
    /\ clock' = clock + 1
    /\ UNCHANGED <<db, changes, request>>

Next ==
    \/ \E ctx \in RequesterContexts, payload \in Payloads : CreatePreview(ctx, payload)
    \/ Submit
    \/ \E ctx \in ApproverContexts, self \in BOOLEAN :
            ApproveExecute(ctx, self) \/ ApproveEscalate(ctx, self)
    \/ \E u \in DOMAIN db.users : ChangeUser(u)
    \/ \E a \in DOMAIN db.assignments : ChangeAssignment(a)
    \/ Tick

Spec == Init /\ [][Next]_vars

-----------------------------------------------------------------------------
(* Properties                                                              *)

Stored == request.status \in {"draft_preview", "pending_approval", "completed"}

\* The snapshot a request carries passes its validator, so that the request can
\* be submitted, approved and shown: when build_preview makes it, and after an
\* escalation or a completion rewrote part of it.
SnapshotStaysReadable ==
    /\ request.status # "ACTION_PREVIEW_FAILED"
    /\ Stored => valid_action_snapshot(request)

\* The directory without what row-level security hides from a context: rows
\* outside its departments, and facts about a user filed elsewhere
VisibleUser(user, ctx) ==
    [user EXCEPT
        !.event = IF sees_department(ctx, user.event.dept) THEN user.event
                  ELSE [at |-> Never, dept |-> user.dept],
        !.group = IF sees_department(ctx, user.group.dept) THEN user.group
                  ELSE [privileged |-> FALSE, dept |-> user.dept],
        !.alert = IF sees_department(ctx, user.alert.dept) THEN user.alert
                  ELSE [open |-> FALSE, dept |-> user.dept]]

Visible(d, ctx) ==
    [users |-> [u \in {u \in DOMAIN d.users : sees_department(ctx, d.users[u].dept)} |->
                    VisibleUser(d.users[u], ctx)],
     assignments |->
        [a \in {a \in DOMAIN d.assignments : sees_department(ctx, d.assignments[a].dept)} |->
            d.assignments[a]]]

\* What row-level security hides from the requester leaves no trace in a preview:
\* it is the preview of a directory without the hidden rows.
HiddenRowsLeaveNoTrace ==
    request = NoRequest =>
        \A ctx \in RequesterContexts, p \in Payloads :
            Preview(db, ctx, p, clock) = Preview(Visible(db, ctx), ctx, p, clock)

\* A step that disables a user, or reclaims an assignment, may
DisableJustified(u) ==
    LET user == db.users[u]
    IN  /\ u \in request.payload.users
        /\ user.type = "human" /\ user.status = "active"
        /\ ~ recent_login(Max({user.login, user.event.at}), clock)
        /\ user.group.privileged \/ user.alert.open \/ user.dept # request.scope
           => OVERRIDE \in request'.decided_by

ReclaimJustified(a) ==
    LET row == db.assignments[a]
    IN  /\ row.status = "active"
        /\ row.last = Never \/ row.last < clock - NORMAL_ELIGIBILITY_DAYS
        /\ \/ row.mandatory \/ row.exception \/ row.dept # request.scope
           \/ db.users[row.user].type = "service"
           => OVERRIDE \in request'.decided_by

\* Nothing is executed that the directory, read without row-level security at
\* that moment, speaks against, whatever department the facts are filed under:
\* no recent use or login, and what calls for an override only by an approver
\* who may override.
ExecutionSeesEveryFact ==
    [][request.status = "pending_approval" /\ request'.status = "completed" =>
        /\ \A u \in DOMAIN db.users : db'.users[u] # db.users[u] => DisableJustified(u)
        /\ \A a \in DOMAIN db.assignments :
              db'.assignments[a] # db.assignments[a] => ReclaimJustified(a)]_vars

\* Someone else's pending request is shown by the action routes to exactly those
\* who may decide it by the approval routes: the two copies of the decision
\* agree, before and after an escalation.  One that waits for an override
\* approver says so to its requester, where the requester is given the policy
\* details, and shows requester and approver the same flags, with the reason
\* also when it came up only after the preview.
ViewersAreDeciders ==
    request.status = "pending_approval" =>
        \A ctx \in ApproverContexts :
            LET detail == approval_detail(request, ctx, FALSE)
                shown  == action_detail(request, request.requester, TRUE, TRUE)
            IN  /\ _can_view_action_request(request, ctx, FALSE) <=> detail.can_approve
                /\ detail.reason = "override_permission_required" =>
                    /\ shown.policy_details.override
                    /\ shown.preview.flags \ {"record_count_over_analyst_threshold",
                                              "global_scope_request"} # {}
                    /\ detail.preview = shown.preview
=============================================================================
