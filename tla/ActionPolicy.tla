----------------------------- MODULE ActionPolicy -----------------------------
(***************************************************************************)
(* The approval policy of the action engine as pure operators.            *)
(*                                                                         *)
(* An access context is what build_user_access_context returns, reduced to *)
(* what the policy reads: whether the user is active, the effective        *)
(* permission keys, and the assigned scopes (departments, or the one       *)
(* global scope).  It carries no identity: whether the subject is the      *)
(* requester is passed in as "self".                                       *)
(***************************************************************************)
EXTENDS Naturals, FiniteSets

CONSTANTS
    Departments,                    \* departments an access scope can name
    GlobalScope,                    \* the scope "global:global"
    SCOPED_APPROVAL_RECORD_LIMIT    \* 20 in the code

ASSUME PolicyAssumption ==
    /\ GlobalScope \notin Departments
    /\ SCOPED_APPROVAL_RECORD_LIMIT \in Nat

Scopes == Departments \cup {GlobalScope}

REQUEST    == "can_request_action"
SCOPED     == "can_approve_scoped_action"
GLOBAL     == "can_approve_global_action"
OVERRIDE   == "can_approve_policy_override"
SELF       == "can_self_approve_admin_action"
VIEW_AUDIT == "can_view_global_audit"

APPROVAL_PERMISSIONS == {SCOPED, GLOBAL, OVERRIDE}

Permissions == {REQUEST, SCOPED, GLOBAL, OVERRIDE, SELF, VIEW_AUDIT}

AccessContext ==
    [active : BOOLEAN, permissions : SUBSET Permissions, scopes : SUBSET Scopes]

has_global_scope(ctx) == GlobalScope \in ctx.scopes

\* A global scope matches every required scope, a department only itself.
match_required_scope(ctx, scope) == has_global_scope(ctx) \/ scope \in ctx.scopes

\* Rows of a department are visible under row-level security, and inside the
\* approver's scope, exactly for its own departments or for a global scope.
sees_department(ctx, dept) == has_global_scope(ctx) \/ dept \in ctx.scopes

evaluate_action_request(ctx, scope) ==
    IF REQUEST \notin ctx.permissions THEN "request_permission_required"
    ELSE IF ~ match_required_scope(ctx, scope) THEN "request_scope_required"
    ELSE "request_allowed"

\* The decision code; the order of the denials is the order of the code's
\* early returns, since escalation depends on which one comes first.
evaluate_action_approval(ctx, self, scope, count, crosses, override) ==
    LET needsGlobal == \/ crosses
                       \/ count > SCOPED_APPROVAL_RECORD_LIMIT
                       \/ scope = GlobalScope
    IN  IF self /\ SELF \notin ctx.permissions
        THEN "self_approval_permission_required"
        ELSE IF override /\ OVERRIDE \notin ctx.permissions
        THEN "override_permission_required"
        ELSE IF needsGlobal
        THEN IF GLOBAL \notin ctx.permissions THEN "global_approval_permission_required"
             ELSE IF ~ has_global_scope(ctx) THEN "global_scope_required"
             ELSE "approval_allowed"
        ELSE IF SCOPED \notin ctx.permissions THEN "scoped_approval_permission_required"
             ELSE IF ~ match_required_scope(ctx, scope) THEN "approval_scope_required"
             ELSE "approval_allowed"

Allowed(code) == code = "approval_allowed"
=============================================================================
