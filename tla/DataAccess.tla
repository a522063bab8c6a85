------------------------------ MODULE DataAccess ------------------------------
(***************************************************************************)
(* Who may read which table: the access decision (auth/access_policy.py),  *)
(* the schema context offered to query generation                          *)
(* (query_engine/schema_context.py), the executor's own check              *)
(* (query_engine/sql_executor.py), templates                               *)
(* (query_engine/request_authorization.py) and the row-level security      *)
(* context (core/rls.py).                                                  *)
(*                                                                         *)
(* A scope is a record of its type, its key (a number; 0 is "global"),     *)
(* whether it is the user's default and its department (a key or None).    *)
(***************************************************************************)
EXTENDS Naturals, FiniteSets

CONSTANT None

\* Tables are numbers: they are checked in the order of their names.

ACTION_REQUIRED_PERMISSIONS ==
    [query_approved_template  |-> "can_use_query_templates",
     query_scoped_data        |-> "can_query_scoped_data",
     view_scoped_data         |-> "can_view_scoped_data",
     query_global_data        |-> "can_query_global_data",
     view_global_data         |-> "can_view_global_data",
     query_product_tables     |-> "can_query_product_tables",
     dashboard_create_scope   |-> "can_create_scope_dashboard",
     dashboard_manage_scope   |-> "can_manage_scope_dashboard",
     action_request           |-> "can_request_action",
     action_approve_scoped    |-> "can_approve_scoped_action",
     action_approve_global    |-> "can_approve_global_action",
     action_approve_override  |-> "can_approve_policy_override",
     audit_view_scope         |-> "can_view_scope_audit",
     audit_view_global        |-> "can_view_global_audit",
     evaluation_view_scope    |-> "can_view_scope_evaluation",
     query_history_view_scope |-> "can_view_query_history_scope"]

SCOPED_DATA_ACTIONS == {"query_approved_template", "query_scoped_data", "view_scoped_data"}
EXACT_SCOPE_ACTIONS == {"action_request", "action_approve_scoped", "audit_view_scope"}
QUERY_ACTIONS == {"query_approved_template", "query_scoped_data", "query_global_data",
                  "query_product_tables"}

-----------------------------------------------------------------------------
(* The access context                                                      *)

TypeRank(type) == CASE type = "department" -> 0 [] type = "global" -> 1 [] OTHER -> 2

\* The order of _load_scope_contexts
Before(a, b) ==
    \/ a.default /\ ~ b.default
    \/ /\ a.default = b.default
       /\ \/ TypeRank(a.type) < TypeRank(b.type)
          \/ a.type = b.type /\ a.key < b.key

first_scope(scopes) == CHOOSE s \in scopes : \A o \in scopes \ {s} : Before(s, o)

\* The first default, or the first scope at all
default_scope(ctx) == IF ctx.scopes = {} THEN None ELSE first_scope(ctx.scopes)

\* A user's scopes: numbered, no two with one type and key (uq_access_scopes_type_key),
\* the global one with the key of the seed, and at most one type that TypeRank does
\* not know; what the program itself makes are the global scope and departments.
Scoped(ctx) ==
    /\ \A s \in ctx.scopes : /\ s.key \in Nat /\ s.default \in BOOLEAN
                             /\ s.type = "global" => s.key = 0
    /\ \A a, b \in ctx.scopes : /\ a.type = b.type /\ a.key = b.key => a = b
                                /\ TypeRank(a.type) = TypeRank(b.type) => a.type = b.type

has_global_scope(ctx) == \E s \in ctx.scopes : s.type = "global" /\ s.key = 0

has_scope(ctx, type, key) == \E s \in ctx.scopes : s.type = type /\ s.key = key

-----------------------------------------------------------------------------
(* The decision, with its reason                                           *)

Allowing == {"allow_reference_resource", "allow_global_scope", "allow_matching_scope",
             "allow_scope_type"}

evaluate_access(ctx, action, queryable, scope_type, scope_key) ==
    IF action \notin DOMAIN ACTION_REQUIRED_PERMISSIONS THEN "unknown_action"
    ELSE IF ACTION_REQUIRED_PERMISSIONS[action] \notin ctx.permissions
         THEN "missing_permission"
    ELSE IF action \in QUERY_ACTIONS /\ ~ queryable THEN "resource_not_queryable"
    ELSE IF action \in EXACT_SCOPE_ACTIONS /\ (scope_type = "" \/ scope_key = None)
         THEN "missing_scope_key"
    ELSE IF scope_type = "" THEN "allow_reference_resource"
    ELSE IF action \in SCOPED_DATA_ACTIONS /\ scope_key = None THEN "missing_scope_key"
    ELSE IF has_global_scope(ctx) THEN "allow_global_scope"
    ELSE IF scope_key # None
         THEN IF has_scope(ctx, scope_type, scope_key) THEN "allow_matching_scope"
              ELSE "missing_scope"
    ELSE IF \E s \in ctx.scopes : s.type = scope_type THEN "allow_scope_type"
    ELSE "missing_scope"

\* Mutant: the default scope's key is taken whatever its type.
scope_key_of_default(ctx, scope_type) ==
    IF has_global_scope(ctx) THEN 0
    ELSE IF ctx.scopes = {} THEN None ELSE default_scope(ctx).key

\* _scope_key_for_resource, the same in the schema context and in the executor
scope_key_for_resource(ctx, scope_type) ==
    LET keys == {s.key : s \in {s \in ctx.scopes : s.type = scope_type}}
    IN  IF has_global_scope(ctx) THEN 0
        ELSE IF keys = {} THEN None
        ELSE IF default_scope(ctx).type = scope_type THEN default_scope(ctx).key
        ELSE CHOOSE k \in keys : \A o \in keys : k <= o

\* _resource_is_allowed, and the decision in _validate_and_authorize_resources
ResourceAllowed(ctx, action, resource) ==
    evaluate_access(ctx, action, resource.queryable, resource.scope_type,
        IF resource.scope_type = "" THEN None
        ELSE scope_key_for_resource(ctx, resource.scope_type)) \in Allowing

-----------------------------------------------------------------------------
(* What generation sees and what execution accepts                         *)

\* build_schema_context: the tables of the pack whose resource may be queried,
\* may be shown to the model and is allowed
schema_tables(ctx, action, registry) ==
    {t \in DOMAIN registry : /\ registry[t].queryable /\ registry[t].exposed
                             /\ ResourceAllowed(ctx, action, registry[t])}

\* _validate_and_authorize_resources, one table
resource_error(ctx, action, registry, t) ==
    IF t \notin DOMAIN registry THEN "resource_not_found"
    ELSE IF ~ registry[t].queryable THEN "resource_not_queryable"
    ELSE IF ~ ResourceAllowed(ctx, action, registry[t]) THEN "access_denied"
    ELSE "none"

\* The error of the first table that has one
execution_error(ctx, action, registry, tables) ==
    LET bad == {t \in tables : resource_error(ctx, action, registry, t) # "none"}
    IN  IF bad = {} THEN "none"
        ELSE resource_error(ctx, action, registry, CHOOSE t \in bad : \A o \in bad : t <= o)

\* _scope_key_for_template and template_is_allowed
template_is_allowed(ctx, scope_type) ==
    evaluate_access(ctx, "query_approved_template", TRUE, scope_type,
        IF scope_type = "" THEN None ELSE scope_key_for_resource(ctx, scope_type)) \in Allowing

\* authorize_query_request; a template is its scope type, or None if unknown
authorize_query_request(ctx, free, template) ==
    IF free THEN "can_run_free_query" \in ctx.permissions
    ELSE /\ "can_use_query_templates" \in ctx.permissions
         /\ template # None /\ template_is_allowed(ctx, template)

\* The departments whose rows the policies show under build_rls_context
rls_departments(ctx, departments) ==
    IF has_global_scope(ctx) THEN departments
    ELSE {s.department : s \in {s \in ctx.scopes : s.type = "department"}} \ {None}

-----------------------------------------------------------------------------
(* A decision that is by holding: the permission and a scope of the table's    *)
(* kind, or the global one, and row-level security shows no rows without it    *)
DecidedByHolding(ctx, resources, departments) ==
    LET permitted == "can_query_scoped_data" \in ctx.permissions
        allowed(resource) == ResourceAllowed(ctx, "query_scoped_data", resource)
    IN  /\ \A resource \in resources :
              allowed(resource) <=>
                  /\ permitted /\ resource.queryable
                  /\ \/ resource.scope_type = ""
                     \/ \E s \in ctx.scopes : s.type \in {"global", resource.scope_type}
        /\ permitted /\ rls_departments(ctx, departments) # {} =>
              \A resource \in resources :
                  resource.scope_type = "department" /\ resource.queryable => allowed(resource)
=============================================================================
