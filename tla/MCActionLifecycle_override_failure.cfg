\* The failure record of an approval that another approver escalated.
SPECIFICATION Spec
CONSTANTS
    manager = manager
    analyst = analyst
    admin = admin
    r1 = r1
    r2 = r2
    w1 = w1
    w2 = w2
    w3 = w3
    it = it
    sales = sales
    GlobalScope = GlobalScope
    NoUser = NoUser
    Departments = {it, sales}
    SCOPED_APPROVAL_RECORD_LIMIT = 1
    Workers = {w1, w2}
    Users = {manager, analyst, admin}
    Requests = {r1}
    Records = {1}
    Deps = {1}
    Owner <- OwnedByManager
    ScopeOf <- DepartmentScope
    Candidates <- AllRecords
    DepOf <- SharedDep
    InitialAccess <- MCAccess
    AccessChoices <- FixedAccess
    RowChoices <- OneRow
    DepChoices = {"plain", "override", "skip"}
    PREVIEW_LIFETIME = 1
    PENDING_APPROVAL_LIFETIME = 1
    MaxTime = 0
SYMMETRY WorkerSymmetry
INVARIANTS
    AnalystCannotApproveOverride
