\* Two requests that target the same two rows, with expiry.
SPECIFICATION Spec
CONSTANTS
    manager = manager
    analyst = analyst
    admin = admin
    r1 = r1
    r2 = r2
    w1 = w1
    w2 = w2
    w3 = w3
    it = it
    sales = sales
    GlobalScope = GlobalScope
    NoUser = NoUser
    Departments = {it, sales}
    SCOPED_APPROVAL_RECORD_LIMIT = 1
    Workers = {w1, w2}
    Users = {admin}
    Requests = {r1, r2}
    Records = {1, 2}
    Deps = {1}
    Owner <- OwnedByAdmin
    ScopeOf <- DepartmentScope
    Candidates <- AllRecords
    DepOf <- SharedDep
    InitialAccess <- MCAccess
    AccessChoices <- FixedAccess
    RowChoices <- OneRow
    DepChoices = {"plain", "override", "skip"}
    PREVIEW_LIFETIME = 1
    PENDING_APPROVAL_LIFETIME = 1
    MaxTime = 1
SYMMETRY WorkerSymmetry
INVARIANTS
    ApprovalsNeverDeadlock
PROPERTIES
    ContractHolds
