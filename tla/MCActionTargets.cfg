CONSTANTS
    d1 = d1
    d2 = d2
    u1 = u1
    u2 = u2
    a1 = a1
    a2 = a2
    a3 = a3
    Departments = {d1, d2}
    ScopedDepartments = {d1, d2}
    GlobalScope = global
    NoDepartment = none
    SCOPED_APPROVAL_RECORD_LIMIT = 1
    AvailableTables <- AllTables
    InitialDirectories <- MCDirectories
    RequesterContexts <- MCRequesters
    ApproverContexts <- MCApprovers
    Payloads <- MCPayloads
    NORMAL_ELIGIBILITY_DAYS = 2
    HIGH_CONFIDENCE_DAYS = 3
    INACTIVITY_DAYS = 3
    MAX_PREVIEW_RECORDS = 2
    StartTime = 4
    MaxTime = 5
    MaxChanges = 1
SPECIFICATION Spec
CHECK_DEADLOCK FALSE
INVARIANT SnapshotStaysReadable
INVARIANT HiddenRowsLeaveNoTrace
INVARIANT ViewersAreDeciders
PROPERTY ExecutionSeesEveryFact
