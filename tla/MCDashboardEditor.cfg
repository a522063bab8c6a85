\* Two handlers of any kind at a time on one dashboard, whose owner may lose access.
SPECIFICATION Spec
CONSTANTS
    ann = ann
    bob = bob
    d1 = d1
    d2 = d2
    q1 = q1
    q2 = q2
    w1 = w1
    w2 = w2
    it = it
    hr = hr
    None = None
    Breakpoints = {"desktop"}
    Workers = {w1, w2}
    Users = {ann}
    Dashboards = {d1, d2}
    Departments = {it, hr}
    MaxCards = 4
    MaxRequests = 3
    Runs = {q2}
    RunOwner <- RunsOfAnn
    InitialAccess <- OwnersAccess
    AccessChoices <- Revoked
    InitialDashboards <- Mine
    InitialCards <- TwoCards
    Ops = {"save_layout", "update_card", "duplicate_card", "remove_card", "reorder", "rename", "archive", "save_card", "create", "duplicate_dashboard"}
    Types = {"bar", "kpi"}
    LayoutChoices <- MCLayouts
SYMMETRY WorkerSymmetry
INVARIANTS
    ServedProper
PROPERTIES
    ArchivedFrozen
    DraftsExpire
\* The requests of the bound are used up.
CHECK_DEADLOCK FALSE
