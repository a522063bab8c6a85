\* Two visualization changes at the same time, and a draft.
SPECIFICATION Spec
CONSTANTS
    ann = ann
    bob = bob
    d1 = d1
    d2 = d2
    q1 = q1
    q2 = q2
    w1 = w1
    w2 = w2
    it = it
    hr = hr
    None = None
    Breakpoints = {"desktop"}
    Workers = {w1, w2}
    Users = {ann}
    Dashboards = {d1}
    Departments = {it, hr}
    MaxCards = 2
    MaxRequests = 4
    Runs = {q2}
    RunOwner <- RunsOfAnn
    InitialAccess <- OwnersAccess
    AccessChoices <- NoChanges
    InitialDashboards <- Mine
    InitialCards <- TwoCards
    Ops = {"save_layout", "update_card"}
    Types = {"bar", "kpi"}
    LayoutChoices <- MCLayouts
PROPERTIES
    SaveSeesCurrent
\* The requests of the bound are used up.
CHECK_DEADLOCK FALSE
