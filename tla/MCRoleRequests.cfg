\* Two workers, three users, two requests; operators change roles, grants and scopes.
SPECIFICATION Spec
CONSTANTS
    ann = ann
    bob = bob
    eve = eve
    q1 = q1
    q2 = q2
    q3 = q3
    w1 = w1
    w2 = w2
    w3 = w3
    NoUser = NoUser
    Workers = {w1, w2}
    Users = {ann, bob, eve}
    Requests = {q1, q2}
    Departments = {1, 2}
    InitialUsers <- MCUsers
    Asks <- MixedAsks
    UserChoices <- MCChoices
    MaxChanges = 2
SYMMETRY MCSymmetry
INVARIANTS
    OnePending
    NoWaitCycle
PROPERTIES
    OneDecision
    ApprovalGrantsRequest
\* Once the identifiers and the operators' changes are used up and nobody is
\* left who may decide, no request has anything to do.
CHECK_DEADLOCK FALSE
