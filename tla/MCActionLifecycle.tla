-------------------------- MODULE MCActionLifecycle --------------------------
(* Small instances of ActionLifecycle.                                     *)
EXTENDS ActionLifecycle, TLC

CONSTANTS manager, analyst, admin, r1, r2, w1, w2, w3, it, sales

Context(perms, scopes) ==
    [active |-> TRUE, permissions |-> perms, scopes |-> scopes]

Manager == Context({REQUEST}, {it})
Analyst == Context({REQUEST, SCOPED}, {it})
Admin   == Context(Permissions, {GlobalScope})
\* Individually granted every permission but the global one, for two departments
Specialist == Context(Permissions \ {GLOBAL}, {it, sales})

MCAccess == [u \in Users |-> CASE u = manager -> Manager
                               [] u = analyst -> Analyst
                               [] OTHER -> Admin]

\* One approver of scoped requests, one with every permission but the global one
MixedAccess == [u \in Users |-> CASE u = manager -> Manager
                                  [] u = analyst -> Analyst
                                  [] OTHER -> Specialist]

AllSpecialists == [u \in Users |-> Specialist]

\* Every permission but the global one, for one department
DepartmentHead == Context(Permissions \ {GLOBAL}, {it})
AllHeads == [u \in Users |-> DepartmentHead]

\* Nobody's access changes.
FixedAccess == [u \in Users |-> {}]
\* The manager is promoted to administrator.
ManagerPromoted == [u \in Users |-> IF u = manager THEN {Admin} ELSE {}]

OwnedByManager == [r \in Requests |-> manager]
OwnedByAdmin == [r \in Requests |-> admin]
DepartmentScope == [r \in Requests |-> it]
AllRecords == [r \in Requests |-> Records]
SharedDep == [x \in Records |-> 1]

ActiveRow(d, s) == [status |-> "active", dept |-> d, sensitive |-> s]
OneRow == {ActiveRow(it, FALSE)}
\* Moves to another department and is sensitive there
MovingRow == {ActiveRow(it, FALSE), ActiveRow(sales, TRUE)}
\* Leaves the department, and comes back into view
LeavingRow == {ActiveRow(it, FALSE), ActiveRow(sales, FALSE)}

MixedRows == {ActiveRow(it, FALSE), ActiveRow(it, TRUE), ActiveRow(sales, FALSE)}

WorkerSymmetry == Permutations(Workers)
=============================================================================
